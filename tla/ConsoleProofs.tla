--------------------------- MODULE ConsoleProofs ----------------------------
(***************************************************************************)
(* For any number of administrators, rows, handlers in flight and failing  *)
(* requests: no report and no entry of the moderation log is closed with   *)
(* remedies that were not carried out; no button stays switched off once   *)
(* the handlers of its page have ended; and a button changes the field it  *)
(* is labelled with.                                                       *)
(*                                                                         *)
(* A handler of which some requests have been answered is a rest of its    *)
(* steps.  The invariant says of every such rest that a resolution in it   *)
(* is preceded, in the rest or in what took effect, by its remedies        *)
(* (IInv); that its requests are those of its page and carry the fields of *)
(* the row it captured (MeantInv); and that it holds the busy slot of its  *)
(* page until its last answer (HeldInv).                                   *)
(***************************************************************************)
EXTENDS Console, FiniteSetTheorems, WellFoundedInduction, TLAPS

\* Before step n the rest asks for remedy t of row i.
AskedBefore(steps, n, t, i) == \E m \in 1..(n - 1) : steps[m].op = t /\ steps[m].id = i

StepReady(p, steps, n, done) ==
  /\ p = "reports" => steps[n].op # "look"
  /\ steps[n].op \in Remedies => steps[n].id \in Ids
  /\ steps[n].op = "resolve" =>
       /\ steps[n].val \subseteq Remedies
       /\ steps[n].id \in Ids
       /\ \A t \in steps[n].val : t \in done[steps[n].id] \/ AskedBefore(steps, n, t, steps[n].id)

\* What is left of a handler of page p, the remedies in done having taken effect.
Ready(p, steps, done) ==
  /\ \E S : steps \in Seq(S)
  /\ \A n \in DOMAIN steps : StepReady(p, steps, n, done)

-----------------------------------------------------------------------------
(* The handlers of the pages.                                              *)

\* A request that neither resolves nor remedies.
Calm(p, q) == q.op \notin Remedies \cup {"resolve"} /\ (p = "reports" => q.op # "look")

LEMMA CalmReady ==
  ASSUME NEW p, NEW steps, NEW done, \E S : steps \in Seq(S), \A n \in DOMAIN steps : Calm(p, steps[n])
  PROVE  Ready(p, steps, done)
BY DEF Ready, StepReady, Calm

LEMMA OneCalm ==
  ASSUME NEW p, NEW done, NEW q, Calm(p, q)
  PROVE  Ready(p, <<q>>, done) /\ <<q>> # << >>
<1>1. <<q>> \in Seq({q}) /\ \A n \in DOMAIN <<q>> : Calm(p, <<q>>[n])
  OBVIOUS
<1> QED
  BY <1>1, CalmReady

LEMMA TwoCalm ==
  ASSUME NEW p, NEW done, NEW q, NEW r, Calm(p, q), Calm(p, r)
  PROVE  Ready(p, <<q, r>>, done) /\ <<q, r>> # << >>
<1>1. <<q, r>> \in Seq({q, r}) /\ \A n \in DOMAIN <<q, r>> : Calm(p, <<q, r>>[n])
  OBVIOUS
<1> QED
  BY <1>1, CalmReady

LEMMA ThreeCalm ==
  ASSUME NEW p, NEW done, NEW q, NEW r, NEW s, Calm(p, q), Calm(p, r), Calm(p, s)
  PROVE  Ready(p, <<q, r, s>>, done) /\ <<q, r, s>> # << >>
<1>1. <<q, r, s>> \in Seq({q, r, s}) /\ \A n \in DOMAIN <<q, r, s>> : Calm(p, <<q, r, s>>[n])
  OBVIOUS
<1> QED
  BY <1>1, CalmReady

LEMMA ReloadCalm == ASSUME NEW p PROVE Calm(p, Reload) /\ Calm(p, CloseEditor)
BY DEF Calm, Reload, CloseEditor, Ask, Remedies

LEMMA AskCalm ==
  ASSUME NEW p, NEW op, NEW i, NEW x, op \notin Remedies \cup {"resolve"}, p = "reports" => op # "look"
  PROVE  Calm(p, Ask(op, i, x))
BY DEF Calm, Ask

\* A handler that asks once for something calm and lists again.
LEMMA AskAndReload ==
  ASSUME NEW p, NEW done, NEW slot, NEW op, NEW i, NEW x,
         op \notin Remedies \cup {"resolve", "look"}
  PROVE  LET h == Handler(slot, <<Ask(op, i, x), Reload>>)
         IN  Ready(p, h.steps, done) /\ h.steps # << >>
<1>1. Calm(p, Ask(op, i, x)) /\ Calm(p, Reload)
  BY AskCalm, ReloadCalm
<1>2. Handler(slot, <<Ask(op, i, x), Reload>>).steps = <<Ask(op, i, x), Reload>>
  BY DEF Handler
<1> QED
  BY <1>1, <1>2, TwoCalm

\* The same with an editor to close.
LEMMA AskCloseReload ==
  ASSUME NEW p, NEW done, NEW slot, NEW op, NEW i, NEW x,
         op \notin Remedies \cup {"resolve", "look"}
  PROVE  /\ LET h == Handler(slot, <<Ask(op, i, x), CloseEditor, Reload>>)
            IN  Ready(p, h.steps, done) /\ h.steps # << >>
         /\ LET h == Handler(slot, <<Ask(op, i, x), Reload, CloseEditor>>)
            IN  Ready(p, h.steps, done) /\ h.steps # << >>
<1>1. Calm(p, Ask(op, i, x)) /\ Calm(p, Reload) /\ Calm(p, CloseEditor)
  BY AskCalm, ReloadCalm
<1>2. Handler(slot, <<Ask(op, i, x), CloseEditor, Reload>>).steps = <<Ask(op, i, x), CloseEditor, Reload>>
  BY DEF Handler
<1>3. Handler(slot, <<Ask(op, i, x), Reload, CloseEditor>>).steps = <<Ask(op, i, x), Reload, CloseEditor>>
  BY DEF Handler
<1> QED
  BY <1>1, <1>2, <1>3, ThreeCalm

\* What a button of page p may start.
Fit(p, h, done) == Ready(p, h.steps, done) /\ h.steps # << >>

LEMMA LookOnly ==
  ASSUME NEW p, p # "reports", NEW done, NEW slot, NEW i
  PROVE  Fit(p, Handler(slot, <<Ask("look", i, None)>>), done)
<1>1. Calm(p, Ask("look", i, None))
  BY AskCalm DEF Remedies
<1>2. Handler(slot, <<Ask("look", i, None)>>).steps = <<Ask("look", i, None)>>
  BY DEF Handler
<1> QED
  BY <1>1, <1>2, OneCalm DEF Fit

LEMMA UsersFit ==
  ASSUME NEW p, NEW done, NEW v, NEW h \in UsersHandlers(v) PROVE Fit(p, h, done)
<1>1. ASSUME NEW u, h = AdjustCreditScore(u) PROVE Fit(p, h, done)
  <2>1. Calm(p, Ask("score", u, -1))
    BY AskCalm DEF Remedies
  <2>2. h.steps = <<Ask("score", u, -1)>>
    BY <1>1 DEF AdjustCreditScore, Handler
  <2> QED
    BY <2>1, <2>2, OneCalm DEF Fit
<1>2. ASSUME NEW u, NEW r, h = ToggleBan(u, r) PROVE Fit(p, h, done)
  <2> DEFINE op == IF r.banned THEN "unban" ELSE "ban"
  <2>1. op \notin Remedies \cup {"resolve", "look"}
    BY DEF Remedies
  <2>2. h = Handler(u, <<Ask(op, u, None), Reload>>)
    BY <1>2, Zenon DEF ToggleBan
  <2> HIDE DEF op
  <2> QED
    BY <2>1, <2>2, AskAndReload DEF Fit
<1> QED
  BY <1>1, <1>2 DEF UsersHandlers

LEMMA BotsFit ==
  ASSUME NEW p, NEW done, NEW v, NEW h \in BotsHandlers(v) PROVE Fit(p, h, done)
<1> DEFINE Ops(r) ==
            CASE r.status = "pending" -> {"approve", "reject"}
              [] r.status = "active" -> {IF r.featured THEN "unfeature" ELSE "feature",
                                         IF r.moderator THEN "unmoderator" ELSE "moderator",
                                         "suspend"}
              [] r.status = "suspended" -> {"approve"}
              [] OTHER -> {}
<1> DEFINE Buttons(b) == {RunOnBot(b, op) : op \in Ops(v.rows[b])}
<1>0. h \in UNION {Buttons(b) : b \in Present(v.rows) \ {v.busy}}
  BY Zenon DEF BotsHandlers
<1> HIDE DEF Ops
<1>1. \E b \in Present(v.rows) \ {v.busy} : \E op \in Ops(v.rows[b]) : h = RunOnBot(b, op)
  <2>1. PICK b \in Present(v.rows) \ {v.busy} : h \in Buttons(b)
    BY <1>0
  <2> QED
    BY <2>1
<1> USE DEF Ops
<1>2. ASSUME NEW r, NEW op \in Ops(r) PROVE op \notin Remedies \cup {"resolve", "look"}
  <2>1. CASE r.status = "pending"
    <3>1. Ops(r) = {"approve", "reject"}
      BY <2>1, Zenon
    <3> HIDE DEF Ops
    <3> QED
      BY <1>2, <3>1 DEF Remedies
  <2>2. CASE r.status = "active"
    <3>1. Ops(r) = {IF r.featured THEN "unfeature" ELSE "feature",
                    IF r.moderator THEN "unmoderator" ELSE "moderator", "suspend"}
      BY <2>2, Zenon
    <3> HIDE DEF Ops
    <3> QED
      BY <1>2, <3>1 DEF Remedies
  <2>3. CASE r.status = "suspended"
    <3>1. Ops(r) = {"approve"}
      BY <2>3, Zenon
    <3> HIDE DEF Ops
    <3> QED
      BY <1>2, <3>1 DEF Remedies
  <2>4. CASE r.status \notin {"pending", "active", "suspended"}
    <3>1. Ops(r) = {}
      BY <2>4, Zenon
    <3> HIDE DEF Ops
    <3> QED
      BY <1>2, <3>1
  <2> QED
    BY <2>1, <2>2, <2>3, <2>4
<1> HIDE DEF Ops
<1>3. PICK b, op : op \notin Remedies \cup {"resolve", "look"} /\ h = RunOnBot(b, op)
  BY <1>1, <1>2
<1> QED
  BY <1>3, AskAndReload DEF RunOnBot, Fit

LEMMA InvitesFit ==
  ASSUME NEW p, p # "reports", NEW done, NEW v, NEW h \in InvitesHandlers(v) PROVE Fit(p, h, done)
<1>1. CASE h = Generate
  BY <1>1, AskAndReload DEF Generate, Fit, Remedies
<1>2. ASSUME NEW i, h = RemoveInvite(i) PROVE Fit(p, h, done)
  BY <1>2, AskAndReload DEF RemoveInvite, Fit, Remedies
<1>3. ASSUME NEW i, h = ToggleUsages(i) PROVE Fit(p, h, done)
  BY <1>3, LookOnly DEF ToggleUsages
<1> QED
  BY <1>1, <1>2, <1>3 DEF InvitesHandlers

LEMMA TopicsFit ==
  ASSUME NEW p, NEW done, NEW v, NEW h \in TopicsHandlers(v) PROVE Fit(p, h, done)
<1>1. \A t, op, x : op \notin Remedies \cup {"resolve", "look"} => Fit(p, RunOnTopic(t, op, x), done)
  BY AskAndReload DEF RunOnTopic, Fit
<1>2. PICK t, r : h \in TopicButtons(t, r)
  BY DEF TopicsHandlers
<1>3. ASSUME NEW l, h = SetPinLevel(t, r, l) PROVE Fit(p, h, done)
  BY <1>1, <1>3 DEF SetPinLevel, Remedies
<1>4. ASSUME NEW w, h = SetPinWeight(t, r, w) PROVE Fit(p, h, done)
  BY <1>1, <1>4 DEF SetPinWeight, Remedies
<1>5. CASE h = ToggleFeature(t, r)
  BY <1>1, <1>5 DEF ToggleFeature, Remedies
<1>6. CASE h = ToggleLock(t, r)
  BY <1>1, <1>6 DEF ToggleLock, Remedies
<1>7. CASE h = RemoveTopic(t)
  BY <1>1, <1>7 DEF RemoveTopic, Remedies
<1> QED
  BY <1>2, <1>3, <1>4, <1>5, <1>6, <1>7 DEF TopicButtons

LEMMA CategoriesFit ==
  ASSUME NEW p, NEW done, NEW v, NEW h \in CategoriesHandlers(v) PROVE Fit(p, h, done)
<1>1. ASSUME NEW e, h = SaveCategory(e) PROVE Fit(p, h, done)
  <2> DEFINE op == IF e.id = None THEN "create" ELSE "update"
  <2>1. op \notin Remedies \cup {"resolve", "look"}
    BY DEF Remedies
  <2>2. h = Handler(WholePage, <<Ask(op, e.id, e.name), Reload, CloseEditor>>)
    BY <1>1, Zenon DEF SaveCategory
  <2> HIDE DEF op
  <2> QED
    BY <2>1, <2>2, AskCloseReload DEF Fit
<1>2. ASSUME NEW c, NEW op, op \in {"up", "down"}, h = MoveCategory(c, op) PROVE Fit(p, h, done)
  BY <1>2, AskAndReload DEF MoveCategory, Fit, Remedies
<1>3. ASSUME NEW c, h = RemoveCategory(c) PROVE Fit(p, h, done)
  BY <1>3, AskAndReload DEF RemoveCategory, Fit, Remedies
<1> QED
  BY <1>1, <1>2, <1>3 DEF CategoriesHandlers

LEMMA WordsFit ==
  ASSUME NEW p, NEW done, NEW v, NEW h \in WordsHandlers(v) PROVE Fit(p, h, done)
<1>1. ASSUME NEW e, h = SaveWord(e) PROVE Fit(p, h, done)
  <2> DEFINE op == IF e.id = None THEN "create" ELSE "update"
  <2>1. op \notin Remedies \cup {"resolve", "look"}
    BY DEF Remedies
  <2>2. h = Handler(WholePage, <<Ask(op, e.id, <<e.word, e.on>>), CloseEditor, Reload>>)
    BY <1>1, Zenon DEF SaveWord
  <2> HIDE DEF op
  <2> QED
    BY <2>1, <2>2, AskCloseReload DEF Fit
<1>2. ASSUME NEW w, h = RemoveWord(w) PROVE Fit(p, h, done)
  BY <1>2, AskAndReload DEF RemoveWord, Fit, Remedies
<1>3. ASSUME NEW w, NEW r, h = ToggleEnabled(w, r) PROVE Fit(p, h, done)
  BY <1>3, AskAndReload DEF ToggleEnabled, Fit, Remedies
<1>4. \/ h = SaveWord(v.draft)
      \/ \E w \in Present(v.rows) : h = RemoveWord(w) \/ h = ToggleEnabled(w, v.rows[w])
  BY Zenon DEF WordsHandlers
<1> QED
  BY <1>1, <1>2, <1>3, <1>4

LEMMA AnnouncementsFit ==
  ASSUME NEW p, NEW done, NEW v, NEW h \in AnnouncementsHandlers(v) PROVE Fit(p, h, done)
<1>1. ASSUME NEW e, h = SaveAnnouncement(e) PROVE Fit(p, h, done)
  <2> DEFINE op == IF e.id = None THEN "create" ELSE "update"
  <2>1. op \notin Remedies \cup {"resolve", "look"}
    BY DEF Remedies
  <2>2. h = Handler(WholePage, <<Ask(op, e.id, <<e.text, e.published>>), CloseEditor, Reload>>)
    BY <1>1, Zenon DEF SaveAnnouncement
  <2> HIDE DEF op
  <2> QED
    BY <2>1, <2>2, AskCloseReload DEF Fit
<1>2. ASSUME NEW a, h = RemoveAnnouncement(a) PROVE Fit(p, h, done)
  BY <1>2, AskAndReload DEF RemoveAnnouncement, Fit, Remedies
<1>3. ASSUME NEW a, NEW r, h = TogglePublish(a, r) PROVE Fit(p, h, done)
  <2> DEFINE op == IF r.published THEN "unpublish" ELSE "publish"
  <2>1. op \notin Remedies \cup {"resolve", "look"}
    BY DEF Remedies
  <2>2. h = Handler(WholePage, <<Ask(op, a, None), Reload>>)
    BY <1>3, Zenon DEF TogglePublish
  <2> HIDE DEF op
  <2> QED
    BY <2>1, <2>2, AskAndReload DEF Fit
<1>4. \/ h = SaveAnnouncement(v.draft)
      \/ \E a \in Present(v.rows) : h = TogglePublish(a, v.rows[a]) \/ h = RemoveAnnouncement(a)
  BY Zenon DEF AnnouncementsHandlers
<1> QED
  BY <1>1, <1>2, <1>3, <1>4

LEMMA MessagesFit ==
  ASSUME NEW p, p # "reports", NEW done, NEW v, NEW h \in MessagesHandlers(v) PROVE Fit(p, h, done)
<1>1. PICK c : h = Handler(None, <<Ask("look", c, None)>>)
  BY DEF MessagesHandlers, OpenDetail
<1> QED
  BY <1>1, LookOnly

LEMMA CreditsFit ==
  ASSUME NEW p, NEW done, NEW v, NEW h \in CreditsHandlers(v) PROVE Fit(p, h, done)
<1>1. h = SubmitAdjust(v.draft)
  BY DEF CreditsHandlers
<1> QED
  BY <1>1, AskCloseReload DEF SubmitAdjust, Fit, Remedies

LEMMA LogsFit ==
  ASSUME NEW p, p # "reports", NEW done, NEW v, NEW h \in LogsHandlers(v) PROVE Fit(p, h, done)
<1>1. ASSUME NEW l \in Ids, NEW r \in {"deleteTarget", "banTarget"}, h = RunAction(l, r)
      PROVE  Fit(p, h, done)
  <2> DEFINE x == Ask(r, l, None)
             y == Ask("resolve", l, {r})
  <2>1. h.steps = <<x, y, Reload>>
    BY <1>1 DEF RunAction, Handler
  <2>2. x.op = r /\ x.id = l /\ y.op = "resolve" /\ y.id = l /\ y.val = {r} /\ Reload.op = "list"
    BY DEF Ask, Reload
  <2> HIDE DEF x, y
  <2> DEFINE s == <<x, y, Reload>>
  <2>3. s \in Seq({x, y, Reload}) /\ DOMAIN s = {1, 2, 3} /\ s[1] = x /\ s[2] = y /\ s[3] = Reload /\ s # << >>
    OBVIOUS
  <2> HIDE DEF s
  <2>4. StepReady(p, s, 1, done)
    BY <1>1, <2>2, <2>3 DEF StepReady, Remedies
  <2>5. StepReady(p, s, 2, done)
    BY <1>1, <2>2, <2>3 DEF StepReady, Remedies, AskedBefore
  <2>6. StepReady(p, s, 3, done)
    BY <1>1, <2>2, <2>3 DEF StepReady, Remedies
  <2> QED
    BY <2>1, <2>3, <2>4, <2>5, <2>6 DEF Ready, Fit, s
<1>2. ASSUME NEW l \in Ids, h = DismissLog(l) PROVE Fit(p, h, done)
  <2> DEFINE y == Ask("resolve", l, {})
  <2>1. h.steps = <<y, Reload>>
    BY <1>2 DEF DismissLog, Handler
  <2>2. y.op = "resolve" /\ y.id = l /\ y.val = {} /\ Reload.op = "list"
    BY DEF Ask, Reload
  <2> HIDE DEF y
  <2> DEFINE s == <<y, Reload>>
  <2>3. s \in Seq({y, Reload}) /\ DOMAIN s = {1, 2} /\ s[1] = y /\ s[2] = Reload /\ s # << >>
    OBVIOUS
  <2> HIDE DEF s
  <2>4. StepReady(p, s, 1, done)
    BY <1>2, <2>2, <2>3 DEF StepReady, Remedies
  <2>5. StepReady(p, s, 2, done)
    BY <1>2, <2>2, <2>3 DEF StepReady, Remedies
  <2> QED
    BY <2>1, <2>3, <2>4, <2>5 DEF Ready, Fit, s
<1>3. \E l \in Ids : h = DismissLog(l) \/ \E r \in {"deleteTarget", "banTarget"} : h = RunAction(l, r)
  BY DEF LogsHandlers, Present
<1> QED
  BY <1>1, <1>2, <1>3

-----------------------------------------------------------------------------
(* Reports: the remedies that were ticked, one after the other, then the   *)
(* resolution that names them.                                             *)

\* Requests for remedies of report i, for all of T among them.
Before(s, i, S, T) ==
  /\ s \in Seq(S)
  /\ \A n \in DOMAIN s : s[n].op \in Remedies /\ s[n].id = i
  /\ \A t \in T : \E n \in DOMAIN s : s[n].op = t

LEMMA OneMore ==
  ASSUME NEW s, NEW i, NEW S, NEW T, Before(s, i, S, T), NEW op \in Remedies,
         Ask(op, i, None) \in S, NEW r, NEW ticks,
         r = IF op \in ticks THEN <<Ask(op, i, None)>> ELSE << >>
  PROVE  Before(s \o r, i, S, T \cup (ticks \cap {op}))
<1>1. CASE op \in ticks
  <2> DEFINE q == Ask(op, i, None)
             u == s \o <<q>>
  <2>1. q \in S /\ q.op = op /\ q.id = i
    BY DEF Ask
  <2> HIDE DEF q
  <2>2. r = <<q>>
    BY <1>1 DEF q
  <2>3. /\ u \in Seq(S) /\ Len(s) \in Nat /\ DOMAIN s = 1..Len(s)
        /\ DOMAIN u = 1..(Len(s) + 1)
        /\ u[Len(s) + 1] = q /\ \A n \in 1..Len(s) : u[n] = s[n]
    BY <2>1 DEF Before
  <2> HIDE DEF u
  <2>4. \A n \in DOMAIN u : u[n].op \in Remedies /\ u[n].id = i
    BY <2>1, <2>3 DEF Before
  <2>5. \A t \in T \cup (ticks \cap {op}) : \E n \in DOMAIN u : u[n].op = t
    <3> TAKE t \in T \cup (ticks \cap {op})
    <3>1. CASE t \in T
      BY <2>3, <3>1 DEF Before
    <3>2. CASE t = op
      <4>1. Len(s) + 1 \in DOMAIN u /\ u[Len(s) + 1].op = t
        BY <2>1, <2>3, <3>2
      <4> QED
        BY <4>1
    <3> QED
      BY <3>1, <3>2
  <2> QED
    BY <2>2, <2>3, <2>4, <2>5 DEF Before, u
<1>2. CASE op \notin ticks
  <2>1. s \o r = s
    BY <1>2 DEF Before
  <2>2. T \cup (ticks \cap {op}) = T
    BY <1>2
  <2> QED
    BY <2>1, <2>2
<1> QED
  BY <1>1, <1>2

\* What InOrder returns: a request for each ticked remedy.
LEMMA InOrderBefore ==
  ASSUME NEW ticks, ticks \subseteq Remedies, NEW i, NEW S,
         \A op \in Remedies : Ask(op, i, None) \in S
  PROVE  Before(InOrder(ticks, i), i, S, ticks)
<1> DEFINE One(op) == IF op \in ticks THEN <<Ask(op, i, None)>> ELSE << >>
           s1 == One("lockTarget")
           s2 == s1 \o One("deleteTarget")
           s3 == s2 \o One("banTarget")
<1>1. "lockTarget" \in Remedies /\ "deleteTarget" \in Remedies /\ "banTarget" \in Remedies
  BY DEF Remedies
<1>2. Before(<< >>, i, S, {})
  BY DEF Before
<1>3. Before(<< >> \o One("lockTarget"), i, S, {} \cup (ticks \cap {"lockTarget"}))
  BY <1>1, <1>2, OneMore
<1>4. << >> \o One("lockTarget") = s1
  <2>1. CASE "lockTarget" \in ticks
    <3>1. One("lockTarget") = <<Ask("lockTarget", i, None)>>
      BY <2>1
    <3> HIDE DEF One
    <3> QED
      BY <3>1
  <2>2. CASE "lockTarget" \notin ticks
    BY <2>2
  <2> QED
    BY <2>1, <2>2
<1> DEFINE T1 == {} \cup (ticks \cap {"lockTarget"})
           T2 == T1 \cup (ticks \cap {"deleteTarget"})
           T3 == T2 \cup (ticks \cap {"banTarget"})
<1>5. Before(s1, i, S, T1)
  BY <1>3, <1>4
<1> HIDE DEF s1, T1
<1>6. Before(s2, i, S, T2)
  BY <1>1, <1>5, OneMore
<1> HIDE DEF s2, T2
<1>7. Before(s3, i, S, T3)
  BY <1>1, <1>6, OneMore
<1>8. T3 = ticks
  BY DEF T1, T2, T3, Remedies
<1>9. InOrder(ticks, i) = s3
  BY Zenon DEF InOrder, s1, s2, s3
<1> HIDE DEF s3
<1> QED
  BY <1>7, <1>8, <1>9

LEMMA ConfirmFit ==
  ASSUME NEW done, NEW i \in Ids, NEW ticks, ticks \subseteq Remedies
  PROVE  Fit("reports", ConfirmResolve(i, ticks), done)
<1> DEFINE y == Ask("resolve", i, ticks)
           s == InOrder(ticks, i)
           S == {Ask(op, i, None) : op \in Remedies} \cup {y, CloseEditor, Reload}
           u == s \o <<y, CloseEditor, Reload>>
<1>1. Before(s, i, S, ticks)
  BY InOrderBefore
<1>2. y.op = "resolve" /\ y.id = i /\ y.val = ticks
  BY DEF Ask
<1>3. CloseEditor.op = "close" /\ Reload.op = "list"
  BY DEF CloseEditor, Reload, Ask
<1>4. y \in S /\ CloseEditor \in S /\ Reload \in S
  OBVIOUS
<1>5. ConfirmResolve(i, ticks).steps = u
  BY DEF ConfirmResolve, Handler
<1> HIDE DEF y, s, S
<1>6. /\ u \in Seq(S) /\ Len(s) \in Nat /\ DOMAIN s = 1..Len(s) /\ DOMAIN u = 1..(Len(s) + 3)
      /\ \A n \in 1..Len(s) : u[n] = s[n]
      /\ u[Len(s) + 1] = y /\ u[Len(s) + 2] = CloseEditor /\ u[Len(s) + 3] = Reload
  BY <1>1, <1>4 DEF Before
<1> HIDE DEF u
<1>7. ASSUME NEW n \in DOMAIN u PROVE StepReady("reports", u, n, done)
  <2>1. CASE n \in 1..Len(s)
    <3>1. u[n].op \in Remedies /\ u[n].id = i
      BY <1>1, <1>6, <2>1 DEF Before
    <3> QED
      BY <3>1 DEF StepReady, Remedies
  <2>2. CASE n = Len(s) + 1
    <3>1. u[n].op = "resolve" /\ u[n].id = i /\ u[n].val = ticks
      BY <1>2, <1>6, <2>2
    <3>2. \A t \in ticks : AskedBefore(u, n, t, i)
      BY <1>1, <1>6, <2>2 DEF Before, AskedBefore
    <3> QED
      BY <3>1, <3>2 DEF StepReady, Remedies
  <2>3. CASE n \in {Len(s) + 2, Len(s) + 3}
    BY <1>3, <1>6, <2>3 DEF StepReady, Remedies
  <2> QED
    BY <1>6, <2>1, <2>2, <2>3
<1>8. u # << >>
  BY <1>6
<1> QED
  BY <1>5, <1>6, <1>7, <1>8 DEF Fit, Ready

\* The open drawer is none, or a report with some of the remedies.
DraftOK(d) == d = None \/ (d = [id |-> d.id, ticks |-> d.ticks] /\ d.ticks \subseteq Remedies)

LEMMA ReportsFit ==
  ASSUME NEW done, NEW v, DraftOK(v.draft), NEW h \in ReportsHandlers(v)
  PROVE  Fit("reports", h, done)
<1>1. ASSUME NEW i \in Ids, v.draft # None, h = ConfirmResolve(i, v.draft.ticks)
      PROVE  Fit("reports", h, done)
  BY <1>1, ConfirmFit DEF DraftOK
<1>2. ASSUME NEW i, h = Dismiss(i) PROVE Fit("reports", h, done)
  BY <1>2, AskAndReload DEF Dismiss, Fit, Remedies
<1>3. \E i \in Ids : h = Dismiss(i) \/ (v.draft # None /\ h = ConfirmResolve(i, v.draft.ticks))
  BY DEF ReportsHandlers, Present
<1> QED
  BY <1>1, <1>2, <1>3

\* Whatever button is pressed.
LEMMA HandlersFit ==
  ASSUME NEW done, NEW v, page = "reports" => DraftOK(v.draft), NEW h \in Handlers(v)
  PROVE  Fit(page, h, done)
<1>1. CASE page = "users"
  <2>1. h \in UsersHandlers(v)
    BY <1>1, Zenon DEF Handlers
  <2> QED
    BY <2>1, UsersFit
<1>2. CASE page = "bots"
  <2>1. h \in BotsHandlers(v)
    BY <1>2, Zenon DEF Handlers
  <2> QED
    BY <2>1, BotsFit
<1>3. CASE page = "invites"
  <2>1. h \in InvitesHandlers(v)
    BY <1>3, Zenon DEF Handlers
  <2> QED
    BY <1>3, <2>1, InvitesFit
<1>4. CASE page = "topics"
  <2>1. h \in TopicsHandlers(v)
    BY <1>4, Zenon DEF Handlers
  <2> QED
    BY <2>1, TopicsFit
<1>5. CASE page = "categories"
  <2>1. h \in CategoriesHandlers(v)
    BY <1>5, Zenon DEF Handlers
  <2> QED
    BY <2>1, CategoriesFit
<1>6. CASE page = "words"
  <2>1. h \in WordsHandlers(v)
    BY <1>6, Zenon DEF Handlers
  <2> QED
    BY <2>1, WordsFit
<1>7. CASE page = "announcements"
  <2>1. h \in AnnouncementsHandlers(v)
    BY <1>7, Zenon DEF Handlers
  <2> QED
    BY <2>1, AnnouncementsFit
<1>8. CASE page = "reports"
  <2>1. h \in ReportsHandlers(v)
    BY <1>8, Zenon DEF Handlers
  <2> QED
    BY <1>8, <2>1, ReportsFit
<1>9. CASE page = "logs"
  <2>1. h \in LogsHandlers(v)
    BY <1>9, Zenon DEF Handlers
  <2> QED
    BY <1>9, <2>1, LogsFit
<1>10. CASE page = "messages"
  <2>1. h \in MessagesHandlers(v)
    BY <1>10, Zenon DEF Handlers
  <2> QED
    BY <1>10, <2>1, MessagesFit
<1>11. CASE page = "credits"
  <2>1. h \in CreditsHandlers(v)
    BY <1>11, Zenon DEF Handlers
  <2> QED
    BY <2>1, CreditsFit
<1>12. CASE page \notin {"users", "bots", "invites", "topics", "categories", "words",
                        "announcements", "reports", "logs", "messages", "credits"}
  <2>1. Handlers(v) = {}
    BY <1>12, Zenon DEF Handlers
  <2> QED
    BY <2>1
<1> QED
  BY <1>1, <1>2, <1>3, <1>4, <1>5, <1>6, <1>7, <1>8, <1>9, <1>10, <1>11, <1>12

-----------------------------------------------------------------------------
(* The invariant.                                                          *)

\* A handler in flight: a rest that is ready; a remedy that was answered with
\* success took effect.
RunOK(p, r, done) ==
  r = NoRun \/
  /\ \E s, l, f, w, y : r = [steps |-> s, slot |-> l, filter |-> f, saw |-> w, reply |-> y]
  /\ Ready(p, r.steps, done) /\ r.steps # << >>
  /\ r.reply # None /\ r.reply.ok /\ r.steps[1].op \in Remedies =>
       r.steps[1].op \in done[r.steps[1].id]

ViewOK(p, v) ==
  p = "reports" =>
    /\ \E r, l, c, f, b, e, d :
         v = [rows |-> r, loaded |-> l, count |-> c, filter |-> f, busy |-> b, error |-> e, draft |-> d]
    /\ DraftOK(v.draft)

RunsInv == /\ runs = [a \in Admins |-> [k \in Lanes |-> runs[a][k]]]
           /\ \A a \in Admins, k \in Lanes : RunOK(page, runs[a][k], acted)

TabsInv == /\ tab = [a \in Admins |-> tab[a]]
           /\ \A a \in Admins : ViewOK(page, tab[a])

DoneInv == /\ users \subseteq Admins
           /\ acted = [i \in Ids |-> acted[i]]
           /\ owed = [i \in Ids |-> owed[i]]
           /\ ClosedMeansDone

IInv == RunsInv /\ TabsInv /\ DoneInv

\* done2 has what done has.
Grown(done, done2) == \A i \in Ids : done[i] \subseteq done2[i]

LEMMA ReadyGrows ==
  ASSUME NEW p, NEW steps, NEW done, NEW done2, Grown(done, done2), Ready(p, steps, done)
  PROVE  Ready(p, steps, done2)
<1>1. ASSUME NEW n \in DOMAIN steps PROVE StepReady(p, steps, n, done2)
  BY DEF Ready, StepReady, Grown
<1> QED
  BY <1>1 DEF Ready

LEMMA TailReady ==
  ASSUME NEW p, NEW steps, NEW done, Ready(p, steps, done), steps # << >>,
         steps[1].op \in Remedies => steps[1].op \in done[steps[1].id]
  PROVE  Ready(p, Tail(steps), done)
<1> DEFINE u == Tail(steps)
<1>1. PICK S : steps \in Seq(S)
  BY DEF Ready
<1>2. /\ u \in Seq(S) /\ Len(steps) \in Nat \ {0} /\ DOMAIN steps = 1..Len(steps)
      /\ DOMAIN u = 1..(Len(steps) - 1) /\ \A n \in DOMAIN u : u[n] = steps[n + 1]
  BY <1>1
<1> HIDE DEF u
<1>3. ASSUME NEW n \in DOMAIN u PROVE StepReady(p, u, n, done)
  <2>1. n + 1 \in DOMAIN steps /\ u[n] = steps[n + 1] /\ n \in Nat \ {0}
    BY <1>2
  <2>2. StepReady(p, steps, n + 1, done)
    BY <2>1 DEF Ready
  <2>3. ASSUME NEW t \in Remedies, NEW i, AskedBefore(steps, n + 1, t, i)
        PROVE  t \in done[i] \/ AskedBefore(u, n, t, i)
    <3>1. PICK m \in 1..n : steps[m].op = t /\ steps[m].id = i
      BY <2>1, <2>3 DEF AskedBefore
    <3>2. CASE m = 1
      BY <3>1, <3>2
    <3>3. CASE m # 1
      <4>1. m - 1 \in 1..(n - 1) /\ m - 1 \in DOMAIN u /\ u[m - 1] = steps[m]
        BY <1>2, <2>1, <3>3
      <4> QED
        BY <3>1, <4>1 DEF AskedBefore
    <3> QED
      BY <3>2, <3>3
  <2>4. u[n].op = "resolve" => \A t \in u[n].val : t \in done[u[n].id] \/ AskedBefore(u, n, t, u[n].id)
    <3> SUFFICES ASSUME u[n].op = "resolve", NEW t \in u[n].val
                 PROVE  t \in done[u[n].id] \/ AskedBefore(u, n, t, u[n].id)
      OBVIOUS
    <3>1. t \in Remedies /\ (t \in done[u[n].id] \/ AskedBefore(steps, n + 1, t, u[n].id))
      BY <2>1, <2>2 DEF StepReady
    <3> QED
      BY <2>3, <3>1
  <2> QED
    BY <2>1, <2>2, <2>4 DEF StepReady
<1> QED
  BY <1>2, <1>3 DEF Ready, u

\* A handler put into a lane.
LEMMA Placed ==
  ASSUME RunsInv, NEW a \in Admins, NEW k, NEW r, RunOK(page, r, acted),
         page' = page, acted' = acted, runs' = [runs EXCEPT ![a][k] = r]
  PROVE  RunsInv'
<1>1. ASSUME NEW b \in Admins, NEW j \in Lanes
      PROVE  runs'[b][j] = r \/ runs'[b][j] = runs[b][j]
  BY DEF RunsInv
<1>2. runs' = [b \in Admins |-> [j \in Lanes |-> runs'[b][j]]]
  BY DEF RunsInv
<1> QED
  BY <1>1, <1>2 DEF RunsInv

\* The first request of a rest: its row exists if it is a remedy, and a
\* resolution's remedies took effect.
LEMMA FirstStep ==
  ASSUME RunsInv, NEW a \in Admins, NEW k \in Lanes, runs[a][k] # NoRun
  PROVE  LET q == runs[a][k].steps[1]
         IN  /\ q.op \in Remedies => q.id \in Ids
             /\ q.op = "resolve" => q.id \in Ids /\ q.val \subseteq acted[q.id]
             /\ page = "reports" => q.op # "look"
<1> DEFINE s == runs[a][k].steps
<1>1. Ready(page, s, acted) /\ s # << >>
  BY DEF RunsInv, RunOK
<1> HIDE DEF s
<1>2. 1 \in DOMAIN s
  BY <1>1 DEF Ready
<1>3. StepReady(page, s, 1, acted)
  BY <1>1, <1>2 DEF Ready
<1>4. \A t, i : ~AskedBefore(s, 1, t, i)
  BY DEF AskedBefore
<1> QED
  BY <1>3, <1>4 DEF StepReady, s

\* An answer, perhaps with a remedy that takes effect.
LEMMA Answered ==
  ASSUME RunsInv, NEW a \in Admins, NEW k \in Lanes, runs[a][k] # NoRun, NEW y,
         y.ok /\ runs[a][k].steps[1].op \in Remedies =>
           runs[a][k].steps[1].op \in acted'[runs[a][k].steps[1].id],
         page' = page, Grown(acted, acted'), Reply(a, k, y)
  PROVE  RunsInv'
<1> DEFINE r == runs[a][k]
           new == [r EXCEPT !.reply = y]
<1>1. runs' = [runs EXCEPT ![a][k] = new]
  BY DEF Reply, RunsInv
<1>2. /\ \E s, l, f, w, z : r = [steps |-> s, slot |-> l, filter |-> f, saw |-> w, reply |-> z]
      /\ Ready(page, r.steps, acted) /\ r.steps # << >>
  BY DEF RunsInv, RunOK
<1>3. PICK s, l, f, w, z : r = [steps |-> s, slot |-> l, filter |-> f, saw |-> w, reply |-> z]
  BY <1>2
<1>4. new = [steps |-> s, slot |-> l, filter |-> f, saw |-> w, reply |-> y] /\ r.steps = s
  BY <1>3
<1>5. RunOK(page', new, acted')
  <2>1. Ready(page', s, acted') /\ s # << >>
    BY <1>2, <1>4, ReadyGrows
  <2>2. new.steps = s /\ new.reply = y
    BY <1>4
  <2>3. y.ok /\ s[1].op \in Remedies => s[1].op \in acted'[s[1].id]
    BY <1>4
  <2> HIDE DEF new, r
  <2> QED
    BY <1>4, <2>1, <2>2, <2>3 DEF RunOK
<1>6. ASSUME NEW b \in Admins, NEW j \in Lanes PROVE RunOK(page', runs[b][j], acted')
  <2>1. RunOK(page, runs[b][j], acted)
    BY DEF RunsInv
  <2>2. CASE runs[b][j] # NoRun
    <3>1. Ready(page', runs[b][j].steps, acted')
      BY <2>1, <2>2, ReadyGrows DEF RunOK
    <3>2. runs[b][j].steps[1].op \in Remedies => runs[b][j].steps[1].id \in Ids
      BY <2>2, FirstStep
    <3> QED
      BY <2>1, <2>2, <3>1, <3>2 DEF RunOK, Grown
  <2> QED
    BY <2>2 DEF RunOK
<1> HIDE DEF new, r
<1>7. ASSUME NEW b \in Admins, NEW j \in Lanes
      PROVE  runs'[b][j] = new \/ runs'[b][j] = runs[b][j]
  BY <1>1 DEF RunsInv
<1>8. runs' = [b \in Admins |-> [j \in Lanes |-> runs'[b][j]]]
  BY <1>1 DEF RunsInv
<1> QED
  BY <1>5, <1>6, <1>7, <1>8 DEF RunsInv

LEMMA Seen ==
  ASSUME TabsInv, NEW a, NEW v, ViewOK(page, v), page' = page, tab' = [tab EXCEPT ![a] = v]
  PROVE  TabsInv'
BY DEF TabsInv

LEMMA Unmoved ==
  ASSUME DoneInv, UNCHANGED <<users, acted, owed>>
  PROVE  DoneInv'
BY DEF DoneInv, ClosedMeansDone

LEMMA GrownSame == ASSUME acted' = acted PROVE Grown(acted, acted')
BY DEF Grown

\* A view of the reports page with other values in some fields.
LEMMA ViewWith ==
  ASSUME NEW v, ViewOK(page, v), NEW w, NEW x, NEW y,
         \/ w = [v EXCEPT !.rows = x]
         \/ w = [v EXCEPT !.count = x]
         \/ w = [v EXCEPT !.filter = x]
         \/ w = [v EXCEPT !.busy = x]
         \/ w = [v EXCEPT !.error = x]
         \/ w = [v EXCEPT !.loaded = x]
         \/ w = [v EXCEPT !.draft = x] /\ (page = "reports" => DraftOK(x))
  PROVE  ViewOK(page, w)
<1> SUFFICES ASSUME page = "reports" PROVE ViewOK(page, w)
  BY DEF ViewOK
<1>1. PICK r, l, c, f, b, e, d :
        v = [rows |-> r, loaded |-> l, count |-> c, filter |-> f, busy |-> b, error |-> e, draft |-> d]
  BY DEF ViewOK
<1>2. DraftOK(d)
  BY <1>1 DEF ViewOK
<1>3. CASE w = [v EXCEPT !.rows = x]
  <2>1. w = [rows |-> x, loaded |-> l, count |-> c, filter |-> f, busy |-> b, error |-> e, draft |-> d]
    BY <1>1, <1>3
  <2> QED
    BY <1>2, <2>1 DEF ViewOK
<1>4. CASE w = [v EXCEPT !.count = x]
  <2>1. w = [rows |-> r, loaded |-> l, count |-> x, filter |-> f, busy |-> b, error |-> e, draft |-> d]
    BY <1>1, <1>4
  <2> QED
    BY <1>2, <2>1 DEF ViewOK
<1>5. CASE w = [v EXCEPT !.filter = x]
  <2>1. w = [rows |-> r, loaded |-> l, count |-> c, filter |-> x, busy |-> b, error |-> e, draft |-> d]
    BY <1>1, <1>5
  <2> QED
    BY <1>2, <2>1 DEF ViewOK
<1>6. CASE w = [v EXCEPT !.busy = x]
  <2>1. w = [rows |-> r, loaded |-> l, count |-> c, filter |-> f, busy |-> x, error |-> e, draft |-> d]
    BY <1>1, <1>6
  <2> QED
    BY <1>2, <2>1 DEF ViewOK
<1>7. CASE w = [v EXCEPT !.error = x]
  <2>1. w = [rows |-> r, loaded |-> l, count |-> c, filter |-> f, busy |-> b, error |-> x, draft |-> d]
    BY <1>1, <1>7
  <2> QED
    BY <1>2, <2>1 DEF ViewOK
<1>8. CASE w = [v EXCEPT !.loaded = x]
  <2>1. w = [rows |-> r, loaded |-> x, count |-> c, filter |-> f, busy |-> b, error |-> e, draft |-> d]
    BY <1>1, <1>8
  <2> QED
    BY <1>2, <2>1 DEF ViewOK
<1>9. CASE w = [v EXCEPT !.draft = x] /\ (page = "reports" => DraftOK(x))
  <2>1. w = [rows |-> r, loaded |-> l, count |-> c, filter |-> f, busy |-> b, error |-> e, draft |-> x]
    BY <1>1, <1>9
  <2> QED
    BY <1>9, <2>1 DEF ViewOK
<1> QED
  BY <1>3, <1>4, <1>5, <1>6, <1>7, <1>8, <1>9

-----------------------------------------------------------------------------
(* The steps.                                                              *)

LEMMA RunFit ==
  ASSUME NEW h, NEW v, Fit(page, h, acted) PROVE RunOK(page, Run(h, v), acted)
<1>1. PICK w : Run(h, v) = [steps |-> h.steps, slot |-> h.slot, filter |-> v.filter, saw |-> w, reply |-> None]
  BY Zenon DEF Run
<1> DEFINE r == Run(h, v)
<1>2. \E s, l, f, y : r = [steps |-> s, slot |-> l, filter |-> f, saw |-> w, reply |-> y]
  BY <1>1, Zenon
<1>3. r.steps = h.steps /\ r.reply = None
  BY <1>1
<1> HIDE DEF r
<1>4. RunOK(page, r, acted)
  BY <1>2, <1>3 DEF RunOK, Fit
<1> QED
  BY <1>4 DEF r

LEMMA ListingFit == Fit(page, Listing, acted)
<1>1. Calm(page, Reload)
  BY ReloadCalm
<1>2. PICK x : Listing = Handler(x, <<Reload>>)
  BY Zenon DEF Listing
<1>3. Listing.steps = <<Reload>>
  BY <1>2 DEF Handler
<1> QED
  BY <1>1, <1>3, OneCalm DEF Fit

LEMMA InitOK == Init => IInv
<1> SUFFICES ASSUME Init PROVE IInv
  OBVIOUS
<1>1. RunsInv
  <2> DEFINE r == Run(Listing, Mounted(page))
  <2>1. RunOK(page, r, acted) /\ RunOK(page, NoRun, acted)
    BY ListingFit, RunFit DEF RunOK
  <2> HIDE DEF r
  <2>2. runs = [a \in Admins |-> [k \in Lanes |-> IF a \in users /\ \A j \in Lanes : k <= j THEN r ELSE NoRun]]
    BY DEF Init, r
  <2>3. runs = [a \in Admins |-> [k \in Lanes |-> runs[a][k]]]
    BY <2>2
  <2>4. \A a \in Admins, k \in Lanes : runs[a][k] = r \/ runs[a][k] = NoRun
    BY <2>2
  <2> QED
    BY <2>1, <2>3, <2>4 DEF RunsInv
<1>2. TabsInv
  <2>1. ASSUME NEW a \in Admins PROVE ViewOK(page, tab[a])
    <3>1. PICK x : tab[a] = [Mounted(page) EXCEPT !.busy = x]
      BY DEF Init
    <3>2. ViewOK(page, Mounted(page))
      <4>1. PICK f : Mounted(page) = [rows |-> NoRows, loaded |-> FALSE, count |-> 0, filter |-> f,
                                      busy |-> None, error |-> FALSE, draft |-> None]
        BY DEF Mounted
      <4>2. \E r, l, c, b, e, d : Mounted(page) = [rows |-> r, loaded |-> l, count |-> c, filter |-> f,
                                                  busy |-> b, error |-> e, draft |-> d]
        BY <4>1, Zenon
      <4>3. Mounted(page).draft = None
        BY <4>1
      <4> QED
        BY <4>2, <4>3 DEF ViewOK, DraftOK
    <3> QED
      BY <3>1, <3>2, ViewWith
  <2>2. tab = [a \in Admins |-> tab[a]]
    BY DEF Init
  <2> QED
    BY <2>1, <2>2 DEF TabsInv
<1>3. DoneInv
  <2>1. users \subseteq Admins
    BY DEF Init
  <2> QED
    BY <2>1 DEF Init, DoneInv, ClosedMeansDone
<1> QED
  BY <1>1, <1>2, <1>3 DEF IInv

LEMMA PressOK == ASSUME IInv, NEW a \in Admins, Press(a) PROVE IInv'
<1>1. PICK h \in Handlers(tab[a]) :
        /\ runs' = [runs EXCEPT ![a][Lane(a)] = Run(h, tab[a])]
        /\ tab' = [tab EXCEPT ![a].busy = IF h.slot = None THEN @ ELSE h.slot,
                              ![a].error = FALSE,
                              ![a].draft = IF page = "messages" THEN None ELSE @]
        /\ UNCHANGED <<page, users, acted, owed>>
  BY DEF Press, shared
<1>2. ViewOK(page, tab[a])
  BY DEF IInv, TabsInv
<1>3. RunsInv'
  <2>1. RunOK(page, Run(h, tab[a]), acted)
    BY <1>2, HandlersFit, RunFit DEF ViewOK
  <2> QED
    BY <1>1, <2>1, Placed DEF IInv
<1>4. TabsInv'
  <2> DEFINE v1 == [tab[a] EXCEPT !.busy = IF h.slot = None THEN @ ELSE h.slot]
             v2 == [v1 EXCEPT !.error = FALSE]
             v3 == [v2 EXCEPT !.draft = IF page = "messages" THEN None ELSE @]
  <2>1. ViewOK(page, v1)
    BY <1>2, ViewWith
  <2>2. ViewOK(page, v2)
    <3> HIDE DEF v1
    <3> QED
      BY <2>1, ViewWith
  <2>3. ViewOK(page, v3)
    <3> HIDE DEF v2
    <3> DEFINE x == IF page = "messages" THEN None ELSE v2.draft
    <3>1. page = "reports" => DraftOK(x)
      BY <2>2 DEF ViewOK, DraftOK
    <3>2. v3 = [v2 EXCEPT !.draft = x]
      OBVIOUS
    <3> HIDE DEF v3, x
    <3> QED
      BY <2>2, <3>1, <3>2, ViewWith
  <2>4. tab' = [tab EXCEPT ![a] = v3]
    BY <1>1 DEF IInv, TabsInv
  <2> HIDE DEF v3
  <2> QED
    BY <1>1, <2>3, <2>4, Seen DEF IInv
<1> QED
  BY <1>1, <1>3, <1>4, Unmoved DEF IInv

LEMMA SetFilterOK == ASSUME IInv, NEW a \in Admins, SetFilter(a) PROVE IInv'
<1>1. PICK f \in Filters(tab[a]) :
        /\ runs' = [runs EXCEPT ![a][Lane(a)] = Run(Listing, [tab[a] EXCEPT !.filter = f])]
        /\ tab' = [tab EXCEPT ![a].filter = f,
                              ![a].busy = IF Listing.slot = None THEN @ ELSE Listing.slot,
                              ![a].error = IF ClearsFirst THEN FALSE ELSE @]
        /\ UNCHANGED <<page, users, acted, owed>>
  BY DEF SetFilter, shared
<1>2. ViewOK(page, tab[a])
  BY DEF IInv, TabsInv
<1>3. RunsInv'
  <2> DEFINE r == Run(Listing, [tab[a] EXCEPT !.filter = f])
  <2>1. RunOK(page, r, acted)
    BY ListingFit, RunFit
  <2> HIDE DEF r
  <2>2. runs' = [runs EXCEPT ![a][Lane(a)] = r]
    BY <1>1 DEF r
  <2> QED
    BY <1>1, <2>1, <2>2, Placed DEF IInv
<1>4. TabsInv'
  <2> DEFINE v1 == [tab[a] EXCEPT !.filter = f]
             v2 == [v1 EXCEPT !.busy = IF Listing.slot = None THEN @ ELSE Listing.slot]
             v3 == [v2 EXCEPT !.error = IF ClearsFirst THEN FALSE ELSE @]
  <2>1. ViewOK(page, v1)
    BY <1>2, ViewWith
  <2>2. ViewOK(page, v2)
    <3> HIDE DEF v1
    <3> QED
      BY <2>1, ViewWith
  <2>3. ViewOK(page, v3)
    <3> HIDE DEF v2
    <3> QED
      BY <2>2, ViewWith
  <2>4. tab' = [tab EXCEPT ![a] = v3]
    BY <1>1 DEF IInv, TabsInv
  <2> HIDE DEF v3
  <2> QED
    BY <1>1, <2>3, <2>4, Seen DEF IInv
<1> QED
  BY <1>1, <1>3, <1>4, Unmoved DEF IInv

\* Ticking an offered remedy, opening and closing the drawer.
LEMMA DraftsFit ==
  ASSUME page = "reports", NEW v, ViewOK(page, v), NEW d \in Drafts(v)
  PROVE  DraftOK(d)
<1>1. d \in ReportsDrafts(v)
  BY Zenon DEF Drafts
<1>2. CASE d = None
  BY <1>2 DEF DraftOK
<1>3. ASSUME NEW i, d = [id |-> i, ticks |-> {}] PROVE DraftOK(d)
  BY <1>3 DEF DraftOK
<1>4. ASSUME v.draft # None, NEW t \in Remedies, d = [v.draft EXCEPT !.ticks = (@ \cup {t}) \ (@ \cap {t})]
      PROVE  DraftOK(d)
  <2> DEFINE e == v.draft
             x == (e.ticks \cup {t}) \ (e.ticks \cap {t})
  <2>1. e = [id |-> e.id, ticks |-> e.ticks] /\ e.ticks \subseteq Remedies
    BY <1>4 DEF ViewOK, DraftOK
  <2>2. x \subseteq Remedies
    BY <2>1
  <2>3. d = [id |-> e.id, ticks |-> x]
    <3> HIDE DEF x
    <3>1. d = [e EXCEPT !.ticks = x]
      BY <1>4 DEF x
    <3> HIDE DEF e
    <3> QED
      BY <2>1, <3>1
  <2> HIDE DEF x, e
  <2> QED
    BY <2>2, <2>3 DEF DraftOK
<1>5. \/ d = None
      \/ \E i : d = [id |-> i, ticks |-> {}]
      \/ v.draft # None /\ \E t \in Offered(v.rows[v.draft.id]) :
            d = [v.draft EXCEPT !.ticks = (@ \cup {t}) \ (@ \cap {t})]
  BY <1>1 DEF ReportsDrafts
<1>6. \A r : Offered(r) \subseteq Remedies
  BY DEF Offered
<1> QED
  BY <1>2, <1>3, <1>4, <1>5, <1>6

LEMMA DraftStepOK == ASSUME IInv, NEW a \in Admins, Draft(a) PROVE IInv'
<1>1. PICK d \in Drafts(tab[a]) : tab' = [tab EXCEPT ![a].draft = d]
  BY DEF Draft
<1>2. UNCHANGED <<page, users, acted, owed, runs>>
  BY DEF Draft, shared, history
<1>3. ViewOK(page, tab[a])
  BY DEF IInv, TabsInv
<1> DEFINE v == [tab[a] EXCEPT !.draft = d]
<1>4. ViewOK(page, v)
  BY <1>3, DraftsFit, ViewWith
<1>5. tab' = [tab EXCEPT ![a] = v]
  BY <1>1 DEF IInv, TabsInv
<1> HIDE DEF v
<1>6. TabsInv'
  BY <1>2, <1>4, <1>5, Seen DEF IInv
<1>7. RunsInv'
  BY <1>2 DEF IInv, RunsInv
<1> QED
  BY <1>2, <1>6, <1>7, Unmoved DEF IInv

\* An answer that changes nothing else.
LEMMA OnlyAnswered ==
  ASSUME IInv, NEW a \in Admins, NEW k \in Lanes, runs[a][k] # NoRun, NEW y,
         y.ok => runs[a][k].steps[1].op = "list",
         Reply(a, k, y), UNCHANGED <<page, users, acted, owed, tab>>
  PROVE  IInv'
<1>1. y.ok => runs[a][k].steps[1].op \notin Remedies
  BY DEF Remedies
<1>2. RunsInv'
  BY <1>1, GrownSame, Answered DEF IInv
<1>3. TabsInv'
  BY DEF IInv, TabsInv
<1> QED
  BY <1>2, <1>3, Unmoved DEF IInv

LEMMA ServeListOK == ASSUME IInv, NEW a \in Admins, NEW k \in Lanes, ServeList(a, k) PROVE IInv'
<1>1. PICK y : Reply(a, k, y)
  BY DEF ServeList
<1>2. runs[a][k] # NoRun /\ runs[a][k].steps[1].op = "list" /\ UNCHANGED <<page, users, acted, owed, tab>>
  BY DEF ServeList, Pending, shared, history
<1> QED
  BY <1>1, <1>2, OnlyAnswered

LEMMA FailOK ==
  ASSUME IInv, NEW a \in Admins, NEW k \in Lanes, Fail(a, k) \/ Refuse(a, k) PROVE IInv'
<1>1. Reply(a, k, Failed) /\ runs[a][k] # NoRun /\ UNCHANGED <<page, users, acted, owed, tab>>
  BY DEF Fail, Refuse, shared, history
<1>2. ~Failed.ok
  BY DEF Failed
<1> QED
  BY <1>1, <1>2, OnlyAnswered

LEMMA ServeChangeOK == ASSUME IInv, NEW a \in Admins, NEW k \in Lanes, ServeChange(a, k) PROVE IInv'
<1> DEFINE q == runs[a][k].steps[1]
<1>1. /\ runs[a][k] # NoRun
      /\ acted' = IF q.op \in Remedies THEN [acted EXCEPT ![q.id] = @ \cup {q.op}] ELSE acted
      /\ owed' = IF q.op = "resolve" THEN [owed EXCEPT ![q.id] = @ \cup q.val] ELSE owed
      /\ UNCHANGED <<page, users, tab>>
  BY DEF ServeChange
<1>2. PICK y : Reply(a, k, y)
  BY DEF ServeChange
<1>3. /\ q.op \in Remedies => q.id \in Ids
      /\ q.op = "resolve" => q.id \in Ids /\ q.val \subseteq acted[q.id]
  BY <1>1, FirstStep DEF IInv
<1> HIDE DEF q
<1>4. acted = [i \in Ids |-> acted[i]] /\ owed = [i \in Ids |-> owed[i]] /\ \A i \in Ids : owed[i] \subseteq acted[i]
  BY DEF IInv, DoneInv, ClosedMeansDone
<1>5. Grown(acted, acted') /\ acted' = [i \in Ids |-> acted'[i]] /\ (q.op \in Remedies => q.op \in acted'[q.id])
  <2>1. CASE q.op \in Remedies
    <3>1. acted' = [acted EXCEPT ![q.id] = @ \cup {q.op}] /\ q.id \in Ids
      BY <1>1, <1>3, <2>1
    <3> QED
      BY <1>4, <3>1 DEF Grown
  <2>2. CASE q.op \notin Remedies
    BY <1>1, <1>4, <2>2, GrownSame
  <2> QED
    BY <2>1, <2>2
<1>6. RunsInv'
  BY <1>1, <1>2, <1>5, Answered DEF IInv, q
<1>7. TabsInv'
  BY <1>1 DEF IInv, TabsInv
<1>8. owed' = [i \in Ids |-> owed'[i]] /\ \A i \in Ids : owed'[i] \subseteq acted'[i]
  <2>1. CASE q.op = "resolve"
    <3>1. owed' = [owed EXCEPT ![q.id] = @ \cup q.val] /\ q.id \in Ids /\ q.val \subseteq acted[q.id]
      BY <1>1, <1>3, <2>1
    <3>2. \A i \in Ids : acted[i] \subseteq acted'[i]
      BY <1>5 DEF Grown
    <3>3. ASSUME NEW i \in Ids PROVE owed'[i] \subseteq acted'[i]
      <4>1. CASE i = q.id
        <5>1. owed'[i] = owed[i] \cup q.val
          BY <1>4, <3>1, <4>1
        <5> QED
          BY <1>4, <3>1, <3>2, <4>1, <5>1
      <4>2. CASE i # q.id
        <5>1. owed'[i] = owed[i]
          BY <1>4, <3>1, <4>2
        <5> QED
          BY <1>4, <3>2, <5>1
      <4> QED
        BY <4>1, <4>2
    <3>4. owed' = [i \in Ids |-> owed'[i]]
      BY <1>4, <3>1
    <3> QED
      BY <3>3, <3>4
  <2>2. CASE q.op # "resolve"
    <3>1. owed' = owed
      BY <1>1, <2>2
    <3> QED
      BY <1>4, <1>5, <3>1 DEF Grown
  <2> QED
    BY <2>1, <2>2
<1>9. DoneInv'
  BY <1>1, <1>5, <1>8 DEF IInv, DoneInv, ClosedMeansDone
<1> QED
  BY <1>6, <1>7, <1>9 DEF IInv

\* What a page shows after an answer.
LEMMA ShownOK ==
  ASSUME NEW v, ViewOK(page, v), NEW q, page = "reports" => q.op # "look", NEW y
  PROVE  ViewOK(page, Shown(v, q, y))
<1> SUFFICES ASSUME page = "reports" PROVE ViewOK(page, Shown(v, q, y))
  BY DEF ViewOK
<1>1. CASE q.op = "list" /\ y.ok
  <2> DEFINE v1 == [v EXCEPT !.rows = y.rows]
             v2 == [v1 EXCEPT !.loaded = TRUE]
             v3 == [v2 EXCEPT !.count = y.count]
             v4 == [v3 EXCEPT !.error = IF ClearsFirst THEN @ ELSE FALSE]
  <2>1. ViewOK(page, v1)
    BY ViewWith
  <2>2. ViewOK(page, v2)
    <3> HIDE DEF v1
    <3> QED
      BY <2>1, ViewWith
  <2>3. ViewOK(page, v3)
    <3> HIDE DEF v2
    <3> QED
      BY <2>2, ViewWith
  <2>4. ViewOK(page, v4)
    <3> HIDE DEF v3
    <3> QED
      BY <2>3, ViewWith
  <2>5. Shown(v, q, y) = v4
    BY <1>1, Zenon DEF Shown
  <2> HIDE DEF v4
  <2> QED
    BY <2>4, <2>5
<1>2. CASE q.op = "list" /\ ~y.ok
  <2> DEFINE v1 == [v EXCEPT !.error = TRUE]
             v2 == [v1 EXCEPT !.rows = IF page = "anon" THEN AnonSearchFailed(@) ELSE @]
  <2>1. ViewOK(page, v1)
    BY ViewWith
  <2>2. ViewOK(page, v2)
    <3> HIDE DEF v1
    <3> QED
      BY <2>1, ViewWith
  <2>3. Shown(v, q, y) = v2
    BY <1>2, Zenon DEF Shown
  <2> HIDE DEF v2
  <2> QED
    BY <2>2, <2>3
<1>3. CASE q.op = "score" /\ y.ok
  <2> DEFINE x == PatchScore(v.rows, q.id, y.row)
  <2>1. Shown(v, q, y) = [v EXCEPT !.rows = x]
    <3>1. ~(q.op = "list" /\ y.ok) /\ ~(q.op = "list" /\ ~y.ok)
      BY <1>3
    <3>2. Shown(v, q, y) = [v EXCEPT !.rows = PatchScore(@, q.id, y.row)]
      BY <1>3, <3>1, Zenon DEF Shown
    <3> HIDE DEF x
    <3> QED
      BY <3>2 DEF x
  <2> HIDE DEF x
  <2> QED
    BY <2>1, ViewWith
<1>4. CASE q.op # "list" /\ ~(q.op = "score" /\ y.ok)
  <2> DEFINE d == v.draft
             v1 == [v EXCEPT !.draft = d]
             v2 == [v1 EXCEPT !.error = IF y.ok \/ (page = "invites" /\ q.op = "look") THEN @ ELSE TRUE]
  <2>1. ViewOK(page, v1)
    <3>1. DraftOK(d)
      BY DEF ViewOK
    <3> HIDE DEF d
    <3> QED
      BY <3>1, ViewWith
  <2>2. ViewOK(page, v2)
    <3> HIDE DEF v1
    <3> QED
      BY <2>1, ViewWith
  <2>3. Looked(v, q, y) = v.draft
    BY DEF Looked
  <2>4. Shown(v, q, y) = v2
    <3>1. Shown(v, q, y) = [v EXCEPT !.draft = Looked(v, q, y),
                            !.error = IF y.ok \/ (page = "invites" /\ q.op = "look") THEN @ ELSE TRUE]
      BY <1>4, Zenon DEF Shown
    <3> QED
      BY <2>3, <3>1, Zenon
  <2> HIDE DEF v2
  <2> QED
    BY <2>2, <2>4
<1> QED
  BY <1>1, <1>2, <1>3, <1>4

LEMMA ResumeOK == ASSUME IInv, NEW a \in Admins, NEW k \in Lanes, Resume(a, k) PROVE IInv'
<1> DEFINE r == runs[a][k]
           left == Rest(r.steps, r.reply)
           next == IF Closing(left) THEN Tail(left) ELSE left
           v == Shown(tab[a], r.steps[1], r.reply)
           w == [v EXCEPT !.draft = IF Closing(left) THEN None ELSE @,
                          !.busy = IF Freed(r, next) THEN None ELSE @]
           new == IF next = << >> THEN NoRun ELSE [r EXCEPT !.steps = next, !.reply = None]
<1>1. /\ r # NoRun /\ r.reply # None
      /\ tab' = [tab EXCEPT ![a] = w]
      /\ runs' = [runs EXCEPT ![a][k] = new]
      /\ UNCHANGED <<page, users, acted, owed>>
  BY Zenon DEF Resume, shared
<1>2. /\ \E s, l, f, x, y : r = [steps |-> s, slot |-> l, filter |-> f, saw |-> x, reply |-> y]
      /\ Ready(page, r.steps, acted) /\ r.steps # << >>
      /\ r.reply.ok /\ r.steps[1].op \in Remedies => r.steps[1].op \in acted[r.steps[1].id]
      /\ page = "reports" => r.steps[1].op # "look"
  <2>1. RunOK(page, r, acted) /\ (page = "reports" => r.steps[1].op # "look")
    BY <1>1, FirstStep DEF IInv, RunsInv
  <2> HIDE DEF r
  <2> QED
    BY <1>1, <2>1 DEF RunOK
<1>3. ViewOK(page, tab[a])
  BY DEF IInv, TabsInv
<1> HIDE DEF r
<1>4. next # << >> => Ready(page, next, acted)
  <2>1. left # << >> => Ready(page, left, acted)
    <3>1. CASE r.reply.ok \/ r.steps[1].op = "list"
      <4>1. left = Tail(r.steps)
        BY <3>1 DEF Rest
      <4>2. r.steps[1].op \in Remedies => r.steps[1].op \in acted[r.steps[1].id]
        BY <1>2, <3>1 DEF Remedies
      <4> QED
        BY <1>2, <4>1, <4>2, TailReady
    <3>2. CASE ~(r.reply.ok \/ r.steps[1].op = "list")
      BY <3>2 DEF Rest
    <3> QED
      BY <3>1, <3>2
  <2> HIDE DEF left
  <2>2. CASE Closing(left)
    <3>1. left # << >> /\ left[1].op \notin Remedies
      BY <2>2 DEF Closing, Remedies
    <3> QED
      BY <2>1, <2>2, <3>1, TailReady
  <2> QED
    BY <2>1, <2>2
<1>5. RunOK(page, new, acted)
  <2> HIDE DEF next
  <2>1. CASE next = << >>
    BY <2>1 DEF RunOK
  <2>2. CASE next # << >>
    <3> DEFINE n == [r EXCEPT !.steps = next, !.reply = None]
    <3>1. PICK s, l, f, x, y : r = [steps |-> s, slot |-> l, filter |-> f, saw |-> x, reply |-> y]
      BY <1>2
    <3>2. n = [steps |-> next, slot |-> l, filter |-> f, saw |-> x, reply |-> None]
      <4> DEFINE n1 == [r EXCEPT !.steps = next]
      <4>1. n1 = [steps |-> next, slot |-> l, filter |-> f, saw |-> x, reply |-> y]
        BY <3>1
      <4>2. n = [n1 EXCEPT !.reply = None]
        BY Zenon
      <4> HIDE DEF n, n1
      <4> QED
        BY <4>1, <4>2
    <3> HIDE DEF n
    <3>3. \E s2, l2, f2, x2, y2 : n = [steps |-> s2, slot |-> l2, filter |-> f2, saw |-> x2, reply |-> y2]
      BY <3>2, Zenon
    <3>4. n.steps = next /\ n.reply = None
      BY <3>2
    <3>5. RunOK(page, n, acted)
      BY <1>4, <2>2, <3>3, <3>4 DEF RunOK
    <3> QED
      BY <2>2, <3>5 DEF n
  <2> QED
    BY <2>1, <2>2
<1>6. ViewOK(page, w)
  <2>1. ViewOK(page, v)
    BY <1>2, <1>3, ShownOK
  <2> HIDE DEF v, left, next
  <2> DEFINE v1 == [v EXCEPT !.draft = IF Closing(left) THEN None ELSE @]
             v2 == [v1 EXCEPT !.busy = IF Freed(r, next) THEN None ELSE @]
  <2>2. ViewOK(page, v1)
    <3> DEFINE x == IF Closing(left) THEN None ELSE v.draft
    <3>1. page = "reports" => DraftOK(x)
      BY <2>1 DEF ViewOK, DraftOK
    <3>2. v1 = [v EXCEPT !.draft = x]
      OBVIOUS
    <3> HIDE DEF v1, x
    <3> QED
      BY <2>1, <3>1, <3>2, ViewWith
  <2>3. ViewOK(page, v2)
    <3> HIDE DEF v1
    <3> QED
      BY <2>2, ViewWith
  <2>4. w = v2
    BY Zenon
  <2> HIDE DEF w, v2
  <2> QED
    BY <2>3, <2>4
<1> HIDE DEF w, new
<1>7. RunsInv'
  BY <1>1, <1>5, Placed DEF IInv
<1>8. TabsInv'
  BY <1>1, <1>6, Seen DEF IInv
<1> QED
  BY <1>1, <1>7, <1>8, Unmoved DEF IInv

\* What a page shows after an event.
LEMMA AppliedOK ==
  ASSUME NEW v, ViewOK(page, v), NEW e PROVE ViewOK(page, Applied(v, e))
<1> SUFFICES ASSUME page = "reports" PROVE ViewOK(page, Applied(v, e))
  BY DEF ViewOK
<1>1. CASE e.kind = "created"
  <2> DEFINE i == e.id
             v1 == [v EXCEPT !.count = IF v.loaded THEN @ + 1 ELSE @]
             v2 == [v1 EXCEPT !.rows = IF v.loaded /\ v.filter \in {"all", "pending"} /\ @[i] = None
                                       THEN [@ EXCEPT ![i] = e.row] ELSE @]
  <2>1. ViewOK(page, v1)
    BY ViewWith
  <2>2. ViewOK(page, v2)
    <3> HIDE DEF v1
    <3> QED
      BY <2>1, ViewWith
  <2>3. Applied(v, e) = ApplyCreated(v, e.id, e.row)
    BY <1>1, Zenon DEF Applied
  <2>4. ApplyCreated(v, e.id, e.row) = v2
    BY Zenon DEF ApplyCreated
  <2> HIDE DEF v2
  <2> QED
    BY <2>2, <2>3, <2>4
<1>2. CASE e.kind # "created"
  <2> DEFINE i == e.id
             r == e.row
             v1 == [v EXCEPT !.count = IF v.loaded /\ @ > 0 THEN @ - 1 ELSE @]
             v2 == [v1 EXCEPT !.draft = IF @ # None /\ @.id = i THEN None ELSE @]
             v3 == [v2 EXCEPT !.rows = IF ~v.loaded THEN @
                       ELSE [@ EXCEPT ![i] = IF v.filter \in {"all", r.state} THEN r ELSE None]]
  <2>1. ViewOK(page, v1)
    BY ViewWith
  <2>2. ViewOK(page, v2)
    <3> HIDE DEF v1
    <3> DEFINE x == IF v1.draft # None /\ v1.draft.id = i THEN None ELSE v1.draft
    <3>1. page = "reports" => DraftOK(x)
      BY <2>1 DEF ViewOK, DraftOK
    <3>2. v2 = [v1 EXCEPT !.draft = x]
      OBVIOUS
    <3> HIDE DEF v2, x
    <3> QED
      BY <2>1, <3>1, <3>2, ViewWith
  <2>3. ViewOK(page, v3)
    <3> HIDE DEF v2
    <3> QED
      BY <2>2, ViewWith
  <2>4. Applied(v, e) = ApplyResolved(v, e.id, e.row)
    BY <1>2, Zenon DEF Applied
  <2>5. ApplyResolved(v, e.id, e.row) = v3
    BY Zenon DEF ApplyResolved
  <2> HIDE DEF v3
  <2> QED
    BY <2>3, <2>4, <2>5
<1> QED
  BY <1>1, <1>2

LEMMA DeliverOK == ASSUME IInv, NEW a \in Admins, Deliver(a) PROVE IInv'
<1>1. UNCHANGED <<page, users, acted, owed, runs>>
  BY DEF Deliver, shared
<1> DEFINE v == Applied(tab[a], Head(mail[a]))
<1>2. ViewOK(page, v)
  BY AppliedOK DEF IInv, TabsInv
<1>3. tab' = [tab EXCEPT ![a] = v]
  BY Zenon DEF Deliver
<1> HIDE DEF v
<1>4. TabsInv'
  BY <1>1, <1>2, <1>3, Seen DEF IInv
<1>5. RunsInv'
  BY <1>1 DEF IInv, RunsInv
<1> QED
  BY <1>1, <1>4, <1>5, Unmoved DEF IInv

\* Steps outside the pages' and the server's handlers.
LEMMA ApartOK ==
  ASSUME IInv, UNCHANGED <<page, users, acted, owed, runs, tab>> PROVE IInv'
<1>1. RunsInv' /\ TabsInv'
  BY DEF IInv, RunsInv, TabsInv
<1> QED
  BY <1>1, Unmoved DEF IInv

LEMMA NextOK == ASSUME IInv, [Next]_vars PROVE IInv'
<1>1. users \subseteq Admins
  BY DEF IInv, DoneInv
<1>2. ASSUME NEW a \in users, Press(a) PROVE IInv'
  BY <1>1, <1>2, PressOK
<1>3. ASSUME NEW a \in users, SetFilter(a) PROVE IInv'
  BY <1>1, <1>3, SetFilterOK
<1>4. ASSUME NEW a \in users, Draft(a) PROVE IInv'
  BY <1>1, <1>4, DraftStepOK
<1>5. ASSUME NEW a \in users, Deliver(a) PROVE IInv'
  BY <1>1, <1>5, DeliverOK
<1>6. ASSUME NEW a \in users, Disconnect(a) PROVE IInv'
  BY <1>6, ApartOK DEF Disconnect, shared
<1>7. ASSUME NEW a \in users, NEW k \in Lanes, ServeList(a, k) PROVE IInv'
  BY <1>1, <1>7, ServeListOK
<1>8. ASSUME NEW a \in users, NEW k \in Lanes, Fail(a, k) \/ Refuse(a, k) PROVE IInv'
  BY <1>1, <1>8, FailOK
<1>9. ASSUME NEW a \in users, NEW k \in Lanes, ServeChange(a, k) PROVE IInv'
  BY <1>1, <1>9, ServeChangeOK
<1>10. ASSUME NEW a \in users, NEW k \in Lanes, Resume(a, k) PROVE IInv'
  BY <1>1, <1>10, ResumeOK
<1>11. CASE Arrive
  <2>1. UNCHANGED <<page, users, acted, owed, runs, tab>>
    BY <1>11 DEF Arrive
  <2> QED
    BY <2>1, ApartOK
<1>12. CASE Elsewhere
  <2>1. UNCHANGED <<page, users, acted, owed, runs, tab>>
    BY <1>12 DEF Elsewhere, history
  <2> QED
    BY <2>1, ApartOK
<1>13. CASE UNCHANGED vars
  BY <1>13, ApartOK DEF vars
<1> QED
  BY <1>2, <1>3, <1>4, <1>5, <1>6, <1>7, <1>8, <1>9, <1>10, <1>11, <1>12, <1>13 DEF Next

\* A report or a log entry closed with remedies had them take effect before,
\* whoever handled it, whatever failed and however handlers overlapped.
THEOREM ClosedSafe == Spec => []ClosedMeansDone
<1>1. IInv /\ [Next]_vars => IInv'
  BY NextOK
<1>2. IInv => ClosedMeansDone
  BY DEF IInv, DoneInv
<1> QED
  BY InitOK, <1>1, <1>2, PTL DEF Spec

-----------------------------------------------------------------------------
(* What requests are about: the busy slots handlers hold, and the relation *)
(* of a request to the row its button was pressed on.                      *)

Slots == Ids \cup {None, WholePage}

\* Requests about no row, and those that make or replace a whole row.
Rowless == {"list", "close"}
Whole == {"create", "update", "delete"}

\* The requests of page p, and what they carry of the row they are about.
StepMeant(p, q, saw) ==
  /\ q.id \in Ids \cup {None}
  /\ q.op \in Rowless => q.id = None
  /\ p = "users" => q.op \in {"ban", "unban", "score"} \cup Rowless
  /\ p = "bots" => q.op \in {"approve", "reject", "suspend", "feature", "unfeature",
                             "moderator", "unmoderator"} \cup Rowless
  /\ p = "invites" => q.op \in {"look", "create", "delete"} \cup Rowless
  /\ p = "topics" => /\ q.op \in {"level", "weight", "feature", "unfeature", "lock", "unlock",
                                  "delete"} \cup Rowless
                     /\ q.op = "level" => q.val[2] = saw.weight
                     /\ q.op = "weight" => q.val[1] = saw.level
  /\ p = "categories" => q.op \in {"up", "down"} \cup Whole \cup Rowless
  /\ p = "words" => /\ q.op \in {"toggle"} \cup Whole \cup Rowless
                    /\ q.op = "toggle" => q.val[1] = saw.word
  /\ p = "announcements" => q.op \in {"publish", "unpublish"} \cup Whole \cup Rowless
  /\ p = "reports" => q.op \in {"resolve", "dismiss"} \cup Remedies \cup Rowless
  /\ p = "credits" => q.op \in {"create"} \cup Rowless

\* An editor closes after a request, and only once.
Tidy(steps) ==
  \A n \in DOMAIN steps : steps[n].op = "close" =>
      n # 1 /\ (n + 1 \in DOMAIN steps => steps[n + 1].op # "close")

\* The row a handler captures when it starts on a page that shows `rows`.
Saw(h, rows) == IF h.steps[1].id = None THEN None ELSE rows[h.steps[1].id]

Meant(p, h, rows) ==
  /\ h.slot \in Slots /\ Tidy(h.steps)
  /\ \A n \in DOMAIN h.steps : StepMeant(p, h.steps[n], Saw(h, rows))

LEMMA RowlessMeant == ASSUME NEW p, NEW saw PROVE StepMeant(p, Reload, saw) /\ StepMeant(p, CloseEditor, saw)
BY DEF StepMeant, Reload, CloseEditor, Ask, Rowless, Whole

\* A handler that makes one request, lists and may close an editor.
LEMMA OneMeant ==
  ASSUME NEW p, NEW rows, NEW slot \in Slots, NEW op, NEW i, NEW x,
         op \notin Rowless, StepMeant(p, Ask(op, i, x), IF i = None THEN None ELSE rows[i])
  PROVE  /\ Meant(p, Handler(slot, <<Ask(op, i, x)>>), rows)
         /\ Meant(p, Handler(slot, <<Ask(op, i, x), Reload>>), rows)
         /\ Meant(p, Handler(slot, <<Ask(op, i, x), Reload, CloseEditor>>), rows)
         /\ Meant(p, Handler(slot, <<Ask(op, i, x), CloseEditor, Reload>>), rows)
<1> DEFINE q == Ask(op, i, x)
<1>1. q.id = i /\ q.op = op
  BY DEF Ask
<1>2. Reload.op = "list" /\ CloseEditor.op = "close" /\ op \notin {"list", "close"}
  BY DEF Reload, CloseEditor, Ask, Rowless
<1> DEFINE saw == IF i = None THEN None ELSE rows[i]
<1>3. StepMeant(p, q, saw)
  OBVIOUS
<1>4. StepMeant(p, Reload, saw) /\ StepMeant(p, CloseEditor, saw)
  BY RowlessMeant
<1> HIDE DEF q, saw
<1>5. ASSUME NEW s, DOMAIN s \in {1..1, 1..2, 1..3}, s[1] = q, Tidy(s),
             \A n \in DOMAIN s : s[n] \in {q, Reload, CloseEditor}
      PROVE  Meant(p, Handler(slot, s), rows)
  <2> DEFINE h == Handler(slot, s)
  <2>1. h.steps = s /\ h.slot = slot
    BY DEF Handler
  <2> HIDE DEF h
  <2>2. Saw(h, rows) = saw
    BY <1>1, <1>5, <2>1 DEF Saw, saw
  <2>3. ASSUME NEW n \in DOMAIN h.steps PROVE StepMeant(p, h.steps[n], Saw(h, rows))
    BY <1>3, <1>4, <1>5, <2>1, <2>2
  <2>4. Meant(p, h, rows)
    BY <1>5, <2>1, <2>3 DEF Meant
  <2> QED
    BY <2>4 DEF h
<1>6. Meant(p, Handler(slot, <<q>>), rows)
  <2> DEFINE s == <<q>>
  <2>1. DOMAIN s = 1..1 /\ s[1] = q
    OBVIOUS
  <2> HIDE DEF s
  <2>2. Tidy(s)
    BY <1>1, <1>2, <2>1 DEF Tidy
  <2>3. Meant(p, Handler(slot, s), rows)
    BY <1>5, <2>1, <2>2
  <2> QED
    BY <2>3 DEF s
<1>7. Meant(p, Handler(slot, <<q, Reload>>), rows)
  <2> DEFINE s == <<q, Reload>>
  <2>1. DOMAIN s = 1..2 /\ s[1] = q /\ s[2] = Reload
    OBVIOUS
  <2> HIDE DEF s
  <2>2. Tidy(s)
    BY <1>1, <1>2, <2>1 DEF Tidy
  <2>3. Meant(p, Handler(slot, s), rows)
    BY <1>5, <2>1, <2>2
  <2> QED
    BY <2>3 DEF s
<1>8. Meant(p, Handler(slot, <<q, Reload, CloseEditor>>), rows)
  <2> DEFINE s == <<q, Reload, CloseEditor>>
  <2>1. DOMAIN s = 1..3 /\ s[1] = q /\ s[2] = Reload /\ s[3] = CloseEditor
    OBVIOUS
  <2> HIDE DEF s
  <2>2. Tidy(s)
    BY <1>1, <1>2, <2>1 DEF Tidy
  <2>3. Meant(p, Handler(slot, s), rows)
    BY <1>5, <2>1, <2>2
  <2> QED
    BY <2>3 DEF s
<1>9. Meant(p, Handler(slot, <<q, CloseEditor, Reload>>), rows)
  <2> DEFINE s == <<q, CloseEditor, Reload>>
  <2>1. DOMAIN s = 1..3 /\ s[1] = q /\ s[2] = CloseEditor /\ s[3] = Reload
    OBVIOUS
  <2> HIDE DEF s
  <2>2. Tidy(s)
    BY <1>1, <1>2, <2>1 DEF Tidy
  <2>3. Meant(p, Handler(slot, s), rows)
    BY <1>5, <2>1, <2>2
  <2> QED
    BY <2>3 DEF s
<1> QED
  BY <1>6, <1>7, <1>8, <1>9 DEF q

LEMMA UsersMeant ==
  ASSUME NEW v, NEW h \in UsersHandlers(v) PROVE Meant("users", h, v.rows)
<1>1. ASSUME NEW u \in Ids, h = AdjustCreditScore(u) PROVE Meant("users", h, v.rows)
  <2>1. StepMeant("users", Ask("score", u, -1), IF u = None THEN None ELSE v.rows[u])
    BY DEF StepMeant, Ask, Rowless, Whole
  <2> QED
    BY <1>1, <2>1, OneMeant DEF Rowless, AdjustCreditScore, Slots
<1>2. ASSUME NEW u \in Ids, NEW r, h = ToggleBan(u, r) PROVE Meant("users", h, v.rows)
  <2> DEFINE op == IF r.banned THEN "unban" ELSE "ban"
  <2>1. op \in {"ban", "unban"} /\ h = Handler(u, <<Ask(op, u, None), Reload>>)
    BY <1>2, Zenon DEF ToggleBan
  <2> HIDE DEF op
  <2>2. StepMeant("users", Ask(op, u, None), IF u = None THEN None ELSE v.rows[u])
    BY <2>1 DEF StepMeant, Ask, Rowless, Whole
  <2> QED
    BY <2>1, <2>2, OneMeant DEF Rowless, Slots
<1>3. \E u \in Ids : h = AdjustCreditScore(u) \/ \E r : h = ToggleBan(u, r)
  BY DEF UsersHandlers, Present
<1> QED
  BY <1>1, <1>2, <1>3

LEMMA BotsMeant ==
  ASSUME NEW v, NEW h \in BotsHandlers(v) PROVE Meant("bots", h, v.rows)
<1> DEFINE Ops(r) ==
            CASE r.status = "pending" -> {"approve", "reject"}
              [] r.status = "active" -> {IF r.featured THEN "unfeature" ELSE "feature",
                                         IF r.moderator THEN "unmoderator" ELSE "moderator",
                                         "suspend"}
              [] r.status = "suspended" -> {"approve"}
              [] OTHER -> {}
           All == {"approve", "reject", "suspend", "feature", "unfeature", "moderator", "unmoderator"}
<1>1. \A r : Ops(r) \subseteq All
  OBVIOUS
<1>2. h \in UNION {{RunOnBot(b, op) : op \in Ops(v.rows[b])} : b \in Present(v.rows) \ {v.busy}}
  BY Zenon DEF BotsHandlers
<1> HIDE DEF Ops
<1>3. PICK b \in Ids, op \in All : h = RunOnBot(b, op)
  BY <1>1, <1>2 DEF Present
<1>4. StepMeant("bots", Ask(op, b, None), IF b = None THEN None ELSE v.rows[b])
  BY <1>3 DEF StepMeant, Ask, Rowless, Whole
<1> QED
  BY <1>3, <1>4, OneMeant DEF Rowless, RunOnBot, Slots

LEMMA InvitesMeant ==
  ASSUME NEW v, NEW h \in InvitesHandlers(v) PROVE Meant("invites", h, v.rows)
<1>1. \A i \in Ids \cup {None}, op \in {"create", "delete", "look"} :
        StepMeant("invites", Ask(op, i, None), IF i = None THEN None ELSE v.rows[i])
  BY DEF StepMeant, Ask, Rowless, Whole
<1>2. None \in Slots /\ WholePage \in Slots
  BY DEF Slots
<1>3. CASE h = Generate
  BY <1>1, <1>2, <1>3, OneMeant DEF Rowless, Generate
<1>4. ASSUME NEW i \in Ids, h = RemoveInvite(i) PROVE Meant("invites", h, v.rows)
  <2>1. StepMeant("invites", Ask("delete", i, None), IF i = None THEN None ELSE v.rows[i])
    BY <1>1
  <2> QED
    BY <1>2, <1>4, <2>1, OneMeant DEF Rowless, RemoveInvite
<1>5. ASSUME NEW i \in Ids, h = ToggleUsages(i) PROVE Meant("invites", h, v.rows)
  <2>1. StepMeant("invites", Ask("look", i, None), IF i = None THEN None ELSE v.rows[i])
    BY <1>1
  <2> QED
    BY <1>2, <1>5, <2>1, OneMeant DEF Rowless, ToggleUsages
<1>6. h = Generate \/ \E i \in Ids : h = RemoveInvite(i) \/ h = ToggleUsages(i)
  BY DEF InvitesHandlers, Present
<1> QED
  BY <1>3, <1>4, <1>5, <1>6

LEMMA TopicsMeant ==
  ASSUME NEW v, NEW h \in TopicsHandlers(v) PROVE Meant("topics", h, v.rows)
<1>1. PICK t \in Ids : h \in TopicButtons(t, v.rows[t])
  BY DEF TopicsHandlers, Present
<1> DEFINE r == v.rows[t]
<1>2. t # None /\ t \in Slots
  BY IdsAssumption DEF Slots
<1>3. ASSUME NEW op, op \notin Rowless, NEW x, StepMeant("topics", Ask(op, t, x), r), h = RunOnTopic(t, op, x)
      PROVE  Meant("topics", h, v.rows)
  BY <1>2, <1>3, OneMeant DEF Rowless, RunOnTopic
<1>4. ASSUME NEW l, h = SetPinLevel(t, r, l) PROVE Meant("topics", h, v.rows)
  <2>1. StepMeant("topics", Ask("level", t, <<l, r.weight>>), r)
    BY DEF StepMeant, Ask, Rowless, Whole
  <2> QED
    BY <1>3, <1>4, <2>1 DEF SetPinLevel, Rowless
<1>5. ASSUME NEW w, h = SetPinWeight(t, r, w) PROVE Meant("topics", h, v.rows)
  <2>1. StepMeant("topics", Ask("weight", t, <<r.level, w>>), r)
    BY DEF StepMeant, Ask, Rowless, Whole
  <2> QED
    BY <1>3, <1>5, <2>1 DEF SetPinWeight, Rowless
<1>6. ASSUME NEW op \in {"feature", "unfeature", "lock", "unlock", "delete"}, h = RunOnTopic(t, op, None)
      PROVE  Meant("topics", h, v.rows)
  <2>1. StepMeant("topics", Ask(op, t, None), r)
    BY DEF StepMeant, Ask, Rowless, Whole
  <2> QED
    BY <1>3, <1>6, <2>1 DEF Rowless
<1>7. h = ToggleFeature(t, r) => \E op \in {"feature", "unfeature"} : h = RunOnTopic(t, op, None)
  BY DEF ToggleFeature
<1>8. h = ToggleLock(t, r) => \E op \in {"lock", "unlock"} : h = RunOnTopic(t, op, None)
  BY DEF ToggleLock
<1>9. \/ \E x : h = SetPinLevel(t, r, x) \/ h = SetPinWeight(t, r, x)
      \/ h \in {ToggleFeature(t, r), ToggleLock(t, r), RemoveTopic(t)}
  BY <1>1 DEF TopicButtons
<1> HIDE DEF r
<1> QED
  BY <1>4, <1>5, <1>6, <1>7, <1>8, <1>9 DEF RemoveTopic

LEMMA CategoriesMeant ==
  ASSUME NEW v, v.draft # None => v.draft.id \in Ids \cup {None}, NEW h \in CategoriesHandlers(v)
  PROVE  Meant("categories", h, v.rows)
<1>1. None \in Slots /\ WholePage \in Slots
  BY DEF Slots
<1>2. ASSUME NEW e, e.id \in Ids \cup {None}, h = SaveCategory(e) PROVE Meant("categories", h, v.rows)
  <2> DEFINE op == IF e.id = None THEN "create" ELSE "update"
  <2>1. op \in {"create", "update"}
    OBVIOUS
  <2>2. h = Handler(WholePage, <<Ask(op, e.id, e.name), Reload, CloseEditor>>)
    BY <1>2, Zenon DEF SaveCategory
  <2> HIDE DEF op
  <2>3. StepMeant("categories", Ask(op, e.id, e.name), IF e.id = None THEN None ELSE v.rows[e.id])
    BY <1>2, <2>1 DEF StepMeant, Ask, Rowless, Whole
  <2> QED
    BY <1>1, <2>1, <2>2, <2>3, OneMeant DEF Rowless
<1>3. ASSUME NEW c \in Ids, NEW op \in {"up", "down", "delete"},
             h = Handler(None, <<Ask(op, c, None), Reload>>)
      PROVE  Meant("categories", h, v.rows)
  <2>1. StepMeant("categories", Ask(op, c, None), IF c = None THEN None ELSE v.rows[c])
    BY DEF StepMeant, Ask, Rowless, Whole
  <2> QED
    BY <1>1, <1>3, <2>1, OneMeant DEF Rowless
<1>4. CASE v.draft # None
  <2>1. h = SaveCategory(v.draft)
    BY <1>4 DEF CategoriesHandlers
  <2> QED
    BY <1>2, <1>4, <2>1
<1>5. CASE v.draft = None
  <2>1. \E c \in Ids : h = MoveCategory(c, "up") \/ h = MoveCategory(c, "down") \/ h = RemoveCategory(c)
    BY <1>5 DEF CategoriesHandlers, Present
  <2> QED
    BY <1>3, <2>1 DEF MoveCategory, RemoveCategory
<1> QED
  BY <1>4, <1>5

LEMMA WordsMeant ==
  ASSUME NEW v, v.draft # None => v.draft.id \in Ids \cup {None}, NEW h \in WordsHandlers(v)
  PROVE  Meant("words", h, v.rows)
<1>1. WholePage \in Slots
  BY DEF Slots
<1>2. ASSUME NEW e, e.id \in Ids \cup {None}, h = SaveWord(e) PROVE Meant("words", h, v.rows)
  <2> DEFINE op == IF e.id = None THEN "create" ELSE "update"
  <2>1. op \in {"create", "update"}
    OBVIOUS
  <2>2. h = Handler(WholePage, <<Ask(op, e.id, <<e.word, e.on>>), CloseEditor, Reload>>)
    BY <1>2, Zenon DEF SaveWord
  <2> HIDE DEF op
  <2>3. StepMeant("words", Ask(op, e.id, <<e.word, e.on>>), IF e.id = None THEN None ELSE v.rows[e.id])
    BY <1>2, <2>1 DEF StepMeant, Ask, Rowless, Whole
  <2> QED
    BY <1>1, <2>1, <2>2, <2>3, OneMeant DEF Rowless
<1>3. ASSUME NEW w \in Ids, h = RemoveWord(w) PROVE Meant("words", h, v.rows)
  <2>1. StepMeant("words", Ask("delete", w, None), IF w = None THEN None ELSE v.rows[w])
    BY DEF StepMeant, Ask, Rowless, Whole
  <2> QED
    BY <1>1, <1>3, <2>1, OneMeant DEF Rowless, RemoveWord
<1>4. ASSUME NEW w \in Ids, h = ToggleEnabled(w, v.rows[w]) PROVE Meant("words", h, v.rows)
  <2> DEFINE x == <<v.rows[w].word, ~v.rows[w].on>>
  <2>1. StepMeant("words", Ask("toggle", w, x), IF w = None THEN None ELSE v.rows[w])
    <3>1. w # None
      BY IdsAssumption
    <3>2. x[1] = v.rows[w].word
      OBVIOUS
    <3> HIDE DEF x
    <3> QED
      BY <3>1, <3>2 DEF StepMeant, Ask, Rowless, Whole
  <2>2. h = Handler(WholePage, <<Ask("toggle", w, x), Reload>>)
    BY <1>4, Zenon DEF ToggleEnabled
  <2> HIDE DEF x
  <2> QED
    BY <1>1, <2>1, <2>2, OneMeant DEF Rowless
<1>5. \/ v.draft # None /\ h = SaveWord(v.draft)
      \/ \E w \in Ids : h = RemoveWord(w) \/ h = ToggleEnabled(w, v.rows[w])
  BY DEF WordsHandlers, Present
<1> QED
  BY <1>2, <1>3, <1>4, <1>5

LEMMA AnnouncementsMeant ==
  ASSUME NEW v, v.draft # None => v.draft.id \in Ids \cup {None}, NEW h \in AnnouncementsHandlers(v)
  PROVE  Meant("announcements", h, v.rows)
<1>1. WholePage \in Slots
  BY DEF Slots
<1>2. ASSUME NEW e, e.id \in Ids \cup {None}, h = SaveAnnouncement(e) PROVE Meant("announcements", h, v.rows)
  <2> DEFINE op == IF e.id = None THEN "create" ELSE "update"
  <2>1. op \in {"create", "update"}
    OBVIOUS
  <2>2. h = Handler(WholePage, <<Ask(op, e.id, <<e.text, e.published>>), CloseEditor, Reload>>)
    BY <1>2, Zenon DEF SaveAnnouncement
  <2> HIDE DEF op
  <2>3. StepMeant("announcements", Ask(op, e.id, <<e.text, e.published>>), IF e.id = None THEN None ELSE v.rows[e.id])
    BY <1>2, <2>1 DEF StepMeant, Ask, Rowless, Whole
  <2> QED
    BY <1>1, <2>1, <2>2, <2>3, OneMeant DEF Rowless
<1>3. ASSUME NEW a \in Ids, NEW op \in {"publish", "unpublish", "delete"},
             h = Handler(WholePage, <<Ask(op, a, None), Reload>>)
      PROVE  Meant("announcements", h, v.rows)
  <2>1. StepMeant("announcements", Ask(op, a, None), IF a = None THEN None ELSE v.rows[a])
    BY DEF StepMeant, Ask, Rowless, Whole
  <2> QED
    BY <1>1, <1>3, <2>1, OneMeant DEF Rowless
<1>4. ASSUME NEW a \in Ids, NEW r, h = TogglePublish(a, r) PROVE Meant("announcements", h, v.rows)
  <2> DEFINE op == IF r.published THEN "unpublish" ELSE "publish"
  <2>1. op \in {"publish", "unpublish", "delete"}
    OBVIOUS
  <2>2. h = Handler(WholePage, <<Ask(op, a, None), Reload>>)
    BY <1>4, Zenon DEF TogglePublish
  <2> HIDE DEF op
  <2> QED
    BY <1>3, <2>1, <2>2
<1>5. \/ v.draft # None /\ h = SaveAnnouncement(v.draft)
      \/ \E a \in Ids : h = TogglePublish(a, v.rows[a]) \/ h = RemoveAnnouncement(a)
  BY DEF AnnouncementsHandlers, Present
<1> QED
  BY <1>2, <1>3, <1>4, <1>5 DEF RemoveAnnouncement

LEMMA ConfirmMeant ==
  ASSUME NEW i \in Ids, NEW ticks, ticks \subseteq Remedies, NEW rows
  PROVE  Meant("reports", ConfirmResolve(i, ticks), rows)
<1> DEFINE y == Ask("resolve", i, ticks)
           s == InOrder(ticks, i)
           S == {Ask(op, i, None) : op \in Remedies} \cup {y, CloseEditor, Reload}
           u == s \o <<y, CloseEditor, Reload>>
           h == ConfirmResolve(i, ticks)
<1>1. Before(s, i, S, ticks)
  BY InOrderBefore
<1>2. y \in S /\ CloseEditor \in S /\ Reload \in S
  OBVIOUS
<1>3. h.steps = u /\ h.slot = i
  BY DEF ConfirmResolve, Handler
<1>4. \A q \in S : StepMeant("reports", q, Saw(h, rows))
  <2>1. ASSUME NEW op \in Remedies \cup {"resolve"}, NEW x
        PROVE  StepMeant("reports", Ask(op, i, x), Saw(h, rows))
    <3> HIDE DEF h
    <3> QED
      BY DEF StepMeant, Ask, Rowless, Whole, Remedies
  <2> HIDE DEF h
  <2> QED
    BY <2>1, RowlessMeant
<1> HIDE DEF y, s, S, h
<1>5. u \in Seq(S)
  BY <1>1, <1>2 DEF Before
<1> HIDE DEF u
<1>6. \A n \in DOMAIN u : u[n] \in S
  BY <1>5
<1>7. Tidy(u)
  <2>1. /\ DOMAIN u = 1..(Len(s) + 3) /\ Len(s) \in Nat /\ DOMAIN s = 1..Len(s)
        /\ \A n \in 1..Len(s) : u[n] = s[n]
        /\ u[Len(s) + 1] = y /\ u[Len(s) + 2] = CloseEditor /\ u[Len(s) + 3] = Reload
    BY <1>1 DEF Before, u
  <2>2. \A n \in 1..Len(s) : u[n].op # "close"
    BY <1>1, <2>1 DEF Before, Remedies
  <2>3. y.op # "close" /\ Reload.op # "close"
    BY DEF y, Reload, Ask
  <2>4. ASSUME NEW n \in DOMAIN u, u[n].op = "close" PROVE n = Len(s) + 2
    <3>1. n \in 1..Len(s) \/ n \in {Len(s) + 1, Len(s) + 2, Len(s) + 3}
      BY <2>1
    <3> QED
      BY <2>1, <2>2, <2>3, <2>4, <3>1
  <2> QED
    BY <2>1, <2>3, <2>4 DEF Tidy
<1> QED
  BY <1>3, <1>4, <1>6, <1>7 DEF Meant, Slots, h

LEMMA ReportsMeant ==
  ASSUME NEW v, DraftOK(v.draft), NEW h \in ReportsHandlers(v) PROVE Meant("reports", h, v.rows)
<1>1. ASSUME NEW i \in Ids, v.draft # None, h = ConfirmResolve(i, v.draft.ticks)
      PROVE  Meant("reports", h, v.rows)
  BY <1>1, ConfirmMeant DEF DraftOK
<1>2. ASSUME NEW i \in Ids, h = Dismiss(i) PROVE Meant("reports", h, v.rows)
  <2>1. StepMeant("reports", Ask("dismiss", i, None), IF i = None THEN None ELSE v.rows[i])
    BY DEF StepMeant, Ask, Rowless, Whole
  <2> QED
    BY <1>2, <2>1, OneMeant DEF Rowless, Dismiss, Slots
<1>3. \E i \in Ids : h = Dismiss(i) \/ (v.draft # None /\ h = ConfirmResolve(i, v.draft.ticks))
  BY DEF ReportsHandlers, Present
<1> QED
  BY <1>1, <1>2, <1>3

LEMMA LogsMeant ==
  ASSUME NEW v, NEW h \in LogsHandlers(v) PROVE Meant("logs", h, v.rows)
<1>1. \A l \in Ids, op \in {"resolve", "deleteTarget", "banTarget"} : \A x, saw :
        StepMeant("logs", Ask(op, l, x), saw)
  BY DEF StepMeant, Ask, Rowless
<1>2. ASSUME NEW l \in Ids, h = DismissLog(l) PROVE Meant("logs", h, v.rows)
  <2>1. StepMeant("logs", Ask("resolve", l, {}), IF l = None THEN None ELSE v.rows[l])
    BY <1>1
  <2> QED
    BY <1>2, <2>1, OneMeant DEF Rowless, DismissLog, Slots
<1>3. ASSUME NEW l \in Ids, NEW r \in {"deleteTarget", "banTarget"}, h = RunAction(l, r)
      PROVE  Meant("logs", h, v.rows)
  <2> DEFINE q1 == Ask(r, l, None)
             q2 == Ask("resolve", l, {r})
             s == <<q1, q2, Reload>>
  <2>1. \A saw : StepMeant("logs", q1, saw) /\ StepMeant("logs", q2, saw) /\ StepMeant("logs", Reload, saw)
    BY <1>1, RowlessMeant
  <2>2. h.steps = s /\ h.slot = l
    BY <1>3 DEF RunAction, Handler
  <2> HIDE DEF q1, q2
  <2>3. \A n \in DOMAIN s : s[n] \in {q1, q2, Reload}
    OBVIOUS
  <2>4. q1.op # "close" /\ q2.op # "close" /\ Reload.op # "close"
    BY DEF q1, q2, Reload, Ask
  <2>5. Tidy(s)
    BY <2>3, <2>4 DEF Tidy
  <2> HIDE DEF s
  <2> QED
    BY <2>1, <2>2, <2>3, <2>5 DEF Meant, Slots
<1>4. \E l \in Ids : h = DismissLog(l) \/ \E r \in {"deleteTarget", "banTarget"} : h = RunAction(l, r)
  BY DEF LogsHandlers, Present
<1> QED
  BY <1>2, <1>3, <1>4

LEMMA MessagesMeant ==
  ASSUME NEW v, NEW h \in MessagesHandlers(v) PROVE Meant("messages", h, v.rows)
<1>1. PICK c \in Ids : h = OpenDetail(c)
  BY DEF MessagesHandlers, Present
<1>2. StepMeant("messages", Ask("look", c, None), IF c = None THEN None ELSE v.rows[c])
  BY DEF StepMeant, Ask, Rowless
<1> QED
  BY <1>1, <1>2, OneMeant DEF Rowless, OpenDetail, Slots

LEMMA CreditsMeant ==
  ASSUME NEW v, NEW h \in CreditsHandlers(v) PROVE Meant("credits", h, v.rows)
<1>1. h = SubmitAdjust(v.draft)
  BY DEF CreditsHandlers
<1>2. StepMeant("credits", Ask("create", None, v.draft.id), None)
  BY DEF StepMeant, Ask, Rowless, Whole
<1> QED
  BY <1>1, <1>2, OneMeant DEF Rowless, SubmitAdjust, Slots

\* The drafts of the pages whose editors hold a row or a new one.
DraftMeant(p, d) ==
  p \in {"categories", "words", "announcements"} =>
    d = None \/ ("id" \in DOMAIN d /\ d.id \in Ids \cup {None})

LEMMA HandlersMeant ==
  ASSUME NEW v, page = "reports" => DraftOK(v.draft), DraftMeant(page, v.draft), NEW h \in Handlers(v)
  PROVE  Meant(page, h, v.rows)
<1>1. CASE page = "users"
  <2>1. h \in UsersHandlers(v)
    BY <1>1, Zenon DEF Handlers
  <2> QED
    BY <1>1, <2>1, UsersMeant
<1>2. CASE page = "bots"
  <2>1. h \in BotsHandlers(v)
    BY <1>2, Zenon DEF Handlers
  <2> QED
    BY <1>2, <2>1, BotsMeant
<1>3. CASE page = "invites"
  <2>1. h \in InvitesHandlers(v)
    BY <1>3, Zenon DEF Handlers
  <2> QED
    BY <1>3, <2>1, InvitesMeant
<1>4. CASE page = "topics"
  <2>1. h \in TopicsHandlers(v)
    BY <1>4, Zenon DEF Handlers
  <2> QED
    BY <1>4, <2>1, TopicsMeant
<1>5. CASE page = "categories"
  <2>1. h \in CategoriesHandlers(v)
    BY <1>5, Zenon DEF Handlers
  <2> QED
    BY <1>5, <2>1, CategoriesMeant DEF DraftMeant
<1>6. CASE page = "words"
  <2>1. h \in WordsHandlers(v)
    BY <1>6, Zenon DEF Handlers
  <2> QED
    BY <1>6, <2>1, WordsMeant DEF DraftMeant
<1>7. CASE page = "announcements"
  <2>1. h \in AnnouncementsHandlers(v)
    BY <1>7, Zenon DEF Handlers
  <2> QED
    BY <1>7, <2>1, AnnouncementsMeant DEF DraftMeant
<1>8. CASE page = "reports"
  <2>1. h \in ReportsHandlers(v)
    BY <1>8, Zenon DEF Handlers
  <2> QED
    BY <1>8, <2>1, ReportsMeant
<1>9. CASE page = "logs"
  <2>1. h \in LogsHandlers(v)
    BY <1>9, Zenon DEF Handlers
  <2> QED
    BY <1>9, <2>1, LogsMeant
<1>10. CASE page = "messages"
  <2>1. h \in MessagesHandlers(v)
    BY <1>10, Zenon DEF Handlers
  <2> QED
    BY <1>10, <2>1, MessagesMeant
<1>11. CASE page = "credits"
  <2>1. h \in CreditsHandlers(v)
    BY <1>11, Zenon DEF Handlers
  <2> QED
    BY <1>11, <2>1, CreditsMeant
<1>12. CASE page \notin {"users", "bots", "invites", "topics", "categories", "words",
                        "announcements", "reports", "logs", "messages", "credits"}
  <2>1. Handlers(v) = {}
    BY <1>12, Zenon DEF Handlers
  <2> QED
    BY <2>1
<1> QED
  BY <1>1, <1>2, <1>3, <1>4, <1>5, <1>6, <1>7, <1>8, <1>9, <1>10, <1>11, <1>12

LEMMA ListingMeant ==
  ASSUME NEW rows PROVE Meant(page, Listing, rows) /\ Listing.slot \in {None, WholePage}
<1>1. PICK x \in {None, WholePage} : Listing = Handler(x, <<Reload>>)
  BY Zenon DEF Listing
<1>2. Listing.steps = <<Reload>> /\ Listing.slot = x
  BY <1>1 DEF Handler
<1>3. \A n \in DOMAIN <<Reload>> : <<Reload>>[n] = Reload
  OBVIOUS
<1>4. \A saw : StepMeant(page, Reload, saw)
  BY RowlessMeant
<1>5. Tidy(<<Reload>>)
  <2>1. Reload.op # "close"
    BY DEF Reload, Ask
  <2> QED
    BY <1>3, <2>1 DEF Tidy
<1> HIDE DEF Listing
<1> QED
  BY <1>1, <1>2, <1>3, <1>4, <1>5 DEF Meant, Slots

-----------------------------------------------------------------------------
(* Screens, and the handlers that hold their busy slots.                   *)

ScreenOK(v) ==
  \E r, l, c, f, b, e, d :
     /\ v = [rows |-> r, loaded |-> l, count |-> c, filter |-> f, busy |-> b, error |-> e, draft |-> d]
     /\ l \in BOOLEAN /\ e \in BOOLEAN /\ b \in Slots

LEMMA ScreenIs ==
  ASSUME NEW r, NEW l \in BOOLEAN, NEW c, NEW f, NEW b \in Slots, NEW e \in BOOLEAN, NEW d
  PROVE  ScreenOK([rows |-> r, loaded |-> l, count |-> c, filter |-> f, busy |-> b, error |-> e, draft |-> d])
BY Zenon DEF ScreenOK

LEMMA ScreenWith ==
  ASSUME NEW v, ScreenOK(v), NEW w, NEW x,
         \/ w = [v EXCEPT !.rows = x]
         \/ w = [v EXCEPT !.count = x]
         \/ w = [v EXCEPT !.filter = x]
         \/ w = [v EXCEPT !.loaded = x] /\ x \in BOOLEAN
         \/ w = [v EXCEPT !.error = x] /\ x \in BOOLEAN
  PROVE  ScreenOK(w) /\ w.busy = v.busy /\ w.draft = v.draft /\ v.error \in BOOLEAN
<1>1. PICK r, l, c, f, b, e, d :
        /\ v = [rows |-> r, loaded |-> l, count |-> c, filter |-> f, busy |-> b, error |-> e, draft |-> d]
        /\ l \in BOOLEAN /\ e \in BOOLEAN /\ b \in Slots
  BY DEF ScreenOK
<1>2. v.busy = b /\ v.draft = d /\ v.error = e
  BY <1>1
<1>3. v.error \in BOOLEAN
  BY <1>1, <1>2, Zenon
<1>4. CASE w = [v EXCEPT !.rows = x]
  <2>1. w = [rows |-> x, loaded |-> l, count |-> c, filter |-> f, busy |-> b, error |-> e, draft |-> d]
    BY <1>1, <1>4
  <2>2. ScreenOK(w)
    BY <1>1, <1>4, <2>1, Zenon DEF ScreenOK
  <2>3. w.busy = b /\ w.draft = d
    BY <2>1
  <2> QED
    BY <1>2, <1>3, <2>2, <2>3, Zenon
<1>5. CASE w = [v EXCEPT !.count = x]
  <2>1. w = [rows |-> r, loaded |-> l, count |-> x, filter |-> f, busy |-> b, error |-> e, draft |-> d]
    BY <1>1, <1>5
  <2>2. ScreenOK(w)
    BY <1>1, <1>5, <2>1, Zenon DEF ScreenOK
  <2>3. w.busy = b /\ w.draft = d
    BY <2>1
  <2> QED
    BY <1>2, <1>3, <2>2, <2>3, Zenon
<1>6. CASE w = [v EXCEPT !.filter = x]
  <2>1. w = [rows |-> r, loaded |-> l, count |-> c, filter |-> x, busy |-> b, error |-> e, draft |-> d]
    BY <1>1, <1>6
  <2>2. ScreenOK(w)
    BY <1>1, <1>6, <2>1, Zenon DEF ScreenOK
  <2>3. w.busy = b /\ w.draft = d
    BY <2>1
  <2> QED
    BY <1>2, <1>3, <2>2, <2>3, Zenon
<1>7. CASE w = [v EXCEPT !.loaded = x] /\ x \in BOOLEAN
  <2>1. w = [rows |-> r, loaded |-> x, count |-> c, filter |-> f, busy |-> b, error |-> e, draft |-> d]
    BY <1>1, <1>7
  <2>2. ScreenOK(w)
    BY <1>1, <1>7, <2>1, Zenon DEF ScreenOK
  <2>3. w.busy = b /\ w.draft = d
    BY <2>1
  <2> QED
    BY <1>2, <1>3, <2>2, <2>3, Zenon
<1>8. CASE w = [v EXCEPT !.error = x] /\ x \in BOOLEAN
  <2>1. w = [rows |-> r, loaded |-> l, count |-> c, filter |-> f, busy |-> b, error |-> x, draft |-> d]
    BY <1>1, <1>8
  <2>2. ScreenOK(w)
    <3>1. l \in BOOLEAN /\ x \in BOOLEAN /\ b \in Slots
      BY <1>1, <1>8
    <3> QED
      BY <2>1, <3>1, Zenon DEF ScreenOK
  <2>3. w.busy = b /\ w.draft = d
    BY <2>1
  <2> QED
    BY <1>2, <1>3, <2>2, <2>3, Zenon
<1> QED
  BY <1>4, <1>5, <1>6, <1>7, <1>8, Zenon

LEMMA ScreenBusy ==
  ASSUME NEW v, ScreenOK(v), NEW w, NEW x \in Slots, w = [v EXCEPT !.busy = x]
  PROVE  ScreenOK(w) /\ w.busy = x /\ w.draft = v.draft
<1>1. PICK r, l, c, f, b, e, d :
        /\ v = [rows |-> r, loaded |-> l, count |-> c, filter |-> f, busy |-> b, error |-> e, draft |-> d]
        /\ l \in BOOLEAN /\ e \in BOOLEAN /\ b \in Slots
  BY DEF ScreenOK
<1>2. w = [rows |-> r, loaded |-> l, count |-> c, filter |-> f, busy |-> x, error |-> e, draft |-> d]
  <2>1. v = [rows |-> r, loaded |-> l, count |-> c, filter |-> f, busy |-> b, error |-> e, draft |-> d]
    BY <1>1
  <2> QED
    BY <2>1
<1>3. ScreenOK(w)
  <2>1. l \in BOOLEAN /\ e \in BOOLEAN /\ x \in Slots
    BY <1>1
  <2>2. ScreenOK([rows |-> r, loaded |-> l, count |-> c, filter |-> f, busy |-> x, error |-> e, draft |-> d])
    BY <2>1, ScreenIs
  <2> QED
    BY <1>2, <2>2, Zenon
<1>4. w.busy = x /\ w.draft = d /\ v.draft = d
  BY <1>1, <1>2
<1> QED
  BY <1>3, <1>4

LEMMA ScreenDraft ==
  ASSUME NEW v, ScreenOK(v), NEW w, NEW x, w = [v EXCEPT !.draft = x]
  PROVE  ScreenOK(w) /\ w.busy = v.busy /\ w.draft = x
<1>1. PICK r, l, c, f, b, e, d :
        /\ v = [rows |-> r, loaded |-> l, count |-> c, filter |-> f, busy |-> b, error |-> e, draft |-> d]
        /\ l \in BOOLEAN /\ e \in BOOLEAN /\ b \in Slots
  BY DEF ScreenOK
<1>2. w = [rows |-> r, loaded |-> l, count |-> c, filter |-> f, busy |-> b, error |-> e, draft |-> x]
  <2>1. v = [rows |-> r, loaded |-> l, count |-> c, filter |-> f, busy |-> b, error |-> e, draft |-> d]
    BY <1>1
  <2> QED
    BY <2>1
<1>3. ScreenOK(w)
  BY <1>1, <1>2, Zenon DEF ScreenOK
<1>4. w.busy = b /\ w.draft = x /\ v.busy = b
  BY <1>1, <1>2
<1> QED
  BY <1>3, <1>4

\* A run under way: its slot, and what its requests are about.
RunMeant(p, r) ==
  r # NoRun => /\ r.slot \in Slots /\ Tidy(r.steps)
              /\ \A n \in DOMAIN r.steps : StepMeant(p, r.steps[n], r.saw)

\* The rows of the filter words have two fields, which a toggle sends back.
WordRows(d) == \A i \in Ids : d[i] = None \/ DOMAIN d[i] = {"word", "on"}

RowsOK(p, d) == DOMAIN d = Ids /\ (p = "words" => WordRows(d))

\* The pages the event stream feeds.
Pushed == {"reports", "logs", "dashboard"}

MeantInv == /\ \A a \in Admins, k \in Lanes : RunMeant(page, runs[a][k])
            /\ \A a \in Admins : DraftMeant(page, tab[a].draft)
            /\ RowsOK(page, db)

HeldInv == /\ \A a \in Admins : ScreenOK(tab[a])
           /\ page \notin Pushed => \A a \in Admins : mail[a] = << >>
           /\ page \in Pages /\ presses \in 0..MaxPresses
           /\ BusyIsHeld

SInv == IInv /\ MeantInv /\ HeldInv

\* A handler put into a lane, with the screen it leaves: the slot is free, or
\* held by the new handler, or held by whom it was held by before.
LEMMA HeldPlaced ==
  ASSUME RunsInv, TabsInv, BusyIsHeld, NEW a \in Admins, NEW k \in Lanes, NEW r, NEW w,
         runs' = [runs EXCEPT ![a][k] = r], tab' = [tab EXCEPT ![a] = w],
         \/ w.busy = None
         \/ r # NoRun /\ r.slot # None
         \/ /\ w.busy = tab[a].busy
            /\ runs[a][k] # NoRun /\ runs[a][k].slot # None => r # NoRun /\ r.slot # None
  PROVE  BusyIsHeld'
<1> SUFFICES ASSUME NEW b \in Admins, tab'[b].busy # None
             PROVE  \E j \in Lanes : runs'[b][j] # NoRun /\ runs'[b][j].slot # None
  BY DEF BusyIsHeld, Running
<1>1. runs'[a][k] = r /\ tab'[a] = w
  BY DEF RunsInv, TabsInv
<1>2. \A c \in Admins, j \in Lanes : c # a \/ j # k => runs'[c][j] = runs[c][j]
  BY DEF RunsInv
<1>3. b # a => tab'[b] = tab[b]
  BY DEF TabsInv
<1>4. tab[b].busy # None => \E j \in Lanes : runs[b][j] # NoRun /\ runs[b][j].slot # None
  BY DEF BusyIsHeld, Running
<1>5. CASE b # a
  BY <1>2, <1>3, <1>4, <1>5
<1>6. CASE b = a
  <2>1. CASE r # NoRun /\ r.slot # None
    BY <1>1, <1>6, <2>1
  <2>2. CASE ~(r # NoRun /\ r.slot # None)
    <3>1. tab[a].busy # None /\ ~(runs[a][k] # NoRun /\ runs[a][k].slot # None)
      BY <1>1, <1>6, <2>2
    <3>2. PICK j \in Lanes : runs[a][j] # NoRun /\ runs[a][j].slot # None
      BY <1>4, <1>6, <3>1
    <3>3. j # k
      BY <3>1, <3>2
    <3> QED
      BY <1>2, <1>6, <3>2, <3>3
  <2> QED
    BY <2>1, <2>2
<1> QED
  BY <1>5, <1>6

\* A set of naturals has a least element, so a free lane is found.
LEMMA Least ==
  ASSUME NEW S, S \subseteq Nat, S # {} PROVE \E k \in S : \A j \in S : k <= j
<1>1. IsWellFoundedOn(OpToRel(<, Nat), Nat)
  BY NatLessThanWellFounded, Zenon
<1>2. \E R : IsWellFoundedOn(R, Nat) /\ R = {ss \in Nat \X Nat : ss[1] < ss[2]}
  BY <1>1, Zenon DEF OpToRel
<1>3. PICK R : IsWellFoundedOn(R, Nat) /\ R = {ss \in Nat \X Nat : ss[1] < ss[2]}
  BY <1>2
<1>4. \A x, y \in Nat : <<x, y>> \in R <=> x < y
  BY <1>3
<1>5. PICK x \in S : \A y \in S : <<y, x>> \notin R
  BY <1>3, WFMin, Zenon
<1>6. ASSUME NEW j \in S PROVE x <= j
  <2>1. x \in Nat /\ j \in Nat
    OBVIOUS
  <2>2. ~(j < x)
    BY <1>4, <1>5, <2>1
  <2> QED
    BY <2>1, <2>2
<1> QED
  BY <1>6

LEMMA LaneFree ==
  ASSUME NEW a, Free(a) # {} PROVE Lane(a) \in Lanes /\ runs[a][Lane(a)] = NoRun
<1>1. Free(a) \subseteq Nat
  BY ConsoleAssumption DEF Free
<1>2. \E k \in Free(a) : \A j \in Free(a) : k <= j
  BY <1>1, Least
<1>3. Lane(a) \in Free(a)
  BY <1>2, Zenon DEF Lane
<1> QED
  BY <1>3 DEF Free

LEMMA RunFields ==
  ASSUME NEW h, NEW v
  PROVE  LET r == Run(h, v)
         IN  /\ r.steps = h.steps /\ r.slot = h.slot /\ r.reply = None
             /\ r.saw = Saw(h, v.rows) /\ r.filter = v.filter
<1>1. Run(h, v) = [steps |-> h.steps, slot |-> h.slot, filter |-> v.filter,
                   saw |-> Saw(h, v.rows), reply |-> None]
  BY Zenon DEF Run, Saw
<1> DEFINE r == Run(h, v)
<1> HIDE DEF r
<1>2. r = [steps |-> h.steps, slot |-> h.slot, filter |-> v.filter,
           saw |-> Saw(h, v.rows), reply |-> None]
  BY <1>1, Zenon DEF r
<1>3. /\ r.steps = h.steps /\ r.slot = h.slot /\ r.reply = None
      /\ r.saw = Saw(h, v.rows) /\ r.filter = v.filter
  BY <1>2
<1> QED
  BY <1>3, Zenon DEF r

LEMMA RunIsMeant ==
  ASSUME NEW h, NEW v, Meant(page, h, v.rows), h.steps # << >>
  PROVE  RunMeant(page, Run(h, v)) /\ Run(h, v) # NoRun /\ Run(h, v).slot = h.slot
<1> DEFINE r == Run(h, v)
<1>1. r.steps = h.steps /\ r.slot = h.slot /\ r.saw = Saw(h, v.rows)
  BY RunFields, Zenon
<1> HIDE DEF r
<1>2. RunMeant(page, r)
  BY <1>1 DEF RunMeant, Meant
<1>3. NoRun.steps = << >>
  BY DEF NoRun
<1>4. r # NoRun
  BY <1>1, <1>3
<1> QED
  BY <1>1, <1>2, <1>4 DEF r

LEMMA MeantPlaced ==
  ASSUME RunsInv, \A a \in Admins, k \in Lanes : RunMeant(page, runs[a][k]),
         NEW a \in Admins, NEW k, NEW r, RunMeant(page, r),
         page' = page, runs' = [runs EXCEPT ![a][k] = r]
  PROVE  \A b \in Admins, j \in Lanes : RunMeant(page', runs'[b][j])
<1>1. ASSUME NEW b \in Admins, NEW j \in Lanes PROVE runs'[b][j] = r \/ runs'[b][j] = runs[b][j]
  BY DEF RunsInv
<1> QED
  BY <1>1

LEMMA ScreenPlaced ==
  ASSUME TabsInv, \A a \in Admins : ScreenOK(tab[a]) /\ DraftMeant(page, tab[a].draft),
         NEW a \in Admins, NEW w, ScreenOK(w), DraftMeant(page, w.draft),
         page' = page, tab' = [tab EXCEPT ![a] = w]
  PROVE  \A b \in Admins : ScreenOK(tab'[b]) /\ DraftMeant(page', tab'[b].draft)
<1>1. ASSUME NEW b \in Admins PROVE tab'[b] = w \/ tab'[b] = tab[b]
  BY DEF TabsInv
<1> QED
  BY <1>1

\* A handler put into a lane and a screen changed, everything else left alone.
LEMMA SoundPlaced ==
  ASSUME SInv, NEW a \in Admins, NEW k \in Lanes, NEW r, NEW w,
         RunMeant(page, r), ScreenOK(w), DraftMeant(page, w.draft),
         runs' = [runs EXCEPT ![a][k] = r], tab' = [tab EXCEPT ![a] = w],
         \/ w.busy = None
         \/ r # NoRun /\ r.slot # None
         \/ /\ w.busy = tab[a].busy
            /\ runs[a][k] # NoRun /\ runs[a][k].slot # None => r # NoRun /\ r.slot # None,
         page' = page, RowsOK(page, db'), presses' \in 0..MaxPresses,
         page \notin Pushed => \A b \in Admins : mail'[b] = << >>
  PROVE  MeantInv' /\ HeldInv'
<1>1. \A b \in Admins, j \in Lanes : RunMeant(page', runs'[b][j])
  BY MeantPlaced DEF SInv, IInv, MeantInv
<1>2. \A b \in Admins : ScreenOK(tab'[b]) /\ DraftMeant(page', tab'[b].draft)
  BY ScreenPlaced DEF SInv, IInv, MeantInv, HeldInv
<1>3. BusyIsHeld'
  BY HeldPlaced DEF SInv, IInv, HeldInv
<1>4. RowsOK(page', db') /\ page' \in Pages
  BY DEF SInv, MeantInv, HeldInv
<1> QED
  BY <1>1, <1>2, <1>3, <1>4 DEF MeantInv, HeldInv

LEMMA ScreenTyped ==
  ASSUME NEW v, ScreenOK(v) PROVE v.busy \in Slots /\ v.error \in BOOLEAN /\ v.loaded \in BOOLEAN
<1>1. PICK r, l, c, f, b, e, d :
        /\ v = [rows |-> r, loaded |-> l, count |-> c, filter |-> f, busy |-> b, error |-> e, draft |-> d]
        /\ l \in BOOLEAN /\ e \in BOOLEAN /\ b \in Slots
  BY DEF ScreenOK
<1>2. v.busy = b /\ v.error = e /\ v.loaded = l
  BY <1>1
<1> QED
  BY <1>1, <1>2, Zenon

LEMMA InitialRowsDomain == ASSUME NEW p PROVE DOMAIN InitialRows(p) = Ids
<1>1. InitialRows(p) \in {UsersInit, BotsInit, InvitesInit, AnonInit, TopicsInit, CategoriesInit,
                          WordsInit, AnnouncementsInit, ReportsInit, LogsInit, DashboardInit,
                          CreditsInit, Entries}
  BY SMT DEF InitialRows
<1>2. /\ DOMAIN UsersInit = Ids /\ DOMAIN BotsInit = Ids /\ DOMAIN InvitesInit = Ids
      /\ DOMAIN AnonInit = Ids /\ DOMAIN TopicsInit = Ids /\ DOMAIN CategoriesInit = Ids
      /\ DOMAIN WordsInit = Ids /\ DOMAIN AnnouncementsInit = Ids /\ DOMAIN ReportsInit = Ids
      /\ DOMAIN LogsInit = Ids /\ DOMAIN DashboardInit = Ids /\ DOMAIN CreditsInit = Ids
      /\ DOMAIN Entries = Ids
  BY DEF UsersInit, BotsInit, InvitesInit, AnonInit, TopicsInit, CategoriesInit, WordsInit,
         AnnouncementsInit, ReportsInit, LogsInit, DashboardInit, CreditsInit, Entries, NoRows
<1> QED
  BY <1>1, <1>2

LEMMA MountedOK ==
  ASSUME NEW p, NEW w, NEW x \in Slots, w = [Mounted(p) EXCEPT !.busy = x]
  PROVE  ScreenOK(w) /\ w.busy = x /\ DraftMeant(p, w.draft)
<1>1. ScreenOK(Mounted(p))
  <2>1. Mounted(p) = [rows |-> NoRows, loaded |-> FALSE, count |-> 0, filter |-> InitialFilter(p),
                      busy |-> None, error |-> FALSE, draft |-> None]
    BY Zenon DEF Mounted
  <2>2. None \in Slots
    BY DEF Slots
  <2>3. FALSE \in BOOLEAN
    OBVIOUS
  <2> DEFINE n == FALSE
  <2> HIDE DEF n
  <2>4. Mounted(p) = [rows |-> NoRows, loaded |-> n, count |-> 0, filter |-> InitialFilter(p),
                      busy |-> None, error |-> n, draft |-> None] /\ n \in BOOLEAN
    BY <2>1, <2>3, Zenon DEF n
  <2> QED
    BY <2>2, <2>4, Zenon DEF ScreenOK
<1>2. Mounted(p).draft = None
  BY DEF Mounted
<1>3. ScreenOK(w) /\ w.busy = x /\ w.draft = Mounted(p).draft
  BY <1>1, ScreenBusy
<1> QED
  BY <1>2, <1>3 DEF DraftMeant

LEMMA SoundInit == Init => SInv
<1> SUFFICES ASSUME Init PROVE SInv
  OBVIOUS
<1>1. IInv
  BY InitOK
<1> DEFINE v == Mounted(page)
           r == Run(Listing, v)
<1>2. Meant(page, Listing, v.rows) /\ Listing.slot \in {None, WholePage} /\ Listing.steps # << >>
  BY ListingMeant, ListingFit DEF Fit
<1>3. RunMeant(page, r) /\ r # NoRun /\ r.slot = Listing.slot
  BY <1>2, RunIsMeant
<1>4. tab = [a \in Admins |-> [v EXCEPT !.busy = IF a \in users THEN Listing.slot ELSE None]]
  BY Zenon DEF Init
<1>5. runs = [a \in Admins |-> [k \in Lanes |-> IF a \in users /\ \A j \in Lanes : k <= j THEN r ELSE NoRun]]
  BY Zenon DEF Init
<1>6. ASSUME NEW a \in Admins PROVE ScreenOK(tab[a]) /\ DraftMeant(page, tab[a].draft)
                                    /\ tab[a].busy = IF a \in users THEN Listing.slot ELSE None
  <2> DEFINE x == IF a \in users THEN Listing.slot ELSE None
  <2>1. x \in Slots
    BY <1>2 DEF Slots
  <2>2. tab[a] = [v EXCEPT !.busy = x]
    BY <1>4
  <2> HIDE DEF x
  <2>3. ScreenOK(tab[a]) /\ tab[a].busy = x /\ DraftMeant(page, tab[a].draft)
    BY <2>1, <2>2, MountedOK
  <2> QED
    BY <2>3 DEF x
<1> HIDE DEF r, v
<1>7. \A a \in Admins, k \in Lanes : RunMeant(page, runs[a][k])
  <2>1. \A a \in Admins, k \in Lanes : runs[a][k] = r \/ runs[a][k] = NoRun
    BY <1>5
  <2>2. RunMeant(page, NoRun)
    BY DEF RunMeant
  <2> QED
    BY <1>3, <2>1, <2>2
<1>8. RowsOK(page, db)
  <2>1. DOMAIN db = Ids
    BY InitialRowsDomain DEF Init
  <2>2. page = "words" => db = WordsInit
    BY Zenon DEF Init, InitialRows
  <2>3. WordRows(WordsInit)
    BY DEF WordRows, WordsInit
  <2> QED
    BY <2>1, <2>2, <2>3 DEF RowsOK
<1>9. BusyIsHeld
  <2> SUFFICES ASSUME NEW a \in Admins, tab[a].busy # None
               PROVE  \E k \in Lanes : runs[a][k] # NoRun /\ runs[a][k].slot # None
    BY DEF BusyIsHeld, Running
  <2>1. a \in users /\ Listing.slot # None
    BY <1>6
  <2>2. PICK k \in Lanes : \A j \in Lanes : k <= j
    <3>1. Lanes \subseteq Nat /\ Lanes # {}
      BY ConsoleAssumption
    <3> QED
      BY <3>1, Least
  <2>3. runs[a][k] = r
    BY <1>5, <2>1, <2>2
  <2> QED
    BY <1>3, <2>1, <2>3
<1>10. page \in Pages /\ presses \in 0..MaxPresses /\ \A a \in Admins : mail[a] = << >>
  BY ConsoleAssumption DEF Init
<1> QED
  BY <1>1, <1>6, <1>7, <1>8, <1>9, <1>10 DEF SInv, MeantInv, HeldInv

LEMMA PressSound == ASSUME SInv, NEW a \in Admins, Press(a) PROVE MeantInv' /\ HeldInv'
<1>1. PICK h \in Handlers(tab[a]) :
        /\ Free(a) # {} /\ presses < MaxPresses /\ presses' = presses + 1
        /\ runs' = [runs EXCEPT ![a][Lane(a)] = Run(h, tab[a])]
        /\ tab' = [tab EXCEPT ![a].busy = IF h.slot = None THEN @ ELSE h.slot,
                              ![a].error = FALSE,
                              ![a].draft = IF page = "messages" THEN None ELSE @]
        /\ UNCHANGED <<page, db, mail>>
  BY Zenon DEF Press, shared
<1> DEFINE k == Lane(a)
           r == Run(h, tab[a])
           v == tab[a]
<1>2. k \in Lanes /\ runs[a][k] = NoRun
  BY <1>1, LaneFree
<1>3. ScreenOK(v) /\ DraftMeant(page, v.draft) /\ (page = "reports" => DraftOK(v.draft))
  BY DEF SInv, IInv, TabsInv, ViewOK, MeantInv, HeldInv
<1>4. Meant(page, h, v.rows)
  BY <1>1, <1>3, HandlersMeant
<1>5. h.steps # << >>
  BY <1>1, <1>3, HandlersFit DEF Fit
<1>6. RunMeant(page, r) /\ r # NoRun /\ r.slot = h.slot
  BY <1>4, <1>5, RunIsMeant
<1> DEFINE b == IF h.slot = None THEN v.busy ELSE h.slot
           d == IF page = "messages" THEN None ELSE v.draft
           v1 == [v EXCEPT !.busy = b]
           v2 == [v1 EXCEPT !.error = FALSE]
           w == [v2 EXCEPT !.draft = d]
<1>7. b \in Slots
  <2>1. v.busy \in Slots
    BY <1>3, ScreenTyped
  <2> QED
    BY <1>4, <2>1 DEF Meant
<1>8. tab' = [tab EXCEPT ![a] = w]
  <2>1. tab = [c \in Admins |-> tab[c]]
    BY DEF SInv, IInv, TabsInv
  <2>2. v1.draft = v.draft /\ v2.draft = v1.draft
    OBVIOUS
  <2> QED
    BY <1>1, <2>1
<1>9. ScreenOK(v1) /\ v1.busy = b /\ v1.draft = v.draft
  <2> HIDE DEF b, v
  <2> QED
    BY <1>3, <1>7, ScreenBusy
<1>10. ScreenOK(v2) /\ v2.busy = b /\ v2.draft = v.draft
  <2> HIDE DEF v1
  <2>1. ScreenOK(v2) /\ v2.busy = v1.busy /\ v2.draft = v1.draft
    BY <1>9, ScreenWith
  <2> QED
    BY <1>9, <2>1
<1>11. ScreenOK(w) /\ w.busy = b /\ w.draft = d
  <2> HIDE DEF v2, d
  <2>1. ScreenOK(w) /\ w.busy = v2.busy /\ w.draft = d
    BY <1>10, ScreenDraft
  <2> QED
    BY <1>10, <2>1
<1>12. DraftMeant(page, d)
  BY <1>3 DEF DraftMeant
<1>13. (w.busy = v.busy /\ runs[a][k] = NoRun) \/ r.slot # None
  BY <1>2, <1>6, <1>11
<1> HIDE DEF k, r, w, v, d
<1>14. runs' = [runs EXCEPT ![a][k] = r]
  BY <1>1 DEF k, r, v
<1>15. presses' \in 0..MaxPresses
  BY <1>1, ConsoleAssumption DEF SInv, HeldInv
<1>16. page' = page /\ RowsOK(page, db') /\ (page \notin Pushed => \A c \in Admins : mail'[c] = << >>)
  BY <1>1 DEF SInv, MeantInv, HeldInv
<1> QED
  BY <1>2, <1>6, <1>8, <1>11, <1>12, <1>13, <1>14, <1>15, <1>16, SoundPlaced DEF v

LEMMA SetFilterSound == ASSUME SInv, NEW a \in Admins, SetFilter(a) PROVE MeantInv' /\ HeldInv'
<1>1. PICK f \in Filters(tab[a]) :
        /\ Free(a) # {} /\ presses < MaxPresses /\ presses' = presses + 1
        /\ runs' = [runs EXCEPT ![a][Lane(a)] = Run(Listing, [tab[a] EXCEPT !.filter = f])]
        /\ tab' = [tab EXCEPT ![a].filter = f,
                              ![a].busy = IF Listing.slot = None THEN @ ELSE Listing.slot,
                              ![a].error = IF ClearsFirst THEN FALSE ELSE @]
        /\ UNCHANGED <<page, db, mail>>
  BY Zenon DEF SetFilter, shared
<1> DEFINE k == Lane(a)
           v == tab[a]
           v1 == [v EXCEPT !.filter = f]
           r == Run(Listing, v1)
           b == IF Listing.slot = None THEN v.busy ELSE Listing.slot
           e == IF ClearsFirst THEN FALSE ELSE v.error
           v2 == [v1 EXCEPT !.busy = b]
           w == [v2 EXCEPT !.error = e]
<1>2. k \in Lanes /\ runs[a][k] = NoRun
  BY <1>1, LaneFree
<1>3. ScreenOK(v) /\ DraftMeant(page, v.draft)
  BY DEF SInv, MeantInv, HeldInv
<1>4. Meant(page, Listing, v1.rows) /\ Listing.slot \in {None, WholePage} /\ Listing.steps # << >>
  BY ListingMeant, ListingFit DEF Fit
<1>5. RunMeant(page, r) /\ r # NoRun /\ r.slot = Listing.slot
  <2> HIDE DEF v1
  <2> QED
    BY <1>4, RunIsMeant
<1>6. b \in Slots /\ e \in BOOLEAN
  <2>1. v.busy \in Slots /\ v.error \in BOOLEAN
    BY <1>3, ScreenTyped
  <2>2. b \in Slots
    BY <1>4, <2>1 DEF Slots
  <2>3. e \in BOOLEAN
    BY <2>1, Zenon
  <2> QED
    BY <2>2, <2>3
<1>7. tab' = [tab EXCEPT ![a] = w]
  <2>1. tab = [c \in Admins |-> tab[c]]
    BY DEF SInv, IInv, TabsInv
  <2> QED
    BY <1>1, <2>1
<1>8. ScreenOK(v1) /\ v1.busy = v.busy /\ v1.draft = v.draft
  <2> HIDE DEF v
  <2> QED
    BY <1>3, ScreenWith
<1>9. ScreenOK(v2) /\ v2.busy = b /\ v2.draft = v.draft
  <2> HIDE DEF v1, b, v
  <2> QED
    BY <1>6, <1>8, ScreenBusy
<1>10. ScreenOK(w) /\ w.busy = b /\ w.draft = v.draft
  <2> HIDE DEF v2, e
  <2>1. ScreenOK(w) /\ w.busy = v2.busy /\ w.draft = v2.draft
    BY <1>6, <1>9, ScreenWith
  <2> QED
    BY <1>9, <2>1
<1>11. (w.busy = v.busy /\ runs[a][k] = NoRun) \/ r.slot # None
  BY <1>2, <1>5, <1>10
<1> HIDE DEF k, r, w, v, v1
<1>12. runs' = [runs EXCEPT ![a][k] = r]
  BY <1>1 DEF k, r, v, v1
<1>13. presses' \in 0..MaxPresses
  BY <1>1, ConsoleAssumption DEF SInv, HeldInv
<1>14. page' = page /\ RowsOK(page, db') /\ (page \notin Pushed => \A c \in Admins : mail'[c] = << >>)
  BY <1>1 DEF SInv, MeantInv, HeldInv
<1> QED
  BY <1>2, <1>3, <1>5, <1>7, <1>10, <1>11, <1>12, <1>13, <1>14, SoundPlaced DEF v

\* A screen changed, its busy slot and the handlers left alone.
LEMMA SoundScreen ==
  ASSUME SInv, NEW a \in Admins, NEW w, ScreenOK(w), DraftMeant(page, w.draft), w.busy = tab[a].busy,
         tab' = [tab EXCEPT ![a] = w], runs' = runs, page' = page, db' = db, presses' = presses,
         page \notin Pushed => \A b \in Admins : mail'[b] = << >>
  PROVE  MeantInv' /\ HeldInv'
<1>1. \A b \in Admins : ScreenOK(tab'[b]) /\ DraftMeant(page', tab'[b].draft)
  BY ScreenPlaced DEF SInv, IInv, MeantInv, HeldInv
<1>2. \A b \in Admins : tab'[b].busy = tab[b].busy
  BY DEF SInv, IInv, TabsInv
<1>3. BusyIsHeld'
  BY <1>2 DEF SInv, HeldInv, BusyIsHeld, Running
<1> QED
  BY <1>1, <1>3 DEF SInv, MeantInv, HeldInv

\* Neither a screen nor a handler changed.
LEMMA SoundApart ==
  ASSUME SInv, tab' = tab, runs' = runs, page' = page, RowsOK(page, db'), presses' = presses,
         page \notin Pushed => \A b \in Admins : mail'[b] = << >>
  PROVE  MeantInv' /\ HeldInv'
<1>1. BusyIsHeld'
  BY DEF SInv, HeldInv, BusyIsHeld, Running
<1> QED
  BY <1>1 DEF SInv, MeantInv, HeldInv

LEMMA DraftsMeant ==
  ASSUME NEW v, DraftMeant(page, v.draft), NEW d \in Drafts(v) PROVE DraftMeant(page, d)
<1> SUFFICES ASSUME page \in {"categories", "words", "announcements"}, d # None
             PROVE  "id" \in DOMAIN d /\ d.id \in Ids \cup {None}
  BY DEF DraftMeant
<1>1. v.draft = None \/ ("id" \in DOMAIN v.draft /\ v.draft.id \in Ids \cup {None})
  BY DEF DraftMeant
<1>2. CASE page = "categories"
  <2>1. d \in CategoriesDrafts(v)
    BY <1>2, Zenon DEF Drafts
  <2>2. \/ d = [id |-> None, name |-> "new"]
        \/ \E c \in Ids : d = [id |-> c, name |-> v.rows[c].name]
        \/ v.draft # None /\ d = [v.draft EXCEPT !.name = "new"]
    BY <2>1 DEF CategoriesDrafts, Present
  <2> QED
    BY <1>1, <2>2
<1>3. CASE page = "words"
  <2>1. d \in WordsDrafts(v)
    BY <1>3, Zenon DEF Drafts
  <2>2. \/ d = [id |-> None, word |-> "new", on |-> TRUE]
        \/ \E c \in Ids : d = [id |-> c, word |-> v.rows[c].word, on |-> v.rows[c].on]
        \/ v.draft # None /\ d = [v.draft EXCEPT !.word = "new"]
        \/ v.draft # None /\ d = [v.draft EXCEPT !.on = ~@]
    BY <2>1 DEF WordsDrafts, Present
  <2> QED
    BY <1>1, <2>2
<1>4. CASE page = "announcements"
  <2>1. d \in AnnouncementsDrafts(v)
    BY <1>4, Zenon DEF Drafts
  <2>2. \/ d = [id |-> None, text |-> "new", published |-> FALSE]
        \/ \E c \in Ids : d = [id |-> c, text |-> v.rows[c].text, published |-> v.rows[c].published]
        \/ v.draft # None /\ d = [v.draft EXCEPT !.text = "new"]
        \/ v.draft # None /\ d = [v.draft EXCEPT !.published = ~@]
    BY <2>1 DEF AnnouncementsDrafts, Present
  <2> QED
    BY <1>1, <2>2
<1> QED
  BY <1>2, <1>3, <1>4

LEMMA DraftSound == ASSUME SInv, NEW a \in Admins, Draft(a) PROVE MeantInv' /\ HeldInv'
<1>1. PICK d \in Drafts(tab[a]) : tab' = [tab EXCEPT ![a].draft = d]
  BY Zenon DEF Draft
<1>2. UNCHANGED <<page, db, runs, mail, presses>>
  BY DEF Draft, shared
<1> DEFINE w == [tab[a] EXCEPT !.draft = d]
<1>3. ScreenOK(w) /\ w.busy = tab[a].busy /\ w.draft = d
  <2>1. ScreenOK(tab[a])
    BY DEF SInv, HeldInv
  <2> QED
    BY <2>1, ScreenDraft
<1>4. tab' = [tab EXCEPT ![a] = w]
  BY <1>1 DEF SInv, IInv, TabsInv
<1>5. DraftMeant(page, d)
  BY DraftsMeant DEF SInv, MeantInv
<1> HIDE DEF w
<1>6. page \notin Pushed => \A b \in Admins : mail'[b] = << >>
  BY <1>2 DEF SInv, HeldInv
<1> QED
  BY <1>2, <1>3, <1>4, <1>5, <1>6, SoundScreen

\* An answer recorded in the lane of the handler that awaits it.
LEMMA SoundAnswered ==
  ASSUME SInv, NEW a \in Admins, NEW k \in Lanes, NEW y, runs[a][k] # NoRun, Reply(a, k, y),
         tab' = tab, page' = page, RowsOK(page, db'), presses' = presses,
         page \notin Pushed => \A b \in Admins : mail'[b] = << >>
  PROVE  MeantInv' /\ HeldInv'
<1> DEFINE r == runs[a][k]
           new == [r EXCEPT !.reply = y]
           w == tab[a]
<1>1. runs' = [runs EXCEPT ![a][k] = new]
  BY DEF Reply, SInv, IInv, RunsInv
<1>2. PICK s, l, f, x, z : r = [steps |-> s, slot |-> l, filter |-> f, saw |-> x, reply |-> z]
  BY DEF SInv, IInv, RunsInv, RunOK
<1>3. r.steps # << >>
  BY DEF SInv, IInv, RunsInv, RunOK
<1>4. new = [steps |-> s, slot |-> l, filter |-> f, saw |-> x, reply |-> y]
  BY <1>2
<1>5. RunMeant(page, r)
  BY DEF SInv, MeantInv
<1> HIDE DEF new
<1>6. new.steps = r.steps /\ new.slot = r.slot /\ new.saw = r.saw
  BY <1>2, <1>4
<1>7. RunMeant(page, new) /\ new # NoRun
  <2>1. NoRun.steps = << >>
    BY DEF NoRun
  <2> HIDE DEF r
  <2>2. r # NoRun
    BY <1>3, <2>1
  <2> QED
    BY <1>3, <1>5, <1>6, <2>1, <2>2 DEF RunMeant
<1>8. tab' = [tab EXCEPT ![a] = w]
  BY DEF SInv, IInv, TabsInv
<1>9. ScreenOK(w) /\ DraftMeant(page, w.draft) /\ presses' \in 0..MaxPresses
  BY DEF SInv, MeantInv, HeldInv
<1>10. w.busy = tab[a].busy /\ (runs[a][k] # NoRun /\ runs[a][k].slot # None => new # NoRun /\ new.slot # None)
  BY <1>6, <1>7
<1> HIDE DEF r, w
<1> QED
  BY <1>1, <1>7, <1>8, <1>9, <1>10, SoundPlaced

LEMMA AnswersSound ==
  ASSUME SInv, NEW a \in Admins, NEW k \in Lanes, ServeList(a, k) \/ Fail(a, k) \/ Refuse(a, k)
  PROVE  MeantInv' /\ HeldInv'
<1>1. /\ runs[a][k] # NoRun /\ \E y : Reply(a, k, y)
      /\ UNCHANGED <<page, db, tab, mail, presses>>
  BY DEF ServeList, Fail, Refuse, Pending, shared
<1>2. RowsOK(page, db') /\ (page \notin Pushed => \A b \in Admins : mail'[b] = << >>)
  BY <1>1 DEF SInv, MeantInv, HeldInv
<1> QED
  BY <1>1, <1>2, SoundAnswered

-----------------------------------------------------------------------------
(* What requests do to the rows: no identifier is added or removed, and of *)
(* the row a request is about only the fields it is about change.          *)

Keeps(d, e, q, saw) ==
  /\ DOMAIN e = DOMAIN d
  /\ q.op \notin Whole /\ q.id \in Ids /\ d[q.id] = saw =>
       \A f \in DOMAIN saw \ About(q.op) : e[q.id][f] = saw[f]

LEMMA SameKeeps == ASSUME NEW d, NEW q, NEW saw PROVE Keeps(d, d, q, saw)
BY DEF Keeps

\* One field of the row the request is about.
LEMMA FieldKeeps ==
  ASSUME NEW d, DOMAIN d = Ids, NEW q, NEW saw, NEW g, NEW x, g \in About(q.op),
         NEW e, e = [d EXCEPT ![q.id][g] = x]
  PROVE  Keeps(d, e, q, saw)
<1>1. DOMAIN e = DOMAIN d
  OBVIOUS
<1>2. ASSUME q.id \in Ids, d[q.id] = saw, NEW f \in DOMAIN saw \ About(q.op) PROVE e[q.id][f] = saw[f]
  <2>1. f # g
    BY <1>2
  <2> QED
    BY <1>2, <2>1
<1> QED
  BY <1>1, <1>2 DEF Keeps

\* A whole row that is created, replaced or deleted.
LEMMA WholeKeeps ==
  ASSUME NEW d, NEW q, NEW saw, q.op \in Whole, NEW e, NEW i, NEW x, e = [d EXCEPT ![i] = x]
  PROVE  Keeps(d, e, q, saw)
BY DEF Keeps

LEMMA UsersKeep ==
  ASSUME NEW d, DOMAIN d = Ids, NEW q, NEW saw, StepMeant("users", q, saw), q.op \notin Rowless
  PROVE  Keeps(d, UsersEffect(q, d), q, saw)
<1>1. q.op \in {"ban", "unban", "score"}
  BY DEF StepMeant
<1>2. CASE q.op = "ban"
  <2>1. UsersEffect(q, d) = [d EXCEPT ![q.id].banned = TRUE]
    BY <1>2, Zenon DEF UsersEffect
  <2>2. "banned" \in About(q.op)
    BY <1>2 DEF About, Remedies
  <2> QED
    BY <2>1, <2>2, FieldKeeps
<1>3. CASE q.op = "unban"
  <2>1. UsersEffect(q, d) = [d EXCEPT ![q.id].banned = FALSE]
    BY <1>3, SMT DEF UsersEffect
  <2>2. "banned" \in About(q.op)
    BY <1>3 DEF About, Remedies
  <2> QED
    BY <2>1, <2>2, FieldKeeps
<1>4. CASE q.op = "score"
  <2> DEFINE x == IF d[q.id].score + q.val < 0 THEN 0 ELSE d[q.id].score + q.val
  <2>1. UsersEffect(q, d) = [d EXCEPT ![q.id].score = x]
    BY <1>4, SMT DEF UsersEffect
  <2>2. "score" \in About(q.op)
    BY <1>4 DEF About, Remedies
  <2> HIDE DEF x
  <2> QED
    BY <2>1, <2>2, FieldKeeps
<1> QED
  BY <1>1, <1>2, <1>3, <1>4

LEMMA BotsKeep ==
  ASSUME NEW d, DOMAIN d = Ids, NEW q, NEW saw, StepMeant("bots", q, saw), q.op \notin Rowless
  PROVE  Keeps(d, BotsEffect(q, d), q, saw)
<1>1. q.op \in {"approve", "reject", "suspend", "feature", "unfeature", "moderator", "unmoderator"}
  BY DEF StepMeant
<1>2. CASE q.op = "approve"
  <2>1. BotsEffect(q, d) = [d EXCEPT ![q.id].status = "active"]
    BY <1>2, SMT DEF BotsEffect
  <2>2. "status" \in About(q.op)
    BY <1>2 DEF About, Remedies
  <2> QED
    BY <2>1, <2>2, FieldKeeps
<1>3. CASE q.op = "reject"
  <2>1. BotsEffect(q, d) = [d EXCEPT ![q.id].status = "rejected"]
    BY <1>3, SMT DEF BotsEffect
  <2>2. "status" \in About(q.op)
    BY <1>3 DEF About, Remedies
  <2> QED
    BY <2>1, <2>2, FieldKeeps
<1>4. CASE q.op = "suspend"
  <2>1. BotsEffect(q, d) = [d EXCEPT ![q.id].status = "suspended"]
    BY <1>4, SMT DEF BotsEffect
  <2>2. "status" \in About(q.op)
    BY <1>4 DEF About, Remedies
  <2> QED
    BY <2>1, <2>2, FieldKeeps
<1>5. CASE q.op = "feature"
  <2> DEFINE x == q.op = "feature"
  <2>1. BotsEffect(q, d) = [d EXCEPT ![q.id].featured = x]
    BY <1>5, SMT DEF BotsEffect
  <2>2. "featured" \in About(q.op)
    BY <1>5 DEF About, Remedies
  <2> HIDE DEF x
  <2> QED
    BY <2>1, <2>2, FieldKeeps
<1>6. CASE q.op = "unfeature"
  <2> DEFINE x == q.op = "feature"
  <2>1. BotsEffect(q, d) = [d EXCEPT ![q.id].featured = x]
    BY <1>6, SMT DEF BotsEffect
  <2>2. "featured" \in About(q.op)
    BY <1>6 DEF About, Remedies
  <2> HIDE DEF x
  <2> QED
    BY <2>1, <2>2, FieldKeeps
<1>7. CASE q.op = "moderator"
  <2> DEFINE x == q.op = "moderator"
  <2>1. BotsEffect(q, d) = [d EXCEPT ![q.id].moderator = x]
    BY <1>7, SMT DEF BotsEffect
  <2>2. "moderator" \in About(q.op)
    BY <1>7 DEF About, Remedies
  <2> HIDE DEF x
  <2> QED
    BY <2>1, <2>2, FieldKeeps
<1>8. CASE q.op = "unmoderator"
  <2> DEFINE x == q.op = "moderator"
  <2>1. BotsEffect(q, d) = [d EXCEPT ![q.id].moderator = x]
    BY <1>8, SMT DEF BotsEffect
  <2>2. "moderator" \in About(q.op)
    BY <1>8 DEF About, Remedies
  <2> HIDE DEF x
  <2> QED
    BY <2>1, <2>2, FieldKeeps
<1> QED
  BY <1>1, <1>2, <1>3, <1>4, <1>5, <1>6, <1>7, <1>8

LEMMA InvitesKeep ==
  ASSUME NEW d, DOMAIN d = Ids, NEW q, NEW saw, StepMeant("invites", q, saw), q.op \notin Rowless
  PROVE  Keeps(d, InvitesEffect(q, d), q, saw)
<1>1. q.op \in {"create", "delete", "look"}
  BY DEF StepMeant
<1>2. CASE q.op = "create"
  <2>1. InvitesEffect(q, d) = [d EXCEPT ![NewId(d)] = [used |-> 0]]
    BY <1>2, SMT DEF InvitesEffect
  <2>2. q.op \in Whole
    BY <1>2 DEF Whole
  <2> QED
    BY <2>1, <2>2, WholeKeeps, Zenon
<1>3. CASE q.op = "delete"
  <2>1. InvitesEffect(q, d) = [d EXCEPT ![q.id] = None]
    BY <1>3, SMT DEF InvitesEffect
  <2>2. q.op \in Whole
    BY <1>3 DEF Whole
  <2> QED
    BY <2>1, <2>2, WholeKeeps, Zenon
<1>4. CASE q.op = "look"
  <2>1. InvitesEffect(q, d) = d
    BY <1>4, SMT DEF InvitesEffect, Remedies
  <2> QED
    BY <2>1, SameKeeps
<1> QED
  BY <1>1, <1>2, <1>3, <1>4

LEMMA TopicsKeep ==
  ASSUME NEW d, DOMAIN d = Ids, NEW q, NEW saw, StepMeant("topics", q, saw), q.op \notin Rowless
  PROVE  Keeps(d, TopicsEffect(q, d), q, saw)
<1>1. q.op \in {"level", "weight", "feature", "unfeature", "lock", "unlock", "delete"}
  BY DEF StepMeant
<1>2. CASE q.op = "level"
  <2> DEFINE e == [d EXCEPT ![q.id].level = q.val[1], ![q.id].weight = q.val[2]]
  <2>1. TopicsEffect(q, d) = e
    BY <1>2, SMT DEF TopicsEffect
  <2>2. About(q.op) = {"level"} /\ q.val[2] = saw.weight
    BY <1>2 DEF About, Remedies, StepMeant
  <2>3. ASSUME q.id \in Ids, d[q.id] = saw, NEW f \in DOMAIN saw \ {"level"} PROVE e[q.id][f] = saw[f]
    BY <2>2, <2>3
  <2>4. DOMAIN e = DOMAIN d
    OBVIOUS
  <2> HIDE DEF e
  <2> QED
    BY <2>1, <2>2, <2>3, <2>4 DEF Keeps
<1>3. CASE q.op = "weight"
  <2> DEFINE e == [d EXCEPT ![q.id].level = q.val[1], ![q.id].weight = q.val[2]]
  <2>1. TopicsEffect(q, d) = e
    BY <1>3, SMT DEF TopicsEffect
  <2>2. About(q.op) = {"weight"} /\ q.val[1] = saw.level
    BY <1>3 DEF About, Remedies, StepMeant
  <2>3. ASSUME q.id \in Ids, d[q.id] = saw, NEW f \in DOMAIN saw \ {"weight"} PROVE e[q.id][f] = saw[f]
    BY <2>2, <2>3
  <2>4. DOMAIN e = DOMAIN d
    OBVIOUS
  <2> HIDE DEF e
  <2> QED
    BY <2>1, <2>2, <2>3, <2>4 DEF Keeps
<1>4. CASE q.op = "feature"
  <2> DEFINE x == q.op = "feature"
  <2>1. TopicsEffect(q, d) = [d EXCEPT ![q.id].featured = x]
    BY <1>4, SMT DEF TopicsEffect
  <2>2. "featured" \in About(q.op)
    BY <1>4 DEF About, Remedies
  <2> HIDE DEF x
  <2> QED
    BY <2>1, <2>2, FieldKeeps
<1>5. CASE q.op = "unfeature"
  <2> DEFINE x == q.op = "feature"
  <2>1. TopicsEffect(q, d) = [d EXCEPT ![q.id].featured = x]
    BY <1>5, SMT DEF TopicsEffect
  <2>2. "featured" \in About(q.op)
    BY <1>5 DEF About, Remedies
  <2> HIDE DEF x
  <2> QED
    BY <2>1, <2>2, FieldKeeps
<1>6. CASE q.op = "lock"
  <2> DEFINE x == q.op = "lock"
  <2>1. TopicsEffect(q, d) = [d EXCEPT ![q.id].locked = x]
    BY <1>6, SMT DEF TopicsEffect
  <2>2. "locked" \in About(q.op)
    BY <1>6 DEF About, Remedies
  <2> HIDE DEF x
  <2> QED
    BY <2>1, <2>2, FieldKeeps
<1>7. CASE q.op = "unlock"
  <2> DEFINE x == q.op = "lock"
  <2>1. TopicsEffect(q, d) = [d EXCEPT ![q.id].locked = x]
    BY <1>7, SMT DEF TopicsEffect
  <2>2. "locked" \in About(q.op)
    BY <1>7 DEF About, Remedies
  <2> HIDE DEF x
  <2> QED
    BY <2>1, <2>2, FieldKeeps
<1>8. CASE q.op = "delete"
  <2>1. TopicsEffect(q, d) = [d EXCEPT ![q.id] = None]
    BY <1>8, SMT DEF TopicsEffect
  <2>2. q.op \in Whole
    BY <1>8 DEF Whole
  <2> QED
    BY <2>1, <2>2, WholeKeeps, Zenon
<1> QED
  BY <1>1, <1>2, <1>3, <1>4, <1>5, <1>6, <1>7, <1>8

LEMMA AnnouncementsKeep ==
  ASSUME NEW d, DOMAIN d = Ids, NEW q, NEW saw, StepMeant("announcements", q, saw), q.op \notin Rowless
  PROVE  Keeps(d, AnnouncementsEffect(q, d), q, saw)
<1>1. q.op \in {"create", "update", "publish", "unpublish", "delete"}
  BY DEF StepMeant, Whole
<1>2. CASE q.op = "create"
  <2>1. AnnouncementsEffect(q, d) = [d EXCEPT ![NewId(d)] = [text |-> q.val[1], published |-> q.val[2]]]
    BY <1>2, SMT DEF AnnouncementsEffect
  <2>2. q.op \in Whole
    BY <1>2 DEF Whole
  <2> QED
    BY <2>1, <2>2, WholeKeeps, Zenon
<1>3. CASE q.op = "update"
  <2>1. AnnouncementsEffect(q, d) = [d EXCEPT ![q.id] = [text |-> q.val[1], published |-> q.val[2]]]
    BY <1>3, SMT DEF AnnouncementsEffect
  <2>2. q.op \in Whole
    BY <1>3 DEF Whole
  <2> QED
    BY <2>1, <2>2, WholeKeeps, Zenon
<1>4. CASE q.op = "publish"
  <2> DEFINE x == q.op = "publish"
  <2>1. AnnouncementsEffect(q, d) = [d EXCEPT ![q.id].published = x]
    BY <1>4, SMT DEF AnnouncementsEffect
  <2>2. "published" \in About(q.op)
    BY <1>4 DEF About, Remedies
  <2> HIDE DEF x
  <2> QED
    BY <2>1, <2>2, FieldKeeps
<1>5. CASE q.op = "unpublish"
  <2> DEFINE x == q.op = "publish"
  <2>1. AnnouncementsEffect(q, d) = [d EXCEPT ![q.id].published = x]
    BY <1>5, SMT DEF AnnouncementsEffect
  <2>2. "published" \in About(q.op)
    BY <1>5 DEF About, Remedies
  <2> HIDE DEF x
  <2> QED
    BY <2>1, <2>2, FieldKeeps
<1>6. CASE q.op = "delete"
  <2>1. AnnouncementsEffect(q, d) = [d EXCEPT ![q.id] = None]
    BY <1>6, SMT DEF AnnouncementsEffect
  <2>2. q.op \in Whole
    BY <1>6 DEF Whole
  <2> QED
    BY <2>1, <2>2, WholeKeeps, Zenon
<1> QED
  BY <1>1, <1>2, <1>3, <1>4, <1>5, <1>6

LEMMA ReportsKeep ==
  ASSUME NEW d, DOMAIN d = Ids, NEW q, NEW saw, StepMeant("reports", q, saw), q.op \notin Rowless
  PROVE  Keeps(d, ReportsEffect(q, d), q, saw)
<1>1. q.op \in {"resolve", "dismiss"} \cup Remedies
  BY DEF StepMeant
<1>2. CASE q.op = "resolve"
  <2>1. ReportsEffect(q, d) = [d EXCEPT ![q.id].state = "resolved"]
    BY <1>2, SMT DEF ReportsEffect, Remedies
  <2>2. "state" \in About(q.op)
    BY <1>2 DEF About, Remedies
  <2> QED
    BY <2>1, <2>2, FieldKeeps
<1>3. CASE q.op = "dismiss"
  <2>1. ReportsEffect(q, d) = [d EXCEPT ![q.id].state = "dismissed"]
    BY <1>3, SMT DEF ReportsEffect, Remedies
  <2>2. "state" \in About(q.op)
    BY <1>3 DEF About, Remedies
  <2> QED
    BY <2>1, <2>2, FieldKeeps
<1>4. CASE q.op \in Remedies
  <2>1. ReportsEffect(q, d) = d
    BY <1>4, SMT DEF ReportsEffect, Remedies
  <2> QED
    BY <2>1, SameKeeps
<1> QED
  BY <1>1, <1>2, <1>3, <1>4

LEMMA LogsKeep ==
  ASSUME NEW d, DOMAIN d = Ids, NEW q, NEW saw, StepMeant("logs", q, saw), q.op \notin Rowless
  PROVE  Keeps(d, LogsEffect(q, d), q, saw)
<1>1. CASE q.op = "resolve"
  <2>1. LogsEffect(q, d) = [d EXCEPT ![q.id].resolved = TRUE]
    BY <1>1, SMT DEF LogsEffect
  <2>2. "resolved" \in About(q.op)
    BY <1>1 DEF About, Remedies
  <2> QED
    BY <2>1, <2>2, FieldKeeps
<1>2. CASE q.op # "resolve"
  <2>1. LogsEffect(q, d) = d
    BY <1>2, SMT DEF LogsEffect, Remedies
  <2> QED
    BY <2>1, SameKeeps
<1> QED
  BY <1>1, <1>2

LEMMA CreditsKeep ==
  ASSUME NEW d, DOMAIN d = Ids, NEW q, NEW saw, StepMeant("credits", q, saw), q.op \notin Rowless
  PROVE  Keeps(d, CreditsEffect(q, d), q, saw)
<1>1. q.op \in {"create"}
  BY DEF StepMeant
<1>2. CASE q.op = "create"
  <2>1. CreditsEffect(q, d) = [d EXCEPT ![NewId(d)] = [key |-> "k2"]]
    BY <1>2, SMT DEF CreditsEffect
  <2>2. q.op \in Whole
    BY <1>2 DEF Whole
  <2> QED
    BY <2>1, <2>2, WholeKeeps, Zenon
<1> QED
  BY <1>1, <1>2

LEMMA CategoriesKeep ==
  ASSUME NEW d, DOMAIN d = Ids, NEW q, NEW saw, StepMeant("categories", q, saw), q.op \notin Rowless
  PROVE  Keeps(d, CategoriesEffect(q, d), q, saw)
<1>1. q.op \in {"create", "update", "delete", "up", "down"}
  BY DEF StepMeant, Whole
<1>2. CASE q.op = "create"
  <2> DEFINE x == [place |-> 1 + Cardinality(Ids) + NewId(d), name |-> q.val, free |-> TRUE]
  <2>1. CategoriesEffect(q, d) = [d EXCEPT ![NewId(d)] = x]
    BY <1>2, SMT DEF CategoriesEffect
  <2>2. q.op \in Whole
    BY <1>2 DEF Whole
  <2> QED
    BY <2>1, <2>2, WholeKeeps, Zenon
<1>3. CASE q.op = "update"
  <2> DEFINE e == [d EXCEPT ![q.id].name = q.val]
  <2>1. CategoriesEffect(q, d) = e
    BY <1>3, SMT DEF CategoriesEffect
  <2>2. q.op \in Whole /\ DOMAIN e = DOMAIN d
    BY <1>3 DEF Whole
  <2> QED
    BY <2>1, <2>2 DEF Keeps
<1>4. CASE q.op = "delete"
  <2>1. CategoriesEffect(q, d) = [d EXCEPT ![q.id] = None]
    BY <1>4, SMT DEF CategoriesEffect
  <2>2. q.op \in Whole
    BY <1>4 DEF Whole
  <2> QED
    BY <2>1, <2>2, WholeKeeps, Zenon
<1>5. CASE q.op \in {"up", "down"}
  <2>1. PICK n : CategoriesEffect(q, d) = [d EXCEPT ![q.id].place = d[n].place, ![n].place = d[q.id].place]
    <3>1. q.op \notin {"create", "update", "delete"}
      BY <1>5
    <3> DEFINE n == Neighbour(d, q.id, q.op = "up")
    <3>2. CategoriesEffect(q, d) = [d EXCEPT ![q.id].place = d[n].place, ![n].place = d[q.id].place]
      BY <1>5, <3>1, Zenon DEF CategoriesEffect
    <3> HIDE DEF n
    <3> QED
      BY <3>2
  <2> DEFINE x == d[n].place
             y == d[q.id].place
             e == [d EXCEPT ![q.id].place = x, ![n].place = y]
  <2>2. About(q.op) = {"place"}
    BY <1>5 DEF About, Remedies
  <2> HIDE DEF x, y
  <2>3. ASSUME q.id \in Ids, d[q.id] = saw, NEW f \in DOMAIN saw \ {"place"} PROVE e[q.id][f] = saw[f]
    <3> DEFINE e1 == [d EXCEPT ![q.id].place = x]
    <3>1. DOMAIN e1 = Ids /\ f \in DOMAIN e1[q.id] /\ e1[q.id][f] = saw[f]
      BY <2>3
    <3> HIDE DEF e1
    <3>2. [e1 EXCEPT ![n].place = y][q.id][f] = e1[q.id][f]
      <4>1. CASE n = q.id
        BY <2>3, <3>1, <4>1
      <4>2. CASE n # q.id
        BY <2>3, <3>1, <4>2
      <4> QED
        BY <4>1, <4>2
    <3>3. e = [e1 EXCEPT ![n].place = y]
      BY Zenon DEF e1
    <3> QED
      BY <3>1, <3>2, <3>3, Zenon
  <2>4. DOMAIN e = DOMAIN d
    OBVIOUS
  <2>5. CategoriesEffect(q, d) = e
    BY <2>1 DEF x, y
  <2> HIDE DEF e
  <2> QED
    BY <2>2, <2>3, <2>4, <2>5 DEF Keeps
<1> QED
  BY <1>1, <1>2, <1>3, <1>4, <1>5

LEMMA WordsKeep ==
  ASSUME NEW d, DOMAIN d = Ids, WordRows(d), NEW q, NEW saw, StepMeant("words", q, saw),
         q.op \notin Rowless, q.id # None => d[q.id] # None
  PROVE  Keeps(d, WordsEffect(q, d), q, saw) /\ WordRows(WordsEffect(q, d))
<1> DEFINE r == [word |-> q.val[1], on |-> q.val[2]]
<1>1. q.op \in {"create", "update", "delete", "toggle"}
  BY DEF StepMeant, Whole
<1>2. DOMAIN r = {"word", "on"} /\ r.word = q.val[1]
  OBVIOUS
<1>3. CASE q.op \in {"create", "update", "delete"}
  <2>1. PICK i, x : x \in {r, None} /\ WordsEffect(q, d) = [d EXCEPT ![i] = x]
    <3>1. CASE q.op = "create"
      <4>1. WordsEffect(q, d) = [d EXCEPT ![NewId(d)] = r]
        BY <3>1, SMT DEF WordsEffect
      <4> QED
        BY <4>1, Zenon
    <3>2. CASE q.op = "update"
      <4>1. WordsEffect(q, d) = [d EXCEPT ![q.id] = r]
        BY <3>2, SMT DEF WordsEffect
      <4> QED
        BY <4>1, Zenon
    <3>3. CASE q.op = "delete"
      <4>1. WordsEffect(q, d) = [d EXCEPT ![q.id] = None]
        BY <3>3, SMT DEF WordsEffect
      <4> QED
        BY <4>1, Zenon
    <3> QED
      BY <1>3, <3>1, <3>2, <3>3
  <2>2. q.op \in Whole
    BY <1>3 DEF Whole
  <2>3. Keeps(d, WordsEffect(q, d), q, saw)
    BY <2>1, <2>2, WholeKeeps, Zenon
  <2> HIDE DEF r
  <2>4. WordRows(WordsEffect(q, d))
    BY <1>2, <2>1 DEF WordRows
  <2> QED
    BY <2>3, <2>4
<1>4. CASE q.op = "toggle"
  <2>1. WordsEffect(q, d) = [d EXCEPT ![q.id] = r]
    BY <1>4, SMT DEF WordsEffect
  <2>2. About(q.op) = {"on"} /\ q.val[1] = saw.word
    BY <1>4 DEF About, Remedies, StepMeant
  <2> HIDE DEF r
  <2> DEFINE e == [d EXCEPT ![q.id] = r]
  <2>3. ASSUME q.id \in Ids, d[q.id] = saw, NEW f \in DOMAIN saw \ {"on"} PROVE e[q.id][f] = saw[f]
    <3>1. d[q.id] # None
      BY <2>3, IdsAssumption
    <3>2. f = "word"
      BY <2>3, <3>1 DEF WordRows
    <3> QED
      BY <1>2, <2>2, <2>3, <3>2
  <2>4. WordRows(e) /\ DOMAIN e = DOMAIN d
    BY <1>2 DEF WordRows
  <2> HIDE DEF e
  <2> QED
    BY <2>1, <2>2, <2>3, <2>4 DEF Keeps, e
<1> QED
  BY <1>1, <1>3, <1>4

\* Whatever request the server serves.
LEMMA EffectKeeps ==
  ASSUME DOMAIN db = Ids, page = "words" => WordRows(db), NEW q, NEW saw,
         StepMeant(page, q, saw), q.op \notin Rowless, ~Refuses(q)
  PROVE  Keeps(db, Effect(q), q, saw) /\ (page = "words" => WordRows(Effect(q)))
<1>1. CASE page = "users"
  <2>1. Effect(q) = UsersEffect(q, db)
    BY <1>1, Zenon DEF Effect
  <2> QED
    BY <1>1, <2>1, UsersKeep
<1>2. CASE page = "bots"
  <2>1. Effect(q) = BotsEffect(q, db)
    BY <1>2, Zenon DEF Effect
  <2> QED
    BY <1>2, <2>1, BotsKeep
<1>3. CASE page = "invites"
  <2>1. Effect(q) = InvitesEffect(q, db)
    BY <1>3, Zenon DEF Effect
  <2> QED
    BY <1>3, <2>1, InvitesKeep
<1>4. CASE page = "topics"
  <2>1. Effect(q) = TopicsEffect(q, db)
    BY <1>4, Zenon DEF Effect
  <2> QED
    BY <1>4, <2>1, TopicsKeep
<1>5. CASE page = "categories"
  <2>1. Effect(q) = CategoriesEffect(q, db)
    BY <1>5, Zenon DEF Effect
  <2> QED
    BY <1>5, <2>1, CategoriesKeep
<1>6. CASE page = "words"
  <2>1. Effect(q) = WordsEffect(q, db)
    BY <1>6, Zenon DEF Effect
  <2>2. q.id # None => db[q.id] # None
    BY Zenon DEF Refuses, Gone
  <2> QED
    BY <1>6, <2>1, <2>2, WordsKeep
<1>7. CASE page = "announcements"
  <2>1. Effect(q) = AnnouncementsEffect(q, db)
    BY <1>7, Zenon DEF Effect
  <2> QED
    BY <1>7, <2>1, AnnouncementsKeep
<1>8. CASE page = "reports"
  <2>1. Effect(q) = ReportsEffect(q, db)
    BY <1>8, Zenon DEF Effect
  <2> QED
    BY <1>8, <2>1, ReportsKeep
<1>9. CASE page = "logs"
  <2>1. Effect(q) = LogsEffect(q, db)
    BY <1>9, Zenon DEF Effect
  <2> QED
    BY <1>9, <2>1, LogsKeep
<1>10. CASE page = "credits"
  <2>1. Effect(q) = CreditsEffect(q, db)
    BY <1>10, Zenon DEF Effect
  <2> QED
    BY <1>10, <2>1, CreditsKeep
<1>11. CASE page \notin {"users", "bots", "invites", "topics", "categories", "words",
                        "announcements", "reports", "logs", "credits"}
  <2>1. Effect(q) = db
    BY <1>11, Zenon DEF Effect
  <2> QED
    BY <1>11, <2>1, SameKeeps
<1> QED
  BY <1>1, <1>2, <1>3, <1>4, <1>5, <1>6, <1>7, <1>8, <1>9, <1>10, <1>11

-----------------------------------------------------------------------------
(* The remaining steps, and what follows of them together.                 *)

\* The first request of a handler in flight.
LEMMA FirstMeant ==
  ASSUME SInv, NEW a \in Admins, NEW k \in Lanes, runs[a][k] # NoRun
  PROVE  LET q == runs[a][k].steps[1]
         IN  StepMeant(page, q, runs[a][k].saw) /\ q.op # "close"
<1> DEFINE s == runs[a][k].steps
<1>1. Ready(page, s, acted) /\ s # << >>
  BY DEF SInv, IInv, RunsInv, RunOK
<1>2. Tidy(s) /\ \A n \in DOMAIN s : StepMeant(page, s[n], runs[a][k].saw)
  BY DEF SInv, MeantInv, RunMeant
<1> HIDE DEF s
<1>3. 1 \in DOMAIN s
  BY <1>1 DEF Ready
<1>4. s[1].op # "close"
  BY <1>2, <1>3 DEF Tidy
<1> QED
  BY <1>2, <1>3, <1>4 DEF s

LEMMA ServeChangeSound ==
  ASSUME SInv, NEW a \in Admins, NEW k \in Lanes, ServeChange(a, k) PROVE MeantInv' /\ HeldInv'
<1> DEFINE q == runs[a][k].steps[1]
<1>1. /\ runs[a][k] # NoRun /\ q.op # "list" /\ ~Refuses(q) /\ db' = Effect(q)
      /\ mail' = Announce(q, Effect(q))
      /\ \E y : Reply(a, k, y)
      /\ UNCHANGED <<page, tab, presses>>
  BY Zenon DEF ServeChange
<1>2. StepMeant(page, q, runs[a][k].saw) /\ q.op # "close"
  BY <1>1, FirstMeant
<1>3. DOMAIN db = Ids /\ (page = "words" => WordRows(db))
  BY DEF SInv, MeantInv, RowsOK
<1> HIDE DEF q
<1>4. RowsOK(page, db')
  <2>1. q.op \notin Rowless
    BY <1>1, <1>2 DEF Rowless
  <2>2. Keeps(db, Effect(q), q, runs[a][k].saw) /\ (page = "words" => WordRows(Effect(q)))
    BY <1>1, <1>2, <1>3, <2>1, EffectKeeps
  <2> QED
    BY <1>1, <1>3, <2>2 DEF RowsOK, Keeps
<1>5. page \notin Pushed => \A b \in Admins : mail'[b] = << >>
  <2> SUFFICES ASSUME page \notin Pushed PROVE \A b \in Admins : mail'[b] = << >>
    OBVIOUS
  <2>1. mail' = mail
    BY <1>1 DEF Announce, Pushed
  <2> QED
    BY <2>1 DEF SInv, HeldInv
<1> QED
  BY <1>1, <1>4, <1>5, SoundAnswered

\* What a page shows after an answer: its busy slot is not touched.
LEMMA ShownScreen ==
  ASSUME NEW v, ScreenOK(v), NEW q, NEW y
  PROVE  LET w == Shown(v, q, y)
         IN  /\ ScreenOK(w) /\ w.busy = v.busy
             /\ w.draft = v.draft \/ (q.op = "look" /\ w.draft = q.id)
<1> DEFINE z == Shown(v, q, y)
<1>1. CASE q.op = "list" /\ y.ok
  <2> DEFINE e == IF ClearsFirst THEN v.error ELSE FALSE
             v1 == [v EXCEPT !.rows = y.rows]
             v2 == [v1 EXCEPT !.loaded = TRUE]
             v3 == [v2 EXCEPT !.count = y.count]
             v4 == [v3 EXCEPT !.error = e]
  <2>1. ScreenOK(v1) /\ v1.busy = v.busy /\ v1.draft = v.draft
    BY ScreenWith
  <2>2. ScreenOK(v2) /\ v2.busy = v.busy /\ v2.draft = v.draft
    <3> HIDE DEF v1
    <3>1. ScreenOK(v2) /\ v2.busy = v1.busy /\ v2.draft = v1.draft
      BY <2>1, ScreenWith
    <3> QED
      BY <2>1, <3>1
  <2>3. ScreenOK(v3) /\ v3.busy = v.busy /\ v3.draft = v.draft
    <3> HIDE DEF v2
    <3>1. ScreenOK(v3) /\ v3.busy = v2.busy /\ v3.draft = v2.draft
      BY <2>2, ScreenWith
    <3> QED
      BY <2>2, <3>1
  <2>4. ScreenOK(v4) /\ v4.busy = v.busy /\ v4.draft = v.draft
    <3>1. e \in BOOLEAN
      BY ScreenTyped, Zenon
    <3> HIDE DEF v3, e
    <3>2. ScreenOK(v4) /\ v4.busy = v3.busy /\ v4.draft = v3.draft
      BY <2>3, <3>1, ScreenWith
    <3> QED
      BY <2>3, <3>2
  <2>5. z = v4
    <3>1. z = [v EXCEPT !.rows = y.rows, !.loaded = TRUE, !.count = y.count,
                        !.error = IF ClearsFirst THEN @ ELSE FALSE]
      BY <1>1, Zenon DEF Shown
    <3> QED
      BY <3>1
  <2> HIDE DEF v4, z
  <2> QED
    BY <2>4, <2>5 DEF z
<1>2. CASE q.op = "list" /\ ~y.ok
  <2> DEFINE x == IF page = "anon" THEN AnonSearchFailed(v.rows) ELSE v.rows
             v1 == [v EXCEPT !.error = TRUE]
             v2 == [v1 EXCEPT !.rows = x]
  <2>1. ScreenOK(v1) /\ v1.busy = v.busy /\ v1.draft = v.draft
    <3>1. TRUE \in BOOLEAN
      OBVIOUS
    <3> QED
      BY <3>1, ScreenWith
  <2>2. ScreenOK(v2) /\ v2.busy = v.busy /\ v2.draft = v.draft
    <3> HIDE DEF v1, x
    <3>1. ScreenOK(v2) /\ v2.busy = v1.busy /\ v2.draft = v1.draft
      BY <2>1, ScreenWith
    <3> QED
      BY <2>1, <3>1
  <2>3. z = v2
    <3>1. z = [v EXCEPT !.error = TRUE, !.rows = IF page = "anon" THEN AnonSearchFailed(@) ELSE @]
      BY <1>2, Zenon DEF Shown
    <3> QED
      BY <3>1
  <2> HIDE DEF v2, z
  <2> QED
    BY <2>2, <2>3 DEF z
<1>3. CASE q.op = "score" /\ y.ok
  <2> DEFINE x == PatchScore(v.rows, q.id, y.row)
  <2>1. z = [v EXCEPT !.rows = x]
    <3>1. ~(q.op = "list" /\ y.ok) /\ ~(q.op = "list" /\ ~y.ok)
      BY <1>3
    <3>2. z = [v EXCEPT !.rows = PatchScore(@, q.id, y.row)]
      BY <1>3, <3>1, Zenon DEF Shown
    <3> HIDE DEF x, z
    <3> QED
      BY <3>2 DEF x
  <2> HIDE DEF x, z
  <2>2. ScreenOK(z) /\ z.busy = v.busy /\ z.draft = v.draft
    BY <2>1, ScreenWith
  <2> QED
    BY <2>2 DEF z
<1>4. CASE q.op # "list" /\ ~(q.op = "score" /\ y.ok)
  <2> DEFINE d == Looked(v, q, y)
             e == IF y.ok \/ (page = "invites" /\ q.op = "look") THEN v.error ELSE TRUE
             v1 == [v EXCEPT !.draft = d]
             v2 == [v1 EXCEPT !.error = e]
  <2>1. ScreenOK(v1) /\ v1.busy = v.busy /\ v1.draft = d
    <3> HIDE DEF d
    <3> QED
      BY ScreenDraft
  <2>2. ScreenOK(v2) /\ v2.busy = v.busy /\ v2.draft = d
    <3>1. e \in BOOLEAN
      BY ScreenTyped, Zenon
    <3> HIDE DEF v1, e, d
    <3>2. ScreenOK(v2) /\ v2.busy = v1.busy /\ v2.draft = v1.draft
      BY <2>1, <3>1, ScreenWith
    <3> QED
      BY <2>1, <3>2
  <2>3. d = v.draft \/ (q.op = "look" /\ d = q.id)
    BY DEF Looked
  <2>4. z = v2
    <3>1. z = [v EXCEPT !.draft = Looked(v, q, y),
                        !.error = IF y.ok \/ (page = "invites" /\ q.op = "look") THEN @ ELSE TRUE]
      BY <1>4, Zenon DEF Shown
    <3> HIDE DEF z
    <3> QED
      BY <3>1
  <2> HIDE DEF v2, z, d
  <2> QED
    BY <2>2, <2>3, <2>4 DEF z
<1> QED
  BY <1>1, <1>2, <1>3, <1>4

\* The rest of a tidy handler after an answer, an editor's closing skipped.
LEMMA RestTidy ==
  ASSUME NEW S, NEW steps \in Seq(S), steps # << >>, Tidy(steps), NEW y
  PROVE  LET left == Rest(steps, y)
             next == IF Closing(left) THEN Tail(left) ELSE left
         IN  /\ Tidy(next)
             /\ \A n \in DOMAIN next : \E m \in DOMAIN steps : next[n] = steps[m]
<1> DEFINE left == Rest(steps, y)
           next == IF Closing(left) THEN Tail(left) ELSE left
<1>1. CASE left = << >>
  <2>1. next = << >>
    BY <1>1 DEF Closing
  <2> HIDE DEF next
  <2>2. DOMAIN next = {}
    BY <2>1
  <2> QED
    BY <2>2 DEF Tidy, next
<1>2. CASE left # << >>
  <2>1. left = Tail(steps)
    BY <1>2 DEF Rest
  <2>2. /\ Len(steps) \in Nat \ {0} /\ DOMAIN steps = 1..Len(steps)
        /\ left \in Seq(S) /\ Len(left) = Len(steps) - 1
        /\ DOMAIN left = 1..(Len(steps) - 1) /\ \A n \in DOMAIN left : left[n] = steps[n + 1]
    BY <2>1
  <2>3. 1 \in DOMAIN left
    BY <1>2, <2>2
  <2> HIDE DEF left
  <2>4. CASE left[1].op = "close"
    <3>1. next = Tail(left)
      BY <1>2, <2>4 DEF Closing
    <3> HIDE DEF next
    <3>2. /\ DOMAIN next = 1..(Len(steps) - 2)
          /\ \A n \in DOMAIN next : next[n] = left[n + 1] /\ n + 1 \in DOMAIN left
      <4>1. left \in Seq(S) /\ left # << >>
        BY <1>2, <2>2
      <4>2. /\ next \in Seq(S) /\ DOMAIN next = 1..(Len(left) - 1)
            /\ \A n \in 1..(Len(left) - 1) : next[n] = left[n + 1]
        BY <3>1, <4>1
      <4> QED
        BY <2>2, <4>2
    <3>3. \A n \in DOMAIN next : n \in Nat \ {0} /\ n + 2 \in DOMAIN steps /\ next[n] = steps[n + 2]
      BY <2>2, <3>2
    <3>4. 2 \in DOMAIN steps /\ steps[2].op = "close"
      BY <2>2, <2>3, <2>4
    <3>5. Tidy(next)
      <4> SUFFICES ASSUME NEW n \in DOMAIN next, next[n].op = "close"
                   PROVE  n # 1 /\ (n + 1 \in DOMAIN next => next[n + 1].op # "close")
        BY DEF Tidy
      <4>1. n # 1
        <5>1. 2 + 1 \in DOMAIN steps => steps[2 + 1].op # "close"
          BY <3>4 DEF Tidy
        <5> QED
          BY <3>3, <5>1
      <4>2. n + 1 \in DOMAIN next => next[n + 1].op # "close"
        <5>1. SUFFICES ASSUME n + 1 \in DOMAIN next PROVE next[n + 1].op # "close"
          OBVIOUS
        <5>2. next[n + 1] = steps[(n + 2) + 1] /\ (n + 2) + 1 \in DOMAIN steps /\ steps[n + 2].op = "close"
          BY <3>3, <5>1
        <5> QED
          BY <3>3, <5>2 DEF Tidy
      <4> QED
        BY <4>1, <4>2
    <3> QED
      BY <3>3, <3>5 DEF next, left
  <2>5. CASE left[1].op # "close"
    <3>1. next = left
      BY <2>5 DEF Closing
    <3> HIDE DEF next
    <3>2. \A n \in DOMAIN left : n \in Nat \ {0} /\ n + 1 \in DOMAIN steps /\ left[n] = steps[n + 1]
      BY <2>2
    <3>3. Tidy(left)
      <4> SUFFICES ASSUME NEW n \in DOMAIN left, left[n].op = "close"
                   PROVE  n # 1 /\ (n + 1 \in DOMAIN left => left[n + 1].op # "close")
        BY DEF Tidy
      <4>1. n # 1
        BY <2>5
      <4>2. n + 1 \in DOMAIN left => left[n + 1].op # "close"
        <5>1. SUFFICES ASSUME n + 1 \in DOMAIN left PROVE left[n + 1].op # "close"
          OBVIOUS
        <5>2. left[n + 1] = steps[(n + 1) + 1] /\ (n + 1) + 1 \in DOMAIN steps /\ steps[n + 1].op = "close"
          BY <3>2, <5>1
        <5> QED
          BY <3>2, <5>2 DEF Tidy
      <4> QED
        BY <4>1, <4>2
    <3> QED
      BY <3>1, <3>2, <3>3 DEF next, left
  <2> QED
    BY <2>4, <2>5
<1> QED
  BY <1>1, <1>2

LEMMA ResumeSound ==
  ASSUME SInv, NEW a \in Admins, NEW k \in Lanes, Resume(a, k) PROVE MeantInv' /\ HeldInv'
<1> DEFINE r == runs[a][k]
           left == Rest(r.steps, r.reply)
           next == IF Closing(left) THEN Tail(left) ELSE left
           v == Shown(tab[a], r.steps[1], r.reply)
           w == [v EXCEPT !.draft = IF Closing(left) THEN None ELSE @,
                          !.busy = IF Freed(r, next) THEN None ELSE @]
           new == IF next = << >> THEN NoRun ELSE [r EXCEPT !.steps = next, !.reply = None]
<1>1. /\ r # NoRun
      /\ tab' = [tab EXCEPT ![a] = w]
      /\ runs' = [runs EXCEPT ![a][k] = new]
      /\ UNCHANGED <<page, db, mail, presses>>
  BY Zenon DEF Resume, shared
<1>2. /\ \E s, l, f, x, y : r = [steps |-> s, slot |-> l, filter |-> f, saw |-> x, reply |-> y]
      /\ r.steps # << >> /\ \E S : r.steps \in Seq(S)
  <2>1. RunOK(page, r, acted)
    BY DEF SInv, IInv, RunsInv
  <2> HIDE DEF r
  <2> QED
    BY <1>1, <2>1 DEF RunOK, Ready
<1>3. r.slot \in Slots /\ Tidy(r.steps) /\ \A n \in DOMAIN r.steps : StepMeant(page, r.steps[n], r.saw)
  BY <1>1 DEF SInv, MeantInv, RunMeant
<1>4. StepMeant(page, r.steps[1], r.saw)
  BY <1>1, FirstMeant
<1>5. ScreenOK(tab[a]) /\ DraftMeant(page, tab[a].draft)
  BY DEF SInv, MeantInv, HeldInv
<1> HIDE DEF r
<1>6. Tidy(next) /\ \A n \in DOMAIN next : StepMeant(page, next[n], r.saw)
  <2>1. PICK S : r.steps \in Seq(S)
    BY <1>2
  <2>2. Tidy(next) /\ \A n \in DOMAIN next : \E m \in DOMAIN r.steps : next[n] = r.steps[m]
    BY <1>2, <1>3, <2>1, RestTidy
  <2> HIDE DEF next
  <2> QED
    BY <1>3, <2>2
<1>7. ScreenOK(v) /\ v.busy = tab[a].busy /\ DraftMeant(page, v.draft)
  <2>1. /\ ScreenOK(v) /\ v.busy = tab[a].busy
        /\ v.draft = tab[a].draft \/ (r.steps[1].op = "look" /\ v.draft = r.steps[1].id)
    <3> DEFINE u == tab[a]
               q == r.steps[1]
               y == r.reply
    <3>1. v = Shown(u, q, y) /\ ScreenOK(u)
      BY <1>5
    <3> HIDE DEF u, q, y, v
    <3>2. /\ ScreenOK(v) /\ v.busy = u.busy
          /\ v.draft = u.draft \/ (q.op = "look" /\ v.draft = q.id)
      BY <3>1, ShownScreen
    <3> QED
      BY <3>2 DEF u, q
  <2>2. r.steps[1].op = "look" => page \notin {"categories", "words", "announcements"}
    BY <1>4 DEF StepMeant, Whole, Rowless
  <2> HIDE DEF v
  <2> QED
    BY <1>5, <2>1, <2>2 DEF DraftMeant
<1> HIDE DEF left, v, next
<1>8. /\ ScreenOK(w) /\ DraftMeant(page, w.draft)
      /\ w.busy = IF Freed(r, next) THEN None ELSE tab[a].busy
  <2> DEFINE d == IF Closing(left) THEN None ELSE v.draft
             b == IF Freed(r, next) THEN None ELSE tab[a].busy
             v1 == [v EXCEPT !.draft = d]
             v2 == [v1 EXCEPT !.busy = b]
  <2>1. DraftMeant(page, d)
    BY <1>7 DEF DraftMeant
  <2>2. b \in Slots
    <3>1. tab[a].busy \in Slots
      BY <1>5, ScreenTyped
    <3> QED
      BY <3>1 DEF Slots
  <2> HIDE DEF d, b
  <2>3. ScreenOK(v1) /\ v1.busy = v.busy /\ v1.draft = d
    BY <1>7, ScreenDraft
  <2>4. ScreenOK(v2) /\ v2.busy = b /\ v2.draft = d
    <3> HIDE DEF v1
    <3>1. ScreenOK(v2) /\ v2.busy = b /\ v2.draft = v1.draft
      BY <2>2, <2>3, ScreenBusy
    <3> QED
      BY <2>3, <3>1
  <2>5. w = v2
    <3>1. w = [v1 EXCEPT !.busy = IF Freed(r, next) THEN None ELSE @]
      BY Zenon DEF d
    <3>2. v1.busy = tab[a].busy
      BY <1>7, <2>3
    <3> HIDE DEF v1, w
    <3>3. w = [v1 EXCEPT !.busy = IF Freed(r, next) THEN None ELSE v1.busy]
      BY <3>1
    <3> QED
      BY <3>2, <3>3 DEF b
  <2> HIDE DEF w, v2
  <2> QED
    BY <2>1, <2>4, <2>5 DEF b
<1> HIDE DEF w
<1>9. /\ RunMeant(page, new)
      /\ next # << >> => new # NoRun /\ new.slot = r.slot
  <2>1. CASE next = << >>
    BY <2>1 DEF RunMeant
  <2>2. CASE next # << >>
    <3> DEFINE n1 == [r EXCEPT !.steps = next]
               n == [n1 EXCEPT !.reply = None]
    <3>1. PICK s, l, f, x, y : r = [steps |-> s, slot |-> l, filter |-> f, saw |-> x, reply |-> y]
      BY <1>2
    <3>2. n1 = [steps |-> next, slot |-> l, filter |-> f, saw |-> x, reply |-> y]
      BY <3>1
    <3>3. n = [steps |-> next, slot |-> l, filter |-> f, saw |-> x, reply |-> None]
      <4> HIDE DEF n1
      <4> QED
        BY <3>2
    <3>4. new = n
      BY <2>2, Zenon
    <3> HIDE DEF n, new
    <3>5. new.steps = next /\ new.slot = r.slot /\ new.saw = r.saw
      BY <3>1, <3>3, <3>4
    <3>6. NoRun.steps = << >>
      BY DEF NoRun
    <3> QED
      BY <1>3, <1>6, <2>2, <3>5, <3>6 DEF RunMeant
  <2> QED
    BY <2>1, <2>2
<1> HIDE DEF new
<1>10. \/ w.busy = None
       \/ /\ w.busy = tab[a].busy
          /\ runs[a][k] # NoRun /\ runs[a][k].slot # None => new # NoRun /\ new.slot # None
  BY <1>8, <1>9 DEF Freed, r
<1>11. presses' \in 0..MaxPresses /\ RowsOK(page, db') /\ (page \notin Pushed => \A b \in Admins : mail'[b] = << >>)
  BY <1>1 DEF SInv, MeantInv, HeldInv
<1> QED
  BY <1>1, <1>8, <1>9, <1>10, <1>11, SoundPlaced

\* What a page shows after an event: its busy slot is not touched.
LEMMA AppliedScreen ==
  ASSUME NEW v, ScreenOK(v), page \in Pushed, NEW e
  PROVE  ScreenOK(Applied(v, e)) /\ Applied(v, e).busy = v.busy
<1>1. CASE page = "reports" /\ e.kind = "created"
  <2> DEFINE i == e.id
             v1 == [v EXCEPT !.count = IF v.loaded THEN @ + 1 ELSE @]
             v2 == [v1 EXCEPT !.rows = IF v.loaded /\ v.filter \in {"all", "pending"} /\ @[i] = None
                                       THEN [@ EXCEPT ![i] = e.row] ELSE @]
  <2>1. ScreenOK(v1) /\ v1.busy = v.busy
    BY ScreenWith
  <2>2. ScreenOK(v2) /\ v2.busy = v.busy
    <3> HIDE DEF v1
    <3>1. ScreenOK(v2) /\ v2.busy = v1.busy
      BY <2>1, ScreenWith
    <3> QED
      BY <2>1, <3>1
  <2>3. Applied(v, e) = ApplyCreated(v, e.id, e.row)
    BY <1>1, Zenon DEF Applied
  <2>4. ApplyCreated(v, e.id, e.row) = v2
    BY Zenon DEF ApplyCreated
  <2> HIDE DEF v2
  <2> QED
    BY <2>2, <2>3, <2>4
<1>2. CASE page = "reports" /\ e.kind # "created"
  <2> DEFINE i == e.id
             r == e.row
             v1 == [v EXCEPT !.count = IF v.loaded /\ @ > 0 THEN @ - 1 ELSE @]
             v2 == [v1 EXCEPT !.draft = IF @ # None /\ @.id = i THEN None ELSE @]
             v3 == [v2 EXCEPT !.rows = IF ~v.loaded THEN @
                       ELSE [@ EXCEPT ![i] = IF v.filter \in {"all", r.state} THEN r ELSE None]]
  <2>1. ScreenOK(v1) /\ v1.busy = v.busy
    BY ScreenWith
  <2>2. ScreenOK(v2) /\ v2.busy = v.busy
    <3> HIDE DEF v1
    <3>1. ScreenOK(v2) /\ v2.busy = v1.busy
      BY <2>1, ScreenDraft
    <3> QED
      BY <2>1, <3>1
  <2>3. ScreenOK(v3) /\ v3.busy = v.busy
    <3> HIDE DEF v2
    <3>1. ScreenOK(v3) /\ v3.busy = v2.busy
      BY <2>2, ScreenWith
    <3> QED
      BY <2>2, <3>1
  <2>4. Applied(v, e) = ApplyResolved(v, e.id, e.row)
    BY <1>2, Zenon DEF Applied
  <2>5. ApplyResolved(v, e.id, e.row) = v3
    BY Zenon DEF ApplyResolved
  <2> HIDE DEF v3
  <2> QED
    BY <2>3, <2>4, <2>5
<1>3. CASE page = "logs"
  <2> DEFINE i == e.id
             r == e.row
             v1 == [v EXCEPT !.count = @ + 1]
             v2 == [v1 EXCEPT !.rows = IF v.loaded /\ v.filter \in {"all", r.verdict} /\ @[i] = None
                                       THEN [@ EXCEPT ![i] = r] ELSE @]
  <2>1. ScreenOK(v1) /\ v1.busy = v.busy
    BY ScreenWith
  <2>2. ScreenOK(v2) /\ v2.busy = v.busy
    <3> HIDE DEF v1
    <3>1. ScreenOK(v2) /\ v2.busy = v1.busy
      BY <2>1, ScreenWith
    <3> QED
      BY <2>1, <3>1
  <2>3. Applied(v, e) = HandleIncoming(v, e.id, e.row)
    BY <1>3, Zenon DEF Applied
  <2>4. HandleIncoming(v, e.id, e.row) = v2
    BY Zenon DEF HandleIncoming
  <2> HIDE DEF v2
  <2> QED
    BY <2>2, <2>3, <2>4
<1>4. CASE page = "dashboard"
  <2> DEFINE i == e.id
             r == e.row
             v1 == [v EXCEPT !.count = @ + 1]
             v2 == [v1 EXCEPT !.rows = [j \in Ids |-> IF j = i THEN r ELSE None]]
  <2>1. ScreenOK(v1) /\ v1.busy = v.busy
    BY ScreenWith
  <2>2. ScreenOK(v2) /\ v2.busy = v.busy
    <3> HIDE DEF v1
    <3>1. ScreenOK(v2) /\ v2.busy = v1.busy
      BY <2>1, ScreenWith
    <3> QED
      BY <2>1, <3>1
  <2>3. Applied(v, e) = BotCallFailed(v, e.id, e.row)
    BY <1>4, Zenon DEF Applied
  <2>4. BotCallFailed(v, e.id, e.row) = IF ~v.loaded THEN v ELSE v2
    BY Zenon DEF BotCallFailed
  <2> HIDE DEF v2
  <2> QED
    BY <2>2, <2>3, <2>4
<1> QED
  BY <1>1, <1>2, <1>3, <1>4 DEF Pushed

LEMMA DeliverSound == ASSUME SInv, NEW a \in Admins, Deliver(a) PROVE MeantInv' /\ HeldInv'
<1>1. mail[a] # << >> /\ UNCHANGED <<page, db, runs, presses>>
  BY DEF Deliver, shared
<1> DEFINE w == Applied(tab[a], Head(mail[a]))
<1>2. tab' = [tab EXCEPT ![a] = w]
  BY Zenon DEF Deliver
<1>3. page \in Pushed
  BY <1>1 DEF SInv, HeldInv
<1>4. ScreenOK(w) /\ w.busy = tab[a].busy
  BY <1>3, AppliedScreen DEF SInv, HeldInv
<1> HIDE DEF w
<1>5. DraftMeant(page, w.draft)
  BY <1>3 DEF Pushed, DraftMeant
<1> QED
  BY <1>1, <1>2, <1>3, <1>4, <1>5, SoundScreen

LEMMA ArriveSound == ASSUME SInv, Arrive \/ Elsewhere PROVE MeantInv' /\ HeldInv'
<1>1. DOMAIN db = Ids
  BY DEF SInv, MeantInv, RowsOK
<1>2. CASE Arrive
  <2>1. UNCHANGED <<page, tab, runs, presses>>
    BY <1>2 DEF Arrive
  <2>2. DOMAIN db' = Ids /\ page # "words"
    BY <1>1, <1>2 DEF Arrive
  <2>3. page \notin Pushed => mail' = mail
    BY <1>2 DEF Arrive, Pushed
  <2>4. RowsOK(page, db') /\ (page \notin Pushed => \A b \in Admins : mail'[b] = << >>)
    BY <2>2, <2>3 DEF RowsOK, SInv, HeldInv
  <2> QED
    BY <2>1, <2>4, SoundApart
<1>3. CASE Elsewhere
  <2>1. UNCHANGED <<page, tab, runs, presses>>
    BY <1>3 DEF Elsewhere
  <2>2. DOMAIN db' = Ids /\ page = "reports"
    BY <1>1, <1>3 DEF Elsewhere
  <2>3. RowsOK(page, db') /\ (page \notin Pushed => \A b \in Admins : mail'[b] = << >>)
    BY <2>2 DEF RowsOK, Pushed
  <2> QED
    BY <2>1, <2>3, SoundApart
<1> QED
  BY <1>2, <1>3

LEMMA SoundNext == ASSUME SInv, [Next]_vars PROVE SInv'
<1>1. users \subseteq Admins
  BY DEF SInv, IInv, DoneInv
<1>2. IInv'
  BY NextOK DEF SInv
<1>3. MeantInv' /\ HeldInv'
  <2>1. ASSUME NEW a \in users, Press(a) PROVE MeantInv' /\ HeldInv'
    BY <1>1, <2>1, PressSound
  <2>2. ASSUME NEW a \in users, SetFilter(a) PROVE MeantInv' /\ HeldInv'
    BY <1>1, <2>2, SetFilterSound
  <2>3. ASSUME NEW a \in users, Draft(a) PROVE MeantInv' /\ HeldInv'
    BY <1>1, <2>3, DraftSound
  <2>4. ASSUME NEW a \in users, Deliver(a) PROVE MeantInv' /\ HeldInv'
    BY <1>1, <2>4, DeliverSound
  <2>5. ASSUME NEW a \in users, Disconnect(a) PROVE MeantInv' /\ HeldInv'
    <3>1. UNCHANGED <<page, db, tab, runs, presses>> /\ mail' = [mail EXCEPT ![a] = << >>] /\ mail[a] # << >>
      BY <2>5 DEF Disconnect, shared
    <3>2. RowsOK(page, db') /\ page \in Pushed
      BY <1>1, <3>1 DEF SInv, MeantInv, HeldInv
    <3> QED
      BY <3>1, <3>2, SoundApart
  <2>6. ASSUME NEW a \in users, NEW k \in Lanes, ServeList(a, k) \/ Fail(a, k) \/ Refuse(a, k)
        PROVE  MeantInv' /\ HeldInv'
    BY <1>1, <2>6, AnswersSound
  <2>7. ASSUME NEW a \in users, NEW k \in Lanes, ServeChange(a, k) PROVE MeantInv' /\ HeldInv'
    BY <1>1, <2>7, ServeChangeSound
  <2>8. ASSUME NEW a \in users, NEW k \in Lanes, Resume(a, k) PROVE MeantInv' /\ HeldInv'
    BY <1>1, <2>8, ResumeSound
  <2>9. CASE Arrive \/ Elsewhere
    BY <2>9, ArriveSound
  <2>10. CASE UNCHANGED vars
    <3>1. UNCHANGED <<page, db, tab, runs, mail, presses>>
      BY <2>10 DEF vars
    <3>2. RowsOK(page, db') /\ (page \notin Pushed => \A b \in Admins : mail'[b] = << >>)
      BY <3>1 DEF SInv, MeantInv, HeldInv
    <3> QED
      BY <3>1, <3>2, SoundApart
  <2> QED
    BY <2>1, <2>2, <2>3, <2>4, <2>5, <2>6, <2>7, <2>8, <2>9, <2>10 DEF Next
<1> QED
  BY <1>2, <1>3 DEF SInv

LEMMA SoundIsSound == SInv => ScreensSound
<1> SUFFICES ASSUME SInv PROVE ScreensSound
  OBVIOUS
<1>1. ASSUME NEW a \in Admins PROVE tab[a].busy \in Slots /\ tab[a].error \in BOOLEAN /\ tab[a].loaded \in BOOLEAN
  BY ScreenTyped DEF SInv, HeldInv
<1>2. ASSUME NEW a \in Admins, NEW k \in Lanes, runs[a][k] # NoRun
      PROVE  runs[a][k].slot \in Slots /\ runs[a][k].steps # << >>
  BY <1>2 DEF SInv, IInv, RunsInv, RunOK, MeantInv, RunMeant
<1> QED
  BY <1>1, <1>2 DEF ScreensSound, TypeOK, Slots, SInv, HeldInv

\* Screens and handlers keep their shapes, and a button that is switched off
\* is held by a handler of its page still under way: every handler frees its
\* slot when it ends, whichever of its requests failed.
THEOREM ScreensSafe == Spec => []ScreensSound
BY SoundInit, SoundNext, SoundIsSound, PTL DEF Spec

-----------------------------------------------------------------------------
(* What a step does to the row a request is about.                         *)

LEMMA MeantStep == ASSUME SInv, [Next]_vars PROVE [OnlyMeantFields]_vars
<1> SUFFICES ASSUME NEW a \in Admins, NEW k \in Lanes,
                    runs[a][k] # NoRun, runs[a][k].reply = None,
                    runs'[a][k] # NoRun, runs'[a][k].reply # None,
                    runs[a][k].steps[1].op \notin Whole, runs[a][k].steps[1].id # None,
                    db[runs[a][k].steps[1].id] = runs[a][k].saw,
                    NEW f \in DOMAIN runs[a][k].saw \ About(runs[a][k].steps[1].op)
             PROVE  db'[runs[a][k].steps[1].id][f] = runs[a][k].saw[f]
  BY DEF OnlyMeantFields, Whole
<1>1. CASE db' = db
  BY <1>1
<1>2. CASE runs' = runs
  BY <1>2
<1>3. ASSUME NEW b \in users, NEW j \in Lanes, ServeChange(b, j)
      PROVE  db'[runs[a][k].steps[1].id][f] = runs[a][k].saw[f]
  <2>1. b \in Admins
    BY DEF SInv, IInv, DoneInv
  <2>2. b = a /\ j = k
    <3>1. PICK y : Reply(b, j, y)
      BY <1>3, Zenon DEF ServeChange
    <3>2. b # a \/ j # k => runs'[a][k] = runs[a][k]
      BY <3>1 DEF Reply, SInv, IInv, RunsInv
    <3> QED
      BY <3>2
  <2> DEFINE q == runs[a][k].steps[1]
             saw == runs[a][k].saw
  <2>3. q.op # "list" /\ ~Refuses(q) /\ db' = Effect(q)
    BY <1>3, <2>2, Zenon DEF ServeChange
  <2>4. StepMeant(page, q, saw) /\ q.op # "close"
    BY FirstMeant
  <2>5. DOMAIN db = Ids /\ (page = "words" => WordRows(db))
    BY DEF SInv, MeantInv, RowsOK
  <2>6. q.id \in Ids
    BY <2>4 DEF StepMeant
  <2> HIDE DEF q, saw
  <2>7. q.op \notin Rowless
    BY <2>3, <2>4 DEF Rowless
  <2>8. Keeps(db, db', q, saw)
    BY <2>3, <2>4, <2>5, <2>7, EffectKeeps
  <2> QED
    BY <2>6, <2>8 DEF Keeps, q, saw
<1>4. ASSUME NEW b \in users, Press(b) \/ SetFilter(b) \/ Draft(b) \/ Deliver(b) \/ Disconnect(b)
      PROVE  db' = db
  BY <1>4 DEF Press, SetFilter, Draft, Deliver, Disconnect, shared
<1>5. ASSUME NEW b \in users, NEW j \in Lanes,
             ServeList(b, j) \/ Fail(b, j) \/ Refuse(b, j) \/ Resume(b, j)
      PROVE  db' = db
  BY <1>5 DEF ServeList, Fail, Refuse, Resume, shared
<1>6. ASSUME Arrive \/ Elsewhere PROVE runs' = runs
  BY <1>6 DEF Arrive, Elsewhere
<1>7. ASSUME UNCHANGED vars PROVE db' = db
  BY <1>7 DEF vars, shared
<1> QED
  BY <1>1, <1>2, <1>3, <1>4, <1>5, <1>6, <1>7 DEF Next

\* A button changes the field it is labelled with and no other of a row that
\* is as it was when the button was pressed: what a request sends along is
\* what the page showed.
THEOREM MeantOnly == Spec => OnlyMeantChanges
<1>1. SInv /\ [Next]_vars => [OnlyMeantFields]_vars
  BY MeantStep
<1> QED
  BY SoundInit, SoundNext, <1>1, PTL DEF Spec, OnlyMeantChanges
-----------------------------------------------------------------------------
(* What a page shows: the handlers in flight.                              *)

\* The last request lists again; after it an editor may close.
EndsListing(steps) ==
  \E n \in DOMAIN steps : steps[n].op = "list" /\ \A m \in DOMAIN steps : m > n => steps[m].op = "close"

\* A handler changes rows and lists again, or only looks, or patches a score.
Shape(p, steps) ==
  /\ \A n \in DOMAIN steps :
        /\ steps[n].op \in {"score", "dismiss"} => steps[n].id \in Ids
        /\ steps[n].op = "score" => p = "users" /\ steps[n].val = -1
  /\ \/ EndsListing(steps)
     \/ DOMAIN steps = 1..1 /\ steps[1].op = "look" /\ p \in {"messages", "invites"}
     \/ DOMAIN steps = 1..1 /\ steps[1].op = "score"

LEMMA ReloadOps == Reload.op = "list" /\ CloseEditor.op = "close"
BY DEF Reload, CloseEditor, Ask

LEMMA ListShapes ==
  ASSUME NEW p, NEW slot, NEW op, NEW i, NEW x, op # "score", op = "dismiss" => i \in Ids
  PROVE  /\ Shape(p, Handler(slot, <<Ask(op, i, x), Reload>>).steps)
         /\ Shape(p, Handler(slot, <<Ask(op, i, x), Reload, CloseEditor>>).steps)
         /\ Shape(p, Handler(slot, <<Ask(op, i, x), CloseEditor, Reload>>).steps)
<1> DEFINE q == Ask(op, i, x)
<1>1. q.op # "score" /\ (q.op = "dismiss" => q.id \in Ids)
  BY DEF Ask
<1> HIDE DEF q
<1>2. \A s : Handler(slot, s).steps = s
  BY DEF Handler
<1>3. Shape(p, <<q, Reload>>)
  <2> DEFINE s == <<q, Reload>>
  <2>1. DOMAIN s = 1..2 /\ s[1] = q /\ s[2] = Reload
    OBVIOUS
  <2> HIDE DEF s
  <2>2. EndsListing(s)
    <3>1. 2 \in DOMAIN s /\ s[2].op = "list" /\ \A m \in DOMAIN s : m > 2 => s[m].op = "close"
      BY <2>1, ReloadOps
    <3> QED
      BY <3>1 DEF EndsListing
  <2>3. Shape(p, s)
    BY <1>1, <2>1, <2>2, ReloadOps DEF Shape
  <2> QED
    BY <2>3 DEF s
<1>4. Shape(p, <<q, Reload, CloseEditor>>)
  <2> DEFINE s == <<q, Reload, CloseEditor>>
  <2>1. DOMAIN s = 1..3 /\ s[1] = q /\ s[2] = Reload /\ s[3] = CloseEditor
    OBVIOUS
  <2> HIDE DEF s
  <2>2. EndsListing(s)
    <3>1. 2 \in DOMAIN s /\ s[2].op = "list" /\ \A m \in DOMAIN s : m > 2 => s[m].op = "close"
      BY <2>1, ReloadOps
    <3> QED
      BY <3>1 DEF EndsListing
  <2>3. Shape(p, s)
    BY <1>1, <2>1, <2>2, ReloadOps DEF Shape
  <2> QED
    BY <2>3 DEF s
<1>5. Shape(p, <<q, CloseEditor, Reload>>)
  <2> DEFINE s == <<q, CloseEditor, Reload>>
  <2>1. DOMAIN s = 1..3 /\ s[1] = q /\ s[2] = CloseEditor /\ s[3] = Reload
    OBVIOUS
  <2> HIDE DEF s
  <2>2. EndsListing(s)
    <3>1. 3 \in DOMAIN s /\ s[3].op = "list" /\ \A m \in DOMAIN s : m > 3 => s[m].op = "close"
      BY <2>1, ReloadOps
    <3> QED
      BY <3>1 DEF EndsListing
  <2>3. Shape(p, s)
    BY <1>1, <2>1, <2>2, ReloadOps DEF Shape
  <2> QED
    BY <2>3 DEF s
<1> QED
  BY <1>2, <1>3, <1>4, <1>5 DEF q

LEMMA LookShape ==
  ASSUME NEW p \in {"messages", "invites"}, NEW slot, NEW i, NEW x
  PROVE  Shape(p, Handler(slot, <<Ask("look", i, x)>>).steps)
<1> DEFINE q == Ask("look", i, x)
           s == <<q>>
<1>1. q.op = "look"
  BY DEF Ask
<1> HIDE DEF q
<1>2. DOMAIN s = 1..1 /\ s[1] = q
  OBVIOUS
<1>3. Handler(slot, s).steps = s
  BY DEF Handler
<1> HIDE DEF s
<1>4. Shape(p, s)
  BY <1>1, <1>2 DEF Shape
<1> QED
  BY <1>3, <1>4 DEF s, q

LEMMA UsersShape ==
  ASSUME NEW v, NEW h \in UsersHandlers(v) PROVE Shape("users", h.steps)
<1>1. ASSUME NEW u \in Ids, h = AdjustCreditScore(u) PROVE Shape("users", h.steps)
  <2> DEFINE q == Ask("score", u, -1)
             s == <<q>>
  <2>1. q.op = "score" /\ q.val = -1 /\ q.id \in Ids
    BY DEF Ask
  <2>2. h.steps = s
    BY <1>1 DEF AdjustCreditScore, Handler
  <2> HIDE DEF q
  <2>3. DOMAIN s = 1..1 /\ s[1] = q
    OBVIOUS
  <2> HIDE DEF s
  <2> QED
    BY <2>1, <2>2, <2>3 DEF Shape
<1>2. ASSUME NEW u, NEW r, h = ToggleBan(u, r) PROVE Shape("users", h.steps)
  <2> DEFINE op == IF r.banned THEN "unban" ELSE "ban"
  <2>1. op \notin {"score", "dismiss"}
    OBVIOUS
  <2>2. h = Handler(u, <<Ask(op, u, None), Reload>>)
    BY <1>2, Zenon DEF ToggleBan
  <2> HIDE DEF op
  <2> QED
    BY <2>1, <2>2, ListShapes
<1> QED
  BY <1>1, <1>2 DEF UsersHandlers, Present

LEMMA BotsShape ==
  ASSUME NEW p, NEW v, NEW h \in BotsHandlers(v) PROVE Shape(p, h.steps)
<1> DEFINE Ops(r) ==
            CASE r.status = "pending" -> {"approve", "reject"}
              [] r.status = "active" -> {IF r.featured THEN "unfeature" ELSE "feature",
                                         IF r.moderator THEN "unmoderator" ELSE "moderator",
                                         "suspend"}
              [] r.status = "suspended" -> {"approve"}
              [] OTHER -> {}
           All == {"approve", "reject", "suspend", "feature", "unfeature", "moderator", "unmoderator"}
<1>1. \A r : Ops(r) \subseteq All
  OBVIOUS
<1>2. h \in UNION {{RunOnBot(b, op) : op \in Ops(v.rows[b])} : b \in Present(v.rows) \ {v.busy}}
  BY Zenon DEF BotsHandlers
<1> HIDE DEF Ops
<1>3. PICK b : h \in {RunOnBot(b, op) : op \in Ops(v.rows[b])}
  BY <1>2
<1>4. PICK op \in All : h = RunOnBot(b, op)
  BY <1>1, <1>3
<1> QED
  BY <1>4, ListShapes DEF RunOnBot

LEMMA InvitesShape ==
  ASSUME NEW v, NEW h \in InvitesHandlers(v) PROVE Shape("invites", h.steps)
<1>1. CASE h = Generate
  BY <1>1, ListShapes DEF Generate
<1>2. ASSUME NEW i, h = RemoveInvite(i) PROVE Shape("invites", h.steps)
  BY <1>2, ListShapes DEF RemoveInvite
<1>3. ASSUME NEW i, h = ToggleUsages(i) PROVE Shape("invites", h.steps)
  BY <1>3, LookShape DEF ToggleUsages
<1> QED
  BY <1>1, <1>2, <1>3 DEF InvitesHandlers

LEMMA TopicsShape ==
  ASSUME NEW p, NEW v, NEW h \in TopicsHandlers(v) PROVE Shape(p, h.steps)
<1>1. \A t, op, x : op \notin {"score", "dismiss"} => Shape(p, RunOnTopic(t, op, x).steps)
  BY ListShapes DEF RunOnTopic
<1>2. PICK t, r : h \in TopicButtons(t, r)
  BY DEF TopicsHandlers
<1>3. ASSUME NEW l, h = SetPinLevel(t, r, l) PROVE Shape(p, h.steps)
  BY <1>1, <1>3 DEF SetPinLevel
<1>4. ASSUME NEW w, h = SetPinWeight(t, r, w) PROVE Shape(p, h.steps)
  BY <1>1, <1>4 DEF SetPinWeight
<1>5. CASE h = ToggleFeature(t, r)
  BY <1>1, <1>5 DEF ToggleFeature
<1>6. CASE h = ToggleLock(t, r)
  BY <1>1, <1>6 DEF ToggleLock
<1>7. CASE h = RemoveTopic(t)
  BY <1>1, <1>7 DEF RemoveTopic
<1> QED
  BY <1>2, <1>3, <1>4, <1>5, <1>6, <1>7 DEF TopicButtons

LEMMA CategoriesShape ==
  ASSUME NEW p, NEW v, NEW h \in CategoriesHandlers(v) PROVE Shape(p, h.steps)
<1>1. ASSUME NEW e, h = SaveCategory(e) PROVE Shape(p, h.steps)
  <2> DEFINE op == IF e.id = None THEN "create" ELSE "update"
  <2>1. op \notin {"score", "dismiss"}
    OBVIOUS
  <2>2. h = Handler(WholePage, <<Ask(op, e.id, e.name), Reload, CloseEditor>>)
    BY <1>1, Zenon DEF SaveCategory
  <2> HIDE DEF op
  <2> QED
    BY <2>1, <2>2, ListShapes
<1>2. ASSUME NEW c, NEW op \in {"up", "down"}, h = MoveCategory(c, op) PROVE Shape(p, h.steps)
  BY <1>2, ListShapes DEF MoveCategory
<1>3. ASSUME NEW c, h = RemoveCategory(c) PROVE Shape(p, h.steps)
  BY <1>3, ListShapes DEF RemoveCategory
<1> QED
  BY <1>1, <1>2, <1>3 DEF CategoriesHandlers

LEMMA WordsShape ==
  ASSUME NEW p, NEW v, NEW h \in WordsHandlers(v) PROVE Shape(p, h.steps)
<1>1. ASSUME NEW e, h = SaveWord(e) PROVE Shape(p, h.steps)
  <2> DEFINE op == IF e.id = None THEN "create" ELSE "update"
  <2>1. op \notin {"score", "dismiss"}
    OBVIOUS
  <2>2. h = Handler(WholePage, <<Ask(op, e.id, <<e.word, e.on>>), CloseEditor, Reload>>)
    BY <1>1, Zenon DEF SaveWord
  <2> HIDE DEF op
  <2> QED
    BY <2>1, <2>2, ListShapes
<1>2. ASSUME NEW w, h = RemoveWord(w) PROVE Shape(p, h.steps)
  BY <1>2, ListShapes DEF RemoveWord
<1>3. ASSUME NEW w, NEW r, h = ToggleEnabled(w, r) PROVE Shape(p, h.steps)
  BY <1>3, ListShapes DEF ToggleEnabled
<1>4. \/ h = SaveWord(v.draft)
      \/ \E w \in Present(v.rows) : h = RemoveWord(w) \/ h = ToggleEnabled(w, v.rows[w])
  BY Zenon DEF WordsHandlers
<1> QED
  BY <1>1, <1>2, <1>3, <1>4

LEMMA AnnouncementsShape ==
  ASSUME NEW p, NEW v, NEW h \in AnnouncementsHandlers(v) PROVE Shape(p, h.steps)
<1>1. ASSUME NEW e, h = SaveAnnouncement(e) PROVE Shape(p, h.steps)
  <2> DEFINE op == IF e.id = None THEN "create" ELSE "update"
  <2>1. op \notin {"score", "dismiss"}
    OBVIOUS
  <2>2. h = Handler(WholePage, <<Ask(op, e.id, <<e.text, e.published>>), CloseEditor, Reload>>)
    BY <1>1, Zenon DEF SaveAnnouncement
  <2> HIDE DEF op
  <2> QED
    BY <2>1, <2>2, ListShapes
<1>2. ASSUME NEW a, h = RemoveAnnouncement(a) PROVE Shape(p, h.steps)
  BY <1>2, ListShapes DEF RemoveAnnouncement
<1>3. ASSUME NEW a, NEW r, h = TogglePublish(a, r) PROVE Shape(p, h.steps)
  <2> DEFINE op == IF r.published THEN "unpublish" ELSE "publish"
  <2>1. op \notin {"score", "dismiss"}
    OBVIOUS
  <2>2. h = Handler(WholePage, <<Ask(op, a, None), Reload>>)
    BY <1>3, Zenon DEF TogglePublish
  <2> HIDE DEF op
  <2> QED
    BY <2>1, <2>2, ListShapes
<1>4. \/ h = SaveAnnouncement(v.draft)
      \/ \E a \in Present(v.rows) : h = TogglePublish(a, v.rows[a]) \/ h = RemoveAnnouncement(a)
  BY Zenon DEF AnnouncementsHandlers
<1> QED
  BY <1>1, <1>2, <1>3, <1>4

LEMMA ReportsShape ==
  ASSUME NEW p, NEW v, DraftOK(v.draft), NEW h \in ReportsHandlers(v) PROVE Shape(p, h.steps)
<1>1. ASSUME NEW i \in Ids, NEW ticks, ticks \subseteq Remedies, h = ConfirmResolve(i, ticks)
      PROVE  Shape(p, h.steps)
  <2> DEFINE y == Ask("resolve", i, ticks)
             s == InOrder(ticks, i)
             S == {Ask(op, i, None) : op \in Remedies} \cup {y, CloseEditor, Reload}
             u == s \o <<y, CloseEditor, Reload>>
  <2>1. Before(s, i, S, ticks)
    <3>1. \A op \in Remedies : Ask(op, i, None) \in S
      OBVIOUS
    <3> HIDE DEF S
    <3> QED
      BY <1>1, <3>1, InOrderBefore
  <2>2. y \in S /\ CloseEditor \in S /\ Reload \in S
    OBVIOUS
  <2>3. h.steps = u
    BY <1>1 DEF ConfirmResolve, Handler
  <2>4. y.op = "resolve"
    BY DEF Ask
  <2> HIDE DEF y, s, S
  <2>5. /\ DOMAIN u = 1..(Len(s) + 3) /\ Len(s) \in Nat /\ DOMAIN s = 1..Len(s)
        /\ \A n \in 1..Len(s) : u[n] = s[n]
        /\ u[Len(s) + 1] = y /\ u[Len(s) + 2] = CloseEditor /\ u[Len(s) + 3] = Reload
    BY <2>1, <2>2 DEF Before
  <2> HIDE DEF u
  <2>6. EndsListing(u)
    <3>1. /\ Len(s) + 3 \in DOMAIN u /\ u[Len(s) + 3].op = "list"
          /\ \A m \in DOMAIN u : m > Len(s) + 3 => u[m].op = "close"
      BY <2>5, ReloadOps
    <3> QED
      BY <3>1 DEF EndsListing
  <2>7. ASSUME NEW n \in DOMAIN u PROVE u[n].op \notin {"score", "dismiss"}
    <3>1. CASE n \in 1..Len(s)
      BY <2>1, <2>5, <3>1 DEF Before, Remedies
    <3>2. CASE n \notin 1..Len(s)
      <4>1. n \in {Len(s) + 1, Len(s) + 2, Len(s) + 3}
        BY <2>5, <3>2
      <4> QED
        BY <2>4, <2>5, <4>1, ReloadOps
    <3> QED
      BY <3>1, <3>2
  <2> QED
    BY <2>3, <2>6, <2>7 DEF Shape
<1>2. ASSUME NEW i \in Ids, h = Dismiss(i) PROVE Shape(p, h.steps)
  BY <1>2, ListShapes DEF Dismiss
<1>3. \E i \in Ids : h = Dismiss(i) \/ (v.draft # None /\ h = ConfirmResolve(i, v.draft.ticks))
  BY DEF ReportsHandlers, Present
<1> QED
  BY <1>1, <1>2, <1>3 DEF DraftOK

LEMMA LogsShape ==
  ASSUME NEW p, NEW v, NEW h \in LogsHandlers(v) PROVE Shape(p, h.steps)
<1>1. ASSUME NEW l, NEW r \in {"deleteTarget", "banTarget"}, h = RunAction(l, r)
      PROVE  Shape(p, h.steps)
  <2> DEFINE x == Ask(r, l, None)
             y == Ask("resolve", l, {r})
             s == <<x, y, Reload>>
  <2>1. h.steps = s
    BY <1>1 DEF RunAction, Handler
  <2>2. x.op \notin {"score", "dismiss"} /\ y.op \notin {"score", "dismiss"}
    BY DEF Ask
  <2> HIDE DEF x, y
  <2>3. DOMAIN s = 1..3 /\ s[1] = x /\ s[2] = y /\ s[3] = Reload
    OBVIOUS
  <2> HIDE DEF s
  <2>4. EndsListing(s)
    <3>1. 3 \in DOMAIN s /\ s[3].op = "list" /\ \A m \in DOMAIN s : m > 3 => s[m].op = "close"
      BY <2>3, ReloadOps
    <3> QED
      BY <3>1 DEF EndsListing
  <2> QED
    BY <2>1, <2>2, <2>3, <2>4, ReloadOps DEF Shape
<1>2. ASSUME NEW l, h = DismissLog(l) PROVE Shape(p, h.steps)
  BY <1>2, ListShapes DEF DismissLog
<1>3. \E l \in Ids : h = DismissLog(l) \/ \E r \in {"deleteTarget", "banTarget"} : h = RunAction(l, r)
  BY DEF LogsHandlers, Present
<1> QED
  BY <1>1, <1>2, <1>3

LEMMA HandlersShape ==
  ASSUME NEW v, page = "reports" => DraftOK(v.draft), NEW h \in Handlers(v)
  PROVE  Shape(page, h.steps)
<1>1. CASE page = "users"
  <2>1. h \in UsersHandlers(v)
    BY <1>1, Zenon DEF Handlers
  <2> QED
    BY <1>1, <2>1, UsersShape
<1>2. CASE page = "bots"
  <2>1. h \in BotsHandlers(v)
    BY <1>2, Zenon DEF Handlers
  <2> QED
    BY <2>1, BotsShape
<1>3. CASE page = "invites"
  <2>1. h \in InvitesHandlers(v)
    BY <1>3, Zenon DEF Handlers
  <2> QED
    BY <1>3, <2>1, InvitesShape
<1>4. CASE page = "topics"
  <2>1. h \in TopicsHandlers(v)
    BY <1>4, Zenon DEF Handlers
  <2> QED
    BY <2>1, TopicsShape
<1>5. CASE page = "categories"
  <2>1. h \in CategoriesHandlers(v)
    BY <1>5, Zenon DEF Handlers
  <2> QED
    BY <2>1, CategoriesShape
<1>6. CASE page = "words"
  <2>1. h \in WordsHandlers(v)
    BY <1>6, Zenon DEF Handlers
  <2> QED
    BY <2>1, WordsShape
<1>7. CASE page = "announcements"
  <2>1. h \in AnnouncementsHandlers(v)
    BY <1>7, Zenon DEF Handlers
  <2> QED
    BY <2>1, AnnouncementsShape
<1>8. CASE page = "reports"
  <2>1. h \in ReportsHandlers(v)
    BY <1>8, Zenon DEF Handlers
  <2> QED
    BY <1>8, <2>1, ReportsShape
<1>9. CASE page = "logs"
  <2>1. h \in LogsHandlers(v)
    BY <1>9, Zenon DEF Handlers
  <2> QED
    BY <2>1, LogsShape
<1>10. CASE page = "messages"
  <2>1. h \in MessagesHandlers(v)
    BY <1>10, Zenon DEF Handlers
  <2>2. PICK c : h = Handler(None, <<Ask("look", c, None)>>)
    BY <2>1 DEF MessagesHandlers, OpenDetail
  <2> QED
    BY <1>10, <2>2, LookShape
<1>11. CASE page = "credits"
  <2>1. h \in CreditsHandlers(v)
    BY <1>11, Zenon DEF Handlers
  <2>2. h = SubmitAdjust(v.draft)
    BY <2>1 DEF CreditsHandlers
  <2> QED
    BY <2>2, ListShapes DEF SubmitAdjust
<1>12. CASE page \notin {"users", "bots", "invites", "topics", "categories", "words",
                        "announcements", "reports", "logs", "messages", "credits"}
  <2>1. Handlers(v) = {}
    BY <1>12, Zenon DEF Handlers
  <2> QED
    BY <2>1
<1> QED
  BY <1>1, <1>2, <1>3, <1>4, <1>5, <1>6, <1>7, <1>8, <1>9, <1>10, <1>11, <1>12

LEMMA ListingShape == Shape(page, Listing.steps) /\ Lists(Listing.steps)
<1> DEFINE s == <<Reload>>
<1>1. PICK x : Listing = Handler(x, s)
  BY Zenon DEF Listing
<1>2. Listing.steps = s
  BY <1>1 DEF Handler
<1>3. DOMAIN s = 1..1 /\ s[1] = Reload
  OBVIOUS
<1> HIDE DEF s
<1>4. EndsListing(s)
  <2>1. 1 \in DOMAIN s /\ s[1].op = "list" /\ \A m \in DOMAIN s : m > 1 => s[m].op = "close"
    BY <1>3, ReloadOps
  <2> QED
    BY <2>1 DEF EndsListing
<1> QED
  BY <1>2, <1>3, <1>4, ReloadOps DEF Shape, Lists, EndsListing

\* The rest of such a handler after its first answer, an editor's closing skipped.
LEMMA RestShape ==
  ASSUME NEW p, NEW S, NEW steps \in Seq(S), steps # << >>, Tidy(steps), Shape(p, steps), NEW y
  PROVE  LET left == Rest(steps, y)
             next == IF Closing(left) THEN Tail(left) ELSE left
         IN  /\ next # << >> => Shape(p, next) /\ Lists(next) /\ Lists(steps)
             /\ y.ok /\ Lists(steps) /\ steps[1].op # "list" => next # << >>
<1> DEFINE left == Rest(steps, y)
           next == IF Closing(left) THEN Tail(left) ELSE left
<1>1. /\ Len(steps) \in Nat \ {0} /\ DOMAIN steps = 1..Len(steps)
  OBVIOUS
<1>2. CASE left = << >>
  <2>1. next = << >>
    BY <1>2 DEF Closing
  <2>2. ASSUME y.ok, Lists(steps), steps[1].op # "list" PROVE FALSE
    <3>1. left = Tail(steps)
      BY <2>2 DEF Rest
    <3>2. Tail(steps) = << >>
      BY <1>2, <3>1
    <3>3. DOMAIN Tail(steps) = 1..(Len(steps) - 1)
      OBVIOUS
    <3>4. 1 \notin 1..(Len(steps) - 1)
      <4> DEFINE e == << >>
      <4>1. 1 \notin DOMAIN e
        OBVIOUS
      <4>2. DOMAIN e = 1..(Len(steps) - 1)
        BY <3>2, <3>3
      <4> HIDE DEF e
      <4> QED
        BY <4>1, <4>2
    <3>5. Len(steps) = 1
      BY <1>1, <3>4
    <3> QED
      BY <1>1, <2>2, <3>5 DEF Lists
  <2> HIDE DEF next
  <2> QED
    BY <2>1, <2>2 DEF next
<1>3. CASE left # << >>
  <2>1. left = Tail(steps)
    BY <1>3 DEF Rest
  <2>2. /\ left \in Seq(S) /\ Len(left) = Len(steps) - 1 /\ Len(left) # 0
        /\ DOMAIN left = 1..(Len(steps) - 1) /\ \A n \in DOMAIN left : left[n] = steps[n + 1]
    BY <1>1, <1>3, <2>1
  <2>3. 1 \in DOMAIN left /\ 2 \in DOMAIN steps /\ left[1] = steps[2]
    BY <1>1, <2>2
  <2> HIDE DEF left
  <2>4. EndsListing(steps)
    BY <1>1, <2>3 DEF Shape
  <2>5. PICK n \in DOMAIN steps : steps[n].op = "list" /\ \A m \in DOMAIN steps : m > n => steps[m].op = "close"
    BY <2>4 DEF EndsListing
  <2>6. ASSUME NEW u, NEW c \in {1, 2}, DOMAIN u = 1..(Len(steps) - c), n > c,
               \A m \in DOMAIN u : u[m] = steps[m + c]
        PROVE  Shape(p, u) /\ Lists(u)
    <3>1. n - c \in DOMAIN u /\ u[n - c] = steps[n]
      BY <1>1, <2>6
    <3>2. \A m \in DOMAIN u : m + c \in DOMAIN steps /\ m \in Nat
      BY <1>1, <2>6
    <3>3. \A m \in DOMAIN u : m > n - c => u[m].op = "close"
      BY <1>1, <2>5, <2>6, <3>2
    <3>4. EndsListing(u)
      BY <2>5, <3>1, <3>3 DEF EndsListing
    <3>5. \A m \in DOMAIN u :
            /\ u[m].op \in {"score", "dismiss"} => u[m].id \in Ids
            /\ u[m].op = "score" => p = "users" /\ u[m].val = -1
      BY <2>6, <3>2 DEF Shape
    <3>6. Lists(u)
      BY <2>5, <3>1 DEF Lists
    <3> QED
      BY <3>4, <3>5, <3>6 DEF Shape
  <2>7. Lists(steps)
    BY <2>5 DEF Lists
  <2>8. CASE left[1].op = "close"
    <3>1. next = Tail(left)
      BY <1>3, <2>8 DEF Closing
    <3> HIDE DEF next
    <3>2. left # << >> /\ left \in Seq(S)
      BY <1>3, <2>2
    <3>3. Len(left) \in Nat \ {0} /\ DOMAIN left = 1..Len(left)
      BY <1>1, <2>2
    <3>4. DOMAIN next = 1..(Len(left) - 1) /\ \A m \in 1..(Len(left) - 1) : next[m] = left[m + 1]
      BY <3>1, <3>2, <3>3
    <3>5. /\ DOMAIN next = 1..(Len(steps) - 2)
          /\ \A m \in DOMAIN next : next[m] = steps[m + 2]
      <4>1. DOMAIN next = 1..(Len(steps) - 2)
        BY <1>1, <2>2, <3>4
      <4>2. ASSUME NEW m \in DOMAIN next PROVE next[m] = steps[m + 2]
        <5>1. m \in Nat /\ m + 1 \in DOMAIN left /\ next[m] = left[m + 1]
          BY <1>1, <2>2, <3>4
        <5> QED
          BY <2>2, <5>1
      <4> QED
        BY <4>1, <4>2
    <3>6. n # 2
      BY <2>3, <2>5, <2>8
    <3>7. CASE n = 1
      <4>1. steps[2].op = "close"
        BY <2>3, <2>8
      <4>2. 3 \notin DOMAIN steps
        <5>1. SUFFICES ASSUME 3 \in DOMAIN steps PROVE FALSE
          OBVIOUS
        <5>2. steps[3].op = "close"
          BY <2>5, <3>7, <5>1
        <5>3. steps[2 + 1].op # "close"
          BY <2>3, <4>1, <5>1 DEF Tidy
        <5> QED
          BY <5>2, <5>3
      <4>3. Len(left) = 1
        BY <1>1, <2>2, <4>2
      <4>4. next = << >>
        BY <3>1, <3>2, <4>3
      <4>5. steps[1].op = "list"
        BY <2>5, <3>7
      <4> QED
        BY <4>4, <4>5 DEF next, left
    <3>8. CASE n > 2
      <4>1. Shape(p, next) /\ Lists(next)
        BY <2>6, <3>5, <3>8
      <4>2. next # << >>
        BY <4>1 DEF Lists
      <4> QED
        BY <2>7, <4>1, <4>2 DEF next, left
    <3> QED
      BY <1>1, <3>6, <3>7, <3>8
  <2>9. CASE left[1].op # "close"
    <3>1. next = left
      BY <2>9 DEF Closing
    <3>2. n # 1
      BY <2>3, <2>5, <2>9
    <3>3. Shape(p, left) /\ Lists(left)
      BY <1>1, <2>2, <2>6, <3>2
    <3> HIDE DEF next
    <3> QED
      BY <1>3, <2>7, <3>1, <3>3 DEF next, left
  <2> QED
    BY <2>8, <2>9
<1> QED
  BY <1>2, <1>3

-----------------------------------------------------------------------------
(* Rows and the events about them.                                         *)

RowsIn(d, S) == \A i \in Ids : d[i] = None \/ d[i] \in S

LEMMA RowsAreRows ==
  /\ \A r \in UserRows \cup ReportRows \cup LogRows \cup CallRows : r # None
  /\ \A r \in ReportRows : r.state \in {"pending", "resolved", "dismissed"}
BY NullAssumption DEF ReportRows

LEMMA WhereIs ==
  ASSUME NEW d, NEW hits, NEW i \in Ids
  PROVE  Where(d, hits)[i] = IF i \in hits THEN d[i] ELSE None
BY DEF Where

LEMMA ReportsListedIs ==
  ASSUME NEW d, NEW f
  PROVE  /\ ReportsListed(d, f) = [i \in Ids |-> ReportsListed(d, f)[i]]
         /\ \A i \in Ids : ReportsListed(d, f)[i] =
              IF d[i] # None /\ f \in {"all", d[i].state} THEN d[i] ELSE None
BY DEF ReportsListed, Where, Present

LEMMA LogsListedIs ==
  ASSUME NEW d, NEW f
  PROVE  /\ LogsListed(d, f) = [i \in Ids |-> LogsListed(d, f)[i]]
         /\ \A i \in Ids : LogsListed(d, f)[i] =
              IF d[i] # None /\ f \in {"all", d[i].verdict} THEN d[i] ELSE None
BY DEF LogsListed, Where, Present

LEMMA TailIs ==
  ASSUME NEW S, NEW m \in Seq(S), m # << >>, NEW u, u = Tail(m)
  PROVE  /\ u \in Seq(S) /\ Len(m) \in Nat \ {0} /\ DOMAIN m = 1..Len(m) /\ Len(u) = Len(m) - 1
         /\ DOMAIN u = 1..(Len(m) - 1) /\ \A n \in DOMAIN u : n + 1 \in DOMAIN m /\ u[n] = m[n + 1]
         /\ \A n \in DOMAIN m : n # 1 => n - 1 \in DOMAIN u /\ u[n - 1] = m[n]
         /\ 1 \in DOMAIN m /\ Head(m) = m[1]
<1>1. /\ u \in Seq(S) /\ Len(m) \in Nat \ {0} /\ DOMAIN m = 1..Len(m) /\ Len(u) = Len(m) - 1
      /\ DOMAIN u = 1..(Len(m) - 1) /\ \A n \in 1..(Len(m) - 1) : u[n] = m[n + 1]
      /\ Head(m) = m[1]
  OBVIOUS
<1>2. \A n \in DOMAIN u : n + 1 \in DOMAIN m /\ u[n] = m[n + 1]
  BY <1>1
<1>3. ASSUME NEW n \in DOMAIN m, n # 1 PROVE n - 1 \in DOMAIN u /\ u[n - 1] = m[n]
  <2>1. n - 1 \in DOMAIN u /\ (n - 1) + 1 = n
    BY <1>1, <1>3
  <2> QED
    BY <1>2, <2>1
<1> QED
  BY <1>1, <1>2, <1>3

LEMMA AppendIs ==
  ASSUME NEW S, NEW m \in Seq(S), NEW e, NEW u, u = Append(m, e)
  PROVE  /\ u \in Seq(S \cup {e}) /\ u # << >> /\ Len(m) \in Nat /\ DOMAIN m = 1..Len(m)
         /\ Len(u) = Len(m) + 1 /\ DOMAIN u = 1..(Len(m) + 1) /\ u[Len(m) + 1] = e
         /\ \A n \in DOMAIN m : n \in DOMAIN u /\ n < Len(m) + 1 /\ u[n] = m[n]
         /\ \A n \in DOMAIN u : n \in DOMAIN m \/ n = Len(m) + 1
<1>1. m \in Seq(S \cup {e}) /\ e \in S \cup {e}
  OBVIOUS
<1>2. /\ u \in Seq(S \cup {e}) /\ Len(m) \in Nat /\ DOMAIN m = 1..Len(m)
      /\ Len(u) = Len(m) + 1 /\ DOMAIN u = 1..(Len(m) + 1) /\ u[Len(m) + 1] = e
      /\ \A n \in 1..Len(m) : u[n] = m[n]
  BY <1>1
<1>3. u # << >>
  <2>1. Len(m) + 1 \in DOMAIN u
    BY <1>2
  <2> QED
    BY <2>1
<1> QED
  BY <1>2, <1>3

-----------------------------------------------------------------------------
(* Reports.  A report is created pending and closed once: an event that    *)
(* closes it carries the row as it is, an event that creates it does so    *)
(* too or is followed by the one that closes it.                           *)

Creates(m, n, i) == m[n].id = i /\ m[n].kind = "created"
Closes(m, n, i) == m[n].id = i /\ m[n].kind # "created"

MailReports(d, m) ==
  \A n \in DOMAIN m :
    LET i == m[n].id
    IN  /\ i \in Ids /\ d[i] # None
        /\ Closes(m, n, i) => m[n].row = d[i] /\ d[i].state # "pending"
        /\ Creates(m, n, i) => /\ m[n].row.state = "pending"
                               /\ m[n].row = d[i] \/ \E l \in DOMAIN m : l > n /\ Closes(m, l, i)

\* The rows are those listed, but for what the events in m still tell.
AgreesReports(listed, m, rows) ==
  /\ rows = [i \in Ids |-> rows[i]]
  /\ \A i \in Ids : \/ rows[i] = listed[i]
                    \/ \E n \in DOMAIN m : Closes(m, n, i)
                    \/ rows[i] = None /\ \E n \in DOMAIN m : Creates(m, n, i)

\* Rows d become e but for row i, and the events m become u, which tell of i.
ReportTold(d, e, m, u, i) ==
  /\ \A j \in Ids : j # i => e[j] = d[j]
  /\ \A n \in DOMAIN m : n \in DOMAIN u /\ u[n] = m[n]
  /\ \/ \E n \in DOMAIN u : Closes(u, n, i)
     \/ d[i] = None /\ \E n \in DOMAIN u : Creates(u, n, i)

LEMMA ReportsAgreeStill ==
  ASSUME NEW m, NEW u, NEW d, NEW e, NEW i \in Ids, ReportTold(d, e, m, u, i), NEW f, NEW rows, AgreesReports(ReportsListed(d, f), m, rows)
  PROVE  AgreesReports(ReportsListed(e, f), u, rows)
<1> DEFINE t == ReportsListed(d, f)
           v == ReportsListed(e, f)
<1>1. /\ \A j \in Ids : j # i => v[j] = t[j]
      /\ d[i] = None => t[i] = None
  BY DEF ReportTold, ReportsListed, Where, Present
<1> HIDE DEF t, v
<1>2. ASSUME NEW n \in DOMAIN m, NEW j
      PROVE n \in DOMAIN u /\ (Closes(m, n, j) => Closes(u, n, j)) /\ (Creates(m, n, j) => Creates(u, n, j))
  BY DEF ReportTold, Closes, Creates
<1>3. ASSUME NEW j \in Ids
      PROVE  \/ rows[j] = v[j]
             \/ \E n \in DOMAIN u : Closes(u, n, j)
             \/ rows[j] = None /\ \E n \in DOMAIN u : Creates(u, n, j)
  <2>1. \/ rows[j] = t[j]
        \/ \E n \in DOMAIN m : Closes(m, n, j)
        \/ rows[j] = None /\ \E n \in DOMAIN m : Creates(m, n, j)
    BY DEF AgreesReports, t
  <2> QED
    BY <1>1, <1>2, <2>1 DEF ReportTold
<1> QED
  BY <1>3 DEF AgreesReports, v

\* What rows agreed with d and m agree with e and u.
Carried(d, e, m, u) ==
  \A f, rows : AgreesReports(ReportsListed(d, f), m, rows) => AgreesReports(ReportsListed(e, f), u, rows)

LEMMA ReportsCarried ==
  ASSUME NEW m, NEW u, NEW d, NEW e, NEW i \in Ids, ReportTold(d, e, m, u, i) PROVE Carried(d, e, m, u)
BY ReportsAgreeStill DEF Carried

LEMMA MailReportsTail ==
  ASSUME NEW S, NEW m \in Seq(S), m # << >>, NEW d, MailReports(d, m), NEW u, u = Tail(m)
  PROVE  MailReports(d, u)
<1>1. \A n \in DOMAIN u : n \in Nat /\ n + 1 \in DOMAIN m /\ u[n] = m[n + 1]
  BY TailIs
<1>2. \A l \in DOMAIN m : l \in Nat /\ (l # 1 => l - 1 \in DOMAIN u /\ u[l - 1] = m[l])
  BY TailIs
<1> SUFFICES ASSUME NEW n \in DOMAIN u
             PROVE  LET i == u[n].id
                    IN  /\ i \in Ids /\ d[i] # None
                        /\ Closes(u, n, i) => u[n].row = d[i] /\ d[i].state # "pending"
                        /\ Creates(u, n, i) => /\ u[n].row.state = "pending"
                                               /\ u[n].row = d[i] \/ \E l \in DOMAIN u : l > n /\ Closes(u, l, i)
  BY DEF MailReports
<1> DEFINE i == u[n].id
<1>3. /\ i \in Ids /\ d[i] # None
      /\ Closes(u, n, i) => u[n].row = d[i] /\ d[i].state # "pending"
      /\ Creates(u, n, i) => /\ u[n].row.state = "pending"
                             /\ u[n].row = d[i] \/ \E l \in DOMAIN m : l > n + 1 /\ Closes(m, l, i)
  BY <1>1 DEF MailReports, Closes, Creates
<1>4. ASSUME NEW l \in DOMAIN m, l > n + 1, Closes(m, l, i)
      PROVE  \E j \in DOMAIN u : j > n /\ Closes(u, j, i)
  <2>1. l - 1 \in DOMAIN u /\ l - 1 > n /\ Closes(u, l - 1, i)
    BY <1>1, <1>2, <1>4 DEF Closes
  <2> QED
    BY <2>1
<1> QED
  BY <1>3, <1>4

\* The first event told.
LEMMA ReportsTold ==
  ASSUME NEW S, NEW m \in Seq(S), m # << >>, NEW d, RowsIn(d, ReportRows), MailReports(d, m),
         NEW f, NEW rows, AgreesReports(ReportsListed(d, f), m, rows), NEW u, u = Tail(m), NEW new,
         m[1].kind = "created" =>
           new = IF f \in {"all", "pending"} /\ rows[m[1].id] = None
                 THEN [rows EXCEPT ![m[1].id] = m[1].row] ELSE rows,
         m[1].kind # "created" =>
           new = [rows EXCEPT ![m[1].id] = IF f \in {"all", m[1].row.state} THEN m[1].row ELSE None]
  PROVE  AgreesReports(ReportsListed(d, f), u, new)
<1> DEFINE t == ReportsListed(d, f)
<1>1. /\ 1 \in DOMAIN m /\ \A n \in DOMAIN u : n + 1 \in DOMAIN m /\ u[n] = m[n + 1]
      /\ \A n \in DOMAIN m : n \in Nat /\ (n # 1 => n > 1 /\ n - 1 \in DOMAIN u /\ u[n - 1] = m[n])
  BY TailIs
<1>2. \A i \in Ids : t[i] = IF d[i] # None /\ f \in {"all", d[i].state} THEN d[i] ELSE None
  BY ReportsListedIs
<1>3. rows = [i \in Ids |-> rows[i]]
  BY DEF AgreesReports
<1>4. new = [i \in Ids |-> new[i]]
  BY <1>3
<1> DEFINE k == m[1].id
           r == m[1].row
<1>5. /\ k \in Ids /\ d[k] # None
      /\ m[1].kind # "created" => r = d[k]
      /\ m[1].kind = "created" => /\ r.state = "pending"
                                  /\ r = d[k] \/ \E l \in DOMAIN m : l > 1 /\ Closes(m, l, k)
  BY <1>1 DEF MailReports, Closes, Creates
<1> HIDE DEF t
<1> SUFFICES ASSUME NEW i \in Ids
             PROVE  \/ new[i] = t[i]
                    \/ \E n \in DOMAIN u : Closes(u, n, i)
                    \/ new[i] = None /\ \E n \in DOMAIN u : Creates(u, n, i)
  BY <1>4 DEF AgreesReports, t
<1>6. \/ rows[i] = t[i]
      \/ \E n \in DOMAIN m : Closes(m, n, i)
      \/ rows[i] = None /\ \E n \in DOMAIN m : Creates(m, n, i)
  BY DEF AgreesReports, t
<1>7. ASSUME NEW n \in DOMAIN m, n # 1
      PROVE  /\ Closes(m, n, i) => \E j \in DOMAIN u : Closes(u, j, i)
             /\ Creates(m, n, i) => \E j \in DOMAIN u : Creates(u, j, i)
  <2>1. n - 1 \in DOMAIN u /\ u[n - 1] = m[n]
    BY <1>1, <1>7
  <2>2. Closes(m, n, i) => Closes(u, n - 1, i)
    BY <2>1 DEF Closes
  <2>3. Creates(m, n, i) => Creates(u, n - 1, i)
    BY <2>1 DEF Creates
  <2> QED
    BY <2>1, <2>2, <2>3
<1>8. CASE \E n \in DOMAIN m : n # 1 /\ Closes(m, n, i)
  BY <1>7, <1>8
<1>9. CASE \A n \in DOMAIN m : n # 1 => ~Closes(m, n, i)
  <2>1. CASE k # i
    <3>1. new[i] = rows[i]
      BY <1>3, <2>1
    <3>2. ~Closes(m, 1, i) /\ ~Creates(m, 1, i)
      BY <2>1 DEF Closes, Creates
    <3> QED
      BY <1>6, <1>7, <1>9, <3>1, <3>2
  <2>2. CASE k = i /\ m[1].kind # "created"
    <3>1. new[i] = IF f \in {"all", r.state} THEN r ELSE None
      BY <1>3, <2>2
    <3> QED
      BY <1>2, <1>5, <2>2, <3>1
  <2>3. CASE k = i /\ m[1].kind = "created"
    <3>1. r = d[i] /\ d[i].state = "pending" /\ d[i] # None
      <4>1. ~\E l \in DOMAIN m : l > 1 /\ Closes(m, l, k)
        BY <1>9, <2>3
      <4> QED
        BY <1>5, <2>3, <4>1
    <3>2. t[i] = IF f \in {"all", "pending"} THEN r ELSE None
      BY <1>2, <3>1
    <3>3. rows[i] = t[i] \/ rows[i] = None
      <4>1. ~Closes(m, 1, i)
        BY <2>3 DEF Closes
      <4> QED
        BY <1>6, <1>9, <4>1
    <3>4. new[i] = IF f \in {"all", "pending"} /\ rows[i] = None THEN r ELSE rows[i]
      BY <1>3, <2>3
    <3>5. new[i] = t[i]
      BY <3>1, <3>2, <3>3, <3>4
    <3> QED
      BY <3>5
  <2> QED
    BY <2>1, <2>2, <2>3
<1> QED
  BY <1>8, <1>9

\* A report closed, and the event that tells it.
LEMMA ReportsClosed ==
  ASSUME NEW S, NEW m \in Seq(S), NEW d, DOMAIN d = Ids, RowsIn(d, ReportRows), MailReports(d, m),
         NEW i \in Ids, d[i] # None, d[i].state = "pending", NEW s \in {"resolved", "dismissed"},
         NEW e, e = [d EXCEPT ![i].state = s],
         NEW u, u = Append(m, [kind |-> "resolved", id |-> i, row |-> e[i]])
  PROVE  MailReports(e, u) /\ Carried(d, e, m, u)
<1> DEFINE x == [kind |-> "resolved", id |-> i, row |-> e[i]]
<1>1. x.kind # "created" /\ x.id = i /\ x.row = e[i]
  OBVIOUS
<1>2. u = Append(m, x)
  OBVIOUS
<1> HIDE DEF x
<1>3. /\ Len(m) \in Nat /\ DOMAIN m = 1..Len(m) /\ DOMAIN u = 1..(Len(m) + 1) /\ u[Len(m) + 1] = x
      /\ \A n \in DOMAIN m : n \in DOMAIN u /\ n < Len(m) + 1 /\ u[n] = m[n]
      /\ \A n \in DOMAIN u : n \in DOMAIN m \/ n = Len(m) + 1
  BY <1>2, AppendIs
<1>4. /\ \A j \in Ids : j # i => e[j] = d[j]
      /\ e[i] = [d[i] EXCEPT !.state = s]
  OBVIOUS
<1>5. e[i] \in ReportRows /\ e[i].state = s /\ e[i] # None
  <2>1. d[i] \in ReportRows
    BY DEF RowsIn
  <2>2. e[i] \in ReportRows /\ e[i].state = s
    BY <1>4, <2>1 DEF ReportRows
  <2> QED
    BY <2>2, RowsAreRows
<1>6. Len(m) + 1 \in DOMAIN u /\ Closes(u, Len(m) + 1, i)
  BY <1>1, <1>3 DEF Closes
<1>7. ASSUME NEW n \in DOMAIN m, NEW j
      PROVE (Closes(u, n, j) <=> Closes(m, n, j)) /\ (Creates(u, n, j) <=> Creates(m, n, j))
  BY <1>3 DEF Closes, Creates
<1>8. MailReports(e, u)
  <2> SUFFICES ASSUME NEW n \in DOMAIN u
               PROVE  LET j == u[n].id
                      IN  /\ j \in Ids /\ e[j] # None
                          /\ Closes(u, n, j) => u[n].row = e[j] /\ e[j].state # "pending"
                          /\ Creates(u, n, j) =>
                               /\ u[n].row.state = "pending"
                               /\ u[n].row = e[j] \/ \E l \in DOMAIN u : l > n /\ Closes(u, l, j)
    BY DEF MailReports
  <2> DEFINE j == u[n].id
  <2>1. CASE n = Len(m) + 1
    <3>1. u[n] = x /\ j = i
      BY <1>1, <1>3, <2>1
    <3> QED
      BY <1>1, <1>5, <3>1 DEF Creates
  <2>2. CASE n \in DOMAIN m
    <3>1. u[n] = m[n] /\ n < Len(m) + 1
      BY <1>3, <2>2
    <3>2. /\ j \in Ids /\ d[j] # None
          /\ Closes(m, n, j) => u[n].row = d[j] /\ d[j].state # "pending"
          /\ Creates(m, n, j) => /\ u[n].row.state = "pending"
                                 /\ u[n].row = d[j] \/ \E l \in DOMAIN m : l > n /\ Closes(m, l, j)
      BY <2>2, <3>1 DEF MailReports
    <3> HIDE DEF j
    <3>3. CASE j = i
      <4>1. ~Closes(m, n, j)
        BY <3>2, <3>3
      <4> QED
        BY <1>5, <1>6, <1>7, <2>2, <3>1, <3>2, <3>3, <4>1 DEF j
    <3>4. CASE j # i
      <4>1. e[j] = d[j]
        BY <1>4, <3>2, <3>4
      <4>2. ASSUME NEW l \in DOMAIN m, l > n, Closes(m, l, j) PROVE \E h \in DOMAIN u : h > n /\ Closes(u, h, j)
        BY <1>3, <1>7, <4>2
      <4> QED
        BY <1>7, <2>2, <3>2, <4>1, <4>2 DEF j
    <3> QED
      BY <3>3, <3>4
  <2> QED
    BY <1>3, <2>1, <2>2
<1>9. ReportTold(d, e, m, u, i)
  <2>1. \A j \in Ids : j # i => e[j] = d[j]
    BY <1>4
  <2>2. \A n \in DOMAIN m : n \in DOMAIN u /\ u[n] = m[n]
    BY <1>3
  <2>3. \E n \in DOMAIN u : Closes(u, n, i)
    BY <1>6
  <2> QED
    BY <2>1, <2>2, <2>3, Zenon DEF ReportTold
<1>10. Carried(d, e, m, u)
  BY <1>9, ReportsCarried, Zenon
<1> QED
  BY <1>8, <1>10, Zenon

\* A report filed, and the event that tells it.
LEMMA ReportsCreated ==
  ASSUME NEW S, NEW m \in Seq(S), NEW d, DOMAIN d = Ids, RowsIn(d, ReportRows), MailReports(d, m),
         NEW i \in Ids, d[i] = None, NEW r \in ReportRows, r.state = "pending",
         NEW e, e = [d EXCEPT ![i] = r],
         NEW u, u = Append(m, [kind |-> "created", id |-> i, row |-> r])
  PROVE  MailReports(e, u) /\ Carried(d, e, m, u)
<1> DEFINE x == [kind |-> "created", id |-> i, row |-> r]
<1>1. x.kind = "created" /\ x.id = i /\ x.row = r
  OBVIOUS
<1>2. u = Append(m, x)
  OBVIOUS
<1> HIDE DEF x
<1>3. /\ Len(m) \in Nat /\ DOMAIN m = 1..Len(m) /\ DOMAIN u = 1..(Len(m) + 1) /\ u[Len(m) + 1] = x
      /\ \A n \in DOMAIN m : n \in DOMAIN u /\ n < Len(m) + 1 /\ u[n] = m[n]
      /\ \A n \in DOMAIN u : n \in DOMAIN m \/ n = Len(m) + 1
  BY <1>2, AppendIs
<1>4. (\A j \in Ids : j # i => e[j] = d[j]) /\ e[i] = r /\ r # None
  BY RowsAreRows
<1>5. Len(m) + 1 \in DOMAIN u /\ Creates(u, Len(m) + 1, i)
  BY <1>1, <1>3 DEF Creates
<1>6. ASSUME NEW n \in DOMAIN m, NEW j
      PROVE (Closes(u, n, j) <=> Closes(m, n, j)) /\ (Creates(u, n, j) <=> Creates(m, n, j))
  BY <1>3 DEF Closes, Creates
<1>7. MailReports(e, u)
  <2> SUFFICES ASSUME NEW n \in DOMAIN u
               PROVE  LET j == u[n].id
                      IN  /\ j \in Ids /\ e[j] # None
                          /\ Closes(u, n, j) => u[n].row = e[j] /\ e[j].state # "pending"
                          /\ Creates(u, n, j) =>
                               /\ u[n].row.state = "pending"
                               /\ u[n].row = e[j] \/ \E l \in DOMAIN u : l > n /\ Closes(u, l, j)
    BY DEF MailReports
  <2> DEFINE j == u[n].id
  <2>1. CASE n = Len(m) + 1
    <3>1. u[n] = x /\ j = i
      BY <1>1, <1>3, <2>1
    <3> QED
      BY <1>1, <1>4, <3>1 DEF Closes
  <2>2. CASE n \in DOMAIN m
    <3>1. u[n] = m[n] /\ n < Len(m) + 1
      BY <1>3, <2>2
    <3>2. /\ j \in Ids /\ d[j] # None
          /\ Closes(m, n, j) => u[n].row = d[j] /\ d[j].state # "pending"
          /\ Creates(m, n, j) => /\ u[n].row.state = "pending"
                                 /\ u[n].row = d[j] \/ \E l \in DOMAIN m : l > n /\ Closes(m, l, j)
      BY <2>2, <3>1 DEF MailReports
    <3> HIDE DEF j
    <3>3. e[j] = d[j]
      BY <1>4, <3>2
    <3>4. ASSUME NEW l \in DOMAIN m, l > n, Closes(m, l, j) PROVE \E h \in DOMAIN u : h > n /\ Closes(u, h, j)
      BY <1>3, <1>6, <3>4
    <3> QED
      BY <1>6, <2>2, <3>2, <3>3, <3>4 DEF j
  <2> QED
    BY <1>3, <2>1, <2>2
<1>8. ReportTold(d, e, m, u, i)
  BY <1>3, <1>4, <1>5 DEF ReportTold
<1>9. Carried(d, e, m, u)
  BY <1>8, ReportsCarried, Zenon
<1> QED
  BY <1>7, <1>9, Zenon

-----------------------------------------------------------------------------
(* Log entries.  Only flagged entries are pushed, and an entry is resolved *)
(* by requests alone: an event may carry a row that was resolved since.    *)

MailLogs(d, m) ==
  \A n \in DOMAIN m :
    LET i == m[n].id IN i \in Ids /\ d[i] # None /\ m[n].row.verdict = d[i].verdict

\* The rows are those listed, but for those the events in m still bring.
AgreesLogs(listed, d, m, rows) ==
  /\ rows = [i \in Ids |-> rows[i]]
  /\ \A i \in Ids : \/ rows[i] = listed[i]
                    \/ /\ rows[i] = None /\ \E n \in DOMAIN m : m[n].id = i
                       /\ \A n \in DOMAIN m : m[n].id = i => m[n].row = d[i]

LEMMA MailLogsTail ==
  ASSUME NEW S, NEW m \in Seq(S), m # << >>, NEW d, MailLogs(d, m), NEW u, u = Tail(m)
  PROVE  MailLogs(d, u)
<1>1. \A n \in DOMAIN u : n + 1 \in DOMAIN m /\ u[n] = m[n + 1]
  BY TailIs
<1> QED
  BY <1>1 DEF MailLogs

\* Resolving entries leaves their verdicts.
LEMMA MailLogsResolved ==
  ASSUME NEW d, NEW e, NEW m, MailLogs(d, m),
         \A i \in Ids : d[i] # None => e[i] # None /\ e[i].verdict = d[i].verdict
  PROVE  MailLogs(e, m)
BY DEF MailLogs

\* The first event told.
LEMMA LogsTold ==
  ASSUME NEW S, NEW m \in Seq(S), m # << >>, NEW d, MailLogs(d, m),
         NEW f, NEW rows, AgreesLogs(LogsListed(d, f), d, m, rows), NEW u, u = Tail(m), NEW new,
         new = IF f \in {"all", m[1].row.verdict} /\ rows[m[1].id] = None
               THEN [rows EXCEPT ![m[1].id] = m[1].row] ELSE rows
  PROVE  AgreesLogs(LogsListed(d, f), d, u, new)
<1> DEFINE t == LogsListed(d, f)
           k == m[1].id
           r == m[1].row
<1>1. /\ 1 \in DOMAIN m /\ \A n \in DOMAIN u : n + 1 \in DOMAIN m /\ u[n] = m[n + 1]
      /\ \A n \in DOMAIN m : n # 1 => n - 1 \in DOMAIN u /\ u[n - 1] = m[n]
  BY TailIs
<1>2. \A i \in Ids : t[i] = IF d[i] # None /\ f \in {"all", d[i].verdict} THEN d[i] ELSE None
  BY LogsListedIs
<1>3. rows = [i \in Ids |-> rows[i]]
  BY DEF AgreesLogs
<1>4. new = [i \in Ids |-> new[i]]
  BY <1>3
<1>5. k \in Ids /\ d[k] # None /\ r.verdict = d[k].verdict
  BY <1>1 DEF MailLogs
<1> HIDE DEF t
<1> SUFFICES ASSUME NEW i \in Ids
             PROVE  \/ new[i] = t[i]
                    \/ /\ new[i] = None /\ \E n \in DOMAIN u : u[n].id = i
                       /\ \A n \in DOMAIN u : u[n].id = i => u[n].row = d[i]
  BY <1>4 DEF AgreesLogs, t
<1>6. \/ rows[i] = t[i]
      \/ /\ rows[i] = None /\ \E n \in DOMAIN m : m[n].id = i
         /\ \A n \in DOMAIN m : m[n].id = i => m[n].row = d[i]
  BY DEF AgreesLogs, t
<1>7. CASE i # k
  <2>1. new[i] = rows[i]
    BY <1>3, <1>7
  <2>2. ASSUME NEW n \in DOMAIN m, m[n].id = i PROVE \E j \in DOMAIN u : u[j].id = i
    <3>1. n # 1
      BY <1>7, <2>2
    <3> QED
      BY <1>1, <2>2, <3>1
  <2>3. (\A n \in DOMAIN m : m[n].id = i => m[n].row = d[i]) =>
        (\A n \in DOMAIN u : u[n].id = i => u[n].row = d[i])
    BY <1>1
  <2> QED
    BY <1>6, <2>1, <2>2, <2>3
<1>8. CASE i = k
  <2>1. new[i] = IF f \in {"all", r.verdict} /\ rows[i] = None THEN r ELSE rows[i]
    BY <1>3, <1>8
  <2>2. CASE rows[i] = t[i]
    BY <1>2, <1>5, <1>8, <2>1, <2>2
  <2>3. CASE rows[i] = None /\ r = d[i]
    BY <1>2, <1>5, <1>8, <2>1, <2>3
  <2>4. (\A n \in DOMAIN m : m[n].id = i => m[n].row = d[i]) => r = d[i]
    BY <1>1, <1>8
  <2> QED
    BY <1>6, <2>2, <2>3, <2>4
<1> QED
  BY <1>7, <1>8

\* What rows agreed with d and m agree with e and u.
CarriedLogs(d, e, m, u) ==
  \A f, rows : AgreesLogs(LogsListed(d, f), d, m, rows) => AgreesLogs(LogsListed(e, f), e, u, rows)

\* Rows d become e by a new row i, and the events m become u, which tell of i.
LogTold(d, e, m, u, i) ==
  /\ d[i] = None /\ \A j \in Ids : j # i => e[j] = d[j]
  /\ \A n \in DOMAIN m : m[n].id # i /\ n \in DOMAIN u /\ u[n] = m[n]
  /\ \A n \in DOMAIN u : n \in DOMAIN m \/ (u[n].id = i /\ u[n].row = e[i])
  /\ \E n \in DOMAIN u : u[n].id = i

LEMMA LogsAgreeStill ==
  ASSUME NEW m, NEW u, NEW d, NEW e, NEW i \in Ids, LogTold(d, e, m, u, i),
         NEW f, NEW rows, AgreesLogs(LogsListed(d, f), d, m, rows)
  PROVE  AgreesLogs(LogsListed(e, f), e, u, rows)
<1> DEFINE t == LogsListed(d, f)
           v == LogsListed(e, f)
<1>1. /\ \A j \in Ids : j # i => v[j] = t[j]
      /\ t[i] = None
  BY DEF LogTold, LogsListed, Where, Present
<1> HIDE DEF t, v
<1>2. ASSUME NEW j \in Ids
      PROVE  \/ rows[j] = v[j]
             \/ /\ rows[j] = None /\ \E n \in DOMAIN u : u[n].id = j
                /\ \A n \in DOMAIN u : u[n].id = j => u[n].row = e[j]
  <2>1. \/ rows[j] = t[j]
        \/ /\ rows[j] = None /\ \E n \in DOMAIN m : m[n].id = j
           /\ \A n \in DOMAIN m : m[n].id = j => m[n].row = d[j]
    BY DEF AgreesLogs, t
  <2>2. CASE j = i
    BY <1>1, <2>1, <2>2 DEF LogTold
  <2>3. CASE j # i
    BY <1>1, <2>1, <2>3 DEF LogTold
  <2> QED
    BY <2>2, <2>3
<1>3. rows = [j \in Ids |-> rows[j]]
  BY DEF AgreesLogs
<1> QED
  BY <1>2, <1>3 DEF AgreesLogs, v

LEMMA LogsCarried ==
  ASSUME NEW m, NEW u, NEW d, NEW e, NEW i \in Ids, LogTold(d, e, m, u, i) PROVE CarriedLogs(d, e, m, u)
BY LogsAgreeStill DEF CarriedLogs

\* An entry written, and the event that tells it.
LEMMA LogsCreated ==
  ASSUME NEW S, NEW m \in Seq(S), NEW d, DOMAIN d = Ids, MailLogs(d, m),
         NEW i \in Ids, d[i] = None, NEW r \in LogRows,
         NEW e, e = [d EXCEPT ![i] = r],
         NEW u, u = Append(m, [kind |-> "created", id |-> i, row |-> r])
  PROVE  MailLogs(e, u) /\ CarriedLogs(d, e, m, u)
<1> DEFINE x == [kind |-> "created", id |-> i, row |-> r]
<1>1. x.id = i /\ x.row = r
  OBVIOUS
<1>2. u = Append(m, x)
  OBVIOUS
<1> HIDE DEF x
<1>3. /\ Len(m) \in Nat /\ DOMAIN m = 1..Len(m) /\ DOMAIN u = 1..(Len(m) + 1) /\ u[Len(m) + 1] = x
      /\ \A n \in DOMAIN m : n \in DOMAIN u /\ u[n] = m[n]
      /\ \A n \in DOMAIN u : n \in DOMAIN m \/ n = Len(m) + 1
  BY <1>2, AppendIs
<1>4. (\A j \in Ids : j # i => e[j] = d[j]) /\ e[i] = r /\ r # None
  BY RowsAreRows
<1>5. \A n \in DOMAIN m : m[n].id \in Ids /\ m[n].id # i /\ d[m[n].id] # None /\ m[n].row.verdict = d[m[n].id].verdict
  BY DEF MailLogs
<1>6. \A n \in DOMAIN u : u[n] = x \/ (n \in DOMAIN m /\ u[n] = m[n])
  BY <1>3
<1>7. Len(m) + 1 \in DOMAIN u /\ u[Len(m) + 1].id = i
  BY <1>1, <1>3
<1>8. MailLogs(e, u)
  BY <1>1, <1>4, <1>5, <1>6 DEF MailLogs
<1>9. LogTold(d, e, m, u, i)
  <2>1. \A n \in DOMAIN m : m[n].id # i /\ n \in DOMAIN u /\ u[n] = m[n]
    BY <1>3, <1>5
  <2>2. \A n \in DOMAIN u : n \in DOMAIN m \/ (u[n].id = i /\ u[n].row = e[i])
    BY <1>1, <1>4, <1>6
  <2>3. \E n \in DOMAIN u : u[n].id = i
    BY <1>7
  <2> QED
    BY <1>4, <2>1, <2>2, <2>3, Zenon DEF LogTold
<1>10. CarriedLogs(d, e, m, u)
  BY <1>9, LogsCarried, Zenon
<1> QED
  BY <1>8, <1>10, Zenon

-----------------------------------------------------------------------------
(* Bot calls.  The dashboard shows the newest of them, and the last event  *)
(* on its way brings it.                                                   *)

\* Rows are filled in the order of their identifiers.
InTurn(d) == \A i \in Present(d), j \in Ids : j < i => j \in Present(d)

Only(e) == [j \in Ids |-> IF j = e.id THEN e.row ELSE None]

MailCalls(d, m) == m # << >> => Only(m[Len(m)]) = DashboardListed(d, None)

LEMMA MailCallsTail ==
  ASSUME NEW S, NEW m \in Seq(S), m # << >>, NEW d, MailCalls(d, m), NEW u, u = Tail(m)
  PROVE  MailCalls(d, u) /\ (u = << >> => Only(m[1]) = DashboardListed(d, None))
<1>1. /\ Len(m) \in Nat \ {0} /\ Len(u) = Len(m) - 1 /\ DOMAIN u = 1..(Len(m) - 1)
      /\ \A n \in DOMAIN u : u[n] = m[n + 1]
  BY TailIs
<1>2. CASE u = << >>
  <2>1. Len(m) = 1
    <3>1. Len(u) = 0
      <4>1. Len(<< >>) = 0
        OBVIOUS
      <4> QED
        BY <1>2, <4>1, Zenon
    <3>2. \A n \in Nat : n - 1 = 0 => n = 1
      OBVIOUS
    <3> QED
      BY <1>1, <3>1, <3>2
  <2> QED
    BY <1>2, <2>1 DEF MailCalls
<1>3. CASE u # << >>
  <2>1. u \in Seq(S)
    BY TailIs
  <2>2. Len(u) # 0
    BY <1>3, <2>1
  <2>3. Len(u) \in DOMAIN u /\ Len(u) + 1 = Len(m)
    BY <1>1, <2>2
  <2>4. u[Len(u)] = m[Len(m)]
    BY <1>1, <2>3
  <2> QED
    BY <1>3, <2>4 DEF MailCalls
<1> QED
  BY <1>2, <1>3

\* A call written, and the event that tells it.
LEMMA CallsCreated ==
  ASSUME NEW S, NEW m \in Seq(S), NEW d, DOMAIN d = Ids, InTurn(d),
         NEW i \in Ids, d[i] = None, \A j \in Unused(d) : i <= j, NEW r \in CallRows,
         NEW e, e = [d EXCEPT ![i] = r],
         NEW u, u = Append(m, [kind |-> "created", id |-> i, row |-> r])
  PROVE  u # << >> /\ InTurn(e) /\ MailCalls(e, u)
<1> DEFINE x == [kind |-> "created", id |-> i, row |-> r]
<1>1. x.id = i /\ x.row = r
  OBVIOUS
<1>2. u = Append(m, x)
  OBVIOUS
<1> HIDE DEF x
<1>3. u # << >> /\ u[Len(u)] = x
  <2>1. u # << >> /\ Len(u) = Len(m) + 1 /\ u[Len(m) + 1] = x
    BY <1>2, AppendIs
  <2> QED
    BY <2>1
<1>4. (\A j \in Ids : j # i => e[j] = d[j]) /\ e[i] = r /\ r # None
  BY RowsAreRows
<1>5. Present(e) = Present(d) \cup {i}
  BY <1>4 DEF Present
<1>6. Ids \subseteq Nat /\ IsFiniteSet(Ids)
  BY IdsAssumption
<1>7. \A j \in Present(d) : j < i
  <2> SUFFICES ASSUME NEW j \in Present(d), ~(j < i) PROVE FALSE
    OBVIOUS
  <2>1. j # i /\ j \in Ids
    BY DEF Present
  <2>2. i < j
    BY <1>6, <2>1
  <2>3. i \in Present(d)
    BY <2>1, <2>2 DEF InTurn
  <2> QED
    BY <2>3 DEF Present
<1>8. InTurn(e)
  <2> SUFFICES ASSUME NEW k \in Present(e), NEW j \in Ids, j < k PROVE j \in Present(e)
    BY DEF InTurn
  <2>1. CASE k \in Present(d)
    BY <1>5, <2>1 DEF InTurn
  <2>2. CASE k = i
    <3>1. ~(i <= j)
      BY <1>6, <2>2
    <3>2. j \notin Unused(d)
      BY <3>1
    <3> QED
      BY <1>5, <3>2 DEF Unused
  <2> QED
    BY <1>5, <2>1, <2>2
<1>9. ASSUME NEW j \in Ids
      PROVE  (e[j] # None /\ Cardinality({k \in Present(e) : k > j}) < Preview) <=> j = i
  <2> DEFINE T == {k \in Present(e) : k > j}
  <2>1. T \subseteq Ids
    BY DEF Present
  <2>2. CASE j = i
    <3>1. T = {}
      BY <1>5, <1>6, <1>7, <2>2 DEF Present
    <3>2. Cardinality(T) = 0
      BY <3>1, FS_EmptySet
    <3> QED
      BY <1>4, <2>2, <3>2 DEF Preview
  <2>3. CASE j # i /\ e[j] # None
    <3>1. i \in T
      BY <1>4, <1>5, <1>6, <1>7, <2>3 DEF Present
    <3>2. IsFiniteSet(T)
      BY <1>6, <2>1, FS_Subset
    <3>3. Cardinality(T) \in Nat /\ Cardinality(T) # 0
      BY <3>1, <3>2, FS_CardinalityType, FS_EmptySet
    <3> QED
      BY <2>3, <3>3 DEF Preview
  <2> QED
    BY <1>4, <2>2, <2>3
<1>10. DashboardListed(e, None) = [j \in Ids |-> IF j = i THEN e[j] ELSE None]
  BY <1>9, Zenon DEF DashboardListed
<1>11. Only(x) = DashboardListed(e, None)
  BY <1>1, <1>4, <1>10 DEF Only
<1> QED
  BY <1>3, <1>8, <1>11 DEF MailCalls

-----------------------------------------------------------------------------
(* What a page shows: the invariant.                                       *)

\* Rows agree with those listed from d, but for what the events in m tell.
Agrees(p, listed, d, m, rows) ==
  /\ p = "reports" => AgreesReports(listed, m, rows)
  /\ p = "logs" => AgreesLogs(listed, d, m, rows)
  /\ p = "dashboard" => m # << >> \/ rows = listed
  /\ p \notin Pushed => rows = listed

MailOK(p, d, m) ==
  /\ \E S : m \in Seq(S)
  /\ p = "reports" => MailReports(d, m)
  /\ p = "logs" => MailLogs(d, m)
  /\ p = "dashboard" => MailCalls(d, m)

RowsTyped(p, d) ==
  /\ p = "users" => \A i \in Ids : d[i] \in UserRows
  /\ p = "reports" => RowsIn(d, ReportRows)
  /\ p = "logs" => RowsIn(d, LogRows)
  /\ p = "dashboard" => InTurn(d)

\* What a should see, and rows that agree with it.
Truth(a) == Listed(db, tab[a].filter)
Fits(a, rows) == Agrees(page, Truth(a), db, mail[a], rows)

\* Nothing overlapped, failed or got lost, and what others changed is pushed.
Trusted(a) == a \notin mixed /\ (changed \subseteq {a} \/ (page = "reports" /\ changed \subseteq Admins))

\* The rows shown once the answer to r is taken in.
After(rows, r) ==
  IF r.steps[1].op = "score" THEN PatchScore(rows, r.steps[1].id, r.reply.row)
  ELSE IF r.steps[1].op = "list" THEN r.reply.rows ELSE rows

\* The one handler of a: it lists again, or her rows agree until it is served,
\* and with its answer taken in.
FreshRun(a, r) ==
  /\ r.filter = tab[a].filter
  /\ Trusted(a) =>
       /\ Lists(r.steps) \/ tab[a].loaded
       /\ Lists(r.steps) \/ r.reply # None \/ Fits(a, tab[a].rows)
       /\ r.reply # None /\ r.reply.ok /\ (~Lists(r.steps) \/ r.steps[1].op = "list") =>
            Fits(a, After(tab[a].rows, r))

Fresh(a) ==
  a \notin mixed =>
    /\ \A j, k \in Lanes : runs[a][j] # NoRun /\ runs[a][k] # NoRun => j = k
    /\ \A k \in Lanes : runs[a][k] # NoRun => FreshRun(a, runs[a][k])
    /\ Trusted(a) /\ (\A k \in Lanes : runs[a][k] = NoRun) => tab[a].loaded /\ Fits(a, tab[a].rows)

ShapeInv == \A a \in Admins, k \in Lanes : runs[a][k] # NoRun => Shape(page, runs[a][k].steps)

MailInv == /\ mail = [a \in Admins |-> mail[a]]
           /\ \A a \in Admins : MailOK(page, db, mail[a])

FInv == /\ SInv /\ RowsTyped(page, db) /\ MailInv /\ ShapeInv
        /\ \A a \in users : Fresh(a)

-----------------------------------------------------------------------------
(* Rows and agreement.                                                     *)

LEMMA TruthIs ==
  ASSUME NEW a
  PROVE  /\ page = "users" => Truth(a) = UsersListed(db, tab[a].filter)
         /\ page = "reports" => Truth(a) = ReportsListed(db, tab[a].filter)
         /\ page = "logs" => Truth(a) = LogsListed(db, tab[a].filter)
         /\ page = "dashboard" => Truth(a) = DashboardListed(db, tab[a].filter)
         /\ page' = "users" => Truth(a)' = UsersListed(db', tab'[a].filter)
         /\ page' = "reports" => Truth(a)' = ReportsListed(db', tab'[a].filter)
         /\ page' = "logs" => Truth(a)' = LogsListed(db', tab'[a].filter)
         /\ page' = "dashboard" => Truth(a)' = DashboardListed(db', tab'[a].filter)
<1>1. /\ page = "users" => Truth(a) = UsersListed(db, tab[a].filter)
      /\ page = "reports" => Truth(a) = ReportsListed(db, tab[a].filter)
  BY Zenon DEF Truth, Listed
<1>2. /\ page = "logs" => Truth(a) = LogsListed(db, tab[a].filter)
      /\ page = "dashboard" => Truth(a) = DashboardListed(db, tab[a].filter)
  BY Zenon DEF Truth, Listed
<1>3. /\ page' = "users" => Truth(a)' = UsersListed(db', tab'[a].filter)
      /\ page' = "reports" => Truth(a)' = ReportsListed(db', tab'[a].filter)
  BY Zenon DEF Truth, Listed
<1>4. /\ page' = "logs" => Truth(a)' = LogsListed(db', tab'[a].filter)
      /\ page' = "dashboard" => Truth(a)' = DashboardListed(db', tab'[a].filter)
  BY Zenon DEF Truth, Listed
<1> QED
  BY <1>1, <1>2, <1>3, <1>4

LEMMA TruthSame ==
  ASSUME NEW a, page' = page, db' = db, tab'[a].filter = tab[a].filter PROVE Truth(a)' = Truth(a)
BY Zenon DEF Truth, Listed

\* Rows just listed agree.
LEMMA ListedAgrees ==
  ASSUME NEW a, NEW d, NEW m PROVE Agrees(page, Truth(a), d, m, Truth(a))
<1>1. CASE page = "reports"
  <2>1. Truth(a) = ReportsListed(db, tab[a].filter)
    BY <1>1, TruthIs
  <2>2. Truth(a) = [i \in Ids |-> Truth(a)[i]]
    BY <2>1, ReportsListedIs
  <2> QED
    BY <1>1, <2>2 DEF Agrees, AgreesReports, Pushed
<1>2. CASE page = "logs"
  <2>1. Truth(a) = LogsListed(db, tab[a].filter)
    BY <1>2, TruthIs
  <2>2. Truth(a) = [i \in Ids |-> Truth(a)[i]]
    BY <2>1, LogsListedIs
  <2> QED
    BY <1>2, <2>2 DEF Agrees, AgreesLogs, Pushed
<1>3. CASE page \notin {"reports", "logs"}
  BY <1>3 DEF Agrees
<1> QED
  BY <1>1, <1>2, <1>3

\* With no event left to come, rows that agree are those listed.
LEMMA AgreesIsTruth ==
  ASSUME NEW a, NEW d, NEW rows, Agrees(page, Truth(a), d, << >>, rows) PROVE rows = Truth(a)
<1>1. CASE page = "reports"
  <2>1. Truth(a) = ReportsListed(db, tab[a].filter)
    BY <1>1, TruthIs
  <2>2. Truth(a) = [i \in Ids |-> Truth(a)[i]]
    BY <2>1, ReportsListedIs
  <2>3. AgreesReports(Truth(a), << >>, rows)
    BY <1>1 DEF Agrees
  <2>4. \A i \in Ids : rows[i] = Truth(a)[i]
    BY <2>3 DEF AgreesReports
  <2>5. rows = [i \in Ids |-> rows[i]]
    BY <2>3 DEF AgreesReports
  <2> QED
    BY <2>2, <2>4, <2>5
<1>2. CASE page = "logs"
  <2>1. Truth(a) = LogsListed(db, tab[a].filter)
    BY <1>2, TruthIs
  <2>2. Truth(a) = [i \in Ids |-> Truth(a)[i]]
    BY <2>1, LogsListedIs
  <2>3. AgreesLogs(Truth(a), d, << >>, rows)
    BY <1>2 DEF Agrees
  <2>4. \A i \in Ids : rows[i] = Truth(a)[i]
    BY <2>3 DEF AgreesLogs
  <2>5. rows = [i \in Ids |-> rows[i]]
    BY <2>3 DEF AgreesLogs
  <2> QED
    BY <2>2, <2>4, <2>5
<1>3. CASE page \notin {"reports", "logs"}
  BY <1>3 DEF Agrees, Pushed
<1> QED
  BY <1>1, <1>2, <1>3

\* Pages the event stream feeds have no handler that does not list.
LEMMA PushedLists ==
  ASSUME NEW p \in Pushed, NEW steps, Shape(p, steps) PROVE Lists(steps)
<1>1. 1 \in 1..1
  OBVIOUS
<1> QED
  BY <1>1 DEF Shape, Pushed, EndsListing, Lists

-----------------------------------------------------------------------------
(* What requests and events do to rows of the pages whose rows patches and *)
(* events change.                                                          *)

\* A score adjusted, and the row patched.
LEMMA ScorePatched ==
  ASSUME NEW d, DOMAIN d = Ids, \A i \in Ids : d[i] \in UserRows,
         NEW q, q.op = "score", q.val = -1, q.id \in Ids, NEW e, e = UsersEffect(q, d), NEW f
  PROVE  /\ \A i \in Ids : e[i] \in UserRows
         /\ PatchScore(UsersListed(d, f), q.id, e[q.id]) = UsersListed(e, f)
<1> DEFINE k == q.id
           x == IF d[k].score + q.val < 0 THEN 0 ELSE d[k].score + q.val
<1>1. e = [d EXCEPT ![k].score = x]
  BY SMT DEF UsersEffect
<1>2. x \in Nat
  BY DEF UserRows
<1> HIDE DEF x
<1>3. /\ DOMAIN e = Ids
      /\ \A i \in Ids : i # k => e[i] = d[i]
      /\ e[k] = [d[k] EXCEPT !.score = x]
  BY <1>1
<1>4. e[k] \in UserRows /\ e[k].score = x /\ e[k].banned = d[k].banned
  <2>1. d[k] \in UserRows
    OBVIOUS
  <2> QED
    BY <1>2, <1>3, <2>1 DEF UserRows
<1>5. \A i \in Ids : e[i] \in UserRows
  BY <1>3, <1>4
<1>6. \A i \in Ids : d[i] # None /\ e[i] # None
  BY <1>5, RowsAreRows
<1> HIDE DEF k
<1> DEFINE t == UsersListed(d, f)
           v == UsersListed(e, f)
           w == PatchScore(t, k, e[k])
<1>7. /\ t = [i \in Ids |-> t[i]] /\ v = [i \in Ids |-> v[i]]
      /\ \A i \in Ids : t[i] = IF d[i] # None /\ (f = "all" \/ (f = "banned") = d[i].banned) THEN d[i] ELSE None
      /\ \A i \in Ids : v[i] = IF e[i] # None /\ (f = "all" \/ (f = "banned") = e[i].banned) THEN e[i] ELSE None
  BY DEF UsersListed, Where, Present
<1> HIDE DEF t, v
<1>8. w = [i \in Ids |-> w[i]]
  BY <1>7 DEF PatchScore
<1>9. k \in Ids
  BY DEF k
<1>10. ASSUME NEW i \in Ids PROVE w[i] = v[i]
  <2>1. CASE i # k
    <3>1. w[i] = t[i]
      BY <1>7, <1>9, <2>1 DEF PatchScore
    <3>2. e[i] = d[i]
      BY <1>3, <2>1 DEF k
    <3> QED
      BY <1>7, <3>1, <3>2, Zenon
  <2>2. CASE i = k
    <3>1. e[k].banned = d[k].banned /\ e[k] # None /\ d[k] # None
      BY <1>4, <1>6, <1>9 DEF k
    <3>2. CASE f = "all" \/ (f = "banned") = d[k].banned
      <4>1. t[k] = d[k] /\ v[k] = e[k]
        BY <1>7, <1>9, <3>1, <3>2, Zenon
      <4>2. w = [t EXCEPT ![k].score = e[k].score]
        BY <3>1, <4>1, Zenon DEF PatchScore
      <4>3. w[k] = [d[k] EXCEPT !.score = e[k].score]
        BY <1>7, <1>9, <4>1, <4>2
      <4>4. e[k].score = x /\ e[k] = [d[k] EXCEPT !.score = x]
        BY <1>3, <1>4 DEF k
      <4> QED
        BY <2>2, <4>1, <4>3, <4>4, Zenon
    <3>3. CASE ~(f = "all" \/ (f = "banned") = d[k].banned)
      <4>1. t[k] = None /\ v[k] = None
        BY <1>7, <1>9, <3>1, <3>3, Zenon
      <4>2. w = t
        BY <4>1, Zenon DEF PatchScore
      <4> QED
        BY <2>2, <4>1, <4>2, Zenon
    <3> QED
      BY <3>2, <3>3
  <2> QED
    BY <2>1, <2>2
<1>11. w = v
  BY <1>7, <1>8, <1>10
<1> QED
  BY <1>5, <1>11 DEF k, w, t, v

LEMMA UsersTyped ==
  ASSUME NEW d, DOMAIN d = Ids, \A i \in Ids : d[i] \in UserRows,
         NEW q, q.op \in {"ban", "unban", "score"}, q.op = "score" => q.val = -1 /\ q.id \in Ids,
         NEW i \in Ids
  PROVE  UsersEffect(q, d)[i] \in UserRows
<1>1. CASE q.op = "score"
  BY <1>1, ScorePatched
<1>2. ASSUME NEW x \in BOOLEAN, UsersEffect(q, d) = [d EXCEPT ![q.id].banned = x]
      PROVE  UsersEffect(q, d)[i] \in UserRows
  <2> DEFINE e == UsersEffect(q, d)
  <2>1. e = [d EXCEPT ![q.id].banned = x]
    BY <1>2
  <2> HIDE DEF e
  <2>2. e[i] = d[i] \/ e[i] = [d[i] EXCEPT !.banned = x]
    BY <2>1
  <2>3. d[i] \in UserRows
    OBVIOUS
  <2>4. [d[i] EXCEPT !.banned = x] \in UserRows
    BY <2>3 DEF UserRows
  <2> QED
    BY <2>2, <2>3, <2>4 DEF e
<1>3. CASE q.op = "ban"
  <2>1. UsersEffect(q, d) = [d EXCEPT ![q.id].banned = TRUE] /\ TRUE \in BOOLEAN
    BY <1>3, Zenon DEF UsersEffect
  <2> QED
    BY <1>2, <2>1
<1>4. CASE q.op = "unban"
  <2>1. UsersEffect(q, d) = [d EXCEPT ![q.id].banned = FALSE] /\ FALSE \in BOOLEAN
    BY <1>4, SMT DEF UsersEffect
  <2> QED
    BY <1>2, <2>1
<1> QED
  BY <1>1, <1>3, <1>4

\* A log entry resolved.
LEMMA ReportClosed ==
  ASSUME NEW d, DOMAIN d = Ids, RowsIn(d, ReportRows), NEW i \in Ids, d[i] # None,
         NEW s \in {"resolved", "dismissed"}, NEW e, e = [d EXCEPT ![i].state = s]
  PROVE  RowsIn(e, ReportRows)
<1>1. (\A j \in Ids : j # i => e[j] = d[j]) /\ e[i] = [d[i] EXCEPT !.state = s]
  OBVIOUS
<1>2. d[i] \in ReportRows
  BY DEF RowsIn
<1>3. e[i] \in ReportRows
  BY <1>1, <1>2 DEF ReportRows
<1> QED
  BY <1>1, <1>3 DEF RowsIn

LEMMA RowsInSet ==
  ASSUME NEW d, DOMAIN d = Ids, NEW S, RowsIn(d, S), NEW i \in Ids, NEW r \in S, NEW e, e = [d EXCEPT ![i] = r]
  PROVE  RowsIn(e, S)
BY DEF RowsIn

LEMMA NewIs ==
  ASSUME NEW d, Unused(d) # {}
  PROVE  NewId(d) \in Ids /\ d[NewId(d)] = None /\ \A j \in Unused(d) : NewId(d) <= j
<1>1. Unused(d) \subseteq Nat
  BY IdsAssumption DEF Unused
<1>2. \E i \in Unused(d) : \A j \in Unused(d) : i <= j
  BY <1>1, Least
<1>3. NewId(d) \in Unused(d) /\ \A j \in Unused(d) : NewId(d) <= j
  BY <1>2, Zenon DEF NewId
<1> QED
  BY <1>3 DEF Unused, Present

LEMMA TypedInit == ASSUME NEW p PROVE RowsTyped(p, InitialRows(p))
<1>1. p = "users" => \A i \in Ids : InitialRows(p)[i] \in UserRows
  <2> SUFFICES ASSUME p = "users", NEW i \in Ids PROVE InitialRows(p)[i] \in UserRows
    OBVIOUS
  <2>1. InitialRows(p) = UsersInit
    BY Zenon DEF InitialRows
  <2>2. UsersInit[i] = [admin |-> i = 2, banned |-> FALSE, score |-> 1]
    BY DEF UsersInit
  <2>3. (i = 2) \in BOOLEAN
    BY Zenon
  <2>4. \A b \in BOOLEAN : [admin |-> b, banned |-> FALSE, score |-> 1] \in UserRows
    BY DEF UserRows
  <2> QED
    BY <2>1, <2>2, <2>3, <2>4, Zenon
<1>2. p = "reports" => RowsIn(InitialRows(p), ReportRows)
  <2>1. p = "reports" => InitialRows(p) = ReportsInit
    BY Zenon DEF InitialRows
  <2> QED
    BY <2>1 DEF ReportsInit, RowsIn, ReportRows
<1>3. p = "logs" => RowsIn(InitialRows(p), LogRows)
  <2>1. p = "logs" => InitialRows(p) = LogsInit
    BY Zenon DEF InitialRows
  <2>2. \A b \in BOOLEAN : [verdict |-> "block", resolved |-> b] \in LogRows
    BY DEF LogRows
  <2>3. [verdict |-> "block", resolved |-> FALSE] \in LogRows
    BY <2>2, Zenon
  <2>4. \A i \in Ids : LogsInit[i] = None \/ LogsInit[i] = [verdict |-> "block", resolved |-> FALSE]
    BY DEF LogsInit
  <2> QED
    BY <2>1, <2>3, <2>4, Zenon DEF RowsIn
<1>4. p = "dashboard" => InTurn(InitialRows(p))
  <2>1. p = "dashboard" => InitialRows(p) = NoRows
    BY Zenon DEF InitialRows, DashboardInit
  <2>2. Present(NoRows) = {}
    BY DEF Present, NoRows
  <2> QED
    BY <2>1, <2>2 DEF InTurn
<1> QED
  BY <1>1, <1>2, <1>3, <1>4 DEF RowsTyped

-----------------------------------------------------------------------------
(* Views with other values in some fields.                                 *)

ViewIs(v) ==
  \E r, l, c, f, b, e, d :
     v = [rows |-> r, loaded |-> l, count |-> c, filter |-> f, busy |-> b, error |-> e, draft |-> d]

\* w shows what v shows.
Alike(w, v) == ViewIs(w) /\ w.rows = v.rows /\ w.loaded = v.loaded /\ w.filter = v.filter

LEMMA AlikeOnward == ASSUME NEW u, NEW v, NEW w, Alike(w, v), Alike(v, u) PROVE Alike(w, u)
BY DEF Alike

LEMMA ViewElse ==
  ASSUME NEW v, ViewIs(v), NEW w, NEW x,
         \/ w = [v EXCEPT !.busy = x]
         \/ w = [v EXCEPT !.error = x]
         \/ w = [v EXCEPT !.draft = x]
         \/ w = [v EXCEPT !.count = x]
  PROVE  Alike(w, v)
<1>1. PICK r, l, c, f, b, e, d :
        v = [rows |-> r, loaded |-> l, count |-> c, filter |-> f, busy |-> b, error |-> e, draft |-> d]
  BY DEF ViewIs
<1>2. ASSUME NEW c2, NEW b2, NEW e2, NEW d2,
             w = [rows |-> r, loaded |-> l, count |-> c2, filter |-> f, busy |-> b2, error |-> e2, draft |-> d2]
      PROVE  Alike(w, v)
  <2>1. ViewIs(w)
    BY <1>2, Zenon DEF ViewIs
  <2>2. w.rows = r /\ w.loaded = l /\ w.filter = f
    BY <1>2
  <2>3. v.rows = r /\ v.loaded = l /\ v.filter = f
    BY <1>1
  <2> QED
    BY <2>1, <2>2, <2>3, Zenon DEF Alike
<1>3. CASE w = [v EXCEPT !.busy = x]
  <2>1. w = [rows |-> r, loaded |-> l, count |-> c, filter |-> f, busy |-> x, error |-> e, draft |-> d]
    BY <1>1, <1>3
  <2> QED
    BY <1>2, <2>1
<1>4. CASE w = [v EXCEPT !.error = x]
  <2>1. w = [rows |-> r, loaded |-> l, count |-> c, filter |-> f, busy |-> b, error |-> x, draft |-> d]
    BY <1>1, <1>4
  <2> QED
    BY <1>2, <2>1
<1>5. CASE w = [v EXCEPT !.draft = x]
  <2>1. w = [rows |-> r, loaded |-> l, count |-> c, filter |-> f, busy |-> b, error |-> e, draft |-> x]
    BY <1>1, <1>5
  <2> QED
    BY <1>2, <2>1
<1>6. CASE w = [v EXCEPT !.count = x]
  <2>1. w = [rows |-> r, loaded |-> l, count |-> x, filter |-> f, busy |-> b, error |-> e, draft |-> d]
    BY <1>1, <1>6
  <2> QED
    BY <1>2, <2>1
<1> QED
  BY <1>3, <1>4, <1>5, <1>6

LEMMA ViewRows ==
  ASSUME NEW v, ViewIs(v), NEW w, NEW x, w = [v EXCEPT !.rows = x]
  PROVE  ViewIs(w) /\ w.rows = x /\ w.loaded = v.loaded /\ w.filter = v.filter
<1>1. PICK r, l, c, f, b, e, d :
        v = [rows |-> r, loaded |-> l, count |-> c, filter |-> f, busy |-> b, error |-> e, draft |-> d]
  BY DEF ViewIs
<1>2. w = [rows |-> x, loaded |-> l, count |-> c, filter |-> f, busy |-> b, error |-> e, draft |-> d]
  BY <1>1
<1>3. ViewIs(w)
  BY <1>2, Zenon DEF ViewIs
<1>4. w.rows = x /\ w.loaded = l /\ w.filter = f /\ v.loaded = l /\ v.filter = f
  BY <1>1, <1>2
<1> QED
  BY <1>3, <1>4

LEMMA ViewLoaded ==
  ASSUME NEW v, ViewIs(v), NEW w, NEW x, w = [v EXCEPT !.loaded = x]
  PROVE  ViewIs(w) /\ w.loaded = x /\ w.rows = v.rows /\ w.filter = v.filter
<1>1. PICK r, l, c, f, b, e, d :
        v = [rows |-> r, loaded |-> l, count |-> c, filter |-> f, busy |-> b, error |-> e, draft |-> d]
  BY DEF ViewIs
<1>2. w = [rows |-> r, loaded |-> x, count |-> c, filter |-> f, busy |-> b, error |-> e, draft |-> d]
  BY <1>1
<1>3. ViewIs(w)
  BY <1>2, Zenon DEF ViewIs
<1>4. w.rows = r /\ w.loaded = x /\ w.filter = f /\ v.rows = r /\ v.filter = f
  BY <1>1, <1>2
<1> QED
  BY <1>3, <1>4

LEMMA ViewFilter ==
  ASSUME NEW v, ViewIs(v), NEW w, NEW x, w = [v EXCEPT !.filter = x]
  PROVE  ViewIs(w) /\ w.filter = x /\ w.rows = v.rows /\ w.loaded = v.loaded
<1>1. PICK r, l, c, f, b, e, d :
        v = [rows |-> r, loaded |-> l, count |-> c, filter |-> f, busy |-> b, error |-> e, draft |-> d]
  BY DEF ViewIs
<1>2. w = [rows |-> r, loaded |-> l, count |-> c, filter |-> x, busy |-> b, error |-> e, draft |-> d]
  BY <1>1
<1>3. ViewIs(w)
  BY <1>2, Zenon DEF ViewIs
<1>4. w.rows = r /\ w.loaded = l /\ w.filter = x /\ v.rows = r /\ v.loaded = l
  BY <1>1, <1>2
<1> QED
  BY <1>3, <1>4

LEMMA ScreenView == ASSUME NEW v, ScreenOK(v) PROVE ViewIs(v)
BY DEF ScreenOK, ViewIs

\* What is shown after an answer with success.
LEMMA ShownRows ==
  ASSUME NEW v, ViewIs(v), NEW q, NEW y, y.ok
  PROVE  LET w == Shown(v, q, y)
         IN  /\ ViewIs(w) /\ w.filter = v.filter
             /\ w.rows = IF q.op = "score" THEN PatchScore(v.rows, q.id, y.row)
                         ELSE IF q.op = "list" THEN y.rows ELSE v.rows
             /\ q.op = "list" => w.loaded
             /\ q.op # "list" => w.loaded = v.loaded
<1> DEFINE w == Shown(v, q, y)
<1>1. CASE q.op = "list"
  <2> DEFINE e == IF ClearsFirst THEN v.error ELSE FALSE
             v1 == [v EXCEPT !.rows = y.rows]
             v2 == [v1 EXCEPT !.loaded = TRUE]
             v3 == [v2 EXCEPT !.count = y.count]
             v4 == [v3 EXCEPT !.error = e]
  <2>1. ViewIs(v1) /\ v1.rows = y.rows /\ v1.filter = v.filter
    BY ViewRows
  <2>2. ViewIs(v2) /\ v2.rows = y.rows /\ v2.filter = v.filter /\ v2.loaded = TRUE
    <3> HIDE DEF v1
    <3> DEFINE x == TRUE
    <3> HIDE DEF x
    <3>1. v2 = [v1 EXCEPT !.loaded = x]
      BY DEF x
    <3> HIDE DEF v2
    <3>2. ViewIs(v2) /\ v2.rows = v1.rows /\ v2.filter = v1.filter /\ v2.loaded = x
      BY <2>1, <3>1, ViewLoaded
    <3>3. x = TRUE
      BY DEF x
    <3> QED
      BY <2>1, <3>2, <3>3, Zenon
  <2>3. Alike(v3, v2)
    <3> HIDE DEF v2
    <3> QED
      BY <2>2, ViewElse, Zenon
  <2>4. Alike(v4, v3)
    <3> HIDE DEF v3, e
    <3> QED
      BY <2>3, ViewElse, Zenon DEF Alike
  <2>5. w = v4
    <3>1. w = [v EXCEPT !.rows = y.rows, !.loaded = TRUE, !.count = y.count,
                        !.error = IF ClearsFirst THEN @ ELSE FALSE]
      BY <1>1, Zenon DEF Shown
    <3> QED
      BY <3>1
  <2> HIDE DEF v2, v3, v4, w
  <2>6. ViewIs(w) /\ w.rows = y.rows /\ w.filter = v.filter /\ w.loaded = TRUE
    BY <2>2, <2>3, <2>4, <2>5, Zenon DEF Alike
  <2> QED
    BY <1>1, <2>6, Zenon DEF w
<1>2. CASE q.op = "score"
  <2> DEFINE x == PatchScore(v.rows, q.id, y.row)
  <2>1. w = [v EXCEPT !.rows = x]
    <3>1. ~(q.op = "list" /\ y.ok) /\ ~(q.op = "list" /\ ~y.ok)
      BY <1>2
    <3>2. w = [v EXCEPT !.rows = PatchScore(@, q.id, y.row)]
      BY <1>2, <3>1, Zenon DEF Shown
    <3> HIDE DEF x, w
    <3> QED
      BY <3>2 DEF x
  <2> HIDE DEF x, w
  <2>2. ViewIs(w) /\ w.rows = x /\ w.loaded = v.loaded /\ w.filter = v.filter
    BY <2>1, ViewRows
  <2>3. q.op # "list"
    BY <1>2
  <2> QED
    BY <1>2, <2>2, <2>3, Zenon DEF w, x
<1>3. CASE q.op \notin {"list", "score"}
  <2> DEFINE d == Looked(v, q, y)
             e == IF y.ok \/ (page = "invites" /\ q.op = "look") THEN v.error ELSE TRUE
             v1 == [v EXCEPT !.draft = d]
             v2 == [v1 EXCEPT !.error = e]
  <2>1. Alike(v1, v)
    <3> HIDE DEF d
    <3> QED
      BY ViewElse, Zenon
  <2>2. Alike(v2, v1)
    <3> HIDE DEF v1, e
    <3> QED
      BY <2>1, ViewElse, Zenon DEF Alike
  <2>3. w = v2
    <3>1. w = [v EXCEPT !.draft = Looked(v, q, y),
                        !.error = IF y.ok \/ (page = "invites" /\ q.op = "look") THEN @ ELSE TRUE]
      BY <1>3, Zenon DEF Shown
    <3> HIDE DEF w
    <3> QED
      BY <3>1
  <2> HIDE DEF v1, v2, w
  <2>4. ViewIs(w) /\ w.rows = v.rows /\ w.filter = v.filter /\ w.loaded = v.loaded
    BY <2>1, <2>2, <2>3, Zenon DEF Alike
  <2>5. q.op # "list" /\ q.op # "score"
    BY <1>3
  <2> QED
    BY <2>4, <2>5, Zenon DEF w
<1> QED
  BY <1>1, <1>2, <1>3

-----------------------------------------------------------------------------
(* Steps and the freshness of views.                                       *)

LEMMA RunNot == NoRun.steps = << >> /\ NoRun.reply = None
BY DEF NoRun

\* A view and its handlers left alone: what agreed with it agrees still.
LEMMA FreshStill ==
  ASSUME NEW a, Fresh(a), page' = page,
         tab'[a].rows = tab[a].rows, tab'[a].loaded = tab[a].loaded, tab'[a].filter = tab[a].filter,
         runs'[a] = runs[a], a \notin mixed' => a \notin mixed, changed \subseteq changed',
         Trusted(a)' => \A rows : Agrees(page, Truth(a), db, mail[a], rows) =>
                                  Agrees(page, Truth(a)', db', mail'[a], rows)
  PROVE  Fresh(a)'
<1> SUFFICES ASSUME a \notin mixed'
             PROVE  /\ \A j, k \in Lanes : runs'[a][j] # NoRun /\ runs'[a][k] # NoRun => j = k
                    /\ \A k \in Lanes : runs'[a][k] # NoRun => FreshRun(a, runs[a][k])'
                    /\ Trusted(a)' /\ (\A k \in Lanes : runs'[a][k] = NoRun) => tab'[a].loaded /\ Fits(a, tab[a].rows)'
  BY DEF Fresh
<1>1. Trusted(a)' => Trusted(a)
  BY DEF Trusted
<1>2. /\ \A j, k \in Lanes : runs[a][j] # NoRun /\ runs[a][k] # NoRun => j = k
      /\ \A k \in Lanes : runs[a][k] # NoRun => FreshRun(a, runs[a][k])
      /\ Trusted(a) /\ (\A k \in Lanes : runs[a][k] = NoRun) => tab[a].loaded /\ Fits(a, tab[a].rows)
  BY DEF Fresh
<1>3. ASSUME NEW k \in Lanes, runs[a][k] # NoRun PROVE FreshRun(a, runs[a][k])'
  <2> DEFINE r == runs[a][k]
  <2>1. /\ r.filter = tab[a].filter
        /\ Trusted(a) =>
             /\ Lists(r.steps) \/ tab[a].loaded
             /\ Lists(r.steps) \/ r.reply # None \/ Agrees(page, Truth(a), db, mail[a], tab[a].rows)
             /\ r.reply # None /\ r.reply.ok /\ (~Lists(r.steps) \/ r.steps[1].op = "list") =>
                  Agrees(page, Truth(a), db, mail[a], After(tab[a].rows, r))
    BY <1>2, <1>3 DEF FreshRun, Fits
  <2>2. runs'[a][k] = r
    OBVIOUS
  <2> HIDE DEF r
  <2>3. /\ r.filter = tab'[a].filter
        /\ Trusted(a)' =>
             /\ Lists(r.steps) \/ tab'[a].loaded
             /\ Lists(r.steps) \/ r.reply # None \/ Agrees(page', Truth(a)', db', mail'[a], tab'[a].rows)
             /\ r.reply # None /\ r.reply.ok /\ (~Lists(r.steps) \/ r.steps[1].op = "list") =>
                  Agrees(page', Truth(a)', db', mail'[a], After(tab'[a].rows, r))
    BY <1>1, <2>1
  <2> QED
    BY <2>2, <2>3 DEF FreshRun, Fits
<1>4. ASSUME Trusted(a)', \A k \in Lanes : runs'[a][k] = NoRun
      PROVE  tab'[a].loaded /\ Fits(a, tab[a].rows)'
  <2>1. tab[a].loaded /\ Agrees(page, Truth(a), db, mail[a], tab[a].rows)
    BY <1>1, <1>2, <1>4 DEF Fits
  <2> QED
    BY <1>4, <2>1 DEF Fits
<1> QED
  BY <1>2, <1>3, <1>4

\* One lane written, the others empty.
LEMMA FreshLane ==
  ASSUME RunsInv, NEW a \in Admins, NEW k \in Lanes, NEW r, runs' = [runs EXCEPT ![a][k] = r],
         \A j \in Lanes : j # k => runs[a][j] = NoRun,
         r # NoRun => FreshRun(a, r)',
         r = NoRun /\ Trusted(a)' => tab'[a].loaded /\ Agrees(page', Truth(a)', db', mail'[a], tab'[a].rows)
  PROVE  Fresh(a)'
<1>1. runs'[a][k] = r /\ \A j \in Lanes : j # k => runs'[a][j] = NoRun
  BY DEF RunsInv
<1>2. \A j \in Lanes : runs'[a][j] # NoRun => j = k /\ runs'[a][j] = r
  BY <1>1
<1>3. ASSUME NEW j \in Lanes, runs'[a][j] # NoRun PROVE FreshRun(a, runs[a][j])'
  <2>1. FreshRun(a, r)' /\ runs'[a][j] = r
    BY <1>2, <1>3
  <2> QED
    BY <2>1 DEF FreshRun
<1>4. ASSUME Trusted(a)', \A j \in Lanes : runs'[a][j] = NoRun
      PROVE  tab'[a].loaded /\ Fits(a, tab[a].rows)'
  <2>1. r = NoRun
    BY <1>1, <1>4
  <2> QED
    BY <1>4, <2>1 DEF Fits
<1> QED
  BY <1>2, <1>3, <1>4 DEF Fresh

\* What one administrator does leaves the others' views as they were.
LEMMA FreshOthers ==
  ASSUME FInv, NEW b, UNCHANGED <<page, db, users>>, changed \subseteq changed',
         \A a \in Admins : a # b => /\ tab'[a] = tab[a] /\ runs'[a] = runs[a] /\ mail'[a] = mail[a]
                                    /\ a \notin mixed' => a \notin mixed,
         b \in users => Fresh(b)'
  PROVE  \A a \in users' : Fresh(a)'
<1> SUFFICES ASSUME NEW a \in users, a # b PROVE Fresh(a)'
  OBVIOUS
<1>1. a \in Admins
  BY DEF FInv, SInv, IInv, DoneInv
<1>2. Fresh(a)
  BY DEF FInv
<1>3. Truth(a)' = Truth(a)
  BY <1>1, TruthSame
<1> QED
  BY <1>1, <1>2, <1>3, FreshStill

LEMMA ViewsFit ==
  ASSUME FInv, NEW a \in Admins
  PROVE  /\ ViewIs(tab[a]) /\ (page = "reports" => DraftOK(tab[a].draft))
         /\ \A b \in Admins : \A w : b # a => [tab EXCEPT ![a] = w][b] = tab[b]
         /\ \A w : [tab EXCEPT ![a] = w][a] = w
         /\ \A b \in Admins : \A k, r : b # a => [runs EXCEPT ![a][k] = r][b] = runs[b]
<1>1. ScreenOK(tab[a]) /\ ViewOK(page, tab[a]) /\ tab = [b \in Admins |-> tab[b]]
  BY DEF FInv, SInv, HeldInv, IInv, TabsInv
<1>2. runs = [b \in Admins |-> [k \in Lanes |-> runs[b][k]]]
  BY DEF FInv, SInv, IInv, RunsInv
<1> QED
  BY <1>1, <1>2, ScreenView DEF ViewOK

LEMMA PressFresh == ASSUME FInv, NEW a \in users, Press(a) PROVE ShapeInv' /\ \A b \in users' : Fresh(b)'
<1>1. PICK h \in Handlers(tab[a]) :
        /\ Free(a) # {}
        /\ runs' = [runs EXCEPT ![a][Lane(a)] = Run(h, tab[a])]
        /\ tab' = [tab EXCEPT ![a].busy = IF h.slot = None THEN @ ELSE h.slot,
                              ![a].error = FALSE,
                              ![a].draft = IF page = "messages" THEN None ELSE @]
        /\ mixed' = Spoilt(a, h)
        /\ UNCHANGED <<page, users, db, mail, changed>>
  BY DEF Press, shared
<1>2. a \in Admins /\ RunsInv /\ ViewIs(tab[a]) /\ (page = "reports" => DraftOK(tab[a].draft))
  BY ViewsFit DEF FInv, SInv, IInv, DoneInv
<1>3. Lane(a) \in Lanes /\ runs[a][Lane(a)] = NoRun
  BY <1>1, LaneFree
<1>r. PICK r, k : r = Run(h, tab[a]) /\ k = Lane(a)
  OBVIOUS
<1>4. r.steps = h.steps /\ r.reply = None /\ r.filter = tab[a].filter
  BY <1>r, RunFields
<1>5. Shape(page, h.steps)
  BY <1>2, HandlersShape
<1>6. runs' = [runs EXCEPT ![a][k] = r]
  BY <1>1, <1>r
<1>7. ShapeInv'
  <2>1. \A b \in Admins, j \in Lanes : runs'[b][j] = r \/ runs'[b][j] = runs[b][j]
    BY <1>2, <1>6 DEF RunsInv
  <2> QED
    BY <1>1, <1>4, <1>5, <2>1 DEF FInv, ShapeInv
<1>8. Alike(tab'[a], tab[a]) /\ \A b \in Admins : b # a => tab'[b] = tab[b]
  <2> DEFINE v1 == [tab[a] EXCEPT !.busy = IF h.slot = None THEN @ ELSE h.slot]
             v2 == [v1 EXCEPT !.error = FALSE]
             v3 == [v2 EXCEPT !.draft = IF page = "messages" THEN None ELSE @]
  <2>1. Alike(v1, tab[a])
    BY <1>2, ViewElse
  <2>2. Alike(v2, v1)
    <3> HIDE DEF v1
    <3> QED
      BY <2>1, ViewElse DEF Alike
  <2>3. Alike(v3, v2)
    <3> HIDE DEF v2
    <3> QED
      BY <2>2, ViewElse DEF Alike
  <2>4. tab' = [tab EXCEPT ![a] = v3]
    BY <1>1 DEF FInv, SInv, IInv, TabsInv
  <2> HIDE DEF v1, v2, v3
  <2>5. Alike(v3, tab[a])
    BY <2>1, <2>2, <2>3, AlikeOnward
  <2> QED
    BY <1>2, <2>4, <2>5, ViewsFit
<1>9. \A b \in Admins : b # a => runs'[b] = runs[b] /\ (b \notin mixed' => b \notin mixed)
  <2>1. mixed' = mixed \cup {a} \/ mixed' = mixed \ {a} \/ mixed' = mixed
    BY <1>1 DEF Spoilt
  <2> QED
    BY <1>2, <1>6, <2>1, ViewsFit
<1>10. Fresh(a)'
  <2>1. CASE Running(a) # {}
    <3>1. a \in mixed'
      BY <1>1, <2>1 DEF Spoilt
    <3> QED
      BY <3>1 DEF Fresh
  <2>2. CASE Running(a) = {}
    <3>1. \A j \in Lanes : runs[a][j] = NoRun
      BY <2>2 DEF Running
    <3>2. mixed' = IF Lists(h.steps) THEN mixed \ {a} ELSE mixed
      BY <1>1, <2>2 DEF Spoilt
    <3>3. ASSUME Trusted(a)', ~Lists(r.steps)
          PROVE  tab'[a].loaded /\ Agrees(page', Truth(a)', db', mail'[a], tab'[a].rows)
      <4>1. mixed' = mixed
        BY <1>4, <3>2, <3>3
      <4>2. Trusted(a)
        BY <1>1, <3>3, <4>1 DEF Trusted
      <4>3. tab[a].loaded /\ Agrees(page, Truth(a), db, mail[a], tab[a].rows)
        BY <3>1, <4>2 DEF FInv, Fresh, Fits, Trusted
      <4>4. Truth(a)' = Truth(a)
        BY <1>1, <1>8, TruthSame DEF Alike
      <4> QED
        BY <1>1, <1>8, <4>3, <4>4 DEF Alike
    <3>4. FreshRun(a, r)'
      <4>1. r.filter = tab'[a].filter
        BY <1>4, <1>8 DEF Alike
      <4> QED
        BY <1>4, <3>3, <4>1 DEF FreshRun, Fits
    <3>5. h.steps # << >>
      BY <1>5 DEF Shape, EndsListing
    <3>6. r # NoRun
      BY <1>4, <3>5, RunNot
    <3>7. k \in Lanes
      BY <1>3, <1>r
    <3> QED
      BY <1>2, <1>6, <1>3, <1>r, <3>1, <3>4, <3>6, <3>7, FreshLane
  <2> QED
    BY <2>1, <2>2
<1>11. \A b \in users' : Fresh(b)'
  BY <1>1, <1>8, <1>9, <1>10, FreshOthers
<1> QED
  BY <1>7, <1>11

\* A handler that gets its answer.
LEMMA WithAnswer ==
  ASSUME SInv, NEW a \in Admins, NEW k \in Lanes, NEW y, runs[a][k] # NoRun, Reply(a, k, y),
         NEW r, r = [runs[a][k] EXCEPT !.reply = y]
  PROVE  /\ runs' = [runs EXCEPT ![a][k] = r] /\ r # NoRun
         /\ r.steps = runs[a][k].steps /\ r.filter = runs[a][k].filter /\ r.reply = y
<1>1. PICK s, l, f, x, z : runs[a][k] = [steps |-> s, slot |-> l, filter |-> f, saw |-> x, reply |-> z]
  BY DEF SInv, IInv, RunsInv, RunOK
<1>2. runs[a][k].steps # << >>
  BY DEF SInv, IInv, RunsInv, RunOK
<1>4. runs' = [runs EXCEPT ![a][k] = r]
  BY DEF Reply, SInv, IInv, RunsInv
<1>5. r = [steps |-> s, slot |-> l, filter |-> f, saw |-> x, reply |-> y]
  BY <1>1
<1>6. r.steps = runs[a][k].steps /\ r.filter = runs[a][k].filter /\ r.reply = y
  BY <1>1, <1>5
<1>7. r # NoRun
  BY <1>2, <1>6, RunNot
<1> QED
  BY <1>4, <1>6, <1>7

\* The handler of a view that can be trusted is the only one.
LEMMA OnlyRun ==
  ASSUME FInv, NEW a \in users, a \notin mixed, NEW k \in Lanes, runs[a][k] # NoRun
  PROVE  FreshRun(a, runs[a][k]) /\ \A j \in Lanes : j # k => runs[a][j] = NoRun
BY DEF FInv, Fresh

LEMMA FailedIsNot == Failed # None /\ ~Failed.ok
<1>1. FALSE \in BOOLEAN /\ NoRows \in {NoRows} /\ 0 \in {0} /\ None \in UserRows \cup {None}
  OBVIOUS
<1>2. Failed = [ok |-> FALSE, rows |-> NoRows, count |-> 0, row |-> None]
  BY Zenon DEF Failed
<1>3. \A b \in BOOLEAN : [ok |-> b, rows |-> NoRows, count |-> 0, row |-> None]
                          \in [ok : BOOLEAN, rows : {NoRows}, count : {0}, row : UserRows \cup {None}]
  BY <1>1
<1>4. Failed \in [ok : BOOLEAN, rows : {NoRows}, count : {0}, row : UserRows \cup {None}]
  BY <1>1, <1>2, <1>3, Zenon
<1>5. ~Failed.ok
  BY <1>2
<1> QED
  BY <1>4, <1>5, NullAssumption, Zenon

LEMMA ShapesPlaced ==
  ASSUME FInv, NEW a \in Admins, NEW k \in Lanes, NEW r, runs' = [runs EXCEPT ![a][k] = r], page' = page,
         r # NoRun => Shape(page, r.steps)
  PROVE  ShapeInv'
<1>1. \A b \in Admins, j \in Lanes : runs'[b][j] = r \/ runs'[b][j] = runs[b][j]
  BY DEF FInv, SInv, IInv, RunsInv
<1> QED
  BY <1>1 DEF FInv, ShapeInv

\* Rows listed, or no answer.
LEMMA AnswerFresh ==
  ASSUME FInv, NEW a \in users, NEW k \in Lanes, NEW y, runs[a][k] # NoRun, runs[a][k].reply = None,
         Reply(a, k, y), UNCHANGED <<page, users, db, tab, mail, mixed, changed>>,
         a \notin mixed /\ y.ok => runs[a][k].steps[1].op = "list" /\ y.rows = Truth(a)
  PROVE  ShapeInv' /\ \A b \in users' : Fresh(b)'
<1>1. a \in Admins /\ SInv /\ RunsInv
  BY DEF FInv, SInv, IInv, DoneInv
<1>r. PICK r : r = [runs[a][k] EXCEPT !.reply = y]
  OBVIOUS
<1>2. /\ runs' = [runs EXCEPT ![a][k] = r] /\ r # NoRun
      /\ r.steps = runs[a][k].steps /\ r.filter = runs[a][k].filter /\ r.reply = y
  BY <1>1, <1>r, WithAnswer
<1>3. ShapeInv'
  BY <1>1, <1>2, ShapesPlaced DEF FInv, ShapeInv
<1>4. ASSUME a \notin mixed PROVE FreshRun(a, r)'
  <2>1. FreshRun(a, runs[a][k])
    BY <1>4, OnlyRun
  <2>2. Truth(a)' = Truth(a)
    BY TruthSame
  <2>3. ASSUME Trusted(a), y.ok PROVE Agrees(page, Truth(a), db, mail[a], After(tab[a].rows, r))
    <3>1. r.steps[1].op = "list" /\ r.reply.rows = Truth(a)
      BY <1>2, <1>4, <2>3
    <3>2. After(tab[a].rows, r) = Truth(a)
      BY <3>1 DEF After
    <3> QED
      BY <3>2, ListedAgrees
  <2>4. /\ r.filter = tab[a].filter
        /\ Trusted(a) =>
             /\ Lists(r.steps) \/ tab[a].loaded
             /\ Lists(r.steps) \/ Agrees(page, Truth(a), db, mail[a], tab[a].rows)
    BY <1>2, <2>1 DEF FreshRun, Fits
  <2>5. Trusted(a)' <=> Trusted(a)
    BY DEF Trusted
  <2>6. /\ r.filter = tab'[a].filter
        /\ Trusted(a)' =>
             /\ Lists(r.steps) \/ tab'[a].loaded
             /\ Lists(r.steps) \/ Agrees(page', Truth(a)', db', mail'[a], tab'[a].rows)
             /\ r.reply.ok => Agrees(page', Truth(a)', db', mail'[a], After(tab'[a].rows, r))
    BY <1>2, <2>2, <2>3, <2>4, <2>5
  <2> QED
    BY <2>6 DEF FreshRun, Fits
<1>5. Fresh(a)'
  <2>1. CASE a \in mixed
    BY <2>1 DEF Fresh
  <2>2. CASE a \notin mixed
    BY <1>1, <1>2, <1>4, <2>2, OnlyRun, FreshLane
  <2> QED
    BY <2>1, <2>2
<1>6. \A b \in Admins : b # a => runs'[b] = runs[b]
  BY <1>1, <1>2, ViewsFit
<1> QED
  BY <1>3, <1>5, <1>6, FreshOthers

LEMMA AnswersFresh ==
  ASSUME FInv, NEW a \in users, NEW k \in Lanes, ServeList(a, k) \/ Fail(a, k) \/ Refuse(a, k)
  PROVE  ShapeInv' /\ \A b \in users' : Fresh(b)'
<1>1. CASE ServeList(a, k)
  <2>1. PICK y : /\ Reply(a, k, y) /\ y.rows = Listed(db, runs[a][k].filter)
                 /\ runs[a][k] # NoRun /\ runs[a][k].reply = None /\ runs[a][k].steps[1].op = "list"
                 /\ UNCHANGED <<page, users, db, tab, mail, mixed, changed>>
    <3> DEFINE f == runs[a][k].filter
    <3>1. PICK y : y = [ok |-> TRUE, rows |-> Listed(db, f), count |-> Counted(db, f), row |-> None]
      OBVIOUS
    <3>2. y.rows = Listed(db, f)
      BY <3>1
    <3>3. Reply(a, k, y)
      BY <1>1, <3>1, Zenon DEF ServeList
    <3> QED
      BY <1>1, <3>2, <3>3 DEF ServeList, Pending, shared, history
  <2>2. a \notin mixed => runs[a][k].filter = tab[a].filter
    BY <2>1, OnlyRun DEF FreshRun
  <2>3. a \notin mixed => y.rows = Truth(a)
    BY <2>1, <2>2 DEF Truth
  <2> QED
    BY <2>1, <2>3, AnswerFresh
<1>2. CASE Fail(a, k) \/ Refuse(a, k)
  <2>1. /\ Reply(a, k, Failed)
        /\ runs[a][k] # NoRun /\ runs[a][k].reply = None
        /\ UNCHANGED <<page, users, db, tab, mail, mixed, changed>>
    BY <1>2 DEF Fail, Refuse, shared, history
  <2> QED
    BY <2>1, FailedIsNot, AnswerFresh
<1> QED
  BY <1>1, <1>2

\* An editor opened, typed into or closed.
LEMMA DraftFresh == ASSUME FInv, NEW a \in users, Draft(a) PROVE ShapeInv' /\ \A b \in users' : Fresh(b)'
<1>1. PICK d : /\ tab' = [tab EXCEPT ![a].draft = d]
               /\ UNCHANGED <<page, users, db, runs, mail, mixed, changed>>
  BY DEF Draft, shared, history
<1>2. a \in Admins
  BY DEF FInv, SInv, IInv, DoneInv
<1>3. PICK w : w = [tab[a] EXCEPT !.draft = d]
  OBVIOUS
<1>4. tab' = [tab EXCEPT ![a] = w]
  BY <1>1, <1>3 DEF FInv, SInv, IInv, TabsInv
<1>5. Alike(w, tab[a])
  BY <1>2, <1>3, ViewsFit, ViewElse
<1>6. tab'[a] = w /\ \A b \in Admins : b # a => tab'[b] = tab[b]
  BY <1>2, <1>4, ViewsFit
<1>7. tab'[a].rows = tab[a].rows /\ tab'[a].loaded = tab[a].loaded /\ tab'[a].filter = tab[a].filter
  BY <1>5, <1>6 DEF Alike
<1>8. Fresh(a)'
  <2>1. Fresh(a) /\ Truth(a)' = Truth(a)
    BY <1>1, <1>7, TruthSame DEF FInv
  <2> QED
    BY <1>1, <1>7, <2>1, FreshStill
<1>9. ShapeInv'
  BY <1>1 DEF FInv, ShapeInv
<1> QED
  BY <1>1, <1>6, <1>8, <1>9, FreshOthers

\* A broken stream spoils the view.
LEMMA DisconnectFresh == ASSUME FInv, NEW a \in users, Disconnect(a) PROVE ShapeInv' /\ \A b \in users' : Fresh(b)'
<1>1. /\ mail' = [mail EXCEPT ![a] = << >>] /\ mixed' = mixed \cup {a}
      /\ UNCHANGED <<page, users, db, tab, runs, changed>>
  BY DEF Disconnect, shared
<1>2. ShapeInv'
  BY <1>1 DEF FInv, ShapeInv
<1>3. Fresh(a)'
  BY <1>1 DEF Fresh
<1>4. \A b \in Admins : a # b => mail'[b] = mail[b]
  BY <1>1 DEF FInv, MailInv
<1> QED
  BY <1>1, <1>2, <1>3, <1>4, FreshOthers

\* A new filter lists again.
LEMMA SetFilterFresh == ASSUME FInv, NEW a \in users, SetFilter(a) PROVE ShapeInv' /\ \A b \in users' : Fresh(b)'
<1>1. PICK f \in Filters(tab[a]) :
        /\ Free(a) # {}
        /\ runs' = [runs EXCEPT ![a][Lane(a)] = Run(Listing, [tab[a] EXCEPT !.filter = f])]
        /\ tab' = [tab EXCEPT ![a].filter = f,
                              ![a].busy = IF Listing.slot = None THEN @ ELSE Listing.slot,
                              ![a].error = IF ClearsFirst THEN FALSE ELSE @]
        /\ mixed' = Spoilt(a, Listing)
        /\ UNCHANGED <<page, users, db, mail, changed>>
  BY DEF SetFilter, shared
<1>2. a \in Admins /\ RunsInv /\ ViewIs(tab[a])
  BY ViewsFit DEF FInv, SInv, IInv, DoneInv
<1>3. Lane(a) \in Lanes /\ runs[a][Lane(a)] = NoRun
  BY <1>1, LaneFree
<1>r. PICK v, r, k : v = [tab[a] EXCEPT !.filter = f] /\ r = Run(Listing, v) /\ k = Lane(a)
  OBVIOUS
<1>4. ViewIs(v) /\ v.filter = f
  BY <1>2, <1>r, ViewFilter
<1>5. r.steps = Listing.steps /\ r.reply = None /\ r.filter = f
  BY <1>4, <1>r, RunFields
<1>6. runs' = [runs EXCEPT ![a][k] = r] /\ k \in Lanes /\ runs[a][k] = NoRun
  BY <1>1, <1>3, <1>r
<1>7. Shape(page, r.steps) /\ Lists(r.steps)
  BY <1>5, ListingShape
<1>8. ShapeInv'
  BY <1>1, <1>2, <1>6, <1>7, ShapesPlaced
<1>9. Alike(tab'[a], v) /\ \A b \in Admins : b # a => tab'[b] = tab[b]
  <2> DEFINE v2 == [v EXCEPT !.busy = IF Listing.slot = None THEN @ ELSE Listing.slot]
             v3 == [v2 EXCEPT !.error = IF ClearsFirst THEN FALSE ELSE @]
  <2>1. Alike(v2, v)
    BY <1>4, ViewElse
  <2>2. Alike(v3, v2)
    <3> HIDE DEF v2
    <3> QED
      BY <2>1, ViewElse DEF Alike
  <2>3. tab' = [tab EXCEPT ![a] = v3]
    <3> DEFINE u1 == [tab[a] EXCEPT !.filter = f]
               u2 == [u1 EXCEPT !.busy = IF Listing.slot = None THEN tab[a].busy ELSE Listing.slot]
               u3 == [u2 EXCEPT !.error = IF ClearsFirst THEN FALSE ELSE tab[a].error]
    <3>1. tab = [b \in Admins |-> tab[b]]
      BY DEF FInv, SInv, IInv, TabsInv
    <3>2. tab' = [tab EXCEPT ![a] = u3]
      BY <1>1, <3>1
    <3>3. ScreenOK(tab[a])
      BY <1>2 DEF FInv, SInv, HeldInv
    <3>4. u1.busy = tab[a].busy /\ u2.error = tab[a].error
      BY <3>3 DEF ScreenOK
    <3>5. v = u1
      BY <1>r
    <3>6. v2 = u2
      <4> HIDE DEF u1
      <4> QED
        BY <3>4, <3>5
    <3>7. v3 = u3
      <4> HIDE DEF v2, u2
      <4> QED
        BY <3>4, <3>6
    <3> QED
      BY <3>2, <3>7
  <2> HIDE DEF v2, v3
  <2>4. Alike(v3, v)
    BY <2>1, <2>2, AlikeOnward
  <2> QED
    BY <1>2, <2>3, <2>4, ViewsFit
<1>10. \A b \in Admins : b # a => runs'[b] = runs[b] /\ (b \notin mixed' => b \notin mixed)
  <2>1. mixed' = mixed \cup {a} \/ mixed' = mixed \ {a} \/ mixed' = mixed
    BY <1>1 DEF Spoilt
  <2> QED
    BY <1>2, <1>6, <2>1, ViewsFit
<1>11. Fresh(a)'
  <2>1. CASE Running(a) # {}
    <3>1. a \in mixed'
      BY <1>1, <2>1 DEF Spoilt
    <3> QED
      BY <3>1 DEF Fresh
  <2>2. CASE Running(a) = {}
    <3>1. \A j \in Lanes : runs[a][j] = NoRun
      BY <2>2 DEF Running
    <3>2. FreshRun(a, r)'
      <4>1. r.filter = tab'[a].filter
        BY <1>4, <1>5, <1>9 DEF Alike
      <4> QED
        BY <1>5, <1>7, <4>1 DEF FreshRun, Fits
    <3>3. r # NoRun
      <4>1. r.steps # << >>
        BY <1>7 DEF Shape, EndsListing
      <4> QED
        BY <4>1, RunNot
    <3> QED
      BY <1>2, <1>6, <3>1, <3>2, <3>3, FreshLane
  <2> QED
    BY <2>1, <2>2
<1>12. \A b \in users' : Fresh(b)'
  BY <1>1, <1>9, <1>10, <1>11, FreshOthers
<1> QED
  BY <1>8, <1>12

\* The handler goes on, or ends with what it brought shown.
LEMMA ResumeFresh ==
  ASSUME FInv, NEW a \in users, NEW k \in Lanes, Resume(a, k) PROVE ShapeInv' /\ \A b \in users' : Fresh(b)'
<1>r. PICK r, left, next, v, w, new :
        /\ r = runs[a][k] /\ left = Rest(r.steps, r.reply)
        /\ next = IF Closing(left) THEN Tail(left) ELSE left
        /\ v = Shown(tab[a], r.steps[1], r.reply)
        /\ w = [v EXCEPT !.draft = IF Closing(left) THEN None ELSE @,
                         !.busy = IF Freed(r, next) THEN None ELSE @]
        /\ new = IF next = << >> THEN NoRun ELSE [r EXCEPT !.steps = next, !.reply = None]
  OBVIOUS
<1>1. /\ r # NoRun /\ r.reply # None
      /\ tab' = [tab EXCEPT ![a] = w]
      /\ runs' = [runs EXCEPT ![a][k] = new]
      /\ mixed' = IF r.reply.ok THEN mixed ELSE mixed \cup {a}
      /\ UNCHANGED <<page, users, db, mail, changed>>
  BY <1>r, Zenon DEF Resume, shared
<1>2. a \in Admins /\ RunsInv /\ ViewIs(tab[a])
  BY ViewsFit DEF FInv, SInv, IInv, DoneInv
<1>3. /\ \E s, l, f, x, y : r = [steps |-> s, slot |-> l, filter |-> f, saw |-> x, reply |-> y]
      /\ r.steps # << >> /\ (\E S : r.steps \in Seq(S)) /\ Tidy(r.steps) /\ Shape(page, r.steps)
  <2>1. RunOK(page, r, acted) /\ RunMeant(page, r) /\ Shape(page, r.steps)
    BY <1>r, <1>1, <1>2 DEF FInv, SInv, IInv, RunsInv, MeantInv, ShapeInv
  <2> QED
    BY <1>1, <2>1 DEF RunOK, Ready, RunMeant
<1>4. /\ next # << >> => Shape(page, next) /\ Lists(next)
      /\ r.reply.ok /\ Lists(r.steps) /\ r.steps[1].op # "list" => next # << >>
  BY <1>r, <1>3, RestShape
<1>5. next # << >> => new.steps = next /\ new.filter = r.filter /\ new.reply = None /\ new # NoRun
  <2> SUFFICES ASSUME next # << >> PROVE new.steps = next /\ new.filter = r.filter /\ new.reply = None /\ new # NoRun
    OBVIOUS
  <2>1. PICK s, l, f, x, y : r = [steps |-> s, slot |-> l, filter |-> f, saw |-> x, reply |-> y]
    BY <1>3
  <2>2. new = [r EXCEPT !.steps = next, !.reply = None]
    BY <1>r, Zenon
  <2>3. new = [steps |-> next, slot |-> l, filter |-> f, saw |-> x, reply |-> None]
    BY <2>1, <2>2
  <2>4. new.steps = next /\ new.filter = f /\ new.reply = None /\ r.filter = f
    BY <2>1, <2>3
  <2> QED
    BY <2>4, RunNot
<1>6. next = << >> => new = NoRun
  BY <1>r, Zenon
<1>7. ShapeInv'
  BY <1>1, <1>2, <1>4, <1>5, <1>6, ShapesPlaced
<1>8. ASSUME ViewIs(v) PROVE Alike(w, v)
  <2> DEFINE v1 == [v EXCEPT !.draft = IF Closing(left) THEN None ELSE @]
             v2 == [v1 EXCEPT !.busy = IF Freed(r, next) THEN None ELSE @]
  <2>1. Alike(v1, v)
    BY <1>8, ViewElse
  <2>2. Alike(v2, v1)
    <3> HIDE DEF v1
    <3> QED
      BY <2>1, ViewElse DEF Alike
  <2>3. w = v2
    BY <1>r, Zenon
  <2> HIDE DEF v1, v2
  <2> QED
    BY <2>1, <2>2, <2>3, AlikeOnward
<1>9. tab'[a] = w /\ \A b \in Admins : b # a => tab'[b] = tab[b] /\ runs'[b] = runs[b]
  BY <1>1, <1>2, ViewsFit
<1>10. ASSUME a \notin mixed' PROVE Fresh(a)'
  <2>1. a \notin mixed /\ r.reply.ok /\ mixed' = mixed
    BY <1>1, <1>10
  <2>2. FreshRun(a, r) /\ \A j \in Lanes : j # k => runs[a][j] = NoRun
    BY <1>r, <1>1, <2>1, OnlyRun
  <2>3. /\ ViewIs(v) /\ v.filter = tab[a].filter
        /\ v.rows = After(tab[a].rows, r)
        /\ r.steps[1].op = "list" => v.loaded
        /\ r.steps[1].op # "list" => v.loaded = tab[a].loaded
    <3>r. PICK u, q, y : u = tab[a] /\ q = r.steps[1] /\ y = r.reply
      OBVIOUS
    <3>1. v = Shown(u, q, y) /\ ViewIs(u) /\ y.ok
      BY <1>r, <1>2, <2>1, <3>r
    <3>2. /\ ViewIs(v) /\ v.filter = u.filter
          /\ v.rows = IF q.op = "score" THEN PatchScore(u.rows, q.id, y.row)
                      ELSE IF q.op = "list" THEN y.rows ELSE u.rows
          /\ q.op = "list" => v.loaded
          /\ q.op # "list" => v.loaded = u.loaded
      BY <3>1, ShownRows
    <3>3. v.rows = After(tab[a].rows, r)
      BY <3>r, <3>2 DEF After
    <3> QED
      BY <3>r, <3>2, <3>3
  <2>4. tab'[a].rows = After(tab[a].rows, r) /\ tab'[a].loaded = v.loaded /\ tab'[a].filter = tab[a].filter
    BY <1>8, <1>9, <2>3 DEF Alike
  <2>5. Truth(a)' = Truth(a)
    BY <1>1, <2>4, TruthSame
  <2>6. Trusted(a)' => Trusted(a)
    BY <1>1, <2>1 DEF Trusted
  <2>7. ASSUME new = NoRun, Trusted(a)'
        PROVE  tab'[a].loaded /\ Agrees(page', Truth(a)', db', mail'[a], tab'[a].rows)
    <3>1. ~Lists(r.steps) \/ r.steps[1].op = "list"
      BY <1>4, <1>5, <2>1, <2>7
    <3>2. Agrees(page, Truth(a), db, mail[a], After(tab[a].rows, r)) /\ (Lists(r.steps) \/ tab[a].loaded)
      BY <1>1, <2>1, <2>2, <2>6, <2>7, <3>1 DEF FreshRun, Fits
    <3>3. v.loaded
      BY <2>3, <3>1, <3>2
    <3> QED
      BY <1>1, <2>4, <2>5, <3>2, <3>3
  <2>8. ASSUME new # NoRun PROVE FreshRun(a, new)'
    <3>1. Lists(new.steps) /\ new.reply = None /\ new.filter = r.filter
      BY <1>4, <1>5, <1>6, <2>8
    <3>2. new.filter = tab'[a].filter
      BY <2>2, <2>4, <3>1 DEF FreshRun
    <3> QED
      BY <3>1, <3>2 DEF FreshRun, Fits
  <2> QED
    BY <1>1, <1>2, <2>2, <2>7, <2>8, FreshLane
<1>11. Fresh(a)'
  BY <1>10 DEF Fresh
<1>12. \A b \in Admins : b \notin mixed' => b \notin mixed
  BY <1>1
<1> QED
  BY <1>1, <1>7, <1>9, <1>11, <1>12, FreshOthers

-----------------------------------------------------------------------------
(* Events.                                                                 *)

\* What a loaded view v shows after event e.
AppliedTo(v, e, w) ==
  /\ ViewIs(w) /\ w.filter = v.filter /\ w.loaded = v.loaded
  /\ page = "reports" /\ e.kind = "created" =>
       w.rows = IF v.filter \in {"all", "pending"} /\ v.rows[e.id] = None
                THEN [v.rows EXCEPT ![e.id] = e.row] ELSE v.rows
  /\ page = "reports" /\ e.kind # "created" =>
       w.rows = [v.rows EXCEPT ![e.id] = IF v.filter \in {"all", e.row.state} THEN e.row ELSE None]
  /\ page = "logs" =>
       w.rows = IF v.filter \in {"all", e.row.verdict} /\ v.rows[e.id] = None
                THEN [v.rows EXCEPT ![e.id] = e.row] ELSE v.rows
  /\ page = "dashboard" => w.rows = Only(e)

LEMMA AppliedRows ==
  ASSUME page \in Pushed, NEW v, ViewIs(v), v.loaded, NEW e, NEW w, w = Applied(v, e)
  PROVE  AppliedTo(v, e, w)
<1>1. PICK r, l, c, f, b, x, d :
        v = [rows |-> r, loaded |-> l, count |-> c, filter |-> f, busy |-> b, error |-> x, draft |-> d]
  BY DEF ViewIs
<1>2. v.rows = r /\ v.loaded = l /\ v.count = c /\ v.filter = f /\ v.draft = d
  BY <1>1
<1>3. ASSUME NEW n, NEW g, NEW s,
             w = [rows |-> s, loaded |-> l, count |-> n, filter |-> f, busy |-> b, error |-> x, draft |-> g]
      PROVE  ViewIs(w) /\ w.filter = v.filter /\ w.loaded = v.loaded /\ w.rows = s
  <2>1. ViewIs(w)
    BY <1>3, Zenon DEF ViewIs
  <2>2. w.filter = f /\ w.loaded = l /\ w.rows = s
    BY <1>3
  <2> QED
    BY <1>2, <2>1, <2>2
<1>4. CASE page = "reports" /\ e.kind = "created"
  <2> DEFINE n == IF v.loaded THEN c + 1 ELSE c
             s == IF v.loaded /\ v.filter \in {"all", "pending"} /\ r[e.id] = None
                  THEN [r EXCEPT ![e.id] = e.row] ELSE r
  <2>1. w = [v EXCEPT !.count = IF v.loaded THEN @ + 1 ELSE @,
                      !.rows = IF v.loaded /\ v.filter \in {"all", "pending"} /\ @[e.id] = None
                               THEN [@ EXCEPT ![e.id] = e.row] ELSE @]
    <3>1. w = ApplyCreated(v, e.id, e.row)
      BY <1>4, Zenon DEF Applied
    <3> QED
      BY <3>1, Zenon DEF ApplyCreated
  <2>2. w = [rows |-> s, loaded |-> l, count |-> n, filter |-> f, busy |-> b, error |-> x, draft |-> d]
    BY <1>1, <1>2, <2>1
  <2>3. s = IF v.filter \in {"all", "pending"} /\ v.rows[e.id] = None
            THEN [v.rows EXCEPT ![e.id] = e.row] ELSE v.rows
    BY <1>2
  <2> HIDE DEF n, s
  <2>4. ViewIs(w) /\ w.filter = v.filter /\ w.loaded = v.loaded /\ w.rows = s
    BY <1>3, <2>2
  <2> QED
    BY <1>4, <2>3, <2>4 DEF AppliedTo
<1>5. CASE page = "reports" /\ e.kind # "created"
  <2> DEFINE n == IF v.loaded /\ c > 0 THEN c - 1 ELSE c
             g == IF d # None /\ d.id = e.id THEN None ELSE d
             s == IF ~v.loaded THEN r
                  ELSE [r EXCEPT ![e.id] = IF v.filter \in {"all", e.row.state} THEN e.row ELSE None]
  <2>1. w = [v EXCEPT !.count = IF v.loaded /\ @ > 0 THEN @ - 1 ELSE @,
                      !.draft = IF @ # None /\ @.id = e.id THEN None ELSE @,
                      !.rows = IF ~v.loaded THEN @
                        ELSE [@ EXCEPT ![e.id] = IF v.filter \in {"all", e.row.state} THEN e.row ELSE None]]
    <3>1. w = ApplyResolved(v, e.id, e.row)
      BY <1>5, Zenon DEF Applied
    <3> QED
      BY <3>1, Zenon DEF ApplyResolved
  <2>2. w = [rows |-> s, loaded |-> l, count |-> n, filter |-> f, busy |-> b, error |-> x, draft |-> g]
    BY <1>1, <1>2, <2>1
  <2>3. s = [v.rows EXCEPT ![e.id] = IF v.filter \in {"all", e.row.state} THEN e.row ELSE None]
    BY <1>2
  <2> HIDE DEF n, g, s
  <2>4. ViewIs(w) /\ w.filter = v.filter /\ w.loaded = v.loaded /\ w.rows = s
    BY <1>3, <2>2
  <2> QED
    BY <1>5, <2>3, <2>4 DEF AppliedTo
<1>6. CASE page = "logs"
  <2> DEFINE n == c + 1
             s == IF v.loaded /\ v.filter \in {"all", e.row.verdict} /\ r[e.id] = None
                  THEN [r EXCEPT ![e.id] = e.row] ELSE r
  <2>1. w = [v EXCEPT !.count = @ + 1,
                      !.rows = IF v.loaded /\ v.filter \in {"all", e.row.verdict} /\ @[e.id] = None
                               THEN [@ EXCEPT ![e.id] = e.row] ELSE @]
    <3>1. w = HandleIncoming(v, e.id, e.row)
      BY <1>6, Zenon DEF Applied
    <3> QED
      BY <3>1, Zenon DEF HandleIncoming
  <2>2. w = [rows |-> s, loaded |-> l, count |-> n, filter |-> f, busy |-> b, error |-> x, draft |-> d]
    BY <1>1, <1>2, <2>1
  <2>3. s = IF v.filter \in {"all", e.row.verdict} /\ v.rows[e.id] = None
            THEN [v.rows EXCEPT ![e.id] = e.row] ELSE v.rows
    BY <1>2
  <2> HIDE DEF n, s
  <2>4. ViewIs(w) /\ w.filter = v.filter /\ w.loaded = v.loaded /\ w.rows = s
    BY <1>3, <2>2
  <2> QED
    BY <1>6, <2>3, <2>4 DEF AppliedTo
<1>7. CASE page = "dashboard"
  <2>1. w = [v EXCEPT !.count = @ + 1, !.rows = Only(e)]
    <3>1. w = BotCallFailed(v, e.id, e.row)
      BY <1>7, Zenon DEF Applied
    <3>2. w = [v EXCEPT !.count = @ + 1, !.rows = [j \in Ids |-> IF j = e.id THEN e.row ELSE None]]
      BY <3>1, Zenon DEF BotCallFailed
    <3> QED
      BY <3>2, Zenon DEF Only
  <2>2. w = [rows |-> Only(e), loaded |-> l, count |-> c + 1, filter |-> f, busy |-> b, error |-> x, draft |-> d]
    BY <1>1, <1>2, <2>1
  <2>3. ViewIs(w) /\ w.filter = v.filter /\ w.loaded = v.loaded /\ w.rows = Only(e)
    BY <1>3, <2>2
  <2> QED
    BY <1>7, <2>3 DEF AppliedTo
<1> QED
  BY <1>4, <1>5, <1>6, <1>7 DEF Pushed

\* Rows that agreed before the first event is applied agree afterwards.
LEMMA AppliedAgrees ==
  ASSUME RowsTyped(page, db), NEW a, MailOK(page, db, mail[a]), mail[a] # << >>, page \in Pushed,
         ViewIs(tab[a]), tab[a].loaded, Fits(a, tab[a].rows),
         NEW w, w = Applied(tab[a], Head(mail[a])), NEW u, u = Tail(mail[a])
  PROVE  Agrees(page, Truth(a), db, u, w.rows)
<1>r. PICK m, v, f, rows, new : m = mail[a] /\ v = tab[a] /\ f = v.filter /\ rows = v.rows /\ new = w.rows
  OBVIOUS
<1>1. PICK S : m \in Seq(S)
  BY <1>r DEF MailOK
<1>2. m # << >> /\ u = Tail(m) /\ Head(m) = m[1]
  BY <1>r, <1>1, TailIs
<1>e. PICK e : e = m[1]
  OBVIOUS
<1>3. AppliedTo(v, e, w)
  <2>1. ViewIs(v) /\ v.loaded /\ w = Applied(v, e)
    BY <1>r, <1>2, <1>e
  <2> QED
    BY <2>1, AppliedRows, Zenon
<1>4. CASE page = "reports"
  <2>1. RowsIn(db, ReportRows) /\ MailReports(db, m) /\ Truth(a) = ReportsListed(db, f)
    BY <1>r, <1>4, TruthIs DEF RowsTyped, MailOK
  <2>2. AgreesReports(ReportsListed(db, f), m, rows)
    BY <1>r, <1>4, <2>1 DEF Fits, Agrees
  <2>3. /\ m[1].kind = "created" =>
             new = IF f \in {"all", "pending"} /\ rows[m[1].id] = None
                   THEN [rows EXCEPT ![m[1].id] = m[1].row] ELSE rows
        /\ m[1].kind # "created" =>
             new = [rows EXCEPT ![m[1].id] = IF f \in {"all", m[1].row.state} THEN m[1].row ELSE None]
    <3>2. /\ e.kind = "created" =>
               w.rows = IF v.filter \in {"all", "pending"} /\ v.rows[e.id] = None
                        THEN [v.rows EXCEPT ![e.id] = e.row] ELSE v.rows
          /\ e.kind # "created" =>
               w.rows = [v.rows EXCEPT ![e.id] = IF v.filter \in {"all", e.row.state} THEN e.row ELSE None]
      BY <1>3, <1>4 DEF AppliedTo
    <3> QED
      BY <1>r, <1>e, <3>2, Zenon
  <2>4. AgreesReports(ReportsListed(db, f), u, new)
    BY <1>1, <1>2, <2>1, <2>2, <2>3, ReportsTold
  <2> QED
    BY <1>r, <1>4, <2>1, <2>4 DEF Agrees, Pushed
<1>5. CASE page = "logs"
  <2>1. MailLogs(db, m) /\ Truth(a) = LogsListed(db, f)
    BY <1>r, <1>5, TruthIs DEF MailOK
  <2>2. AgreesLogs(LogsListed(db, f), db, m, rows)
    BY <1>r, <1>5, <2>1 DEF Fits, Agrees
  <2>3. new = IF f \in {"all", m[1].row.verdict} /\ rows[m[1].id] = None
              THEN [rows EXCEPT ![m[1].id] = m[1].row] ELSE rows
    <3>2. w.rows = IF v.filter \in {"all", e.row.verdict} /\ v.rows[e.id] = None
                   THEN [v.rows EXCEPT ![e.id] = e.row] ELSE v.rows
      BY <1>3, <1>5 DEF AppliedTo
    <3> QED
      BY <1>r, <1>e, <3>2, Zenon
  <2>4. AgreesLogs(LogsListed(db, f), db, u, new)
    BY <1>1, <1>2, <2>1, <2>2, <2>3, LogsTold
  <2> QED
    BY <1>r, <1>5, <2>1, <2>4 DEF Agrees, Pushed
<1>6. CASE page = "dashboard"
  <2>1. MailCalls(db, m) /\ Truth(a) = DashboardListed(db, f)
    BY <1>r, <1>6, TruthIs DEF MailOK
  <2>2. DashboardListed(db, f) = DashboardListed(db, None)
    BY Zenon DEF DashboardListed
  <2>3. u = << >> => Only(m[1]) = DashboardListed(db, None)
    BY <1>1, <1>2, <2>1, MailCallsTail
  <2>4. w.rows = Only(m[1])
    BY <1>3, <1>6, <1>e DEF AppliedTo
  <2> QED
    BY <1>6, <2>1, <2>2, <2>3, <2>4 DEF Agrees, Pushed
<1> QED
  BY <1>4, <1>5, <1>6 DEF Pushed

LEMMA DeliverFresh == ASSUME FInv, NEW a \in users, Deliver(a) PROVE ShapeInv' /\ \A b \in users' : Fresh(b)'
<1>r. PICK w, u : w = Applied(tab[a], Head(mail[a])) /\ u = Tail(mail[a])
  OBVIOUS
<1>1. /\ mail[a] # << >>
      /\ tab' = [tab EXCEPT ![a] = w] /\ mail' = [mail EXCEPT ![a] = u]
      /\ mixed' = IF \E k \in Running(a) : Lists(runs[a][k].steps) THEN mixed \cup {a} ELSE mixed
      /\ UNCHANGED <<page, users, db, runs, changed>>
  <2>1. tab' = [tab EXCEPT ![a] = w]
    BY <1>r, Zenon DEF Deliver
  <2>2. mail' = [mail EXCEPT ![a] = u]
    BY <1>r DEF Deliver, FInv, MailInv
  <2> QED
    BY <2>1, <2>2 DEF Deliver, shared
<1>2. a \in Admins /\ ViewIs(tab[a]) /\ page \in Pushed
  BY <1>1, ViewsFit DEF FInv, SInv, HeldInv, IInv, DoneInv
<1>3. ShapeInv'
  BY <1>1 DEF FInv, ShapeInv
<1>4. /\ tab'[a] = w /\ mail'[a] = u
      /\ \A b \in Admins : b # a => tab'[b] = tab[b] /\ mail'[b] = mail[b]
  <2>1. mail'[a] = u /\ \A b \in Admins : b # a => mail'[b] = mail[b]
    BY <1>1, <1>2 DEF FInv, MailInv
  <2>2. tab' = [tab EXCEPT ![a] = w]
    BY <1>1
  <2>3. tab'[a] = w /\ \A b \in Admins : b # a => tab'[b] = tab[b]
    BY <1>2, <2>2, ViewsFit
  <2> QED
    BY <2>1, <2>3
<1>5. ASSUME a \notin mixed' PROVE Fresh(a)'
  <2>1. a \notin mixed /\ mixed' = mixed /\ \A k \in Lanes : runs[a][k] = NoRun
    <3>1. ASSUME NEW k \in Lanes, runs[a][k] # NoRun PROVE Lists(runs[a][k].steps)
      BY <1>2, <3>1, PushedLists DEF FInv, ShapeInv
    <3> QED
      BY <1>1, <1>5, <3>1 DEF Running
  <2>2. ASSUME Trusted(a)' PROVE tab'[a].loaded /\ Agrees(page', Truth(a)', db', mail'[a], tab'[a].rows)
    <3>1. Trusted(a)
      BY <1>1, <2>1, <2>2 DEF Trusted
    <3>2. tab[a].loaded /\ Fits(a, tab[a].rows)
      BY <2>1, <3>1 DEF FInv, Fresh
    <3>3. RowsTyped(page, db) /\ MailOK(page, db, mail[a])
      BY <1>2 DEF FInv, MailInv
    <3>4. Agrees(page, Truth(a), db, u, w.rows)
      BY <1>r, <1>1, <1>2, <3>2, <3>3, AppliedAgrees
    <3>5. w.loaded /\ w.filter = tab[a].filter
      <4>r. PICK v, e : v = tab[a] /\ e = Head(mail[a])
        OBVIOUS
      <4>1. page \in Pushed /\ ViewIs(v) /\ v.loaded /\ w = Applied(v, e)
        BY <1>r, <1>2, <3>2, <4>r
      <4>2. AppliedTo(v, e, w)
        BY <4>1, AppliedRows, Zenon
      <4>3. w.filter = v.filter /\ w.loaded = v.loaded
        BY <4>2, Zenon DEF AppliedTo
      <4> QED
        BY <4>1, <4>3, <4>r, Zenon
    <3>6. Truth(a)' = Truth(a)
      BY <1>1, <1>4, <3>5, TruthSame
    <3> QED
      BY <1>1, <1>4, <3>4, <3>5, <3>6
  <2> QED
    BY <1>1, <2>1, <2>2 DEF Fresh, Fits
<1>6. Fresh(a)'
  BY <1>5 DEF Fresh
<1>7. \A b \in Admins : b # a => (b \notin mixed' => b \notin mixed)
  BY <1>1
<1> QED
  BY <1>1, <1>3, <1>4, <1>6, <1>7, FreshOthers

-----------------------------------------------------------------------------
(* What others do.                                                         *)

\* Rows that agree with what b should see, however filtered, still do.
Onward(b) ==
  \A f, rows : Agrees(page, Listed(db, f), db, mail[b], rows)
                 => Agrees(page', Listed(db, f)', db', mail'[b], rows)

LEMMA ListedIs ==
  ASSUME NEW f, page' = page
  PROVE  /\ page = "reports" => Listed(db, f) = ReportsListed(db, f) /\ Listed(db, f)' = ReportsListed(db', f)
         /\ page = "logs" => Listed(db, f) = LogsListed(db, f) /\ Listed(db, f)' = LogsListed(db', f)
<1>1. /\ page = "reports" => Listed(db, f) = ReportsListed(db, f)
      /\ page = "logs" => Listed(db, f) = LogsListed(db, f)
  BY Zenon DEF Listed
<1>2. /\ page' = "reports" => Listed(db, f)' = ReportsListed(db', f)
      /\ page' = "logs" => Listed(db, f)' = LogsListed(db', f)
  BY Zenon DEF Listed
<1> QED
  BY <1>1, <1>2

LEMMA StillOnward == ASSUME NEW b, page' = page, db' = db, mail'[b] = mail[b] PROVE Onward(b)
<1>1. ASSUME NEW f PROVE Listed(db, f)' = Listed(db, f)
  BY Zenon DEF Listed
<1> QED
  BY <1>1 DEF Onward

LEMMA ReportsOnward ==
  ASSUME NEW b, page = "reports", page' = page, Carried(db, db', mail[b], mail'[b]) PROVE Onward(b)
<1> SUFFICES ASSUME NEW f, NEW rows, Agrees(page, Listed(db, f), db, mail[b], rows)
             PROVE  Agrees(page', Listed(db, f)', db', mail'[b], rows)
  BY DEF Onward
<1>1. Listed(db, f) = ReportsListed(db, f) /\ Listed(db, f)' = ReportsListed(db', f)
  BY ListedIs
<1>2. AgreesReports(ReportsListed(db, f), mail[b], rows)
  BY <1>1 DEF Agrees
<1>3. AgreesReports(ReportsListed(db', f), mail'[b], rows)
  BY <1>2 DEF Carried
<1> QED
  BY <1>1, <1>3 DEF Agrees, Pushed

LEMMA LogsOnward ==
  ASSUME NEW b, page = "logs", page' = page, CarriedLogs(db, db', mail[b], mail'[b]) PROVE Onward(b)
<1> SUFFICES ASSUME NEW f, NEW rows, Agrees(page, Listed(db, f), db, mail[b], rows)
             PROVE  Agrees(page', Listed(db, f)', db', mail'[b], rows)
  BY DEF Onward
<1>1. Listed(db, f) = LogsListed(db, f) /\ Listed(db, f)' = LogsListed(db', f)
  BY ListedIs
<1>2. AgreesLogs(LogsListed(db, f), db, mail[b], rows)
  BY <1>1 DEF Agrees
<1>3. AgreesLogs(LogsListed(db', f), db', mail'[b], rows)
  BY <1>2 DEF CarriedLogs
<1> QED
  BY <1>1, <1>3 DEF Agrees, Pushed

LEMMA CallsOnward == ASSUME NEW b, page = "dashboard", page' = page, mail'[b] # << >> PROVE Onward(b)
BY DEF Onward, Agrees, Pushed

LEMMA NoMail == ASSUME NEW p, NEW d PROVE MailOK(p, d, << >>)
<1>1. << >> \in Seq({}) /\ DOMAIN << >> = {}
  OBVIOUS
<1> QED
  BY <1>1 DEF MailOK, MailReports, MailLogs, MailCalls

\* An event to everyone who has the page open.
Announced(x) == mail' = [b \in Admins |-> IF b \in users THEN Append(mail[b], x) ELSE << >>]

LEMMA AnnouncedMail ==
  ASSUME NEW x, Announced(x), users \subseteq Admins,
         \A b \in users : MailOK(page', db', Append(mail[b], x))
  PROVE  MailInv'
<1>1. ASSUME NEW b \in Admins PROVE MailOK(page', db', mail'[b])
  <2>1. CASE b \in users
    <3>1. mail'[b] = Append(mail[b], x)
      BY <2>1 DEF Announced
    <3> QED
      BY <2>1, <3>1
  <2>2. CASE b \notin users
    <3>1. mail'[b] = << >>
      BY <2>2 DEF Announced
    <3> QED
      BY <3>1, NoMail
  <2> QED
    BY <2>1, <2>2
<1>2. mail' = [b \in Admins |-> mail'[b]]
  BY DEF Announced
<1> QED
  BY <1>1, <1>2 DEF MailInv

\* A report that is closed is announced.
LEMMA ClosedStep ==
  ASSUME FInv, page = "reports", page' = page, NEW i \in Ids, db[i] # None, db[i].state = "pending",
         NEW s \in {"resolved", "dismissed"}, db' = [db EXCEPT ![i].state = s],
         Announced([kind |-> "resolved", id |-> i, row |-> db'[i]])
  PROVE  RowsTyped(page', db') /\ MailInv' /\ \A b \in users : Onward(b)
<1>1. DOMAIN db = Ids /\ RowsIn(db, ReportRows) /\ users \subseteq Admins
  BY DEF FInv, SInv, MeantInv, RowsOK, RowsTyped, IInv, DoneInv
<1>2. RowsTyped(page', db')
  <2>1. RowsIn(db', ReportRows)
    BY <1>1, ReportClosed
  <2> QED
    BY <2>1 DEF RowsTyped
<1>r. PICK x : x = [kind |-> "resolved", id |-> i, row |-> db'[i]]
  OBVIOUS
<1>3. Announced(x)
  BY <1>r
<1>4. ASSUME NEW b \in users, NEW u, u = Append(mail[b], x)
      PROVE  MailOK(page', db', u) /\ Carried(db, db', mail[b], u)
  <2>1. MailOK(page, db, mail[b])
    BY <1>1 DEF FInv, MailInv
  <2>r. PICK m, d, e : m = mail[b] /\ d = db /\ e = db'
    OBVIOUS
  <2>2. PICK S : m \in Seq(S)
    BY <2>1, <2>r DEF MailOK
  <2>3. /\ MailReports(d, m) /\ DOMAIN d = Ids /\ RowsIn(d, ReportRows) /\ d[i] # None /\ d[i].state = "pending"
        /\ e = [d EXCEPT ![i].state = s]
        /\ u = Append(m, [kind |-> "resolved", id |-> i, row |-> e[i]])
    BY <1>1, <1>r, <1>4, <2>1, <2>r DEF MailOK
  <2>4. MailReports(e, u) /\ Carried(d, e, m, u)
    BY <2>2, <2>3, ReportsClosed
  <2>5. u \in Seq(S \cup {x})
    BY <1>4, <2>2, <2>r, AppendIs
  <2> QED
    BY <2>4, <2>5, <2>r DEF MailOK
<1>5. MailInv'
  BY <1>1, <1>3, <1>4, AnnouncedMail
<1>6. ASSUME NEW b \in users PROVE Onward(b)
  <2>1. mail'[b] = Append(mail[b], x)
    BY <1>1, <1>3, <1>6 DEF Announced
  <2> QED
    BY <1>4, <1>6, <2>1, ReportsOnward
<1> QED
  BY <1>2, <1>5, <1>6

LEMMA ElsewhereStep ==
  ASSUME FInv, Elsewhere PROVE RowsTyped(page', db') /\ MailInv' /\ \A b \in users : Onward(b)
<1>1. PICK i \in Present(db) :
        /\ page = "reports" /\ page' = page /\ db[i].state = "pending"
        /\ db' = [db EXCEPT ![i].state = "dismissed"]
        /\ mail' = Announce(Ask("dismiss", i, None), db')
  BY DEF Elsewhere
<1>2. i \in Ids /\ db[i] # None
  BY DEF Present
<1>r. PICK q, d : q = Ask("dismiss", i, None) /\ d = db'
  OBVIOUS
<1>3. q.op = "dismiss" /\ q.id = i /\ mail' = Announce(q, d)
  BY <1>1, <1>r DEF Ask
<1>4. Announced([kind |-> "resolved", id |-> i, row |-> db'[i]])
  <2>1. mail' = [b \in Admins |-> IF b \in users THEN Append(mail[b], [kind |-> "resolved", id |-> q.id, row |-> d[q.id]])
                                   ELSE << >>]
    BY <1>1, <1>3 DEF Announce
  <2>2. mail' = [b \in Admins |-> IF b \in users THEN Append(mail[b], [kind |-> "resolved", id |-> i, row |-> d[i]])
                                   ELSE << >>]
    BY <1>3, <2>1
  <2> QED
    BY <1>r, <2>2 DEF Announced
<1> QED
  BY <1>1, <1>2, <1>4, ClosedStep

LEMMA ArriveStep ==
  ASSUME FInv, Arrive
  PROVE  RowsTyped(page', db') /\ MailInv' /\ \A b \in users : Onward(b) \/ None \in changed'
<1>1. PICK r \in CASE page = "reports" -> {[kind |-> "user", state |-> "pending"]}
                   [] page = "logs" -> {[verdict |-> x, resolved |-> FALSE] : x \in {"block", "pass"}}
                   [] OTHER -> {[key |-> "k1"]} :
        /\ db' = [db EXCEPT ![NewId(db)] = r]
        /\ mail' = IF page \in {"reports", "dashboard"} \/ (page = "logs" /\ r.verdict # "pass")
                   THEN [b \in Admins |-> IF b \in users
                            THEN Append(mail[b], [kind |-> "created", id |-> NewId(db), row |-> r])
                            ELSE << >>]
                   ELSE mail
  BY Zenon DEF Arrive
<1>2. /\ page' = page /\ users' = users /\ page \in {"reports", "logs", "dashboard", "audit", "botlogs"}
      /\ Unused(db) # {} /\ (mail' = mail => None \in changed')
  BY Zenon DEF Arrive
<1>r. PICK i, x : i = NewId(db) /\ x = [kind |-> "created", id |-> i, row |-> r]
  OBVIOUS
<1>3. i \in Ids /\ db[i] = None /\ \A j \in Unused(db) : i <= j
  BY <1>2, <1>r, NewIs
<1>4. DOMAIN db = Ids /\ users \subseteq Admins /\ db' = [db EXCEPT ![i] = r]
  BY <1>1, <1>r DEF FInv, SInv, MeantInv, RowsOK, IInv, DoneInv
<1>5. ASSUME NEW b \in users PROVE \E S : mail[b] \in Seq(S)
  BY <1>4, <1>5 DEF FInv, MailInv, MailOK
<1>6. ASSUME NEW b \in users, NEW u, u = Append(mail[b], x) PROVE \E S : u \in Seq(S)
  <2>1. PICK S : mail[b] \in Seq(S)
    BY <1>5, <1>6
  <2>2. u \in Seq(S \cup {x})
    BY <1>6, <2>1, AppendIs
  <2> QED
    BY <2>2
<1>7. Announced(x) => \A b \in users : mail'[b] = Append(mail[b], x)
  BY <1>4 DEF Announced
<1>8. CASE page = "reports"
  <2>1. r = [kind |-> "user", state |-> "pending"] /\ Announced(x)
    BY <1>1, <1>8, <1>r DEF Announced
  <2>2. r \in ReportRows /\ r.state = "pending"
    BY <2>1 DEF ReportRows
  <2>3. RowsIn(db, ReportRows)
    BY <1>8 DEF FInv, RowsTyped
  <2>4. RowsTyped(page', db')
    BY <1>2, <1>3, <1>4, <1>8, <2>2, <2>3, RowsInSet DEF RowsTyped
  <2>5. ASSUME NEW b \in users, NEW u, u = Append(mail[b], x)
        PROVE  MailOK(page', db', u) /\ Carried(db, db', mail[b], u)
    <3>1. PICK S : mail[b] \in Seq(S)
      BY <1>5, <2>5
    <3>2. MailReports(db, mail[b])
      BY <1>4, <1>8, <2>5 DEF FInv, MailInv, MailOK
    <3>3. MailReports(db', u) /\ Carried(db, db', mail[b], u)
      BY <1>3, <1>4, <1>r, <2>2, <2>3, <2>5, <3>1, <3>2, ReportsCreated
    <3> QED
      BY <1>2, <1>6, <1>8, <2>5, <3>3 DEF MailOK
  <2>6. MailInv'
    BY <1>4, <2>1, <2>5, AnnouncedMail
  <2> QED
    BY <1>2, <1>7, <1>8, <2>1, <2>4, <2>5, <2>6, ReportsOnward
<1>9. CASE page = "logs"
  <2>1. PICK y \in {"block", "pass"} : r = [verdict |-> y, resolved |-> FALSE]
    BY <1>1, <1>9
  <2>2. r \in LogRows /\ r.verdict = y
    <3>1. \A t \in BOOLEAN : [verdict |-> y, resolved |-> t] \in LogRows
      BY DEF LogRows
    <3>2. FALSE \in BOOLEAN
      OBVIOUS
    <3> QED
      BY <2>1, <3>1, <3>2, Zenon
  <2>3. RowsIn(db, LogRows)
    BY <1>9 DEF FInv, RowsTyped
  <2>4. RowsTyped(page', db')
    BY <1>2, <1>3, <1>4, <1>9, <2>2, <2>3, RowsInSet DEF RowsTyped
  <2>5. CASE y = "block"
    <3>1. Announced(x)
      BY <1>1, <1>9, <1>r, <2>2, <2>5 DEF Announced
    <3>2. ASSUME NEW b \in users, NEW u, u = Append(mail[b], x)
          PROVE  MailOK(page', db', u) /\ CarriedLogs(db, db', mail[b], u)
      <4>1. PICK S : mail[b] \in Seq(S)
        BY <1>5, <3>2
      <4>2. MailLogs(db, mail[b])
        BY <1>4, <1>9, <3>2 DEF FInv, MailInv, MailOK
      <4>3. MailLogs(db', u) /\ CarriedLogs(db, db', mail[b], u)
        BY <1>3, <1>4, <1>r, <2>2, <3>2, <4>1, <4>2, LogsCreated
      <4> QED
        BY <1>2, <1>6, <1>9, <3>2, <4>3 DEF MailOK
    <3>3. MailInv'
      BY <1>4, <3>1, <3>2, AnnouncedMail
    <3> QED
      BY <1>2, <1>7, <1>9, <2>4, <3>1, <3>2, <3>3, LogsOnward
  <2>6. CASE y = "pass"
    <3>1. mail' = mail
      BY <1>1, <1>9, <2>2, <2>6
    <3>2. ASSUME NEW b \in Admins PROVE MailOK(page', db', mail'[b])
      <4>1. MailOK(page, db, mail[b])
        BY <3>2 DEF FInv, MailInv
      <4>2. \A j \in Ids : db[j] # None => db'[j] # None /\ db'[j].verdict = db[j].verdict
        BY <1>3, <1>4
      <4>3. MailLogs(db', mail[b])
        BY <1>9, <4>1, <4>2, MailLogsResolved DEF MailOK
      <4> QED
        BY <1>2, <1>9, <3>1, <4>1, <4>3 DEF MailOK
    <3>3. MailInv'
      BY <3>1, <3>2 DEF FInv, MailInv
    <3> QED
      BY <1>2, <2>4, <3>1, <3>3
  <2> QED
    BY <2>5, <2>6
<1>10. CASE page = "dashboard"
  <2>1. r = [key |-> "k1"] /\ Announced(x)
    BY <1>1, <1>10, <1>r DEF Announced
  <2>2. r \in CallRows
    BY <2>1 DEF CallRows
  <2>3. InTurn(db)
    BY <1>10 DEF FInv, RowsTyped
  <2>4. ASSUME NEW b \in users, NEW u, u = Append(mail[b], x)
        PROVE  u # << >> /\ InTurn(db') /\ MailOK(page', db', u)
    <3>1. PICK S : mail[b] \in Seq(S)
      BY <1>5, <2>4
    <3>2. u # << >> /\ InTurn(db') /\ MailCalls(db', u)
      BY <1>3, <1>4, <1>r, <2>2, <2>3, <2>4, <3>1, CallsCreated
    <3> QED
      BY <1>2, <1>6, <1>10, <2>4, <3>2 DEF MailOK
  <2>5. InTurn(db')
    <3>1. << >> \in Seq({})
      OBVIOUS
    <3>2. PICK u : u = Append(<< >>, x)
      OBVIOUS
    <3>3. MailCalls(db, << >>)
      BY DEF MailCalls
    <3> QED
      BY <1>3, <1>4, <1>r, <2>2, <2>3, <3>1, <3>2, <3>3, CallsCreated
  <2>6. MailInv' /\ RowsTyped(page', db')
    BY <1>2, <1>4, <1>10, <2>1, <2>4, <2>5, AnnouncedMail DEF RowsTyped
  <2> QED
    BY <1>2, <1>7, <1>10, <2>1, <2>4, <2>6, CallsOnward
<1>11. CASE page \in {"audit", "botlogs"}
  <2>1. mail' = mail
    BY <1>1, <1>11
  <2>2. MailInv'
    BY <1>2, <1>11, <2>1 DEF FInv, MailInv, MailOK
  <2>3. RowsTyped(page', db')
    BY <1>2, <1>11 DEF RowsTyped
  <2> QED
    BY <1>2, <2>1, <2>2, <2>3
<1> QED
  BY <1>2, <1>8, <1>9, <1>10, <1>11

-----------------------------------------------------------------------------
(* Changes served.                                                         *)

\* A change requested: the rows keep their shapes, and pages whose rows it
\* changed are told, or can be trusted no longer.
LEMMA ServeChangeStep ==
  ASSUME FInv, NEW a \in users, NEW k \in Lanes, ServeChange(a, k)
  PROVE  RowsTyped(page', db') /\ MailInv' /\ \A b \in users : Onward(b) \/ (page # "reports" /\ a \in changed')
<1>r. PICK q : q = runs[a][k].steps[1]
  OBVIOUS
<1>1. /\ runs[a][k] # NoRun /\ q.op # "list" /\ ~Refuses(q) /\ db' = Effect(q)
      /\ mail' = Announce(q, db')
      /\ changed' = IF db' # db \/ q.op \in Remedies THEN changed \cup {a} ELSE changed
      /\ UNCHANGED <<page, users>>
  BY <1>r, Zenon DEF ServeChange
<1>2. a \in Admins /\ users \subseteq Admins /\ DOMAIN db = Ids /\ RowsTyped(page, db) /\ MailInv
  BY DEF FInv, SInv, MeantInv, RowsOK, IInv, DoneInv
<1>3. StepMeant(page, q, runs[a][k].saw) /\ q.op \notin Rowless
  BY <1>r, <1>1, <1>2, FirstMeant DEF FInv, Rowless
<1>4. q.op \in {"resolve"} \cup Remedies => q.id \in Ids
  BY <1>r, <1>1, <1>2, FirstStep DEF FInv, SInv, IInv
<1>5. Shape(page, runs[a][k].steps) /\ 1 \in DOMAIN runs[a][k].steps
  <2>1. RunOK(page, runs[a][k], acted) /\ Shape(page, runs[a][k].steps)
    BY <1>1, <1>2 DEF FInv, SInv, IInv, RunsInv, ShapeInv
  <2>2. Shape(page, runs[a][k].steps) /\ runs[a][k].steps # << >> /\ \E S : runs[a][k].steps \in Seq(S)
    BY <1>1, <2>1 DEF RunOK, Ready
  <2> QED
    BY <2>2
<1>6. /\ q.op \in {"score", "dismiss"} => q.id \in Ids
      /\ q.op = "score" => page = "users" /\ q.val = -1
  BY <1>r, <1>5 DEF Shape
<1>7. q.id # None => db[q.id] # None
  BY <1>1, Zenon DEF Refuses, Gone
<1>8. page = "reports" /\ q.op \in {"resolve", "dismiss"} => db[q.id].state = "pending"
  BY <1>1, Zenon DEF Refuses, ReportsRefuse
<1>9. CASE db' = db /\ mail' = mail
  <2>1. RowsTyped(page', db')
    BY <1>1, <1>2, <1>9
  <2>2. MailInv'
    BY <1>1, <1>2, <1>9 DEF MailInv
  <2>3. \A b \in users : Onward(b)
    BY <1>1, <1>9, StillOnward
  <2> QED
    BY <2>1, <2>2, <2>3
<1>10. CASE page = "reports"
  <2>1. db' = ReportsEffect(q, db)
    BY <1>1, <1>10, Zenon DEF Effect
  <2>2. q.op \in {"resolve", "dismiss"} \cup Remedies
    BY <1>3, <1>10 DEF StepMeant
  <2>3. CASE q.op \in Remedies
    <3>1. q.op \notin {"resolve", "dismiss"}
      BY <2>3 DEF Remedies
    <3>2. db' = db
      BY <2>1, <2>3, <3>1 DEF ReportsEffect
    <3>3. mail' = mail
      BY <1>1, <3>1 DEF Announce
    <3> QED
      BY <1>9, <3>2, <3>3
  <2>4. CASE q.op \in {"resolve", "dismiss"}
    <3>r. PICK i, s : i = q.id /\ s = IF q.op = "resolve" THEN "resolved" ELSE "dismissed"
      OBVIOUS
    <3>1. i \in Ids /\ s \in {"resolved", "dismissed"}
      BY <1>4, <1>6, <2>4, <3>r
    <3>2. db' = [db EXCEPT ![i].state = s]
      <4>1. CASE q.op = "resolve"
        <5>1. db' = [db EXCEPT ![q.id].state = "resolved"]
          BY <2>1, <4>1, SMT DEF ReportsEffect, Remedies
        <5> QED
          BY <3>r, <4>1, <5>1
      <4>2. CASE q.op = "dismiss"
        <5>1. q.op # "resolve"
          BY <4>2
        <5>2. s = "dismissed"
          BY <3>r, <5>1
        <5>3. db' = [db EXCEPT ![q.id].state = "dismissed"]
          BY <2>1, <4>2, SMT DEF ReportsEffect, Remedies
        <5> QED
          BY <3>r, <5>2, <5>3
      <4> QED
        BY <2>4, <4>1, <4>2
    <3>3. db[i] # None /\ db[i].state = "pending"
      BY <1>7, <1>8, <1>10, <2>4, <3>1, <3>r, IdsAssumption
    <3>4. Announced([kind |-> "resolved", id |-> i, row |-> db'[i]])
      <4>1. mail' = [b \in Admins |-> IF b \in users THEN Append(mail[b], [kind |-> "resolved", id |-> q.id, row |-> db'[q.id]])
                                       ELSE << >>]
        BY <1>1, <1>10, <2>4, Zenon DEF Announce
      <4> QED
        BY <3>r, <4>1, Zenon DEF Announced
    <3> QED
      BY <1>1, <1>10, <3>1, <3>2, <3>3, <3>4, ClosedStep
  <2> QED
    BY <2>2, <2>3, <2>4
<1>11. CASE page # "reports" /\ db' # db
  <2>1. mail' = mail /\ a \in changed' /\ page' = page
    BY <1>1, <1>11 DEF Announce
  <2>2. CASE page = "users"
    <3>1. db' = UsersEffect(q, db)
      BY <1>1, <2>2, Zenon DEF Effect
    <3>2. q.op \in {"ban", "unban", "score"}
      BY <1>3, <2>2 DEF StepMeant
    <3>3. \A i \in Ids : db'[i] \in UserRows
      BY <1>2, <1>6, <2>2, <3>1, <3>2, UsersTyped DEF RowsTyped
    <3>4. RowsTyped(page', db')
      BY <2>1, <2>2, <3>3 DEF RowsTyped
    <3>5. MailInv'
      BY <1>2, <2>1, <2>2 DEF MailInv, MailOK
    <3> QED
      BY <1>11, <2>1, <3>4, <3>5
  <2>3. CASE page = "logs"
    <3>1. db' = LogsEffect(q, db)
      BY <1>1, <2>3, Zenon DEF Effect
    <3>2. q.op = "resolve" /\ db' = [db EXCEPT ![q.id].resolved = TRUE]
      BY <1>11, <3>1 DEF LogsEffect
    <3>3. q.id \in Ids /\ db[q.id] # None
      BY <1>4, <1>7, <3>2, IdsAssumption
    <3>4. RowsIn(db', LogRows) /\ \A j \in Ids : db[j] # None => db'[j] # None /\ db'[j].verdict = db[j].verdict
      <4>r. PICK d, e, i, x : d = db /\ e = db' /\ i = q.id /\ x = TRUE
        OBVIOUS
      <4>1. RowsIn(d, LogRows) /\ i \in Ids /\ d[i] # None /\ x \in BOOLEAN
        BY <1>2, <2>3, <3>3, <4>r DEF RowsTyped
      <4>2. \A j \in Ids : j # i => e[j] = d[j]
        BY <1>2, <3>2, <3>3, <4>r
      <4>3. e[i] = [d[i] EXCEPT !.resolved = x]
        <5>1. e[i] = [d[i] EXCEPT !.resolved = TRUE]
          BY <1>2, <3>2, <3>3, <4>r
        <5> QED
          BY <4>r, <5>1, Zenon
      <4>5. d[i] \in LogRows
        BY <4>1 DEF RowsIn
      <4>6. e[i] \in LogRows /\ e[i].verdict = d[i].verdict
        BY <4>1, <4>3, <4>5 DEF LogRows
      <4>4. RowsIn(e, LogRows) /\ \A j \in Ids : d[j] # None => e[j] # None /\ e[j].verdict = d[j].verdict
        <5>1. e[i] # None /\ i \in Ids
          BY <4>1, <4>6, RowsAreRows
        <5>2. RowsIn(e, LogRows)
          BY <4>1, <4>2, <4>6 DEF RowsIn
        <5>3. ASSUME NEW j \in Ids, d[j] # None PROVE e[j] # None /\ e[j].verdict = d[j].verdict
          <6>1. CASE j = i
            BY <4>6, <5>1, <6>1
          <6>2. CASE j # i
            BY <4>2, <5>3, <6>2
          <6> QED
            BY <6>1, <6>2
        <5> QED
          BY <5>2, <5>3
      <4> QED
        BY <4>r, <4>4
    <3>5. RowsTyped(page', db')
      BY <2>1, <2>3, <3>4 DEF RowsTyped
    <3>6. ASSUME NEW b \in Admins PROVE MailOK(page', db', mail'[b])
      <4>1. MailOK(page, db, mail[b])
        BY <1>2, <3>6 DEF MailInv
      <4>2. MailLogs(db', mail[b])
        BY <2>3, <3>4, <4>1, MailLogsResolved DEF MailOK
      <4> QED
        BY <2>1, <2>3, <4>1, <4>2 DEF MailOK
    <3>7. MailInv'
      BY <1>2, <2>1, <3>6 DEF MailInv
    <3> QED
      BY <1>11, <2>1, <3>5, <3>7
  <2>4. CASE page \notin {"users", "logs"}
    <3>1. page # "dashboard"
      <4>1. page = "dashboard" => Effect(q) = db
        BY Zenon DEF Effect
      <4> QED
        BY <1>1, <1>11, <4>1
    <3>2. RowsTyped(page', db')
      BY <1>11, <2>1, <2>4, <3>1 DEF RowsTyped
    <3>3. MailInv'
      BY <1>2, <1>11, <2>1, <2>4, <3>1 DEF MailInv, MailOK
    <3> QED
      BY <1>11, <2>1, <3>2, <3>3
  <2> QED
    BY <2>2, <2>3, <2>4
<1> QED
  <2>1. page # "reports" => mail' = mail
    BY <1>1 DEF Announce
  <2> QED
    BY <1>9, <1>10, <1>11, <2>1

\* With success or without, an answer of the handler of a view that can be
\* trusted leaves it fresh: what the handler changed it will list again, or the
\* answer patches the row.
LEMMA ServeChangeOwn ==
  ASSUME FInv, NEW a \in users, NEW k \in Lanes, ServeChange(a, k), a \notin mixed,
         NEW y, Reply(a, k, y), NEW q, q = runs[a][k].steps[1],
         y = Failed \/ y = [ok |-> TRUE, rows |-> NoRows, count |-> 0,
                            row |-> IF q.id = None THEN None ELSE db'[q.id]],
         NEW r, r.steps = runs[a][k].steps, r.filter = runs[a][k].filter, r.reply = y
  PROVE  FreshRun(a, r)'
<1>1. /\ runs[a][k] # NoRun /\ runs[a][k].reply = None /\ q.op # "list" /\ ~Refuses(q) /\ db' = Effect(q)
      /\ mail' = Announce(q, db') /\ changed \subseteq changed'
      /\ UNCHANGED <<page, users, tab, mixed>>
  BY Zenon DEF ServeChange
<1>2. a \in Admins /\ DOMAIN db = Ids /\ RowsTyped(page, db)
  BY DEF FInv, SInv, MeantInv, RowsOK, IInv, DoneInv
<1>3. FreshRun(a, runs[a][k])
  BY <1>1, OnlyRun
<1>4. Trusted(a)' => Trusted(a)
  BY <1>1 DEF Trusted
<1>5. /\ r.filter = tab[a].filter
      /\ Trusted(a) => Lists(r.steps) \/ (tab[a].loaded /\ Agrees(page, Truth(a), db, mail[a], tab[a].rows))
  BY <1>1, <1>3 DEF FreshRun, Fits
<1>6. CASE Lists(r.steps)
  BY <1>1, <1>5, <1>6 DEF FreshRun
<1>7. CASE ~Lists(r.steps)
  <2>1. Shape(page, r.steps)
    BY <1>1, <1>2 DEF FInv, ShapeInv
  <2>2. DOMAIN r.steps = 1..1 /\ ((q.op = "look" /\ page \in {"messages", "invites"}) \/ q.op = "score")
    <3>1. ~EndsListing(r.steps)
      BY <1>7 DEF EndsListing, Lists
    <3> QED
      BY <2>1, <3>1 DEF Shape
  <2>3. CASE q.op = "look" /\ page \in {"messages", "invites"}
    <3>1. db' = db
      <4>1. page = "messages" => Effect(q) = db
        BY Zenon DEF Effect
      <4>2. page = "invites" => Effect(q) = InvitesEffect(q, db)
        BY Zenon DEF Effect
      <4>3. InvitesEffect(q, db) = db
        BY <2>3 DEF InvitesEffect
      <4> QED
        BY <1>1, <2>3, <4>1, <4>2, <4>3
    <3>2. mail' = mail /\ Truth(a)' = Truth(a)
      BY <1>1, <2>3, <3>1, TruthSame DEF Announce
    <3>3. After(tab[a].rows, r) = tab[a].rows
      BY <2>3 DEF After
    <3>4. Trusted(a)' => tab'[a].loaded /\ Agrees(page', Truth(a)', db', mail'[a], tab'[a].rows)
      BY <1>1, <1>4, <1>5, <1>7, <3>1, <3>2
    <3>5. After(tab'[a].rows, r) = tab'[a].rows /\ r.filter = tab'[a].filter
      BY <1>1, <1>5, <3>3
    <3> QED
      BY <3>4, <3>5 DEF FreshRun, Fits
  <2>4. CASE q.op = "score"
    <3>1. q.id \in Ids /\ page = "users" /\ q.val = -1
      BY <2>1, <2>2, <2>4 DEF Shape
    <3>2. db' = UsersEffect(q, db)
      BY <1>1, <3>1, Zenon DEF Effect
    <3>r. PICK f, d, e, i : f = tab[a].filter /\ d = db /\ e = db' /\ i = q.id
      OBVIOUS
    <3>3. /\ \A j \in Ids : e[j] \in UserRows
          /\ PatchScore(UsersListed(d, f), q.id, e[q.id]) = UsersListed(e, f)
      <4>1. DOMAIN d = Ids /\ (\A j \in Ids : d[j] \in UserRows) /\ e = UsersEffect(q, d)
        BY <1>2, <3>1, <3>2, <3>r DEF RowsTyped
      <4> QED
        BY <2>4, <3>1, <4>1, ScorePatched
    <3>4. y # None /\ (y.ok => y.row = e[i])
      <4>1. CASE y = Failed
        BY <4>1, FailedIsNot
      <4>2. CASE y = [ok |-> TRUE, rows |-> NoRows, count |-> 0, row |-> IF q.id = None THEN None ELSE db'[q.id]]
        <5>1. y = [ok |-> TRUE, rows |-> NoRows, count |-> 0, row |-> e[i]]
          BY <3>1, <3>r, <4>2, IdsAssumption
        <5>2. TRUE \in BOOLEAN /\ NoRows \in {NoRows} /\ 0 \in {0} /\ e[i] \in UserRows \cup {None}
          BY <3>1, <3>3, <3>r
        <5>3. \A b \in BOOLEAN : [ok |-> b, rows |-> NoRows, count |-> 0, row |-> e[i]]
                                  \in [ok : BOOLEAN, rows : {NoRows}, count : {0}, row : UserRows \cup {None}]
          BY <5>2
        <5>4. y \in [ok : BOOLEAN, rows : {NoRows}, count : {0}, row : UserRows \cup {None}]
          BY <5>1, <5>2, <5>3, Zenon
        <5>5. y # None
          BY <5>4, NullAssumption, Zenon
        <5>6. y.row = e[i]
          BY <5>1
        <5> QED
          BY <5>5, <5>6
      <4> QED
        BY <4>1, <4>2
    <3>5. Truth(a) = UsersListed(d, f) /\ Truth(a)' = UsersListed(e, f)
      BY <1>1, <3>1, <3>r, TruthIs
    <3>6. ASSUME Trusted(a)', y.ok PROVE Agrees(page', Truth(a)', db', mail'[a], After(tab'[a].rows, r))
      <4>1. tab[a].rows = Truth(a)
        BY <1>4, <1>5, <1>7, <3>1, <3>6 DEF Agrees, Pushed
      <4>2. After(tab'[a].rows, r) = PatchScore(tab[a].rows, i, e[i])
        BY <1>1, <2>4, <3>4, <3>6, <3>r DEF After
      <4>3. After(tab'[a].rows, r) = Truth(a)'
        BY <3>3, <3>5, <3>r, <4>1, <4>2
      <4> QED
        BY <1>1, <3>1, <4>3 DEF Agrees
    <3>7. /\ r.filter = tab'[a].filter
          /\ Trusted(a)' => tab'[a].loaded
      BY <1>1, <1>4, <1>5, <1>7
    <3> QED
      BY <3>4, <3>6, <3>7 DEF FreshRun, Fits
  <2> QED
    BY <2>2, <2>3, <2>4
<1> QED
  BY <1>6, <1>7

\* A view nobody touched, its rows' agreement carried on or its trust gone.
LEMMA ApartFresh ==
  ASSUME FInv, NEW b \in users, page' = page, tab'[b] = tab[b], runs'[b] = runs[b],
         b \notin mixed' => b \notin mixed, changed \subseteq changed', Trusted(b)' => Onward(b)
  PROVE  Fresh(b)'
<1>r. PICK f : f = tab[b].filter
  OBVIOUS
<1>1. Truth(b) = Listed(db, f)
  BY <1>r DEF Truth
<1>2. Truth(b)' = Listed(db, f)'
  <2>1. tab'[b].filter = f
    BY <1>r
  <2> QED
    BY <2>1, Zenon DEF Truth, Listed
<1>3. Fresh(b)
  BY DEF FInv
<1>4. Trusted(b)' => \A rows : Agrees(page, Truth(b), db, mail[b], rows) =>
                               Agrees(page, Truth(b)', db', mail'[b], rows)
  BY <1>1, <1>2 DEF Onward
<1> QED
  BY <1>3, <1>4, FreshStill

LEMMA ServeChangeFresh ==
  ASSUME FInv, NEW a \in users, NEW k \in Lanes, ServeChange(a, k) PROVE ShapeInv' /\ \A b \in users' : Fresh(b)'
<1>r. PICK q : q = runs[a][k].steps[1]
  OBVIOUS
<1>1. /\ runs[a][k] # NoRun
      /\ \E y : /\ Reply(a, k, y)
                /\ y = Failed \/ y = [ok |-> TRUE, rows |-> NoRows, count |-> 0,
                                      row |-> IF q.id = None THEN None ELSE db'[q.id]]
      /\ changed \subseteq changed'
      /\ UNCHANGED <<page, users, tab, mixed>>
  <2> DEFINE z == [ok |-> TRUE, rows |-> NoRows, count |-> 0, row |-> IF q.id = None THEN None ELSE db'[q.id]]
  <2>1. Reply(a, k, Failed) \/ Reply(a, k, z)
    <3>1. db' = Effect(q)
      BY <1>r, Zenon DEF ServeChange
    <3>2. \/ Reply(a, k, Failed)
          \/ Reply(a, k, [ok |-> TRUE, rows |-> NoRows, count |-> 0, row |-> IF q.id = None THEN None ELSE Effect(q)[q.id]])
      BY <1>r, Zenon DEF ServeChange
    <3> QED
      BY <3>1, <3>2, Zenon
  <2>2. runs[a][k] # NoRun /\ changed \subseteq changed' /\ UNCHANGED <<page, users, tab, mixed>>
    BY DEF ServeChange
  <2> QED
    BY <2>1, <2>2, Zenon
<1>2. PICK y : /\ Reply(a, k, y)
               /\ y = Failed \/ y = [ok |-> TRUE, rows |-> NoRows, count |-> 0,
                                     row |-> IF q.id = None THEN None ELSE db'[q.id]]
  BY <1>1
<1>3. a \in Admins /\ SInv /\ RunsInv /\ users \subseteq Admins
  BY DEF FInv, SInv, IInv, DoneInv
<1>4. PICK r : r = [runs[a][k] EXCEPT !.reply = y]
  OBVIOUS
<1>5. /\ runs' = [runs EXCEPT ![a][k] = r] /\ r # NoRun
      /\ r.steps = runs[a][k].steps /\ r.filter = runs[a][k].filter /\ r.reply = y
  BY <1>1, <1>2, <1>3, <1>4, WithAnswer
<1>6. ShapeInv'
  BY <1>1, <1>3, <1>5, ShapesPlaced DEF FInv, ShapeInv
<1>7. Fresh(a)'
  <2>1. CASE a \in mixed
    BY <1>1, <2>1 DEF Fresh
  <2>2. CASE a \notin mixed
    <3>1. FreshRun(a, r)'
      BY <1>r, <1>2, <1>5, <2>2, ServeChangeOwn
    <3> QED
      BY <1>1, <1>3, <1>5, <2>2, <3>1, OnlyRun, FreshLane
  <2> QED
    BY <2>1, <2>2
<1>8. ASSUME NEW b \in users, b # a PROVE Fresh(b)'
  <2>1. runs'[b] = runs[b]
    BY <1>3, <1>5, <1>8, ViewsFit
  <2>2. Onward(b) \/ (page # "reports" /\ a \in changed')
    BY <1>8, ServeChangeStep
  <2>3. Trusted(b)' => Onward(b)
    BY <1>1, <1>8, <2>2 DEF Trusted
  <2> QED
    BY <1>1, <1>8, <2>1, <2>3, ApartFresh
<1> QED
  BY <1>1, <1>6, <1>7, <1>8

LEMMA ArriveFresh == ASSUME FInv, Arrive \/ Elsewhere PROVE ShapeInv' /\ \A b \in users' : Fresh(b)'
<1>1. changed \subseteq changed' /\ UNCHANGED <<page, users, tab, runs, mixed>>
  BY DEF Arrive, Elsewhere, history
<1>2. ShapeInv'
  BY <1>1 DEF FInv, ShapeInv
<1>3. ASSUME NEW b \in users PROVE Fresh(b)'
  <2>1. Onward(b) \/ None \in changed'
    BY <1>3, ArriveStep, ElsewhereStep
  <2>2. b \in Admins
    BY <1>3 DEF FInv, SInv, IInv, DoneInv
  <2>3. Trusted(b)' => Onward(b)
    BY <2>1, <2>2, ConsoleAssumption DEF Trusted
  <2> QED
    BY <1>1, <1>3, <2>3, ApartFresh
<1> QED
  BY <1>1, <1>2, <1>3

-----------------------------------------------------------------------------
(* Together.                                                               *)

LEMMA MailStill == ASSUME FInv, UNCHANGED <<page, db, mail>> PROVE RowsTyped(page', db') /\ MailInv'
BY DEF FInv, MailInv

LEMMA MailTail == ASSUME FInv, NEW a \in users, Deliver(a) \/ Disconnect(a) PROVE RowsTyped(page', db') /\ MailInv'
<1>1. PICK u : /\ mail' = [mail EXCEPT ![a] = u] /\ mail[a] # << >>
               /\ u = << >> \/ u = Tail(mail[a])
               /\ UNCHANGED <<page, db>>
  <2>1. CASE Deliver(a)
    <3>1. mail' = [mail EXCEPT ![a] = Tail(mail[a])] /\ mail[a] # << >> /\ UNCHANGED <<page, db>>
      BY <2>1 DEF Deliver, shared, FInv, MailInv
    <3> QED
      BY <3>1
  <2>2. CASE Disconnect(a)
    BY <2>2 DEF Disconnect, shared
  <2> QED
    BY <2>1, <2>2
<1>2. a \in Admins
  BY DEF FInv, SInv, IInv, DoneInv
<1>3. MailOK(page, db, u)
  <2>1. CASE u = << >>
    BY <2>1, NoMail
  <2>2. CASE u = Tail(mail[a])
    <3>1. MailOK(page, db, mail[a])
      BY <1>2 DEF FInv, MailInv
    <3>r. PICK m, d : m = mail[a] /\ d = db
      OBVIOUS
    <3>2. PICK S : m \in Seq(S)
      BY <3>1, <3>r DEF MailOK
    <3>3. m # << >> /\ u = Tail(m)
      BY <1>1, <2>2, <3>r
    <3>4. u \in Seq(S)
      BY <3>2, <3>3, TailIs
    <3>5. page = "reports" => MailReports(d, u)
      BY <3>1, <3>2, <3>3, <3>r, MailReportsTail DEF MailOK
    <3>6. page = "logs" => MailLogs(d, u)
      BY <3>1, <3>2, <3>3, <3>r, MailLogsTail DEF MailOK
    <3>7. page = "dashboard" => MailCalls(d, u)
      BY <3>1, <3>2, <3>3, <3>r, MailCallsTail DEF MailOK
    <3> QED
      BY <3>4, <3>5, <3>6, <3>7, <3>r DEF MailOK
  <2> QED
    BY <1>1, <2>1, <2>2
<1>4. \A b \in Admins : mail'[b] = u \/ mail'[b] = mail[b]
  BY <1>1 DEF FInv, MailInv
<1>5. mail' = [b \in Admins |-> mail'[b]]
  BY <1>1 DEF FInv, MailInv
<1>6. RowsTyped(page', db')
  BY <1>1 DEF FInv
<1> QED
  BY <1>1, <1>3, <1>4, <1>5, <1>6 DEF FInv, MailInv

LEMMA FreshNext == ASSUME FInv, [Next]_vars PROVE FInv'
<1>1. SInv'
  BY SoundNext DEF FInv
<1>2. ASSUME NEW a \in users, Press(a) \/ SetFilter(a) \/ Draft(a)
      PROVE  RowsTyped(page', db') /\ MailInv' /\ ShapeInv' /\ \A b \in users' : Fresh(b)'
  <2>1. UNCHANGED <<page, db, mail>>
    BY <1>2 DEF Press, SetFilter, Draft, shared
  <2>2. RowsTyped(page', db') /\ MailInv'
    BY <2>1, MailStill
  <2> QED
    BY <1>2, <2>2, PressFresh, SetFilterFresh, DraftFresh
<1>3. ASSUME NEW a \in users, Deliver(a) \/ Disconnect(a)
      PROVE  RowsTyped(page', db') /\ MailInv' /\ ShapeInv' /\ \A b \in users' : Fresh(b)'
  BY <1>3, MailTail, DeliverFresh, DisconnectFresh
<1>4. ASSUME NEW a \in users, NEW k \in Lanes, ServeList(a, k) \/ Fail(a, k) \/ Refuse(a, k) \/ Resume(a, k)
      PROVE  RowsTyped(page', db') /\ MailInv' /\ ShapeInv' /\ \A b \in users' : Fresh(b)'
  <2>1. UNCHANGED <<page, db, mail>>
    BY <1>4 DEF ServeList, Fail, Refuse, Resume, shared
  <2>2. RowsTyped(page', db') /\ MailInv'
    BY <2>1, MailStill
  <2> QED
    BY <1>4, <2>2, AnswersFresh, ResumeFresh
<1>5. ASSUME NEW a \in users, NEW k \in Lanes, ServeChange(a, k)
      PROVE  RowsTyped(page', db') /\ MailInv' /\ ShapeInv' /\ \A b \in users' : Fresh(b)'
  BY <1>5, ServeChangeStep, ServeChangeFresh
<1>6. ASSUME Arrive \/ Elsewhere
      PROVE  RowsTyped(page', db') /\ MailInv' /\ ShapeInv' /\ \A b \in users' : Fresh(b)'
  BY <1>6, ArriveStep, ElsewhereStep, ArriveFresh
<1>7. ASSUME UNCHANGED vars
      PROVE  RowsTyped(page', db') /\ MailInv' /\ ShapeInv' /\ \A b \in users' : Fresh(b)'
  <2>1. UNCHANGED <<page, users, db, tab, runs, mail, mixed, changed>>
    BY <1>7 DEF vars
  <2>2. RowsTyped(page', db') /\ MailInv' /\ ShapeInv'
    BY <2>1, MailStill DEF FInv, ShapeInv
  <2>3. ASSUME NEW b \in users PROVE Fresh(b)'
    BY <2>1, <2>3, StillOnward, ApartFresh
  <2> QED
    BY <2>1, <2>2, <2>3
<1>8. RowsTyped(page', db') /\ MailInv' /\ ShapeInv' /\ \A b \in users' : Fresh(b)'
  BY <1>2, <1>3, <1>4, <1>5, <1>6, <1>7 DEF Next
<1> QED
  BY <1>1, <1>8 DEF FInv

LEMMA FreshInit == Init => FInv
<1> SUFFICES ASSUME Init PROVE FInv
  OBVIOUS
<1>1. SInv
  BY SoundInit
<1>2. RowsTyped(page, db)
  BY TypedInit DEF Init
<1>3. MailInv
  BY NoMail DEF Init, MailInv
<1>r. PICK v, r : v = Mounted(page) /\ r = Run(Listing, v)
  OBVIOUS
<1>4. tab = [a \in Admins |-> [v EXCEPT !.busy = IF a \in users THEN Listing.slot ELSE None]]
  BY <1>r, Zenon DEF Init
<1>5. runs = [a \in Admins |-> [k \in Lanes |-> IF a \in users /\ \A j \in Lanes : k <= j THEN r ELSE NoRun]]
  BY <1>r, Zenon DEF Init
<1>6. r.steps = Listing.steps /\ r.reply = None /\ r.filter = v.filter
  BY <1>r, RunFields
<1>7. Shape(page, r.steps) /\ Lists(r.steps) /\ r # NoRun
  <2>1. Shape(page, r.steps) /\ Lists(r.steps)
    BY <1>6, ListingShape
  <2>2. r.steps # << >>
    BY <2>1 DEF Shape, EndsListing
  <2> QED
    BY <2>1, <2>2, RunNot
<1>8. ShapeInv
  <2>1. \A a \in Admins, k \in Lanes : runs[a][k] = r \/ runs[a][k] = NoRun
    BY <1>5
  <2> QED
    BY <1>7, <2>1 DEF ShapeInv
<1>9. ViewIs(v)
  <2>1. v = [rows |-> NoRows, loaded |-> FALSE, count |-> 0, filter |-> InitialFilter(page),
             busy |-> None, error |-> FALSE, draft |-> None]
    BY <1>r, Zenon DEF Mounted
  <2> QED
    BY <2>1, Zenon DEF ViewIs
<1>10. ASSUME NEW a \in users PROVE Fresh(a)
  <2>1. a \in Admins
    BY <1>1 DEF SInv, IInv, DoneInv
  <2>2. \A k \in Lanes : runs[a][k] = IF \A j \in Lanes : k <= j THEN r ELSE NoRun
    BY <1>5, <1>10, <2>1
  <2>3. PICK k \in Lanes : \A j \in Lanes : k <= j
    <3>1. Lanes \subseteq Nat /\ Lanes # {}
      BY ConsoleAssumption
    <3> QED
      BY <3>1, Least
  <2>4. runs[a][k] = r /\ \A j \in Lanes : runs[a][j] # NoRun => j = k /\ runs[a][j] = r
    <3>1. ASSUME NEW j \in Lanes, runs[a][j] # NoRun PROVE j = k /\ runs[a][j] = r
      <4>1. \A i \in Lanes : j <= i
        BY <2>2, <3>1
      <4>2. j <= k /\ k <= j /\ j \in Nat /\ k \in Nat
        BY <2>3, <4>1, ConsoleAssumption
      <4> QED
        BY <2>2, <4>1, <4>2
    <3> QED
      BY <2>2, <2>3, <3>1
  <2>5. tab[a].filter = v.filter
    <3> DEFINE w == [v EXCEPT !.busy = IF a \in users THEN Listing.slot ELSE None]
    <3>1. tab[a] = w
      BY <1>4, <2>1
    <3>2. Alike(w, v)
      BY <1>9, ViewElse
    <3> HIDE DEF w
    <3> QED
      BY <3>1, <3>2 DEF Alike
  <2>6. FreshRun(a, r)
    BY <1>6, <1>7, <2>5 DEF FreshRun
  <2> QED
    BY <1>7, <2>4, <2>6 DEF Fresh
<1> QED
  BY <1>1, <1>2, <1>3, <1>8, <1>10 DEF FInv

LEMMA FreshIsShown == FInv => ShownIsStored
<1> SUFFICES ASSUME FInv, NEW a \in users, Settled(a) PROVE tab[a].rows = Listed(db, tab[a].filter)
  BY DEF ShownIsStored
<1>1. Trusted(a) /\ (\A k \in Lanes : runs[a][k] = NoRun) /\ mail[a] = << >>
  BY DEF Settled, Trusted, Running
<1>2. Agrees(page, Truth(a), db, << >>, tab[a].rows)
  BY <1>1 DEF FInv, Fresh, Fits, Trusted
<1>3. tab[a].rows = Truth(a)
  BY <1>2, AgreesIsTruth
<1> QED
  BY <1>3 DEF Truth

\* A page on which no answer and no event is awaited, whose administrator's
\* requests neither overlapped nor failed since she last listed and whose
\* stream did not break, shows the server's rows under the filter she sees:
\* handlers list again with the filter shown, the score a user's row is patched
\* with is the stored one, and each event told of what it brings.
THEOREM ShownSafe == Spec => []ShownIsStored
BY FreshInit, FreshNext, FreshIsShown, PTL DEF Spec

=============================================================================
