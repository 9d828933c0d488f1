------------------------------ MODULE LiveProofs ------------------------------
(***************************************************************************)
(* Proofs about Live, for every number of rows, presses and faults: what   *)
(* the bells, badges and conversations show while events, answers and      *)
(* marks overtake one another.                                             *)
(***************************************************************************)
EXTENDS Live, FiniteSetTheorems, TLAPS

RowType == [kind: KindsOf(scene), mine: BOOLEAN, done: BOOLEAN]
Askers == Subscribers \cup {"page", "gone"}
Ops == {"count", "tally", "list", "load", "poll", "readOne", "readAll", "send"}
AskType == [by: Askers, op: Ops, row: Nat, stage: {"sent", "stored", "ok", "failed"},
            seen: Seq(RowType), number: Nat, sound: BOOLEAN]
Events == [type: {"new", "resolved"}, row: DOMAIN rows]
Jobs == [type: {"new", "resolved"}, row: DOMAIN rows, late: BOOLEAN]

\* Who asks for what in which scene, and which rows a request may name.
AskOK(a) ==
    /\ a \in AskType
    /\ Len(a.seen) <= Len(rows)
    /\ Unheeded(a) => a.stage = "sent"
    /\ a.by = "gone" => a.op \in {"readOne", "readAll", "send"}
    /\ a.op = "poll" => a.by = "page"
    /\ a.op = "readOne" => a.row \in DOMAIN rows /\ a.by \in {"bell", "page", "gone"}
    /\ a.op = "readAll" => a.by \in {"bell", "page", "chat", "gone"}
    /\ a.op = "send" => a.by \in {"chat", "gone"} /\ scene = "chat"
    /\ a.op = "send" /\ a.stage \in {"stored", "ok"} => a.row \in DOMAIN rows
    /\ a.op = "count" => a.by \in Mounted(scene)
    /\ a.op = "tally" => a.by = "badges" /\ scene = "office"
    /\ a.op = "load" => a.by = "chat"
    /\ a.op = "list" => a.by \in {"bell", "page"} /\ scene = "notices"
    /\ a.by = "bell" => scene = "notices"
    /\ a.by = "chat" => scene = "chat" /\ page = "here"

AsksInv == \A a \in asks : AskOK(a)

\* What the scene determines, and that only open connections carry events.
SceneInv ==
    /\ scene \in Scenes
    /\ dropdown \in BOOLEAN /\ page \in {"here", "elsewhere"}
    /\ \A i \in DOMAIN rows : rows[i].mine => scene = "chat"
    /\ dropdown => scene = "notices"
    /\ \A w \in Subscribers : link[w] # "idle" => w \in Mounted(scene) \/ (w = "chat" /\ scene = "chat")
    /\ \A w \in Subscribers : wire[w] # << >> => link[w] = "open"
    /\ page = "elsewhere" => link["chat"] = "idle" /\ "thread" \notin exact
    /\ exact \subseteq (KindsOf(scene) \cup {"thread"}) \ {"failure"}

OnWire(w, type, i) == \E n \in DOMAIN wire[w] : wire[w][n].type = type /\ wire[w][n].row = i
Unpublished(type, i) == \E j \in jobs : j.type = type /\ j.row = i

\* The event that w has not handled yet.
Coming(w, type, i) == OnWire(w, type, i) \/ Unpublished(type, i)

\* New rows are told once.  While the number of reports is exact, verdicts are too,
\* each after the report it is about.
WireOK(w) ==
    /\ \A m, n \in DOMAIN wire[w] :
          wire[w][m].row = wire[w][n].row =>
              \/ m = n
              \/ m < n /\ wire[w][m].type = "new" /\ wire[w][n].type = "resolved"
              \/ n < m /\ wire[w][n].type = "new" /\ wire[w][m].type = "resolved"
              \/ "report" \notin exact /\ "resolved" \in {wire[w][m].type, wire[w][n].type}
    /\ \A n \in DOMAIN wire[w] :
          /\ wire[w][n].type = "new" => ~Unpublished("new", wire[w][n].row)
          /\ wire[w][n].type = "resolved" =>
                /\ rows[wire[w][n].row].kind = "report" /\ rows[wire[w][n].row].done
                /\ "report" \in exact => ~Unpublished("new", wire[w][n].row)

WireInv == \A w \in Subscribers : WireOK(w)

JobOK(j) ==
    /\ j.type = "new" => ~j.late
    /\ j.type = "resolved" =>
          /\ rows[j.row].kind = "report" /\ rows[j.row].done
          /\ "report" \in exact =>
                /\ \A w \in Subscribers : ~OnWire(w, "resolved", j.row)
                /\ ~Unpublished("new", j.row)
                /\ \A b \in jobs : b.type = "resolved" /\ b.row = j.row => b = j

JobsInv == \A j \in jobs : JobOK(j)

\* A sound answer shows the rows as they are; for a counter, nothing that
\* changes its number is on its way.
SoundOK(a) ==
    a.sound =>
        /\ a.op = "load" => a.seen = rows
        /\ a.op \in Counters => a.number = Open(rows, CountedFor(a))
        /\ a.op = "readAll" => \A i \in DOMAIN rows : rows[i].mine \/ rows[i].done
        /\ a.op \in Counters \cup {"readAll"} /\ a.by \in Subscribers =>
              ~Awaiting(a.by) /\ \A i \in DOMAIN rows : ~Marking(a.by, i)

SoundInv == \A a \in asks : SoundOK(a)

\* No row is listed twice.
ShownInv == \A m, n \in DOMAIN listed : listed[m].row = listed[n].row => m = n

\* A row that an exact conversation is to show is listed, or its event or the answer
\* to the request that sent it is on its way.
Owed(i) ==
    \/ i > Len(rows) - Window
    \/ \A n \in DOMAIN listed : n = 1 => i >= listed[n].row
Answering(i) == \E a \in asks : a.by = "chat" /\ a.op = "send" /\ a.stage = "ok" /\ a.row = i
ThreadInv ==
    "thread" \in exact =>
        scene = "chat" /\ \A i \in DOMAIN rows :
            Owed(i) => Lists(i) \/ Coming("chat", "new", i) \/ Answering(i)

\* The rows an exact number counts are open, or reports whose verdict is to
\* come; no mark of them is on its way to the server, nor the event that they are new.
Counting(c, w, i) ==
    /\ rows[i].kind = c /\ ~rows[i].mine /\ ~Marking(w, i)
    /\ ~rows[i].done \/ Coming(w, "resolved", i)
Believed(c) == {i \in DOMAIN rows : Counting(c, KeptBy(c), i) /\ ~Coming(KeptBy(c), "new", i)}

\* A row whose event is still to come will be counted.
Firm(c) ==
    \A i \in DOMAIN rows :
        rows[i].kind = c /\ ~rows[i].mine /\ Coming(KeptBy(c), "new", i) => Counting(c, KeptBy(c), i)

\* The bell is about to be told that everything is read.
Due(a) == a.by = "bell" /\ a.op = "readAll" /\ a.stage = "ok"
AllReadDue == \E a \in asks : Due(a)

CountOK(c) ==
    \/ c = "notice" /\ AllReadDue
    \/ Firm(c) /\ count[c] = Cardinality(Believed(c))

CountInv == \A c \in exact \cap Kinds : CountOK(c)

LiveInv == TypeOK /\ AsksInv /\ SceneInv /\ WireInv /\ JobsInv /\ SoundInv /\ ShownInv /\ ThreadInv /\ CountInv
-----------------------------------------------------------------------------
(* Sequences.                                                              *)

\* A function on 1..n is a sequence of length n.
LEMMA IsSeq ==
  ASSUME NEW S, NEW n \in Nat, NEW f \in [1..n -> S]
  PROVE  f \in Seq(S) /\ Len(f) = n
  OBVIOUS

\* What a sequence is.
LEMMA SeqIs ==
  ASSUME NEW S, NEW s \in Seq(S)
  PROVE  Len(s) \in Nat /\ DOMAIN s = 1..Len(s) /\ \A i \in 1..Len(s) : s[i] \in S
  OBVIOUS

LEMMA AppendIs ==
  ASSUME NEW S, NEW s \in Seq(S), NEW x \in S
  PROVE  /\ Append(s, x) \in Seq(S) /\ Len(Append(s, x)) = Len(s) + 1
         /\ DOMAIN Append(s, x) = 1..(Len(s) + 1)
         /\ \A i \in 1..Len(s) : Append(s, x)[i] = s[i]
         /\ Append(s, x)[Len(s) + 1] = x
  OBVIOUS

LEMMA TailIs ==
  ASSUME NEW S, NEW s \in Seq(S), s # << >>
  PROVE  /\ Head(s) \in S /\ Head(s) = s[1] /\ 1 \in DOMAIN s
         /\ Tail(s) \in Seq(S) /\ Len(s) \in Nat \ {0}
         /\ Len(Tail(s)) = Len(s) - 1 /\ DOMAIN Tail(s) = 1..(Len(s) - 1)
         /\ \A i \in 1..(Len(s) - 1) : Tail(s)[i] = s[i + 1]
  OBVIOUS

\* The same places, other values.
LEMMA MapIsSeq ==
  ASSUME NEW S, NEW T, NEW s \in Seq(S), NEW g, DOMAIN g = DOMAIN s, g = [i \in DOMAIN s |-> g[i]],
         \A i \in DOMAIN s : g[i] \in T
  PROVE  g \in Seq(T) /\ Len(g) = Len(s)
<1>1. DOMAIN s = 1..Len(s) /\ Len(s) \in Nat
  BY SeqIs
<1>2. g \in [1..Len(s) -> T]
  BY <1>1
<1> QED
  BY <1>1, <1>2, IsSeq

LEMMA SeqGrows ==
  ASSUME NEW S, NEW T, S \subseteq T, NEW s \in Seq(S)
  PROVE  s \in Seq(T)
<1>1. s \in [1..Len(s) -> T] /\ Len(s) \in Nat
  OBVIOUS
<1> QED
  BY <1>1, IsSeq

\* First cuts, and changes nothing of what it leaves.
LEMMA FirstIs ==
  ASSUME NEW S, NEW s \in Seq(S), NEW n \in Nat
  PROVE  /\ First(s, n) \in Seq(S) /\ Len(First(s, n)) <= n
         /\ DOMAIN First(s, n) \subseteq DOMAIN s
         /\ \A i \in DOMAIN First(s, n) : First(s, n)[i] = s[i]
<1> DEFINE k == IF Len(s) < n THEN Len(s) ELSE n
<1>1. k \in Nat /\ k <= n /\ k <= Len(s) /\ Len(s) \in Nat /\ DOMAIN s = 1..Len(s)
  BY SeqIs
<1>2. First(s, n) = SubSeq(s, 1, k)
  BY DEF First
<1> HIDE DEF k
<1>3. SubSeq(s, 1, k) = [i \in 1..k |-> s[i]]
  BY <1>1
<1>4. [i \in 1..k |-> s[i]] \in [1..k -> S]
  BY <1>1, SeqIs
<1>5. First(s, n) \in Seq(S) /\ Len(First(s, n)) = k
  BY <1>1, <1>2, <1>3, <1>4, IsSeq
<1>6. DOMAIN First(s, n) = 1..k
  BY <1>5, SeqIs
<1> QED
  BY <1>1, <1>2, <1>3, <1>5, <1>6

-----------------------------------------------------------------------------
(* Scenes, subscribers and kinds.                                          *)

LEMMA KindFacts ==
  /\ KeptBy("notice") = "bell" /\ KeptBy("message") = "mail" /\ KeptBy("thread") = "chat"
  /\ KeptBy("report") = "badges" /\ KeptBy("verdict") = "badges" /\ KeptBy("failure") = "badges"
  /\ KindsOf("notices") = {"notice"} /\ KindsOf("chat") = {"message"} /\ KindsOf("list") = {"message"}
  /\ KindsOf("office") = {"report", "verdict", "failure"}
  /\ Mounted("notices") = {"bell"} /\ Mounted("chat") = {"mail"} /\ Mounted("office") = {"badges"}
  /\ Mounted("list") = {}
  BY DEF KeptBy, KindsOf, Mounted

LEMMA ThingFacts ==
  /\ ThingsOf("bell") = {"notice"} /\ ThingsOf("mail") = {"message"} /\ ThingsOf("chat") = {"thread"}
  /\ ThingsOf("badges") = {"report", "verdict", "failure"}
  BY KindFacts DEF ThingsOf, Kinds

\* A kind of the scene is kept by what the scene mounts.
LEMMA SceneFacts ==
  ASSUME SceneInv
  PROVE  /\ scene \in {"notices", "chat", "list", "office"}
         /\ KindsOf(scene) \subseteq Kinds /\ Mounted(scene) \subseteq Subscribers
         /\ scene = "notices" => KindsOf(scene) = {"notice"} /\ Mounted(scene) = {"bell"}
         /\ scene = "chat" => KindsOf(scene) = {"message"} /\ Mounted(scene) = {"mail"}
         /\ scene = "list" => KindsOf(scene) = {"message"} /\ Mounted(scene) = {}
         /\ scene = "office" => KindsOf(scene) = {"report", "verdict", "failure"} /\ Mounted(scene) = {"badges"}
<1>1. scene \in {"notices", "chat", "list", "office"}
  BY LiveAssumption DEF SceneInv
<1> QED
  BY <1>1, KindFacts DEF Kinds, Subscribers

\* An open number that the server returns is a natural number.
LEMMA OpenIs ==
  ASSUME NEW S, NEW rs \in Seq(S), NEW k
  PROVE  Open(rs, k) \in Nat
<1>1. IsFiniteSet(DOMAIN rs)
  BY SeqIs, FS_Interval
<1>2. IsFiniteSet({i \in DOMAIN rs : rs[i].kind = k /\ ~rs[i].mine /\ ~rs[i].done})
  BY <1>1, FS_Subset
<1> QED
  BY <1>2, FS_CardinalityType DEF Open

-----------------------------------------------------------------------------
(* Requests.                                                               *)

\* A request just sent.
LEMMA AskIs ==
  ASSUME NEW w, NEW op, NEW i
  PROVE  /\ Ask(w, op, i).by = w /\ Ask(w, op, i).op = op /\ Ask(w, op, i).row = i
         /\ Ask(w, op, i).stage = "sent" /\ Ask(w, op, i).sound = FALSE /\ Ask(w, op, i).seen = << >>
         /\ Ask(w, op, i).number = 0
         /\ Ask(w, op, i) \in [by: {w}, op: {op}, row: {i}, stage: {"sent"}, seen: {<< >>}, number: {0},
                           sound: BOOLEAN]
  BY DEF Ask

\* It is one of the requests that the scene allows.
LEMMA AskFits ==
  ASSUME TypeOK, NEW w \in Askers, NEW op \in Ops, NEW i \in Nat,
         op = "readOne" => i \in DOMAIN rows /\ w \in {"bell", "page"},
         op = "send" => w \in {"chat", "gone"} /\ scene = "chat",
         op = "count" => w \in Mounted(scene), op = "tally" => w = "badges" /\ scene = "office",
         op = "load" => w = "chat", op = "list" => w \in {"bell", "page"} /\ scene = "notices",
         op = "poll" => w = "page", op = "readAll" => w \in {"bell", "page", "chat"}, w # "gone",
         w = "bell" => scene = "notices", w = "chat" => scene = "chat" /\ page = "here"
  PROVE  AskOK(Ask(w, op, i))
<1>1. << >> \in Seq(RowType) /\ Len(<< >>) = 0 /\ Len(rows) \in Nat
  BY DEF TypeOK, RowType
<1> DEFINE b == Ask(w, op, i)
<1>2. b \in AskType
  BY <1>1 DEF Ask, AskType
<1>3. b.by = w /\ b.op = op /\ b.row = i /\ b.stage = "sent" /\ Len(b.seen) <= Len(rows)
  BY <1>1 DEF Ask
<1> HIDE DEF b
<1>4. AskOK(b)
  BY <1>2, <1>3 DEF AskOK
<1> QED
  BY <1>4 DEF b

\* A request and what a change makes of it differ in `sound` only.
Stale(a) == [a EXCEPT !.sound = FALSE]
Alike(a, b) ==
    /\ b.by = a.by /\ b.op = a.op /\ b.row = a.row /\ b.stage = a.stage
    /\ b.seen = a.seen /\ b.number = a.number

LEMMA StaleIs ==
  ASSUME NEW a, AskOK(a)
  PROVE  AskOK(Stale(a)) /\ Alike(a, Stale(a)) /\ Stale(a).sound = FALSE
<1>1. a \in AskType
  BY DEF AskOK
<1>2. Stale(a) \in AskType
  BY <1>1 DEF Stale, AskType
<1>3. Alike(a, Stale(a)) /\ Stale(a).sound = FALSE
  BY <1>1 DEF Stale, Alike, AskType
<1> QED
  BY <1>2, <1>3 DEF AskOK, Alike, Unheeded

LEMMA DisturbedIs ==
  ASSUME NEW as, \A a \in as : AskOK(a)
  PROVE  /\ \A b \in Disturbed(as) : AskOK(b) /\ ~b.sound /\ \E a \in as : Alike(a, b)
         /\ \A a \in as : \E b \in Disturbed(as) : Alike(a, b)
<1>1. Disturbed(as) = {Stale(a) : a \in as}
  BY DEF Disturbed, Stale
<1> QED
  BY <1>1, StaleIs

\* An answer.
LEMMA AnswerIs ==
  ASSUME NEW a, AskOK(a), NEW rs, NEW number
  PROVE  LET b == Answer(a, rs, number)
         IN  /\ b.by = a.by /\ b.op = a.op /\ b.row = a.row /\ b.stage = "ok"
             /\ b.seen = rs /\ b.number = number /\ b.sound = Sound(a)
             /\ b \in [by: {a.by}, op: {a.op}, row: {a.row}, stage: {"ok"}, seen: {rs},
                       number: {number}, sound: BOOLEAN]
<1> DEFINE s == Sound(a)
<1>1. s \in BOOLEAN
  BY DEF Sound
<1>2. Answer(a, rs, number) =
        [[[[a EXCEPT !.stage = "ok"] EXCEPT !.seen = rs] EXCEPT !.number = number] EXCEPT !.sound = s]
  BY DEF Answer
<1> HIDE DEF s
<1> QED
  BY <1>1, <1>2 DEF AskOK, AskType, s

LEMMA AnswerFits ==
  ASSUME NEW a, AskOK(a), NEW rs \in Seq(RowType), Len(rs) <= Len(rows), NEW number \in Nat, a.op # "send",
         ~Unheeded(a)
  PROVE  AskOK(Answer(a, rs, number))
<1>1. Answer(a, rs, number) \in AskType
  BY AnswerIs DEF AskOK, AskType
<1> QED
  BY <1>1, AnswerIs DEF AskOK, Unheeded

\* A request that reached another stage, and one whose row is stored.
LEMMA StagedIs ==
  ASSUME NEW a, AskOK(a), ~Unheeded(a), NEW st \in {"sent", "stored", "ok", "failed"}
  PROVE  LET b == [a EXCEPT !.stage = st]
         IN  /\ b.by = a.by /\ b.op = a.op /\ b.row = a.row /\ b.stage = st
             /\ b.seen = a.seen /\ b.number = a.number /\ b.sound = a.sound
             /\ (a.op = "send" /\ st \in {"stored", "ok"} => a.row \in DOMAIN rows) => AskOK(b)
<1> DEFINE b == [a EXCEPT !.stage = st]
<1>1. /\ b.by = a.by /\ b.op = a.op /\ b.row = a.row /\ b.stage = st
      /\ b.seen = a.seen /\ b.number = a.number /\ b.sound = a.sound
  BY DEF AskOK, AskType
<1>2. b \in AskType
  BY DEF AskOK, AskType
<1> HIDE DEF b
<1>3. (a.op = "send" /\ st \in {"stored", "ok"} => a.row \in DOMAIN rows) => AskOK(b)
  BY <1>1, <1>2 DEF AskOK, Unheeded
<1> QED
  BY <1>1, <1>3 DEF b

\* A request that failed.
LEMMA FailedIs ==
  ASSUME NEW a, AskOK(a), ~Unheeded(a)
  PROVE  LET b == [a EXCEPT !.stage = "failed"]
         IN  AskOK(b) /\ b.by = a.by /\ b.op = a.op /\ b.stage = "failed" /\ b.sound = a.sound
             /\ b.seen = a.seen /\ b.number = a.number
  BY StagedIs

\* The message of a request to send is stored.
StoredAsk(a) == [a EXCEPT !.stage = "stored", !.row = Len(rows) + 1]

LEMMA StoredIs ==
  ASSUME NEW a, AskOK(a), Len(rows) \in Nat
  PROVE  /\ StoredAsk(a).by = a.by /\ StoredAsk(a).op = a.op /\ StoredAsk(a).row = Len(rows) + 1
         /\ StoredAsk(a).stage = "stored" /\ StoredAsk(a).seen = a.seen /\ StoredAsk(a).sound = a.sound
         /\ StoredAsk(a) \in AskType
<1>1. a \in AskType /\ Len(rows) + 1 \in Nat
  BY DEF AskOK
<1>2. StoredAsk(a) = [[a EXCEPT !.stage = "stored"] EXCEPT !.row = Len(rows) + 1]
  BY DEF StoredAsk
<1> QED
  BY <1>1, <1>2 DEF AskType

\* A request stays one that the scene allows while the page stays and rows are
\* only added.
LEMMA AskGrows ==
  ASSUME NEW a, AskOK(a), TypeOK, scene' = scene, page' = page,
         rows' \in Seq(RowType), Len(rows) <= Len(rows')
  PROVE  AskOK(a)'
<1>1. DOMAIN rows \subseteq DOMAIN rows' /\ Len(rows') \in Nat /\ Len(rows) \in Nat /\ Len(a.seen) \in Nat
  BY SeqIs DEF TypeOK, RowType, AskOK, AskType
<1>2. RowType' = RowType /\ AskType' = AskType
  BY DEF RowType, AskType
<1>3. Mounted(scene)' = Mounted(scene)
  BY DEF Mounted
<1> QED
  BY <1>1, <1>2, <1>3 DEF AskOK

LEMMA AsksStep ==
  ASSUME TypeOK, scene' = scene, page' = page, rows' \in Seq(RowType), Len(rows) <= Len(rows'),
         \A b \in asks' : AskOK(b)
  PROVE  AsksInv'
  BY AskGrows DEF AsksInv

-----------------------------------------------------------------------------
(* Types.                                                                  *)

EntryType == [row: DOMAIN rows, done: BOOLEAN]
TypedInv == TypeOK /\ AsksInv /\ SceneInv

\* Types are kept while nothing but requests change.
LEMMA TypedSame ==
  ASSUME TypedInv, UNCHANGED <<scene, rows, jobs, link, wire, count, dropdown, items, page, listed, sidebar>>,
         exact' \subseteq exact, AsksInv'
  PROVE  TypedInv'
  BY DEF TypedInv, TypeOK, SceneInv

\* Requests added to the others, or taken away.
LEMMA AsksSame ==
  ASSUME TypedInv, UNCHANGED <<scene, page, rows>>, \A b \in asks' : b \in asks \/ AskOK(b)
  PROVE  AsksInv'
<1>1. rows' \in Seq(RowType) /\ Len(rows) <= Len(rows')
  BY SeqIs DEF TypedInv, TypeOK, RowType
<1>2. \A b \in asks' : AskOK(b)
  BY DEF TypedInv, AsksInv
<1> QED
  BY <1>1, <1>2, AsksStep DEF TypedInv

\* A stored row.
LEMMA RowIs ==
  ASSUME TypedInv, NEW i \in DOMAIN rows
  PROVE  rows[i] \in RowType /\ rows[i].kind \in KindsOf(scene) /\ rows[i].kind \in Kinds
<1>1. rows[i] \in RowType
  BY SeqIs DEF TypedInv, TypeOK, RowType
<1> QED
  BY <1>1, SceneFacts DEF RowType, TypedInv

\* What is shown or on the wire names rows that are kept.
LEMMA ShownGrows ==
  ASSUME TypeOK, DOMAIN rows \subseteq DOMAIN rows'
  PROVE  /\ items \in Seq(EntryType') /\ listed \in Seq(EntryType')
         /\ \A w \in Subscribers : wire[w] \in Seq(Events')
<1>1. EntryType \subseteq EntryType' /\ Events \subseteq Events'
  BY DEF EntryType, Events
<1>2. items \in Seq(EntryType) /\ listed \in Seq(EntryType) /\ \A w \in Subscribers : wire[w] \in Seq(Events)
  BY DEF TypeOK, EntryType, Events
<1> QED
  BY <1>1, <1>2, SeqGrows

\* Publishing appends to the wires of open connections.
LEMMA PublishIs ==
  ASSUME TypeOK, NEW j \in jobs, Publish(j)
  PROVE  /\ j.type \in {"new", "resolved"} /\ j.row \in DOMAIN rows
         /\ wire' \in [Subscribers -> Seq(Events)] /\ link' = link
         /\ \A w \in Subscribers : link[w] # "open" => wire'[w] = wire[w]
         /\ \A w \in Subscribers : link[w] = "open" =>
              /\ DOMAIN wire[w] = 1..Len(wire[w]) /\ Len(wire[w]) \in Nat
              /\ DOMAIN wire'[w] = 1..(Len(wire[w]) + 1)
              /\ \A n \in 1..Len(wire[w]) : wire'[w][n] = wire[w][n]
              /\ wire'[w][Len(wire[w]) + 1] = [type |-> j.type, row |-> j.row]
<1> DEFINE e == [type |-> j.type, row |-> j.row]
<1>0. j.type \in {"new", "resolved"} /\ j.row \in DOMAIN rows
  BY DEF TypeOK
<1>1. e \in Events
  BY <1>0 DEF Events
<1> HIDE DEF e
<1>2. wire' = [w \in Subscribers |-> IF link[w] = "open" THEN Append(wire[w], e) ELSE wire[w]] /\ link' = link
  BY DEF Publish, e
<1>3. ASSUME NEW w \in Subscribers PROVE wire[w] \in Seq(Events)
  BY DEF TypeOK, Events
<1>4. ASSUME NEW w \in Subscribers, link[w] = "open"
      PROVE  /\ DOMAIN wire[w] = 1..Len(wire[w]) /\ Len(wire[w]) \in Nat
             /\ wire'[w] \in Seq(Events)
             /\ DOMAIN wire'[w] = 1..(Len(wire[w]) + 1)
             /\ \A n \in 1..Len(wire[w]) : wire'[w][n] = wire[w][n]
             /\ wire'[w][Len(wire[w]) + 1] = e
  BY <1>1, <1>2, <1>3, <1>4, AppendIs, SeqIs
<1>5. ASSUME NEW w \in Subscribers, link[w] # "open" PROVE wire'[w] = wire[w] /\ wire'[w] \in Seq(Events)
  BY <1>2, <1>3, <1>5
<1> QED
  BY <1>0, <1>2, <1>4, <1>5 DEF e

\* Rows appended.
LEMMA RowAppended ==
  ASSUME TypedInv, NEW r \in RowType, rows' = Append(rows, r), scene' = scene
  PROVE  /\ rows' \in Seq(RowType) /\ Len(rows') = Len(rows) + 1 /\ Len(rows) \in Nat
         /\ DOMAIN rows = 1..Len(rows) /\ DOMAIN rows' = 1..(Len(rows) + 1)
         /\ \A i \in DOMAIN rows : rows'[i] = rows[i]
         /\ rows'[Len(rows) + 1] = r
<1>1. rows \in Seq(RowType)
  BY DEF TypedInv, TypeOK, RowType
<1> QED
  BY <1>1, AppendIs, SeqIs

\* Marking rows as done keeps everything else of them.
LEMMA DoneIs ==
  ASSUME TypedInv, NEW i \in DOMAIN rows
  PROVE  LET rs == [rows EXCEPT ![i].done = TRUE]
         IN  /\ rs \in Seq(RowType) /\ Len(rs) = Len(rows) /\ DOMAIN rs = DOMAIN rows
             /\ \A j \in DOMAIN rows : rs[j].kind = rows[j].kind /\ rs[j].mine = rows[j].mine
             /\ rs[i].done /\ \A j \in DOMAIN rows : j # i => rs[j] = rows[j]
<1> DEFINE rs == [rows EXCEPT ![i].done = TRUE]
<1>1. rows \in Seq(RowType) /\ \A j \in DOMAIN rows : rows[j] \in RowType
  BY SeqIs DEF TypedInv, TypeOK, RowType
<1>2. rs = [j \in DOMAIN rows |-> rs[j]] /\ DOMAIN rs = DOMAIN rows
  OBVIOUS
<1>3. /\ rs[i] = [rows[i] EXCEPT !.done = TRUE]
      /\ \A j \in DOMAIN rows : j # i => rs[j] = rows[j]
  BY <1>1
<1>4. rs[i] \in RowType /\ rs[i].done /\ rs[i].kind = rows[i].kind /\ rs[i].mine = rows[i].mine
  BY <1>1, <1>3 DEF RowType
<1> HIDE DEF rs
<1>5. \A j \in DOMAIN rows : rs[j] \in RowType
  BY <1>1, <1>3, <1>4
<1>6. rs \in Seq(RowType) /\ Len(rs) = Len(rows)
  BY <1>1, <1>2, <1>5, MapIsSeq
<1> QED
  BY <1>2, <1>3, <1>4, <1>6 DEF rs

LEMMA AllDoneIs ==
  ASSUME TypedInv
  PROVE  /\ AllDone(rows) \in Seq(RowType) /\ Len(AllDone(rows)) = Len(rows)
         /\ DOMAIN AllDone(rows) = DOMAIN rows
         /\ \A j \in DOMAIN rows :
              /\ AllDone(rows)[j].kind = rows[j].kind /\ AllDone(rows)[j].mine = rows[j].mine
              /\ AllDone(rows)[j].mine \/ AllDone(rows)[j].done
              /\ rows[j].done => AllDone(rows)[j].done
<1> DEFINE rs == AllDone(rows)
<1>1. rows \in Seq(RowType) /\ \A j \in DOMAIN rows : rows[j] \in RowType
  BY SeqIs DEF TypedInv, TypeOK, RowType
<1>2. DOMAIN rs = DOMAIN rows /\ \A j \in DOMAIN rows : rs[j] = [rows[j] EXCEPT !.done = @ \/ ~rows[j].mine]
  BY DEF AllDone
<1>3. rs = [j \in DOMAIN rows |-> rs[j]]
  BY DEF AllDone
<1> HIDE DEF rs
<1>4. ASSUME NEW j \in DOMAIN rows
      PROVE  rs[j] \in RowType /\ rs[j].kind = rows[j].kind /\ rs[j].mine = rows[j].mine
             /\ (rs[j].mine \/ rs[j].done) /\ (rows[j].done => rs[j].done)
  <2> DEFINE r == rows[j]
             d == r.done \/ ~r.mine
  <2>1. r \in RowType /\ rs[j] = [r EXCEPT !.done = d]
    BY <1>1, <1>2
  <2>2. d \in BOOLEAN /\ (d \/ r.mine) /\ (r.done => d)
    BY <2>1 DEF RowType
  <2> HIDE DEF d, r
  <2>3. rs[j] \in RowType /\ rs[j].kind = r.kind /\ rs[j].mine = r.mine /\ rs[j].done = d
    BY <2>1, <2>2 DEF RowType
  <2> QED
    BY <2>2, <2>3 DEF r
<1>5. rs \in Seq(RowType) /\ Len(rs) = Len(rows)
  BY <1>1, <1>2, <1>3, <1>4, MapIsSeq
<1> QED
  BY <1>2, <1>4, <1>5 DEF rs

-----------------------------------------------------------------------------
(* Types, one lemma for each action.                                       *)

LEMMA ConnectTyped ==
  ASSUME TypedInv, NEW w \in Subscribers, Connect(w) PROVE TypedInv'
<1> USE DEF TypedInv
<1>0. UNCHANGED <<scene, rows, jobs, wire, exact, count, dropdown, items, page, listed, sidebar>>
  BY DEF Connect, shown
<1>1. TypeOK'
  BY <1>0 DEF Connect, TypeOK
<1>2. AsksInv'
  <2>1. CASE w = "badges" /\ everOpen
    <3>1. "badges" \in Mounted(scene) /\ scene = "office"
      BY <2>1, SceneFacts DEF Connect, SceneInv
    <3>2. AskOK(Ask("badges", "count", 1)) /\ AskOK(Ask("badges", "tally", 1))
      BY <3>1, AskFits DEF Askers, Ops, Subscribers
    <3>3. asks' = asks \cup {Ask("badges", "count", 1), Ask("badges", "tally", 1)}
      BY <2>1 DEF Connect, Counters
    <3> QED
      BY <3>2, <3>3, <1>0, AsksSame
  <2>2. CASE ~(w = "badges" /\ everOpen)
    BY <2>2, <1>0, AsksSame DEF Connect
  <2> QED
    BY <2>1, <2>2
<1>3. SceneInv'
  <2>1. \A v \in Subscribers : (v = w /\ link[v] # "idle" /\ link'[v] = "open") \/ link'[v] = link[v]
    BY DEF Connect, TypeOK
  <2>2. SceneInv /\ Mounted(scene)' = Mounted(scene)
    BY <1>0 DEF Mounted
  <2>3. \A v \in Subscribers : /\ wire'[v] # << >> => link'[v] = "open"
                               /\ link'[v] # "idle" => link[v] # "idle"
    BY <1>0, <2>1, <2>2 DEF SceneInv
  <2>4. page' = "elsewhere" => link'["chat"] = "idle" /\ "thread" \notin exact'
    BY <1>0, <2>1, <2>2 DEF SceneInv, Subscribers
  <2> QED
    BY <1>0, <2>2, <2>3, <2>4 DEF SceneInv
<1> QED
  BY <1>1, <1>2, <1>3

LEMMA DisconnectTyped ==
  ASSUME TypedInv, NEW w \in Subscribers, Disconnect(w) PROVE TypedInv'
<1> USE DEF TypedInv
<1>0. UNCHANGED <<scene, rows, jobs, count, dropdown, items, page, listed, sidebar>> /\ exact' \subseteq exact
  BY DEF Disconnect, shown
<1>1. link[w] # "idle" /\ link' = [link EXCEPT ![w] = "reconnecting"] /\ wire' = [wire EXCEPT ![w] = << >>]
  BY DEF Disconnect
<1>2. /\ wire' \in [Subscribers -> Seq(Events)]
      /\ link' \in [Subscribers -> {"idle", "connecting", "open", "reconnecting"}]
      /\ \A v \in Subscribers :
            \/ v = w /\ link[v] # "idle" /\ link'[v] = "reconnecting" /\ wire'[v] = << >>
            \/ link'[v] = link[v] /\ wire'[v] = wire[v]
  <2>1. /\ wire \in [Subscribers -> Seq(Events)]
        /\ link \in [Subscribers -> {"idle", "connecting", "open", "reconnecting"}]
    BY DEF TypeOK, Events
  <2>2. << >> \in Seq(Events)
    OBVIOUS
  <2> HIDE DEF TypedInv
  <2> QED
    BY <1>1, <2>1, <2>2
<1>3. TypeOK'
  BY <1>0, <1>2 DEF TypeOK, Events
<1>4. AsksInv'
  <2>1. asks' \subseteq asks
    BY DEF Disconnect
  <2> QED
    BY <1>0, <2>1, AsksSame
<1>5. SceneInv'
  <2>1. SceneInv /\ Mounted(scene)' = Mounted(scene)
    BY <1>0 DEF Mounted
  <2>2. \A v \in Subscribers : /\ wire'[v] # << >> => link'[v] = "open"
                               /\ link'[v] # "idle" => link[v] # "idle"
    BY <1>2, <2>1 DEF SceneInv
  <2>3. page' = "elsewhere" => link'["chat"] = "idle" /\ "thread" \notin exact'
    BY <1>0, <1>2, <2>1 DEF SceneInv, Subscribers
  <2> QED
    BY <1>0, <2>1, <2>2, <2>3 DEF SceneInv
<1> QED
  BY <1>3, <1>4, <1>5

LEMMA HandleTyped ==
  ASSUME TypedInv, NEW w \in Subscribers, Handle(w) PROVE TypedInv'
<1> USE DEF TypedInv
<1> DEFINE e == Head(wire[w])
<1>1. e \in Events /\ wire[w] \in Seq(Events) /\ Tail(wire[w]) \in Seq(Events)
  BY TailIs DEF Handle, TypeOK, Events
<1>2. wire' \in [Subscribers -> Seq(Events)]
  BY <1>1 DEF Handle, TypeOK, Events
<1>3. e.row \in DOMAIN rows /\ rows[e.row].kind \in Kinds
  <2>1. e.row \in DOMAIN rows
    BY <1>1 DEF Events
  <2> HIDE DEF e, TypedInv
  <2> QED
    BY <2>1, RowIs
<1> HIDE DEF e
<1> DEFINE n == [row |-> e.row, done |-> FALSE]
<1>4. n \in EntryType
  BY <1>3 DEF EntryType
<1>5. items \in Seq(EntryType) /\ listed \in Seq(EntryType) /\ Limit \in Nat /\ count \in [Kinds -> Nat]
  BY LiveAssumption DEF TypeOK, EntryType
<1>6. \A k \in Kinds : Bump(k) \in [Kinds -> Nat] /\ Drop(k) \in [Kinds -> Nat]
  BY <1>5 DEF Bump, Drop
<1>7. First(<<n>> \o items, Limit) \in Seq(EntryType) /\ Len(First(<<n>> \o items, Limit)) <= Limit
  <2> HIDE DEF n
  <2>1. <<n>> \o items \in Seq(EntryType)
    BY <1>4, <1>5
  <2> QED
    BY <2>1, <1>5, FirstIs
<1>8. Append(listed, n) \in Seq(EntryType)
  <2> HIDE DEF n
  <2> QED
    BY <1>4, <1>5
<1>9. UNCHANGED <<scene, rows, jobs, link, page, sidebar, dropdown, exact>>
  BY DEF Handle, HandleNotice, HandleMail, HandleChat, HandleOffice, Subscribers
<1>10. /\ count' \in [Kinds -> Nat] /\ items' \in Seq(EntryType) /\ Len(items') <= Limit
       /\ listed' \in Seq(EntryType)
       /\ \/ asks' = asks
          \/ w = "chat" /\ asks' = asks \cup {Ask("chat", "readAll", 0)}
  <2>1. CASE w = "bell"
    BY <2>1, <1>5, <1>6, <1>7 DEF Handle, HandleNotice, e, TypeOK, Kinds
  <2>2. CASE w = "mail"
    BY <2>2, <1>5, <1>6 DEF Handle, HandleMail, e, TypeOK, Kinds
  <2>3. CASE w = "chat"
    BY <2>3, <1>5, <1>8 DEF Handle, HandleChat, e, TypeOK, Kinds
  <2>4. CASE w = "badges"
    <3>1. /\ count' = IF e.type = "resolved" THEN Drop("report") ELSE Bump(rows[e.row].kind)
          /\ items' = items /\ listed' = listed /\ asks' = asks
      BY <2>4 DEF Handle, HandleOffice, e
    <3>2. "report" \in Kinds /\ Len(items) <= Limit
      BY DEF Kinds, TypeOK
    <3> QED
      BY <3>1, <3>2, <1>3, <1>5, <1>6
  <2> QED
    BY <2>1, <2>2, <2>3, <2>4 DEF Subscribers
<1>11. TypeOK'
  BY <1>2, <1>9, <1>10 DEF TypeOK, EntryType, Events
<1>12. AsksInv'
  <2>1. CASE w = "chat" /\ asks' = asks \cup {Ask("chat", "readAll", 0)}
    <3>1. link["chat"] # "idle" => scene = "chat" /\ page = "here"
      BY SceneFacts DEF SceneInv, Subscribers, TypeOK
    <3>2. scene = "chat" /\ page = "here"
      BY <2>1, <3>1 DEF SceneInv, Handle, Subscribers
    <3>3. AskOK(Ask("chat", "readAll", 0))
      BY <3>2, AskFits DEF Askers, Ops, Subscribers
    <3> QED
      BY <2>1, <1>9, <3>3, AsksSame
  <2>2. CASE asks' = asks
    BY <2>2, <1>9, AsksSame
  <2> QED
    BY <2>1, <2>2, <1>10
<1>13. SceneInv'
  <2>1. \A v \in Subscribers : wire'[v] # << >> => wire[v] # << >>
    BY DEF Handle, TypeOK
  <2> QED
    BY <1>9, <2>1 DEF SceneInv, Mounted
<1> QED
  BY <1>11, <1>12, <1>13

\* What is to be published names rows that are kept.
LEMMA JobsGrow ==
  ASSUME TypeOK, DOMAIN rows \subseteq DOMAIN rows'
  PROVE  jobs \subseteq Jobs'
  BY DEF TypeOK, Jobs

\* Types are kept by changes of the rows.
LEMMA TypedRows ==
  ASSUME TypedInv, rows' \in Seq(RowType), Len(rows) <= Len(rows'), jobs' \subseteq Jobs',
         UNCHANGED <<scene, link, wire, count, dropdown, items, page, listed, sidebar>>,
         exact' \subseteq exact, \A i \in DOMAIN rows' : rows'[i].mine => scene = "chat", AsksInv'
  PROVE  TypedInv'
<1>1. DOMAIN rows \subseteq DOMAIN rows'
  BY SeqIs DEF TypedInv, TypeOK, RowType
<1>2. items' \in Seq(EntryType') /\ listed' \in Seq(EntryType') /\ \A w \in Subscribers : wire[w] \in Seq(Events')
  BY <1>1, ShownGrows DEF TypedInv
<1>3. wire' \in [Subscribers -> Seq(Events')]
  BY <1>2 DEF TypedInv, TypeOK
<1>4. TypeOK'
  BY <1>2, <1>3 DEF TypedInv, TypeOK, EntryType, Events, Jobs, RowType
<1>5. SceneInv'
  BY DEF TypedInv, SceneInv, Mounted
<1> QED
  BY <1>4, <1>5 DEF TypedInv

LEMMA DisturbedFits ==
  ASSUME TypedInv, NEW as, as \subseteq asks
  PROVE  /\ \A b \in Disturbed(as) : AskOK(b) /\ ~b.sound /\ \E a \in as : Alike(a, b)
         /\ \A a \in as : \E b \in Disturbed(as) : Alike(a, b)
<1>1. \A a \in as : AskOK(a)
  BY DEF TypedInv, AsksInv
<1> QED
  BY <1>1, DisturbedIs

LEMMA PublishTyped ==
  ASSUME TypedInv, NEW j \in jobs, Publish(j) PROVE TypedInv'
<1>1. /\ UNCHANGED <<scene, rows, count, dropdown, items, page, listed, sidebar>>
      /\ exact' \subseteq exact /\ jobs' = jobs \ {j}
      /\ asks' = (asks \ Replying(j)) \cup {[a EXCEPT !.stage = "ok"] : a \in Replying(j)}
  BY DEF Publish, shown
<1>2. /\ wire' \in [Subscribers -> Seq(Events)] /\ link' = link /\ j.row \in DOMAIN rows
      /\ \A w \in Subscribers : link[w] # "open" => wire'[w] = wire[w]
  BY PublishIs DEF TypedInv
<1>3. ASSUME NEW a \in Replying(j) PROVE AskOK([a EXCEPT !.stage = "ok"])
  <2>1. a \in asks /\ AskOK(a) /\ a.stage = "stored" /\ a.row \in DOMAIN rows /\ ~Unheeded(a)
    BY <1>2 DEF Replying, TypedInv, AsksInv, AskOK
  <2>2. PICK b : b = [a EXCEPT !.stage = "ok"]
    OBVIOUS
  <2>3. AskOK(b)
    BY <2>1, <2>2, StagedIs
  <2> QED
    BY <2>2, <2>3
<1>4. AsksInv'
  BY <1>1, <1>3, AsksSame
<1>5. TypeOK'
  BY <1>1, <1>2 DEF TypedInv, TypeOK, Events
<1>6. SceneInv'
  <2>1. \A w \in Subscribers : wire'[w] # << >> => link'[w] = "open"
    BY <1>2 DEF TypedInv, SceneInv
  <2> QED
    BY <1>1, <1>2, <2>1 DEF TypedInv, SceneInv, Mounted
<1> QED
  BY <1>4, <1>5, <1>6 DEF TypedInv

\* A row stored, with an event to publish.
LEMMA RowStored ==
  ASSUME TypedInv, NEW kind \in KindsOf(scene), NEW mine \in BOOLEAN, mine => scene = "chat",
         rows' = Append(rows, Row(kind, mine)), jobs' = jobs \cup {Job("new", Len(rows) + 1, FALSE)},
         scene' = scene
  PROVE  /\ rows' \in Seq(RowType) /\ Len(rows') = Len(rows) + 1 /\ Len(rows) \in Nat
         /\ DOMAIN rows = 1..Len(rows) /\ DOMAIN rows' = 1..(Len(rows) + 1)
         /\ \A i \in DOMAIN rows : rows'[i] = rows[i]
         /\ rows'[Len(rows) + 1] = Row(kind, mine)
         /\ Len(rows) <= Len(rows') /\ jobs' \subseteq Jobs'
         /\ \A i \in DOMAIN rows' : rows'[i].mine => scene = "chat"
<1>1. Row(kind, mine) \in RowType /\ Row(kind, mine).mine = mine
  BY DEF Row, RowType
<1>2. /\ rows' \in Seq(RowType) /\ Len(rows') = Len(rows) + 1 /\ Len(rows) \in Nat
      /\ DOMAIN rows = 1..Len(rows) /\ DOMAIN rows' = 1..(Len(rows) + 1)
      /\ \A i \in DOMAIN rows : rows'[i] = rows[i]
      /\ rows'[Len(rows) + 1] = Row(kind, mine)
  BY <1>1, RowAppended
<1>3. ASSUME NEW i \in DOMAIN rows', rows'[i].mine PROVE scene = "chat"
  <2>1. CASE i = Len(rows) + 1
    BY <1>1, <1>2, <1>3, <2>1
  <2>2. CASE i # Len(rows) + 1
    <3>1. i \in DOMAIN rows /\ rows[i].mine
      BY <1>2, <1>3, <2>2
    <3> QED
      BY <3>1 DEF TypedInv, SceneInv
  <2> QED
    BY <2>1, <2>2
<1>4. jobs' \subseteq Jobs'
  <2>1. Len(rows) + 1 \in DOMAIN rows' /\ DOMAIN rows \subseteq DOMAIN rows'
    BY <1>2
  <2>2. jobs \subseteq Jobs'
    BY <2>1, JobsGrow DEF TypedInv
  <2>3. Job("new", Len(rows) + 1, FALSE) \in Jobs'
    BY <2>1 DEF Job, Jobs
  <2> QED
    BY <2>2, <2>3
<1>5. Len(rows) <= Len(rows')
  BY <1>2
<1> QED
  BY <1>2, <1>3, <1>4, <1>5

LEMMA ArriveTyped ==
  ASSUME TypedInv, NEW kind \in Kinds, Arrive(kind) PROVE TypedInv'
<1>1. /\ UNCHANGED <<scene, link, wire, count, dropdown, items, page, listed, sidebar>>
      /\ exact' \subseteq exact /\ asks' = Disturbed(asks)
      /\ rows' = Append(rows, Row(kind, FALSE)) /\ kind \in KindsOf(scene)
      /\ jobs' = jobs \cup {Job("new", Len(rows) + 1, FALSE)}
  BY DEF Arrive, shown, network
<1>2. /\ rows' \in Seq(RowType) /\ Len(rows) <= Len(rows') /\ jobs' \subseteq Jobs'
      /\ \A i \in DOMAIN rows' : rows'[i].mine => scene = "chat"
  BY <1>1, RowStored
<1>3. AsksInv'
  BY <1>1, <1>2, DisturbedFits, AsksStep DEF TypedInv
<1> QED
  BY <1>1, <1>2, <1>3, TypedRows

LEMMA DecideTyped ==
  ASSUME TypedInv, NEW i \in DOMAIN rows, Decide(i) PROVE TypedInv'
<1>1. /\ UNCHANGED <<scene, link, wire, count, dropdown, items, page, listed, sidebar>>
      /\ exact' \subseteq exact /\ asks' = Disturbed(asks)
      /\ rows' = [rows EXCEPT ![i].done = TRUE]
      /\ jobs' = jobs \cup {Job("resolved", i, rows[i].done)}
  BY DEF Decide, shown, network
<1>2. /\ rows' \in Seq(RowType) /\ Len(rows') = Len(rows) /\ DOMAIN rows' = DOMAIN rows
      /\ \A j \in DOMAIN rows : rows'[j].mine = rows[j].mine
  BY <1>1, DoneIs
<1>3. Len(rows) <= Len(rows') /\ \A j \in DOMAIN rows' : rows'[j].mine => scene = "chat"
  BY <1>2, SeqIs DEF TypedInv, SceneInv
<1>4. AsksInv'
  BY <1>1, <1>2, <1>3, DisturbedFits, AsksStep DEF TypedInv
<1>5. jobs' \subseteq Jobs'
  <2>1. jobs \subseteq Jobs'
    BY <1>2, JobsGrow DEF TypedInv
  <2>2. rows[i].done \in BOOLEAN
    BY RowIs DEF RowType
  <2>3. Job("resolved", i, rows[i].done) \in Jobs'
    BY <1>2, <2>2 DEF Job, Jobs
  <2> QED
    BY <1>1, <2>1, <2>3
<1> QED
  BY <1>1, <1>2, <1>3, <1>4, <1>5, TypedRows

\* Rows done, and nothing published.
LEMMA SilentTyped ==
  ASSUME TypedInv, rows' \in Seq(RowType), Len(rows') = Len(rows), DOMAIN rows' = DOMAIN rows,
         \A j \in DOMAIN rows : rows'[j].mine = rows[j].mine,
         UNCHANGED <<scene, jobs, link, wire, count, dropdown, items, page, listed, sidebar>>,
         exact' \subseteq exact, \A b \in asks' : AskOK(b)
  PROVE  TypedInv'
<1>1. Len(rows) <= Len(rows') /\ \A j \in DOMAIN rows' : rows'[j].mine => scene = "chat"
  BY SeqIs DEF TypedInv, SceneInv
<1>2. AsksInv'
  BY <1>1, AsksStep DEF TypedInv
<1>3. jobs' \subseteq Jobs'
  BY DEF TypedInv, TypeOK, Jobs
<1> QED
  BY <1>1, <1>2, <1>3, TypedRows

LEMMA ReadElsewhereTyped ==
  ASSUME TypedInv, ReadElsewhere PROVE TypedInv'
<1>1. /\ UNCHANGED <<scene, jobs, link, wire, count, dropdown, items, page, listed, sidebar>>
      /\ exact' \subseteq exact /\ asks' = Disturbed(asks) /\ rows' = AllDone(rows)
  BY DEF ReadElsewhere, shown, network
<1>2. /\ rows' \in Seq(RowType) /\ Len(rows') = Len(rows) /\ DOMAIN rows' = DOMAIN rows
      /\ \A j \in DOMAIN rows : rows'[j].mine = rows[j].mine
  BY <1>1, AllDoneIs
<1>3. \A b \in asks' : AskOK(b)
  BY <1>1, DisturbedFits
<1> QED
  BY <1>1, <1>2, <1>3, SilentTyped

\* What is answered to a request that only reads.
Reading(a) == IF a.op \in Counters \cup {"poll"} THEN Answer(a, << >>, Open(rows, CountedFor(a)))
              ELSE Answer(a, rows, 0)

LEMMA ReadingIs ==
  ASSUME TypedInv, NEW a \in asks, ServeRead(a)
  PROVE  /\ AskOK(a) /\ AskOK(Reading(a))
         /\ Reading(a).by = a.by /\ Reading(a).op = a.op /\ Reading(a).row = a.row
         /\ Reading(a).stage = "ok" /\ Reading(a).sound = Sound(a)
         /\ a.op \in Counters => Reading(a).number = Open(rows, CountedFor(a))
         /\ a.op = "load" => Reading(a).seen = rows
         /\ a.op \in Counters \cup {"list", "load", "poll"}
         /\ asks' = (asks \ {a}) \cup {Reading(a)}
<1>1. a.op \in Counters \cup {"list", "load", "poll"} /\ asks' = (asks \ {a}) \cup {Reading(a)}
  BY DEF ServeRead, Reading
<1>2. AskOK(a) /\ rows \in Seq(RowType) /\ << >> \in Seq(RowType) /\ Len(<< >>) = 0 /\ Len(rows) \in Nat
  BY DEF TypedInv, TypeOK, RowType, AsksInv
<1>3. Open(rows, CountedFor(a)) \in Nat /\ Len(<< >>) <= Len(rows) /\ Len(rows) <= Len(rows)
  BY <1>2, OpenIs
<1>4. a.op # "send" /\ ~Unheeded(a) /\ "load" \notin Counters \cup {"poll"} /\ (a.op = "poll" => a.op \notin Counters)
  BY <1>1, <1>2 DEF Counters, Unheeded, AskOK
<1>5. CASE a.op \in Counters \cup {"poll"}
  <2> DEFINE n == Open(rows, CountedFor(a))
  <2>1. n \in Nat /\ Reading(a) = Answer(a, << >>, n) /\ a.op # "load"
    BY <1>3, <1>4, <1>5 DEF Reading
  <2> HIDE DEF n
  <2>2. AskOK(Answer(a, << >>, n))
    BY <1>2, <1>3, <1>4, <2>1, AnswerFits
  <2>3. LET b == Answer(a, << >>, n)
        IN  b.by = a.by /\ b.op = a.op /\ b.row = a.row /\ b.stage = "ok" /\ b.number = n /\ b.sound = Sound(a)
    BY <1>2, AnswerIs
  <2> QED
    BY <1>1, <1>2, <2>1, <2>2, <2>3 DEF n
<1>6. CASE a.op \notin Counters \cup {"poll"}
  BY <1>1, <1>2, <1>3, <1>4, <1>6, AnswerIs, AnswerFits DEF Reading
<1> QED
  BY <1>5, <1>6

LEMMA ServeReadTyped ==
  ASSUME TypedInv, NEW a \in asks, ServeRead(a), UNCHANGED <<scene, network, presses, faults>>, UNCHANGED shown
  PROVE  TypedInv'
<1>1. UNCHANGED <<scene, rows, jobs, link, wire, count, dropdown, items, page, listed, sidebar, exact>>
  BY DEF ServeRead, shown, network
<1>2. AsksInv'
  BY <1>1, ReadingIs, AsksSame
<1> QED
  BY <1>1, <1>2, TypedSame

\* What a mark makes of the rows.
After(a) == IF a.op = "readAll" THEN AllDone(rows) ELSE [rows EXCEPT ![a.row].done = TRUE]

LEMMA AfterIs ==
  ASSUME TypedInv, NEW a \in asks, a.op \in {"readOne", "readAll"}
  PROVE  /\ After(a) \in Seq(RowType) /\ Len(After(a)) = Len(rows) /\ DOMAIN After(a) = DOMAIN rows
         /\ \A j \in DOMAIN rows :
              /\ After(a)[j].kind = rows[j].kind /\ After(a)[j].mine = rows[j].mine
              /\ rows[j].done => After(a)[j].done
         /\ a.op = "readAll" => \A j \in DOMAIN rows : After(a)[j].mine \/ After(a)[j].done
         /\ a.op = "readOne" => /\ a.row \in DOMAIN rows /\ After(a)[a.row].done
                                /\ \A j \in DOMAIN rows : j # a.row => After(a)[j] = rows[j]
<1>1. CASE a.op = "readAll"
  BY <1>1, AllDoneIs DEF After
<1>2. CASE a.op = "readOne"
  <2>1. a.row \in DOMAIN rows /\ After(a) = [rows EXCEPT ![a.row].done = TRUE]
    BY <1>2 DEF TypedInv, AsksInv, AskOK, After
  <2>2. PICK rs : rs = [rows EXCEPT ![a.row].done = TRUE]
    OBVIOUS
  <2>3. /\ rs \in Seq(RowType) /\ Len(rs) = Len(rows) /\ DOMAIN rs = DOMAIN rows
        /\ \A j \in DOMAIN rows :
             rs[j].kind = rows[j].kind /\ rs[j].mine = rows[j].mine /\ (rows[j].done => rs[j].done)
        /\ rs[a.row].done
        /\ \A j \in DOMAIN rows : j # a.row => rs[j] = rows[j]
    BY <2>1, <2>2, DoneIs
  <2>4. After(a) = rs
    BY <2>1, <2>2
  <2> QED
    BY <1>2, <2>1, <2>3, <2>4
<1> QED
  BY <1>1, <1>2

LEMMA ServeMarkTyped ==
  ASSUME TypedInv, NEW a \in asks, ServeMark(a), UNCHANGED <<scene, network, presses, faults>>, UNCHANGED shown
  PROVE  TypedInv'
<1>1. /\ UNCHANGED <<scene, jobs, link, wire, count, dropdown, items, page, listed, sidebar>>
      /\ exact' \subseteq exact /\ a.op \in {"readOne", "readAll"} /\ rows' = After(a)
      /\ asks' = Replied(IF After(a) = rows THEN asks \ {a} ELSE Disturbed(asks \ {a}), a, Answer(a, << >>, 0))
  BY DEF ServeMark, shown, network, After
<1>2. AskOK(a) /\ \A b \in asks : AskOK(b)
  BY DEF TypedInv, AsksInv
<1>3. /\ After(a) \in Seq(RowType) /\ Len(After(a)) = Len(rows) /\ DOMAIN After(a) = DOMAIN rows
      /\ \A j \in DOMAIN rows : After(a)[j].mine = rows[j].mine
  BY <1>1, AfterIs
<1>4. << >> \in Seq(RowType) /\ Len(<< >>) = 0 /\ Len(<< >>) <= Len(rows)
  BY SeqIs DEF TypedInv, TypeOK, RowType
<1>5. ~Unheeded(a) => AskOK(Answer(a, << >>, 0))
  BY <1>1, <1>2, <1>4, AnswerFits
<1>6. \A b \in Disturbed(asks \ {a}) : AskOK(b)
  BY DisturbedFits
<1>7. \A b \in asks' : AskOK(b)
  BY <1>1, <1>2, <1>5, <1>6 DEF Replied
<1> QED
  BY <1>1, <1>3, <1>7, SilentTyped

LEMMA ServeSendTyped ==
  ASSUME TypedInv, NEW a \in asks, ServeSend(a), UNCHANGED <<scene, network, presses, faults>>, UNCHANGED shown
  PROVE  TypedInv'
<1>1. /\ UNCHANGED <<scene, link, wire, count, dropdown, items, page, listed, sidebar>>
      /\ exact' \subseteq exact /\ jobs' = jobs \cup {Job("new", Len(rows) + 1, FALSE)}
      /\ asks' = Replied(Disturbed(asks \ {a}), a, StoredAsk(a))
      /\ rows' = Append(rows, Row("message", TRUE)) /\ a.op = "send"
  BY DEF ServeSend, shown, network, StoredAsk
<1>2. AskOK(a) /\ scene = "chat" /\ a.by \in {"chat", "gone"} /\ "message" \in KindsOf(scene)
  BY <1>1, KindFacts DEF TypedInv, AsksInv, AskOK
<1>3. /\ rows' \in Seq(RowType) /\ Len(rows) <= Len(rows') /\ jobs' \subseteq Jobs'
      /\ \A i \in DOMAIN rows' : rows'[i].mine => scene = "chat"
      /\ Len(rows) \in Nat /\ Len(rows') = Len(rows) + 1 /\ DOMAIN rows' = 1..(Len(rows) + 1)
  BY <1>1, <1>2, RowStored
<1>4. ASSUME NEW b, b = StoredAsk(a), ~Unheeded(a) PROVE AskOK(b)'
  <2>1. RowType' = RowType /\ AskType' = AskType /\ page' = page /\ scene' = scene
    BY <1>1 DEF RowType, AskType
  <2>2. /\ b.by = a.by /\ b.op = "send" /\ b.row = Len(rows) + 1 /\ b.stage = "stored" /\ b.seen = a.seen
        /\ b \in AskType
    BY <1>1, <1>2, <1>3, <1>4, StoredIs
  <2>3. ~Unheeded(b) /\ b.row \in DOMAIN rows' /\ Len(b.seen) <= Len(rows')
    BY <1>1, <1>4, <1>2, <1>3, <2>2, SeqIs DEF Unheeded, AskOK, AskType
  <2> QED
    BY <1>2, <2>1, <2>2, <2>3 DEF AskOK
<1>5. ASSUME NEW c \in Disturbed(asks \ {a}) PROVE AskOK(c)'
  <2>1. AskOK(c)
    BY DisturbedFits
  <2> QED
    BY <1>1, <1>3, <2>1, AskGrows DEF TypedInv
<1>6. AsksInv'
  <2>1. ASSUME NEW b \in asks' PROVE AskOK(b)'
    <3> DEFINE c == StoredAsk(a)
    <3>1. b \in Disturbed(asks \ {a}) \/ (~Unheeded(a) /\ b = c)
      <4> HIDE DEF c
      <4>1. asks' = Replied(Disturbed(asks \ {a}), a, c)
        BY <1>1 DEF c
      <4>2. asks' \subseteq Disturbed(asks \ {a}) \cup (IF Unheeded(a) THEN {} ELSE {c})
        BY <4>1 DEF Replied
      <4> QED
        BY <4>2
    <3>2. CASE b \in Disturbed(asks \ {a})
      BY <3>2, <1>5
    <3>3. CASE ~Unheeded(a) /\ b = c
      BY <3>3, <1>4
    <3> QED
      BY <3>1, <3>2, <3>3
  <2> QED
    BY <2>1 DEF AsksInv
<1> QED
  BY <1>1, <1>3, <1>6, TypedRows

LEMMA FailTyped ==
  ASSUME TypedInv, NEW a \in asks, Fail(a) PROVE TypedInv'
<1> DEFINE b == [a EXCEPT !.stage = "failed"]
<1>1. /\ UNCHANGED <<scene, rows, jobs, link, wire, count, dropdown, items, page, listed, sidebar>>
      /\ exact' \subseteq exact /\ asks' = (asks \ {a}) \cup {b}
  BY DEF Fail, shown, network
<1>2. AskOK(b)
  BY FailedIs DEF TypedInv, AsksInv, Fail
<1> HIDE DEF b
<1>3. AsksInv'
  BY <1>1, <1>2, AsksSame
<1> QED
  BY <1>1, <1>3, TypedSame

\* The newest entries of what was read.
LEMMA NewestIs ==
  ASSUME TypedInv, NEW rs \in Seq(RowType), Len(rs) <= Len(rows), NEW n \in Nat
  PROVE  /\ Newest(rs, n) \in Seq(EntryType) /\ Len(Newest(rs, n)) <= n
         /\ \A i, j \in DOMAIN Newest(rs, n) : Newest(rs, n)[i].row = Newest(rs, n)[j].row => i = j
<1> DEFINE f == [i \in DOMAIN rs |-> Entry(rs, Len(rs) + 1 - i)]
<1>1. DOMAIN rs = 1..Len(rs) /\ Len(rs) \in Nat /\ DOMAIN rows = 1..Len(rows) /\ Len(rows) \in Nat
  BY SeqIs DEF TypedInv, TypeOK, RowType
<1>2. ASSUME NEW i \in 1..Len(rs)
      PROVE f[i] \in EntryType /\ f[i].row = Len(rs) + 1 - i
  <2>1. Len(rs) + 1 - i \in 1..Len(rs) /\ Len(rs) + 1 - i \in DOMAIN rows
    BY <1>1
  <2>2. rs[Len(rs) + 1 - i].done \in BOOLEAN
    <3>1. rs[Len(rs) + 1 - i] \in RowType
      BY <2>1, SeqIs
    <3> QED
      BY <3>1 DEF RowType
  <2>3. f[i] = [row |-> Len(rs) + 1 - i, done |-> rs[Len(rs) + 1 - i].done]
    BY <1>1 DEF Entry
  <2> QED
    BY <2>1, <2>2, <2>3 DEF EntryType
<1>3. f \in [1..Len(rs) -> EntryType]
  BY <1>1, <1>2
<1> HIDE DEF f
<1>4. f \in Seq(EntryType)
  BY <1>1, <1>3, IsSeq
<1>5. Newest(rs, n) = First(f, n)
  BY DEF Newest, f
<1>6. /\ First(f, n) \in Seq(EntryType) /\ Len(First(f, n)) <= n /\ DOMAIN First(f, n) \subseteq DOMAIN f
      /\ \A i \in DOMAIN First(f, n) : First(f, n)[i] = f[i]
  BY <1>4, FirstIs
<1>7. DOMAIN f = 1..Len(rs)
  BY <1>3
<1> QED
  BY <1>1, <1>2, <1>5, <1>6, <1>7

\* The latest entries of what was read.
Before(rs, n) == IF Len(rs) > n THEN Len(rs) - n ELSE 0

LEMMA LatestIs ==
  ASSUME TypedInv, NEW rs \in Seq(RowType), Len(rs) <= Len(rows), NEW n \in Nat
  PROVE  /\ Latest(rs, n) \in Seq(EntryType) /\ Before(rs, n) \in 0..Len(rs)
         /\ Len(rs) \in Nat /\ Before(rs, n) >= Len(rs) - n
         /\ DOMAIN Latest(rs, n) = 1..(Len(rs) - Before(rs, n))
         /\ \A i \in DOMAIN Latest(rs, n) : Latest(rs, n)[i].row = Before(rs, n) + i
<1> DEFINE m == Before(rs, n)
           f == Latest(rs, n)
<1>1. DOMAIN rs = 1..Len(rs) /\ Len(rs) \in Nat /\ DOMAIN rows = 1..Len(rows) /\ Len(rows) \in Nat
  BY SeqIs DEF TypedInv, TypeOK, RowType
<1>2. m \in 0..Len(rs) /\ m >= Len(rs) - n
  BY <1>1 DEF Before
<1>3. f = [i \in 1..(Len(rs) - m) |-> Entry(rs, m + i)]
  BY DEF Latest, Before
<1> HIDE DEF m, f
<1>4. ASSUME NEW i \in 1..(Len(rs) - m)
      PROVE f[i] \in EntryType /\ f[i].row = m + i
  <2>1. m + i \in 1..Len(rs) /\ m + i \in DOMAIN rows
    BY <1>1, <1>2
  <2>2. rs[m + i].done \in BOOLEAN
    <3>1. rs[m + i] \in RowType
      BY <2>1, SeqIs
    <3> QED
      BY <3>1 DEF RowType
  <2>3. f[i] = [row |-> m + i, done |-> rs[m + i].done]
    BY <1>3 DEF Entry
  <2> QED
    BY <2>1, <2>2, <2>3 DEF EntryType
<1>5. f \in [1..(Len(rs) - m) -> EntryType]
  BY <1>3, <1>4
<1>6. Len(rs) - m \in Nat
  BY <1>1, <1>2
<1> QED
  BY <1>1, <1>2, <1>4, <1>5, <1>6, IsSeq DEF m, f

\* Entries that are marked name the same rows.
LEMMA MarkedIs ==
  ASSUME NEW s \in Seq(EntryType), NEW i
  PROVE  /\ Marked(s, i) \in Seq(EntryType) /\ Len(Marked(s, i)) = Len(s) /\ DOMAIN Marked(s, i) = DOMAIN s
         /\ \A n \in DOMAIN s : Marked(s, i)[n].row = s[n].row
<1> DEFINE g == Marked(s, i)
<1>1. DOMAIN s = 1..Len(s) /\ \A n \in DOMAIN s : s[n] \in EntryType
  BY SeqIs
<1>2. g = [n \in DOMAIN s |-> g[n]] /\ DOMAIN g = DOMAIN s
      /\ \A n \in DOMAIN s : g[n] = [s[n] EXCEPT !.done = @ \/ s[n].row = i]
  BY DEF Marked
<1> HIDE DEF g
<1>3. ASSUME NEW n \in DOMAIN s PROVE g[n] \in EntryType /\ g[n].row = s[n].row
  <2> DEFINE r == s[n]
             d == r.done \/ r.row = i
  <2>1. r \in EntryType /\ g[n] = [r EXCEPT !.done = d]
    BY <1>1, <1>2
  <2>2. d \in BOOLEAN
    BY <2>1 DEF EntryType
  <2> HIDE DEF r, d
  <2>3. g[n] \in EntryType /\ g[n].row = r.row
    BY <2>1, <2>2 DEF EntryType
  <2> QED
    BY <2>3 DEF r
<1> QED
  BY <1>2, <1>3, MapIsSeq DEF g

LEMMA TickedIs ==
  ASSUME NEW s \in Seq(EntryType)
  PROVE  /\ Ticked(s) \in Seq(EntryType) /\ Len(Ticked(s)) = Len(s) /\ DOMAIN Ticked(s) = DOMAIN s
         /\ \A n \in DOMAIN s : Ticked(s)[n].row = s[n].row
<1> DEFINE g == Ticked(s)
<1>1. DOMAIN s = 1..Len(s) /\ \A n \in DOMAIN s : s[n] \in EntryType
  BY SeqIs
<1>2. g = [n \in DOMAIN s |-> g[n]] /\ DOMAIN g = DOMAIN s
      /\ \A n \in DOMAIN s : g[n] = [s[n] EXCEPT !.done = TRUE]
  BY DEF Ticked
<1> HIDE DEF g
<1>3. ASSUME NEW n \in DOMAIN s PROVE g[n] \in EntryType /\ g[n].row = s[n].row
  BY <1>1, <1>2 DEF EntryType
<1> QED
  BY <1>2, <1>3, MapIsSeq DEF g

\* What an answer carries.
LEMMA SeenIs ==
  ASSUME TypedInv, NEW a \in asks
  PROVE  AskOK(a) /\ a.seen \in Seq(RowType) /\ Len(a.seen) <= Len(rows) /\ a.number \in Nat
  BY DEF TypedInv, AsksInv, AskOK, AskType

\* What a counter counts.
LEMMA CountedForIs ==
  ASSUME TypedInv, NEW a \in asks, a.op \in Counters
  PROVE  /\ a.by \in Mounted(scene) /\ a.by \in Subscribers
         /\ a.by = "bell" => CountedFor(a) = "notice" /\ scene = "notices"
         /\ a.by = "mail" => CountedFor(a) = "message" /\ scene = "chat"
         /\ a.by = "badges" /\ a.op = "count" => CountedFor(a) = "report" /\ scene = "office"
         /\ a.by = "badges" /\ a.op = "tally" => CountedFor(a) = "verdict" /\ scene = "office"
         /\ a.by \in {"bell", "mail", "badges"}
         /\ CountedFor(a) \in KindsOf(scene) \ {"failure"} /\ KeptBy(CountedFor(a)) = a.by
<1>1. AskOK(a) /\ scene \in {"notices", "chat", "list", "office"}
  BY SeenIs, SceneFacts DEF TypedInv
<1>2. a.by \in Mounted(scene) /\ (a.op = "tally" => a.by = "badges")
  BY <1>1, KindFacts DEF AskOK, Counters
<1>3. \/ scene = "notices" /\ a.by = "bell" /\ CountedFor(a) = "notice"
      \/ scene = "chat" /\ a.by = "mail" /\ CountedFor(a) = "message"
      \/ scene = "office" /\ a.by = "badges" /\ CountedFor(a) = (IF a.op = "count" THEN "report" ELSE "verdict")
  BY <1>1, <1>2, KindFacts DEF CountedFor
<1> QED
  BY <1>2, <1>3, KindFacts DEF Subscribers, Counters

LEMMA CountedTyped ==
  ASSUME TypedInv, NEW a \in asks, a.op = "count", Counted(a), UNCHANGED <<scene, rows, jobs, network>>
  PROVE  TypedInv'
<1> DEFINE c == CountedFor(a)
<1>1. /\ UNCHANGED <<scene, rows, jobs, link, wire, dropdown, items, page, listed, sidebar>>
      /\ exact' = Known({c}, a.sound) /\ asks' = asks \ {a}
      /\ count' = [count EXCEPT ![c] = a.number]
  BY DEF Counted, network
<1>2. c \in KindsOf(scene) \ {"failure"}
  BY CountedForIs DEF Counters
<1> HIDE DEF c
<1>3. exact' \subseteq exact \cup {c}
  BY <1>1 DEF Known
<1>4. count' \in [Kinds -> Nat]
  BY <1>1, SeenIs DEF TypedInv, TypeOK
<1>5. TypeOK'
  BY <1>1, <1>2, <1>3, <1>4, SceneFacts DEF TypedInv, TypeOK
<1>6. SceneInv'
  <2>1. c # "thread"
    BY <1>2, SceneFacts DEF TypedInv
  <2> QED
    BY <1>1, <1>2, <1>3, <2>1 DEF TypedInv, SceneInv, Mounted
<1>7. AsksInv'
  BY <1>1, AsksSame
<1> QED
  BY <1>5, <1>6, <1>7 DEF TypedInv

LEMMA SeededTyped ==
  ASSUME TypedInv, NEW a \in asks, NEW b \in asks, b.op = "tally", Seeded(a, b),
         UNCHANGED <<scene, rows, jobs, network>>
  PROVE  TypedInv'
<1>1. /\ UNCHANGED <<scene, rows, jobs, link, wire, dropdown, items, page, listed, sidebar>>
      /\ exact' \subseteq exact \cup {"report", "verdict"} /\ asks' \subseteq asks
      /\ count' = [count EXCEPT !["report"] = a.number, !["verdict"] = b.number]
  BY DEF Seeded, network
<1>2. scene = "office" /\ {"report", "verdict"} \subseteq KindsOf(scene) \ {"failure"}
  BY CountedForIs, KindFacts, SeenIs DEF AskOK
<1>3. count' \in [Kinds -> Nat]
  BY <1>1, SeenIs DEF TypedInv, TypeOK
<1>4. TypeOK'
  BY <1>1, <1>2, <1>3, SceneFacts DEF TypedInv, TypeOK
<1>5. SceneInv'
  BY <1>1, <1>2 DEF TypedInv, SceneInv, Mounted
<1>6. AsksInv'
  BY <1>1, AsksSame
<1> QED
  BY <1>4, <1>5, <1>6 DEF TypedInv

\* What is shown changes, and nothing at the server or in exact.
LEMMA TypedShown ==
  ASSUME TypedInv, UNCHANGED <<scene, rows, jobs, link, wire, page, dropdown>>, AsksInv',
         count' \in [Kinds -> Nat], sidebar' \in Nat, items' \in Seq(EntryType), Len(items') <= Limit,
         listed' \in Seq(EntryType), exact' \subseteq exact
  PROVE  TypedInv'
<1>1. TypeOK'
  BY DEF TypedInv, TypeOK, EntryType
<1>2. SceneInv'
  BY DEF TypedInv, SceneInv, Mounted
<1> QED
  BY <1>1, <1>2 DEF TypedInv

LEMMA ShownIs ==
  ASSUME TypedInv
  PROVE  /\ count \in [Kinds -> Nat] /\ sidebar \in Nat /\ items \in Seq(EntryType) /\ Len(items) <= Limit
         /\ listed \in Seq(EntryType) /\ Limit \in Nat /\ PageSize \in Nat /\ Window \in Nat
  BY LiveAssumption DEF TypedInv, TypeOK, EntryType

LEMMA ListedTyped ==
  ASSUME TypedInv, NEW a \in asks, Listed(a), UNCHANGED <<scene, rows, jobs, network>>
  PROVE  TypedInv'
<1>1. /\ UNCHANGED <<scene, rows, jobs, link, wire, count, dropdown, page, sidebar, exact>> /\ asks' = asks \ {a}
      /\ \/ items' = Newest(a.seen, Limit) /\ listed' = listed
         \/ items' = items /\ listed' = Newest(a.seen, PageSize)
  BY DEF Listed, network
<1>2. AsksInv'
  BY <1>1, AsksSame
<1>3. items' \in Seq(EntryType) /\ Len(items') <= Limit /\ listed' \in Seq(EntryType)
  BY <1>1, ShownIs, SeenIs, NewestIs
<1> QED
  BY <1>1, <1>2, <1>3, ShownIs, TypedShown

LEMMA LoadedTyped ==
  ASSUME TypedInv, NEW a \in asks, a.op = "load", Loaded(a), UNCHANGED <<scene, rows, jobs, network>>
  PROVE  TypedInv'
<1>1. /\ UNCHANGED <<scene, rows, jobs, link, wire, count, dropdown, items, page, sidebar>>
      /\ listed' = Latest(a.seen, Window) /\ exact' = Known({"thread"}, a.sound)
      /\ asks' = (asks \ {a}) \cup {Ask("chat", "readAll", 0)}
  BY DEF Loaded, network
<1>2. AskOK(a) /\ a.by = "chat" /\ scene = "chat" /\ page = "here"
  BY DEF TypedInv, AsksInv, AskOK
<1>3. AskOK(Ask("chat", "readAll", 0))
  BY <1>2, AskFits DEF TypedInv, Askers, Ops, Subscribers
<1>4. AsksInv'
  BY <1>1, <1>3, AsksSame
<1>5. listed' \in Seq(EntryType)
  BY <1>1, SeenIs, ShownIs, LatestIs
<1>6. exact' \subseteq exact \cup {"thread"}
  BY <1>1 DEF Known
<1>7. TypeOK'
  BY <1>1, <1>5, <1>6 DEF TypedInv, TypeOK, EntryType
<1>8. SceneInv'
  BY <1>1, <1>2, <1>6 DEF TypedInv, SceneInv, Mounted
<1> QED
  BY <1>4, <1>7, <1>8 DEF TypedInv

LEMMA PolledTyped ==
  ASSUME TypedInv, NEW a \in asks, Polled(a), UNCHANGED <<scene, rows, jobs, network>>
  PROVE  TypedInv'
<1>1. /\ UNCHANGED <<scene, rows, jobs, link, wire, count, dropdown, items, page, listed, exact>>
      /\ sidebar' = a.number /\ asks' = asks \ {a}
  BY DEF Polled, network
<1>2. AsksInv' /\ sidebar' \in Nat
  BY <1>1, SeenIs, AsksSame DEF Kinds
<1> QED
  BY <1>1, <1>2, ShownIs, TypedShown

LEMMA AllReadTyped ==
  ASSUME TypedInv, NEW a \in asks, a.op = "readAll", a.stage = "ok", AllRead(a), UNCHANGED <<scene, rows, jobs, network>>
  PROVE  TypedInv'
<1>1. /\ UNCHANGED <<scene, rows, jobs, link, wire, dropdown, page, sidebar>> /\ asks' = asks \ {a}
  BY DEF AllRead, network
<1>2. AsksInv'
  BY <1>1, AsksSame
<1>3. CASE a.by = "bell"
  <2>1. /\ items' = Ticked(items) /\ count' = [count EXCEPT !["notice"] = 0] /\ listed' = listed
        /\ exact' = Known({"notice"}, a.sound)
    BY <1>3 DEF AllRead
  <2>2. items' \in Seq(EntryType) /\ Len(items') <= Limit /\ count' \in [Kinds -> Nat]
    BY <2>1, ShownIs, TickedIs
  <2>3. exact' \subseteq exact \cup {"notice"} /\ "notice" \in KindsOf(scene)
    BY <1>3, <2>1, SeenIs, SceneFacts DEF Known, AskOK, TypedInv
  <2>4. TypeOK'
    BY <1>1, <2>1, <2>2, <2>3 DEF TypedInv, TypeOK, EntryType, Kinds
  <2>5. SceneInv'
    BY <1>1, <2>3 DEF TypedInv, SceneInv, Mounted
  <2> QED
    BY <1>2, <2>4, <2>5 DEF TypedInv
<1>4. CASE a.by = "page"
  <2>1. listed' = Ticked(listed) /\ UNCHANGED <<items, count, exact>>
    BY <1>4 DEF AllRead
  <2> QED
    BY <1>1, <1>2, <2>1, ShownIs, TickedIs, TypedShown
<1>5. a.by \in {"bell", "page"}
  BY SeenIs DEF AskOK, Unheeded
<1> QED
  BY <1>3, <1>4, <1>5

LEMMA SentTyped ==
  ASSUME TypedInv, NEW a \in asks, a.op = "send", a.stage = "ok", Sent(a), UNCHANGED <<scene, rows, jobs, network>>
  PROVE  TypedInv'
<1> DEFINE n == [row |-> a.row, done |-> FALSE]
<1>1. /\ UNCHANGED <<scene, rows, jobs, link, wire, count, dropdown, items, page, sidebar, exact>>
      /\ asks' = asks \ {a} /\ (listed' = listed \/ listed' = Append(listed, n))
  BY DEF Sent, network
<1>2. n \in EntryType
  <2>1. a.row \in DOMAIN rows
    BY SeenIs DEF AskOK
  <2> QED
    BY <2>1 DEF EntryType
<1> HIDE DEF n
<1>3. listed' \in Seq(EntryType)
  <2>1. listed \in Seq(EntryType) /\ Append(listed, n) \in Seq(EntryType)
    BY <1>2, ShownIs
  <2> QED
    BY <1>1, <2>1
<1>4. AsksInv'
  BY <1>1, AsksSame
<1> QED
  BY <1>1, <1>3, <1>4, ShownIs, TypedShown

LEMMA FailedTyped ==
  ASSUME TypedInv, NEW a \in asks, Failed(a), UNCHANGED <<scene, rows, jobs, network>>
  PROVE  TypedInv'
<1>1. /\ UNCHANGED <<scene, rows, jobs, link, wire, count, dropdown, items, page, listed, sidebar, exact>>
      /\ asks' \subseteq asks \cup (IF a.op = "load" THEN {Ask("chat", "readAll", 0)} ELSE {})
  BY DEF Failed, network
<1>2. a.op = "load" => AskOK(Ask("chat", "readAll", 0))
  <2>1. a.op = "load" => scene = "chat" /\ page = "here"
    BY SeenIs DEF AskOK
  <2> QED
    BY <2>1, AskFits DEF TypedInv, Askers, Ops, Subscribers
<1> QED
  BY <1>1, <1>2, AsksSame, TypedSame

LEMMA ToggleTyped ==
  ASSUME TypedInv, Toggle PROVE TypedInv'
<1>1. /\ UNCHANGED <<scene, rows, jobs, link, wire, count, items, page, listed, sidebar, exact>>
      /\ dropdown' = ~dropdown /\ scene = "notices"
      /\ asks' = IF dropdown THEN asks \ Cancelled("bell", "list") ELSE asks \cup {Ask("bell", "list", 0)}
  BY DEF Toggle, network
<1>2. AskOK(Ask("bell", "list", 0))
  BY <1>1, AskFits DEF TypedInv, Askers, Ops, Subscribers
<1>3. AsksInv'
  BY <1>1, <1>2, AsksSame
<1>4. TypeOK'
  BY <1>1 DEF TypedInv, TypeOK
<1>5. SceneInv'
  BY <1>1 DEF TypedInv, SceneInv, Mounted
<1> QED
  BY <1>3, <1>4, <1>5 DEF TypedInv

LEMMA MarkOneTyped ==
  ASSUME TypedInv, NEW n \in DOMAIN items, MarkOne(n) PROVE TypedInv'
<1> DEFINE i == items[n].row
<1>1. /\ UNCHANGED <<scene, rows, jobs, link, wire, page, listed, sidebar>> /\ exact' \subseteq exact
      /\ dropdown /\ dropdown' = FALSE /\ items' = Marked(items, i) /\ count' = Drop("notice")
      /\ asks' = Disturbed(asks \ Cancelled("bell", "list")) \cup {Ask("bell", "readOne", i)}
  BY DEF MarkOne, network
<1>2. i \in DOMAIN rows /\ i \in Nat
  <2>1. items[n] \in EntryType
    BY ShownIs, SeqIs
  <2>2. DOMAIN rows \subseteq Nat
    BY SeqIs DEF TypedInv, TypeOK
  <2> QED
    BY <2>1, <2>2 DEF EntryType
<1> HIDE DEF i
<1>3. scene = "notices"
  BY <1>1 DEF TypedInv, SceneInv
<1>4. AskOK(Ask("bell", "readOne", i))
  BY <1>2, <1>3, AskFits DEF TypedInv, Askers, Ops, Subscribers
<1>5. \A b \in Disturbed(asks \ Cancelled("bell", "list")) : AskOK(b)
  BY DisturbedFits
<1>6. AsksInv'
  BY <1>1, <1>4, <1>5, AsksSame
<1>7. items' \in Seq(EntryType) /\ Len(items') <= Limit /\ count' \in [Kinds -> Nat]
  <2>1. items' \in Seq(EntryType) /\ Len(items') <= Limit
    BY <1>1, ShownIs, MarkedIs
  <2>2. count \in [Kinds -> Nat] /\ count' = [count EXCEPT !["notice"] = IF count["notice"] > 0 THEN count["notice"] - 1 ELSE 0]
    BY <1>1, ShownIs DEF Drop
  <2>3. (IF count["notice"] > 0 THEN count["notice"] - 1 ELSE 0) \in Nat
    BY <2>2 DEF Kinds
  <2> QED
    BY <2>1, <2>2, <2>3
<1>8. TypeOK'
  BY <1>1, <1>7 DEF TypedInv, TypeOK, EntryType
<1>9. SceneInv'
  BY <1>1 DEF TypedInv, SceneInv, Mounted
<1> QED
  BY <1>6, <1>8, <1>9 DEF TypedInv

LEMMA MarkAllTyped ==
  ASSUME TypedInv, MarkAll PROVE TypedInv'
<1>1. /\ UNCHANGED <<scene, rows, jobs, link, wire, count, dropdown, items, page, listed, sidebar, exact>>
      /\ asks' = asks \cup {Ask("bell", "readAll", 0)} /\ dropdown
  BY DEF MarkAll, network, shown
<1>2. AskOK(Ask("bell", "readAll", 0))
  BY <1>1, AskFits DEF TypedInv, SceneInv, Askers, Ops, Subscribers
<1> QED
  BY <1>1, <1>2, AsksSame, TypedSame

LEMMA PageMarkOneTyped ==
  ASSUME TypedInv, NEW n \in DOMAIN listed, PageMarkOne(n) PROVE TypedInv'
<1> DEFINE i == listed[n].row
<1>1. /\ UNCHANGED <<scene, rows, jobs, link, wire, count, dropdown, items, page, sidebar, exact>>
      /\ listed' = Marked(listed, i) /\ asks' = asks \cup {Ask("page", "readOne", i)}
  BY DEF PageMarkOne, network
<1>2. i \in DOMAIN rows /\ i \in Nat
  <2>1. listed[n] \in EntryType
    BY ShownIs, SeqIs
  <2>2. DOMAIN rows \subseteq Nat
    BY SeqIs DEF TypedInv, TypeOK
  <2> QED
    BY <2>1, <2>2 DEF EntryType
<1> HIDE DEF i
<1>3. AskOK(Ask("page", "readOne", i))
  BY <1>2, AskFits DEF TypedInv, Askers, Ops, Subscribers
<1>4. AsksInv'
  BY <1>1, <1>3, AsksSame
<1>5. listed' \in Seq(EntryType)
  BY <1>1, ShownIs, MarkedIs
<1> QED
  BY <1>1, <1>4, <1>5, ShownIs, TypedShown

\* The other presses that only ask for something.
LEMMA AskingTyped ==
  ASSUME TypedInv, PageMarkAll \/ SendMessage \/ Poll PROVE TypedInv'
<1>1. UNCHANGED <<scene, rows, jobs, link, wire, count, dropdown, items, page, listed, sidebar, exact>>
  BY DEF PageMarkAll, SendMessage, Poll, network, shown
<1>2. CASE PageMarkAll
  <2>1. asks' = asks \cup {Ask("page", "readAll", 0)}
    BY <1>2 DEF PageMarkAll
  <2>2. AskOK(Ask("page", "readAll", 0))
    BY AskFits DEF TypedInv, Askers, Ops, Subscribers
  <2> QED
    BY <1>1, <2>1, <2>2, AsksSame, TypedSame
<1>3. CASE SendMessage
  <2>1. asks' = asks \cup {Ask("chat", "send", 0)} /\ scene = "chat" /\ page = "here"
    BY <1>3 DEF SendMessage
  <2>2. AskOK(Ask("chat", "send", 0))
    BY <2>1, AskFits DEF TypedInv, Askers, Ops, Subscribers
  <2> QED
    BY <1>1, <2>1, <2>2, AsksSame, TypedSame
<1>4. CASE Poll
  <2>1. asks' = asks \cup {Ask("page", "poll", 0)}
    BY <1>4 DEF Poll
  <2>2. AskOK(Ask("page", "poll", 0))
    BY AskFits DEF TypedInv, Askers, Ops, Subscribers
  <2> QED
    BY <1>1, <2>1, <2>2, AsksSame, TypedSame
<1> QED
  BY <1>2, <1>3, <1>4

\* A request stays one that the scene allows when the page is opened.
LEMMA AskVisits ==
  ASSUME NEW a, AskOK(a), scene' = scene, rows' = rows, page' = "here"
  PROVE  AskOK(a)'
<1>1. RowType' = RowType /\ AskType' = AskType /\ Mounted(scene)' = Mounted(scene)
  BY DEF RowType, AskType, Mounted
<1> QED
  BY <1>1 DEF AskOK

\* A request that the opened page sends.
LEMMA AskFitsHere ==
  ASSUME TypeOK, scene' = scene, rows' = rows, page' = "here",
         NEW w \in Askers, NEW op \in Ops,
         op = "readOne" => FALSE,
         op = "send" => w \in {"chat", "gone"} /\ scene = "chat",
         op = "count" => w \in Mounted(scene),
         op = "load" => w = "chat", op = "list" => w \in {"bell", "page"} /\ scene = "notices",
         op = "poll" => w = "page", op = "readAll" => w \in {"bell", "page", "chat"}, w # "gone",
         op = "tally" => w = "badges" /\ scene = "office",
         w = "bell" => scene = "notices", w = "chat" => scene = "chat"
  PROVE  AskOK(Ask(w, op, 0))'
<1>1. << >> \in Seq(RowType) /\ Len(<< >>) = 0 /\ Len(rows) \in Nat
  BY DEF TypeOK, RowType
<1> DEFINE b == Ask(w, op, 0)
<1>2. b \in AskType
  BY <1>1 DEF Ask, AskType
<1>3. b.by = w /\ b.op = op /\ b.row = 0 /\ b.stage = "sent" /\ Len(b.seen) <= Len(rows)
  BY <1>1 DEF Ask
<1> HIDE DEF b
<1>4. RowType' = RowType /\ AskType' = AskType /\ Mounted(scene)' = Mounted(scene)
  BY DEF RowType, AskType, Mounted
<1>5. AskOK(b)'
  BY <1>2, <1>3, <1>4 DEF AskOK
<1> QED
  BY <1>5 DEF b

LEMMA VisitTyped ==
  ASSUME TypedInv, Visit PROVE TypedInv'
<1>1. /\ UNCHANGED <<scene, rows, jobs, wire, dropdown, items, sidebar, exact>>
      /\ page = "elsewhere" /\ page' = "here" /\ listed' = << >>
      /\ count' = IF scene = "office" THEN [count EXCEPT !["failure"] = 0] ELSE count
      /\ link' = IF scene = "chat" THEN [link EXCEPT !["chat"] = "connecting"] ELSE link
  BY DEF Visit
<1>2. ASSUME NEW b \in asks'
      PROVE  \/ b \in asks
             \/ scene = "notices" /\ b = Ask("page", "list", 0)
             \/ scene = "chat" /\ b \in {Ask("mail", "count", 0), Ask("chat", "load", 0)}
             \/ b = Ask("page", "poll", 0)
  <2>1. scene \in {"notices", "chat", "list", "office"}
    BY SceneFacts DEF TypedInv
  <2> QED
    BY <2>1 DEF Visit
<1>3. ASSUME NEW b \in asks' PROVE AskOK(b)'
  <2>1. CASE b \in asks
    BY <2>1, <1>1, AskVisits DEF TypedInv, AsksInv
  <2>2. CASE scene = "notices" /\ b = Ask("page", "list", 0)
    BY <2>2, <1>1, AskFitsHere DEF TypedInv, Askers, Ops, Subscribers
  <2>3. CASE scene = "chat" /\ b = Ask("mail", "count", 0)
    BY <2>3, <1>1, SceneFacts, AskFitsHere DEF TypedInv, Askers, Ops, Subscribers
  <2>4. CASE scene = "chat" /\ b = Ask("chat", "load", 0)
    BY <2>4, <1>1, AskFitsHere DEF TypedInv, Askers, Ops, Subscribers
  <2>5. CASE b = Ask("page", "poll", 0)
    BY <2>5, <1>1, AskFitsHere DEF TypedInv, Askers, Ops, Subscribers
  <2> QED
    BY <1>2, <2>1, <2>2, <2>3, <2>4, <2>5
<1>4. AsksInv'
  BY <1>3 DEF AsksInv
<1>5. wire["chat"] = << >> /\ link["chat"] = "idle" /\ "thread" \notin exact
  BY <1>1 DEF TypedInv, SceneInv, Subscribers
<1>6. /\ link' \in [Subscribers -> {"idle", "connecting", "open", "reconnecting"}]
      /\ \A w \in Subscribers : link'[w] = link[w] \/ (w = "chat" /\ scene = "chat" /\ link'[w] = "connecting")
  BY <1>1 DEF TypedInv, TypeOK
<1>7. TypeOK'
  <2>1. listed' \in Seq(EntryType)
    BY <1>1
  <2>2. count' \in [Kinds -> Nat]
    BY <1>1, ShownIs DEF Kinds
  <2> QED
    BY <1>1, <1>6, <2>1, <2>2 DEF TypedInv, TypeOK, EntryType
<1>8. SceneInv'
  <2>1. SceneInv /\ Mounted(scene)' = Mounted(scene)
    BY <1>1 DEF Mounted, TypedInv
  <2>2. \A w \in Subscribers : /\ wire'[w] # << >> => link'[w] = "open"
                               /\ link'[w] # "idle" => Mounted(scene)' = Mounted(scene) /\ (w \in Mounted(scene) \/ (w = "chat" /\ scene = "chat"))
    BY <1>1, <1>5, <1>6, <2>1 DEF SceneInv
  <2> QED
    BY <1>1, <2>1, <2>2 DEF SceneInv
<1> QED
  BY <1>4, <1>7, <1>8 DEF TypedInv

\* What becomes of a request whose page is left.
Orphan(a) == [a EXCEPT !.by = IF @ \in {"page", "chat"} THEN "gone" ELSE @]

LEMMA OrphanIs ==
  ASSUME NEW a, AskOK(a)
  PROVE  /\ Orphan(a).by = (IF a.by \in {"page", "chat"} THEN "gone" ELSE a.by)
         /\ Orphan(a).op = a.op /\ Orphan(a).row = a.row /\ Orphan(a).stage = a.stage
         /\ Orphan(a).seen = a.seen /\ Orphan(a).sound = a.sound /\ Orphan(a).number = a.number
         /\ Orphan(a) \in AskType
         /\ a.by \notin {"page", "chat"} => Orphan(a) = a
<1>1. a \in AskType
  BY DEF AskOK
<1> DEFINE w == IF a.by \in {"page", "chat"} THEN "gone" ELSE a.by
<1>2. w \in Askers
  BY <1>1 DEF Askers, AskType
<1>3. Orphan(a) = [a EXCEPT !.by = w]
  BY <1>1 DEF Orphan, AskType
<1> HIDE DEF w
<1>4. /\ Orphan(a).by = w
      /\ Orphan(a).op = a.op /\ Orphan(a).row = a.row /\ Orphan(a).stage = a.stage
      /\ Orphan(a).seen = a.seen /\ Orphan(a).sound = a.sound /\ Orphan(a).number = a.number
      /\ Orphan(a) \in AskType /\ (w = a.by => Orphan(a) = a)
  BY <1>1, <1>2, <1>3 DEF AskType
<1> QED
  BY <1>4 DEF w

\* What Leave makes of the requests.
Stays(a) ==
    /\ a.op # "load"
    /\ a.by \in {"page", "chat"} => a.stage = "sent" /\ a.op \in {"readOne", "readAll", "send"}

LEMMA LeftAsks ==
  ASSUME TypedInv, Leave
  PROVE  /\ \A b \in asks' : \/ scene = "chat" /\ b = Ask("mail", "count", 0)
                             \/ \E a \in asks : b = Orphan(a) /\ Stays(a)
         /\ \A a \in asks : a.op = "readOne" \/ (a.op \in {"readAll", "send"} /\ (a.by \notin {"page", "chat"} \/ a.stage = "sent"))
              => Orphan(a) \in asks'
<1> DEFINE rest == asks \ (Cancelled("page", "list") \cup Cancelled("chat", "load")
                           \cup Cancelled("page", "poll") \cup Cancelled("mail", "count"))
           moved == {b \in rest : b.by \in {"page", "chat"} /\ b.stage = "sent"}
<1>1. asks' = {a \in rest : a.by \notin {"page", "chat"}} \cup {[a EXCEPT !.by = "gone"] : a \in moved}
              \cup (IF scene = "chat" THEN {Ask("mail", "count", 0)} ELSE {})
  BY DEF Leave, Orphaned
<1>2. /\ \A a \in rest : a.by \notin {"page", "chat"} => a = Orphan(a)
      /\ \A a \in moved : [a EXCEPT !.by = "gone"] = Orphan(a)
  <2>1. \A a \in rest : AskOK(a)
    BY SeenIs
  <2>2. ASSUME NEW a \in rest, a.by \notin {"page", "chat"} PROVE a = Orphan(a)
    <3>1. AskOK(a)
      BY <2>1
    <3> QED
      BY <3>1, <2>2, OrphanIs
  <2>3. \A a \in moved : [a EXCEPT !.by = "gone"] = Orphan(a)
    BY <2>1 DEF Orphan, AskOK, AskType
  <2> QED
    BY <2>2, <2>3
<1>3. \A a \in rest : /\ a \in asks /\ a.op # "load"
                      /\ a.by \in {"page", "chat"} => a.op \in {"readOne", "readAll", "send"}
  <2> TAKE a \in rest
  <2>1. AskOK(a) /\ a \in asks /\ scene \in {"notices", "chat", "list", "office"}
    BY SeenIs, SceneFacts DEF TypedInv
  <2>2. a.op # "load" /\ (a.op = "list" => a.by # "page") /\ a.op # "poll"
    BY <2>1 DEF Cancelled, AskOK
  <2>3. a.by \in {"page", "chat"} => a.op \notin {"count", "tally", "list"}
    BY <2>1, <2>2, KindFacts DEF AskOK
  <2> QED
    BY <2>1, <2>2, <2>3 DEF AskOK, AskType, Ops
<1>4. \A a \in asks : a.op \in {"readOne", "readAll", "send"} => a \in rest
  BY DEF Cancelled
<1>5. \A a \in asks : a.op = "readOne" => a.stage = "sent"
  BY SeenIs DEF AskOK, Unheeded
<1>6. ASSUME NEW b \in asks', ~(scene = "chat" /\ b = Ask("mail", "count", 0))
      PROVE \E a \in asks : b = Orphan(a) /\ Stays(a)
  <2> DEFINE new == IF scene = "chat" THEN {Ask("mail", "count", 0)} ELSE {}
  <2>1. b \notin new
    BY <1>6
  <2>2. b \in {a \in rest : a.by \notin {"page", "chat"}} \/ \E a \in moved : b = [a EXCEPT !.by = "gone"]
    <3> HIDE DEF rest, moved, new
    <3> QED
      BY <1>1, <2>1 DEF new
  <2>3. CASE b \in {a \in rest : a.by \notin {"page", "chat"}}
    <3>1. b \in rest /\ b.by \notin {"page", "chat"}
      BY <2>3
    <3>2. b = Orphan(b) /\ b \in asks /\ b.op # "load"
      BY <1>2, <1>3, <3>1
    <3> QED
      BY <3>1, <3>2 DEF Stays
  <2>4. CASE \E a \in moved : b = [a EXCEPT !.by = "gone"]
    <3>1. PICK a \in moved : b = [a EXCEPT !.by = "gone"]
      BY <2>4
    <3>2. a \in rest /\ a.stage = "sent" /\ a.by \in {"page", "chat"}
      OBVIOUS
    <3> HIDE DEF rest, moved
    <3>3. b = Orphan(a)
      BY <1>2, <3>1
    <3> QED
      BY <1>3, <3>2, <3>3 DEF Stays
  <2> QED
    BY <2>2, <2>3, <2>4
<1>7. ASSUME NEW a \in asks,
             a.op = "readOne" \/ (a.op \in {"readAll", "send"} /\ (a.by \notin {"page", "chat"} \/ a.stage = "sent"))
      PROVE Orphan(a) \in asks'
  BY <1>1, <1>2, <1>4, <1>5, <1>7
<1> QED
  BY <1>6, <1>7

LEMMA LeaveTyped ==
  ASSUME TypedInv, Leave PROVE TypedInv'
<1>1. /\ UNCHANGED <<scene, rows, jobs, count, dropdown, items>>
      /\ page = "here" /\ page' = "elsewhere" /\ listed' = << >> /\ sidebar' = 0
      /\ link' = [link EXCEPT !["chat"] = "idle"] /\ wire' = [wire EXCEPT !["chat"] = << >>]
      /\ exact' = exact \ {"thread"}
  BY DEF Leave
<1>2. RowType' = RowType /\ AskType' = AskType /\ Mounted(scene)' = Mounted(scene)
  BY <1>1 DEF RowType, AskType, Mounted
<1>3. ASSUME NEW b \in asks' PROVE AskOK(b)'
  <2>1. CASE \E a \in asks : b = Orphan(a) /\ Stays(a)
    <3>1. PICK a \in asks : b = Orphan(a) /\ Stays(a)
      BY <2>1
    <3>2. AskOK(a)
      BY SeenIs
    <3>3. /\ b.by = (IF a.by \in {"page", "chat"} THEN "gone" ELSE a.by)
          /\ b.op = a.op /\ b.row = a.row /\ b.stage = a.stage /\ b.seen = a.seen
          /\ b \in AskType
      <4>1. b = Orphan(a)
        BY <3>1
      <4> QED
        BY <4>1, <3>2, OrphanIs
    <3>4. b.op = "count" => b.by \in Mounted(scene)
      BY <3>2, <3>3, SceneFacts DEF AskOK, TypedInv
    <3>5. Unheeded(b) => b.stage = "sent"
      BY <3>1, <3>2, <3>3 DEF AskOK, Unheeded, Stays
    <3> QED
      BY <1>1, <1>2, <3>1, <3>2, <3>3, <3>4, <3>5 DEF AskOK, Stays
  <2>2. CASE scene = "chat" /\ b = Ask("mail", "count", 0)
    <3>1. AskOK(b)
      BY <2>2, SceneFacts, AskFits DEF TypedInv, Askers, Ops, Subscribers
    <3>2. b.by = "mail" /\ b.op = "count"
      BY <2>2 DEF Ask
    <3> QED
      BY <1>1, <1>2, <3>1, <3>2 DEF AskOK
  <2>3. \/ scene = "chat" /\ b = Ask("mail", "count", 0)
        \/ \E a \in asks : b = Orphan(a) /\ Stays(a)
    BY LeftAsks
  <2> QED
    BY <2>1, <2>2, <2>3
<1>4. AsksInv'
  BY <1>3 DEF AsksInv
<1>5. /\ wire' \in [Subscribers -> Seq(Events)]
      /\ link' \in [Subscribers -> {"idle", "connecting", "open", "reconnecting"}]
      /\ \A v \in Subscribers : \/ v = "chat" /\ link'[v] = "idle" /\ wire'[v] = << >>
                                \/ link'[v] = link[v] /\ wire'[v] = wire[v]
      /\ link'["chat"] = "idle"
  <2>1. /\ wire \in [Subscribers -> Seq(Events)]
        /\ link \in [Subscribers -> {"idle", "connecting", "open", "reconnecting"}]
    BY DEF TypedInv, TypeOK, Events
  <2>2. << >> \in Seq(Events) /\ "chat" \in Subscribers
    BY DEF Subscribers
  <2> QED
    BY <1>1, <2>1, <2>2
<1>6. TypeOK'
  <2>1. listed' \in Seq(EntryType) /\ sidebar' \in Nat /\ exact' \subseteq exact
    BY <1>1
  <2> QED
    BY <1>1, <1>5, <2>1 DEF TypedInv, TypeOK, Events, EntryType
<1>7. SceneInv'
  <2>1. \A v \in Subscribers : /\ wire'[v] # << >> => link'[v] = "open"
                               /\ link'[v] # "idle" => link[v] # "idle"
    BY <1>5 DEF TypedInv, SceneInv
  <2> QED
    BY <1>1, <1>2, <1>5, <2>1 DEF TypedInv, SceneInv
<1> QED
  BY <1>4, <1>6, <1>7 DEF TypedInv

-----------------------------------------------------------------------------
(* Events on their way.                                                    *)

\* What is on a wire.
LEMMA WireIs ==
  ASSUME TypedInv, NEW w \in Subscribers
  PROVE  /\ wire[w] \in Seq(Events) /\ Len(wire[w]) \in Nat /\ DOMAIN wire[w] = 1..Len(wire[w])
         /\ \A n \in DOMAIN wire[w] : wire[w][n].row \in DOMAIN rows /\ wire[w][n].type \in {"new", "resolved"}
<1>1. wire[w] \in Seq(Events)
  BY DEF TypedInv, TypeOK, Events
<1>2. /\ Len(wire[w]) \in Nat /\ DOMAIN wire[w] = 1..Len(wire[w])
      /\ \A n \in DOMAIN wire[w] : wire[w][n] \in Events
  BY <1>1, SeqIs
<1> QED
  BY <1>1, <1>2 DEF Events

\* Wires are as they were, or empty, and what is to be published is the same; no
\* verdict is taken back; the number of reports becomes exact only while nothing
\* is on its way.
Emptied == jobs = {} /\ \A w \in Subscribers : wire[w] = << >>

LEMMA EventsKept ==
  ASSUME TypedInv, WireInv, JobsInv, jobs' = jobs,
         \A w \in Subscribers : wire'[w] = wire[w] \/ wire'[w] = << >>,
         \A i \in DOMAIN rows : rows'[i].kind = rows[i].kind /\ (rows[i].done => rows'[i].done),
         "report" \in exact' => "report" \in exact \/ Emptied
  PROVE  WireInv' /\ JobsInv'
<1>1. ASSUME NEW w \in Subscribers PROVE WireOK(w)'
  <2>1. CASE wire'[w] = << >>
    BY <2>1 DEF WireOK
  <2>2. CASE wire'[w] = wire[w] /\ wire[w] # << >>
    <3>1. WireOK(w) /\ ("report" \in exact' => "report" \in exact)
      BY <2>2 DEF WireInv, Emptied
    <3>2. \A type, i : Unpublished(type, i)' <=> Unpublished(type, i)
      BY DEF Unpublished
    <3> QED
      BY <2>2, <3>1, <3>2, WireIs DEF WireOK
  <2> QED
    BY <2>1, <2>2
<1>2. ASSUME NEW j \in jobs PROVE JobOK(j)'
  <2>1. JobOK(j) /\ j.row \in DOMAIN rows /\ ("report" \in exact' => "report" \in exact)
    BY DEF JobsInv, Emptied, TypedInv, TypeOK
  <2>2. \A type, i : Unpublished(type, i)' <=> Unpublished(type, i)
    BY DEF Unpublished
  <2>3. \A w \in Subscribers : \A type, i : OnWire(w, type, i)' => OnWire(w, type, i)
    BY DEF OnWire
  <2> QED
    BY <2>1, <2>2, <2>3 DEF JobOK
<1> QED
  BY <1>1, <1>2 DEF WireInv, JobsInv

\* The head of a wire is handled.
LEMMA HandleWire ==
  ASSUME TypedInv, WireInv, JobsInv, NEW w \in Subscribers, Handle(w)
  PROVE  WireInv' /\ JobsInv'
<1>1. /\ wire[w] # << >> /\ wire' = [wire EXCEPT ![w] = Tail(wire[w])] /\ rows' = rows
      /\ wire \in [Subscribers -> Seq(Events)] /\ jobs' = jobs /\ exact' = exact
  BY DEF Handle, TypedInv, TypeOK, Events
<1>2. wire'[w] = Tail(wire[w]) /\ \A v \in Subscribers : v # w => wire'[v] = wire[v]
  BY <1>1
<1>3. /\ Len(wire[w]) \in Nat \ {0} /\ DOMAIN wire'[w] = 1..(Len(wire[w]) - 1)
      /\ \A i \in 1..(Len(wire[w]) - 1) : wire'[w][i] = wire[w][i + 1]
      /\ DOMAIN wire[w] = 1..Len(wire[w])
  BY <1>1, <1>2, TailIs, WireIs
<1>4. \A i \in DOMAIN wire'[w] : i + 1 \in DOMAIN wire[w] /\ wire'[w][i] = wire[w][i + 1] /\ i \in Nat
  BY <1>3
<1>5. \A type, i : Unpublished(type, i)' <=> Unpublished(type, i)
  BY <1>1 DEF Unpublished
<1>6. WireOK(w)'
  <2>2. WireOK(w)
    BY DEF WireInv
  <2>3. ASSUME NEW m \in DOMAIN wire'[w], NEW n \in DOMAIN wire'[w], wire'[w][m].row = wire'[w][n].row
        PROVE  \/ m = n
               \/ m < n /\ wire'[w][m].type = "new" /\ wire'[w][n].type = "resolved"
               \/ n < m /\ wire'[w][n].type = "new" /\ wire'[w][m].type = "resolved"
               \/ "report" \notin exact' /\ "resolved" \in {wire'[w][m].type, wire'[w][n].type}
    <3>1. m + 1 \in DOMAIN wire[w] /\ n + 1 \in DOMAIN wire[w] /\ m \in Nat /\ n \in Nat
          /\ wire'[w][m] = wire[w][m + 1] /\ wire'[w][n] = wire[w][n + 1]
      BY <1>4
    <3>2. \/ m + 1 = n + 1
          \/ m + 1 < n + 1 /\ wire[w][m + 1].type = "new" /\ wire[w][n + 1].type = "resolved"
          \/ n + 1 < m + 1 /\ wire[w][n + 1].type = "new" /\ wire[w][m + 1].type = "resolved"
          \/ "report" \notin exact /\ "resolved" \in {wire[w][m + 1].type, wire[w][n + 1].type}
      BY <2>2, <2>3, <3>1 DEF WireOK
    <3> QED
      BY <1>1, <3>1, <3>2
  <2>4. \A n \in DOMAIN wire'[w] :
          /\ wire'[w][n].type = "new" => ~Unpublished("new", wire'[w][n].row)
          /\ wire'[w][n].type = "resolved" =>
                /\ rows[wire'[w][n].row].kind = "report" /\ rows[wire'[w][n].row].done
                /\ "report" \in exact => ~Unpublished("new", wire'[w][n].row)
    BY <1>4, <2>2 DEF WireOK
  <2> QED
    BY <1>1, <1>5, <2>3, <2>4 DEF WireOK
<1>7. ASSUME NEW v \in Subscribers, v # w PROVE WireOK(v)'
  BY <1>1, <1>2, <1>5, <1>7 DEF WireInv, WireOK
<1>8. ASSUME NEW v \in Subscribers, NEW type, NEW i, OnWire(v, type, i)' PROVE OnWire(v, type, i)
  <2>1. PICK n \in DOMAIN wire'[v] : wire'[v][n].type = type /\ wire'[v][n].row = i
    BY <1>8 DEF OnWire
  <2>2. CASE v = w
    BY <1>4, <2>1, <2>2 DEF OnWire
  <2>3. CASE v # w
    BY <1>2, <2>1, <2>3 DEF OnWire
  <2> QED
    BY <2>2, <2>3
<1>9. ASSUME NEW j \in jobs PROVE JobOK(j)'
  BY <1>1, <1>5, <1>8 DEF JobsInv, JobOK
<1> QED
  BY <1>1, <1>6, <1>7, <1>9 DEF WireInv, JobsInv

\* A row is stored.
LEMMA StoreWire ==
  ASSUME TypedInv, WireInv, JobsInv, wire' = wire, exact' \subseteq exact,
         jobs' = jobs \cup {Job("new", Len(rows) + 1, FALSE)},
         Len(rows) \in Nat, DOMAIN rows = 1..Len(rows), \A i \in DOMAIN rows : rows'[i] = rows[i]
  PROVE  WireInv' /\ JobsInv'
<1> DEFINE r == Len(rows) + 1
           b == Job("new", r, FALSE)
<1>1. r \notin DOMAIN rows /\ b.type = "new" /\ b.row = r /\ b.late = FALSE
  BY DEF Job
<1>2. jobs' = jobs \cup {b} /\ \A j \in jobs : j.row \in DOMAIN rows
  BY DEF TypedInv, TypeOK
<1> HIDE DEF r, b
<1>3. \A type : \A i \in DOMAIN rows : Unpublished(type, i)' <=> Unpublished(type, i)
  BY <1>1, <1>2 DEF Unpublished
<1>4. \A w, type, i : OnWire(w, type, i)' <=> OnWire(w, type, i)
  BY DEF OnWire
<1>5. ASSUME NEW w \in Subscribers PROVE WireOK(w)'
  <2>1. WireOK(w) /\ wire'[w] = wire[w] /\ \A n \in DOMAIN wire[w] : wire[w][n].row \in DOMAIN rows
    BY WireIs DEF WireInv
  <2> QED
    BY <1>3, <2>1 DEF WireOK
<1>6. ASSUME NEW j \in jobs' PROVE JobOK(j)'
  <2>1. CASE j \in jobs
    <3>1. JobOK(j) /\ j.row \in DOMAIN rows
      BY <1>2, <2>1 DEF JobsInv
    <3>2. \A c \in jobs' : c.type = "resolved" => c \in jobs
      BY <1>1, <1>2
    <3> QED
      BY <1>3, <1>4, <3>1, <3>2 DEF JobOK
  <2>2. CASE j = b
    BY <1>1, <2>2 DEF JobOK
  <2> QED
    BY <1>2, <2>1, <2>2
<1> QED
  BY <1>5, <1>6 DEF WireInv, JobsInv

\* A verdict is stored.
LEMMA DecideWire ==
  ASSUME TypedInv, WireInv, JobsInv, NEW r \in DOMAIN rows, Decide(r)
  PROVE  WireInv' /\ JobsInv'
<1> DEFINE late == rows[r].done
           b == Job("resolved", r, late)
<1>1. /\ wire' = wire /\ rows' = [rows EXCEPT ![r].done = TRUE] /\ rows[r].kind = "report"
      /\ jobs' = jobs \cup {b} /\ exact' \subseteq exact
      /\ "report" \in exact' => "report" \in exact /\ ~rows[r].done /\ Job("new", r, FALSE) \notin jobs
  BY DEF Decide, network
<1>2. b.type = "resolved" /\ b.row = r
  BY DEF Job
<1> HIDE DEF b, late
<1>3. /\ DOMAIN rows' = DOMAIN rows /\ rows'[r].done
      /\ \A i \in DOMAIN rows : rows'[i].kind = rows[i].kind /\ (rows[i].done => rows'[i].done)
  <2>1. rows'[r].kind = rows[r].kind /\ rows'[r].done /\ DOMAIN rows' = DOMAIN rows
    BY <1>1, DoneIs
  <2>2. \A i \in DOMAIN rows : i # r => rows'[i] = rows[i]
    BY <1>1, DoneIs
  <2> QED
    BY <2>1, <2>2
<1>4. \A i : Unpublished("new", i)' <=> Unpublished("new", i)
  BY <1>1, <1>2 DEF Unpublished
<1>5. \A w, type, i : OnWire(w, type, i)' <=> OnWire(w, type, i)
  BY <1>1 DEF OnWire
<1>6. "report" \in exact' => /\ ~Unpublished("new", r) /\ \A w \in Subscribers : ~OnWire(w, "resolved", r)
                            /\ \A j \in jobs : j.type = "resolved" => j.row # r
  <2> HAVE "report" \in exact'
  <2>1. ~rows[r].done /\ Job("new", r, FALSE) \notin jobs
    BY <1>1
  <2>2. \A j \in jobs : j.type = "resolved" => j.row # r
    BY <2>1 DEF JobsInv, JobOK
  <2>3. \A w \in Subscribers : ~OnWire(w, "resolved", r)
    BY <2>1 DEF WireInv, WireOK, OnWire
  <2>4. ASSUME NEW j \in jobs, j.type = "new", j.row = r PROVE FALSE
    <3>1. j.late = FALSE /\ j \in [type: {"new", "resolved"}, row: DOMAIN rows, late: BOOLEAN]
      BY <2>4 DEF JobsInv, JobOK, TypedInv, TypeOK
    <3>2. j = Job("new", r, FALSE)
      BY <2>4, <3>1 DEF Job
    <3> QED
      BY <2>1, <3>2
  <2> QED
    BY <2>2, <2>3, <2>4 DEF Unpublished
<1>7. ASSUME NEW w \in Subscribers PROVE WireOK(w)'
  <2>1. WireOK(w) /\ wire'[w] = wire[w] /\ \A n \in DOMAIN wire[w] : wire[w][n].row \in DOMAIN rows
    BY <1>1, WireIs DEF WireInv
  <2> QED
    BY <1>1, <1>3, <1>4, <2>1 DEF WireOK
<1>8. ASSUME NEW j \in jobs' PROVE JobOK(j)'
  <2>1. CASE j \in jobs
    <3>1. JobOK(j) /\ j.row \in DOMAIN rows
      BY <2>1 DEF JobsInv, TypedInv, TypeOK
    <3> QED
      BY <1>1, <1>2, <1>3, <1>4, <1>5, <1>6, <2>1, <3>1 DEF JobOK
  <2>2. CASE j = b
    BY <1>1, <1>2, <1>3, <1>4, <1>5, <1>6, <2>2 DEF JobOK
  <2> QED
    BY <1>1, <2>1, <2>2
<1> QED
  BY <1>7, <1>8 DEF WireInv, JobsInv

\* What a wire carries after an event is published.
LEMMA PublishOn ==
  ASSUME TypeOK, NEW j \in jobs, Publish(j), NEW w \in Subscribers, NEW type, NEW i
  PROVE  OnWire(w, type, i)' <=> OnWire(w, type, i) \/ (link[w] = "open" /\ type = j.type /\ i = j.row)
<1>1. CASE link[w] # "open"
  <2>1. wire'[w] = wire[w]
    BY <1>1, PublishIs
  <2> QED
    BY <1>1, <2>1 DEF OnWire
<1>2. CASE link[w] = "open"
  <2> DEFINE l == Len(wire[w])
  <2>1. /\ DOMAIN wire[w] = 1..l /\ l \in Nat /\ DOMAIN wire'[w] = 1..(l + 1)
        /\ \A n \in 1..l : wire'[w][n] = wire[w][n]
        /\ wire'[w][l + 1] = [type |-> j.type, row |-> j.row]
    BY <1>2, PublishIs
  <2> HIDE DEF l
  <2>2. wire'[w][l + 1].type = j.type /\ wire'[w][l + 1].row = j.row
    BY <2>1
  <2>3. ASSUME OnWire(w, type, i)' PROVE OnWire(w, type, i) \/ (type = j.type /\ i = j.row)
    <3>1. PICK n \in 1..(l + 1) : wire'[w][n].type = type /\ wire'[w][n].row = i
      BY <2>1, <2>3 DEF OnWire
    <3>2. CASE n = l + 1
      BY <2>2, <3>1, <3>2
    <3>3. CASE n \in 1..l
      BY <2>1, <3>1, <3>3 DEF OnWire
    <3> QED
      BY <2>1, <3>2, <3>3
  <2>4. ASSUME OnWire(w, type, i) PROVE OnWire(w, type, i)'
    <3>1. PICK n \in 1..l : wire[w][n].type = type /\ wire[w][n].row = i
      BY <2>1, <2>4 DEF OnWire
    <3>2. n \in DOMAIN wire'[w] /\ wire'[w][n] = wire[w][n]
      BY <2>1
    <3> QED
      BY <3>1, <3>2 DEF OnWire
  <2>5. l + 1 \in DOMAIN wire'[w]
    BY <2>1
  <2>6. ASSUME type = j.type, i = j.row PROVE OnWire(w, type, i)'
    BY <2>2, <2>5, <2>6 DEF OnWire
  <2> QED
    BY <1>2, <2>3, <2>4, <2>6
<1> QED
  BY <1>1, <1>2

\* What is still to be published then: nothing twice.
LEMMA PublishOff ==
  ASSUME TypedInv, JobsInv, NEW j \in jobs, Publish(j)
  PROVE  /\ \A type, i : Unpublished(type, i)' => Unpublished(type, i)
         /\ \A type, i : Unpublished(type, i) => Unpublished(type, i)' \/ (type = j.type /\ i = j.row)
         /\ j.type = "new" => ~Unpublished("new", j.row)'
         /\ j.type = "resolved" /\ "report" \in exact => ~Unpublished("resolved", j.row)'
         /\ Unpublished(j.type, j.row)
<1>1. jobs' = jobs \ {j}
  BY DEF Publish
<1>2. ASSUME NEW b \in jobs, b.type = "new", j.type = "new", b.row = j.row PROVE b = j
  <2>1. /\ b.late = FALSE /\ j.late = FALSE
        /\ {b, j} \subseteq [type: {"new", "resolved"}, row: DOMAIN rows, late: BOOLEAN]
    BY <1>2 DEF JobsInv, JobOK, TypedInv, TypeOK
  <2> QED
    BY <1>2, <2>1
<1>3. j.type = "resolved" /\ "report" \in exact => \A b \in jobs : b.type = "resolved" /\ b.row = j.row => b = j
  BY DEF JobsInv, JobOK
<1> QED
  BY <1>1, <1>2, <1>3 DEF Unpublished

\* An event is published.
LEMMA PublishWire ==
  ASSUME TypedInv, WireInv, JobsInv, NEW j \in jobs, Publish(j)
  PROVE  WireInv' /\ JobsInv'
<1>1. rows' = rows /\ exact' \subseteq exact /\ jobs' = jobs \ {j} /\ TypeOK /\ JobOK(j)
  BY DEF Publish, TypedInv, JobsInv
<1>2. ASSUME NEW w \in Subscribers PROVE WireOK(w)'
  <2>1. WireOK(w)
    BY DEF WireInv
  <2>2. CASE link[w] # "open"
    <3>1. wire'[w] = wire[w]
      BY <1>1, <2>2, PublishIs
    <3> QED
      BY <1>1, <2>1, <3>1, PublishOff DEF WireOK
  <2>3. CASE link[w] = "open"
    <3> DEFINE l == Len(wire[w])
    <3>1. /\ DOMAIN wire[w] = 1..l /\ l \in Nat /\ DOMAIN wire'[w] = 1..(l + 1)
          /\ \A n \in 1..l : wire'[w][n] = wire[w][n]
          /\ wire'[w][l + 1] = [type |-> j.type, row |-> j.row]
      BY <1>1, <2>3, PublishIs
    <3> HIDE DEF l
    <3>2. wire'[w][l + 1].type = j.type /\ wire'[w][l + 1].row = j.row /\ j.type \in {"new", "resolved"}
      BY <1>1, <3>1, PublishIs
    <3>3. \A n \in 1..l : wire[w][n].row \in DOMAIN rows /\ wire[w][n].type \in {"new", "resolved"}
      BY <3>1, WireIs
    <3>4. ASSUME NEW n \in 1..l, wire[w][n].row = j.row
          PROVE  \/ j.type = "resolved" /\ wire[w][n].type = "new"
                 \/ "report" \notin exact /\ "resolved" \in {wire[w][n].type, j.type}
      <4>1. Unpublished(j.type, j.row) /\ OnWire(w, wire[w][n].type, j.row)
        BY <3>1, <3>4, PublishOff DEF OnWire
      <4>2. wire[w][n].type = "new" => ~Unpublished("new", j.row)
        BY <2>1, <3>1, <3>4 DEF WireOK
      <4>3. wire[w][n].type = "resolved" /\ "report" \in exact => ~Unpublished("new", j.row) /\ j.type # "resolved"
        BY <1>1, <2>1, <3>1, <3>4, <4>1 DEF WireOK, JobOK
      <4> QED
        BY <3>2, <3>3, <4>1, <4>2, <4>3
    <3>5. ASSUME NEW m \in DOMAIN wire'[w], NEW n \in DOMAIN wire'[w], wire'[w][m].row = wire'[w][n].row
          PROVE  \/ m = n
                 \/ m < n /\ wire'[w][m].type = "new" /\ wire'[w][n].type = "resolved"
                 \/ n < m /\ wire'[w][n].type = "new" /\ wire'[w][m].type = "resolved"
                 \/ "report" \notin exact' /\ "resolved" \in {wire'[w][m].type, wire'[w][n].type}
      <4>1. CASE m \in 1..l /\ n \in 1..l
        BY <1>1, <2>1, <3>1, <3>5, <4>1 DEF WireOK
      <4>2. CASE m = l + 1 /\ n \in 1..l
        <5>1. wire'[w][n] = wire[w][n] /\ wire[w][n].row = j.row /\ n < m
          BY <3>1, <3>2, <3>5, <4>2
        <5> QED
          BY <1>1, <3>2, <3>4, <4>2, <5>1
      <4>3. CASE n = l + 1 /\ m \in 1..l
        <5>1. wire'[w][m] = wire[w][m] /\ wire[w][m].row = j.row /\ m < n
          BY <3>1, <3>2, <3>5, <4>3
        <5> QED
          BY <1>1, <3>2, <3>4, <4>3, <5>1
      <4>4. CASE n = l + 1 /\ m = l + 1
        BY <4>4
      <4> QED
        BY <3>1, <4>1, <4>2, <4>3, <4>4
    <3>6. ASSUME NEW n \in DOMAIN wire'[w], NEW i, i = wire'[w][n].row
          PROVE  /\ wire'[w][n].type = "new" => ~Unpublished("new", i)'
                 /\ wire'[w][n].type = "resolved" =>
                       /\ rows[i].kind = "report" /\ rows[i].done
                       /\ "report" \in exact => ~Unpublished("new", i)'
      <4>1. CASE n \in 1..l
        <5>1. wire'[w][n] = wire[w][n] /\ wire[w][n].row = i
          BY <3>1, <3>6, <4>1
        <5>2. /\ wire[w][n].type = "new" => ~Unpublished("new", i)
              /\ wire[w][n].type = "resolved" =>
                    /\ rows[i].kind = "report" /\ rows[i].done
                    /\ "report" \in exact => ~Unpublished("new", i)
          BY <2>1, <3>1, <4>1, <5>1 DEF WireOK
        <5>3. ~Unpublished("new", i) => ~Unpublished("new", i)'
          BY PublishOff
        <5> QED
          BY <5>1, <5>2, <5>3
      <4>2. CASE n = l + 1
        <5>1. wire'[w][n].type = j.type /\ i = j.row
          BY <3>2, <3>6, <4>2
        <5>2. j.type = "new" => ~Unpublished("new", j.row)'
          BY PublishOff
        <5>3. j.type = "resolved" =>
                 /\ rows[j.row].kind = "report" /\ rows[j.row].done
                 /\ "report" \in exact => ~Unpublished("new", j.row)'
          BY <1>1, PublishOff DEF JobOK
        <5> QED
          BY <5>1, <5>2, <5>3
      <4> QED
        BY <3>1, <4>1, <4>2
    <3>7. \A n \in DOMAIN wire'[w] :
            /\ wire'[w][n].type = "new" => ~(\E b \in jobs' : b.type = "new" /\ b.row = wire'[w][n].row)
            /\ wire'[w][n].type = "resolved" =>
                  /\ rows'[wire'[w][n].row].kind = "report" /\ rows'[wire'[w][n].row].done
                  /\ "report" \in exact' => ~(\E b \in jobs' : b.type = "new" /\ b.row = wire'[w][n].row)
      BY <1>1, <3>6 DEF Unpublished
    <3> QED
      BY <3>5, <3>7 DEF WireOK, Unpublished
  <2> QED
    BY <2>2, <2>3
<1>3. ASSUME NEW b \in jobs' PROVE JobOK(b)'
  <2>1. b \in jobs /\ b # j /\ JobOK(b)
    BY <1>1 DEF JobsInv
  <2>2. ASSUME b.type = "resolved", "report" \in exact, NEW w \in Subscribers PROVE ~OnWire(w, "resolved", b.row)'
    <3>1. ~OnWire(w, "resolved", b.row) /\ ~(j.type = "resolved" /\ j.row = b.row)
      BY <2>1, <2>2 DEF JobOK
    <3> QED
      BY <1>1, <3>1, PublishOn
  <2>3. ~Unpublished("new", b.row) => ~Unpublished("new", b.row)'
    BY PublishOff
  <2> QED
    BY <1>1, <2>1, <2>2, <2>3 DEF JobOK
<1> QED
  BY <1>2, <1>3 DEF WireInv, JobsInv

-----------------------------------------------------------------------------
(* Answers that miss no change.                                            *)

\* The answers that are taken in.
LEMMA ApplyCases ==
  ASSUME TypedInv, NEW a \in asks, Apply(a), a.stage # "failed"
  PROVE  /\ a.stage = "ok"
         /\ \/ a.op = "count" /\ a.by # "badges" /\ Counted(a)
            \/ a.op = "count" /\ a.by = "badges" /\ \E b \in Together(a) :
                  b.op = "tally" /\ b.stage = "ok" /\ Seeded(a, b)
            \/ a.op = "list" /\ Listed(a)
            \/ a.op = "load" /\ Loaded(a)
            \/ a.op = "poll" /\ Polled(a)
            \/ a.op = "readAll" /\ AllRead(a)
            \/ a.op = "send" /\ Sent(a)
<1>1. a.op \in Ops \ {"readOne"} /\ a.stage = "ok"
  BY SeenIs DEF Apply, AskOK, AskType, Unheeded
<1>2. CASE a.op \in Counters
  <2>1. a.op = "tally" => a.by = "badges"
    BY SeenIs DEF AskOK
  <2>2. CASE a.by = "badges"
    BY <1>1, <1>2, <2>2 DEF Apply, Counters
  <2>3. CASE a.by # "badges"
    BY <1>1, <1>2, <2>1, <2>3 DEF Apply, Counters
  <2> QED
    BY <2>2, <2>3
<1>3. CASE a.op \notin Counters
  BY <1>1, <1>3 DEF Apply, Counters, Ops
<1> QED
  BY <1>2, <1>3

\* A mark on its way asks for something.
Mark(a, w, i) == a.by = w /\ a.op = "readOne" /\ a.stage = "sent" /\ a.row = i

\* A request just sent, once more.
LEMMA AskFresh ==
  ASSUME NEW w, NEW op, NEW i, NEW b, b = Ask(w, op, i)
  PROVE  ~b.sound /\ b.by = w /\ b.op = op /\ b.row = i /\ b.stage = "sent"
  BY DEF Ask

LEMMA MarkingIs ==
  ASSUME NEW w, NEW i PROVE Marking(w, i) <=> \E a \in asks : Mark(a, w, i)
  BY DEF Marking, Mark

LEMMA MarkingNext ==
  ASSUME NEW w, NEW i PROVE Marking(w, i)' <=> \E a \in asks' : Mark(a, w, i)
  BY DEF Marking, Mark

\* Nothing disturbs the answers: rows stay, nothing more is on its way, and no
\* subscriber sends a mark.
LEMMA SoundKept ==
  ASSUME TypedInv, SoundInv, rows' = rows, \A w \in Subscribers : Awaiting(w)' => Awaiting(w),
         \A b \in asks' : b.sound => SoundOK(b)' \/ \E a \in asks :
                /\ a.sound /\ a.seen = b.seen /\ a.number = b.number /\ a.op = b.op
                /\ b.by \in Subscribers \/ b.op \in Counters => a.by = b.by,
         \A b \in asks', w \in Subscribers, i \in DOMAIN rows : Mark(b, w, i) => \E a \in asks : Mark(a, w, i)
  PROVE  SoundInv'
<1> SUFFICES ASSUME NEW b \in asks', b.sound, ~SoundOK(b)' PROVE SoundOK(b)'
  BY DEF SoundInv, SoundOK
<1>1. PICK a \in asks :
         /\ a.sound /\ a.seen = b.seen /\ a.number = b.number /\ a.op = b.op
         /\ b.by \in Subscribers \/ b.op \in Counters => a.by = b.by
  OBVIOUS
<1>2. SoundOK(a)
  BY DEF SoundInv
<1>3. /\ b.op = "load" => b.seen = rows'
      /\ b.op = "readAll" => \A i \in DOMAIN rows' : rows'[i].mine \/ rows'[i].done
      /\ b.op \in Counters => b.number = Open(rows', CountedFor(b))
  <2>1. b.op \in Counters => CountedFor(a) = CountedFor(b)
    BY <1>1 DEF CountedFor
  <2> QED
    BY <1>1, <1>2, <2>1 DEF SoundOK
<1>4. ASSUME b.op \in Counters \cup {"readAll"}, b.by \in Subscribers
      PROVE  ~Awaiting(b.by)' /\ \A i \in DOMAIN rows' : ~Marking(b.by, i)'
  <2>1. ~Awaiting(b.by) /\ \A i \in DOMAIN rows : ~Marking(b.by, i)
    BY <1>1, <1>2, <1>4 DEF SoundOK
  <2>2. ASSUME NEW i \in DOMAIN rows PROVE ~Marking(b.by, i)'
    BY <1>4, <2>1, MarkingIs, MarkingNext
  <2> QED
    BY <1>4, <2>1, <2>2
<1>5. Open(rows', CountedFor(b)) = Open(rows, CountedFor(b))' /\ CountedFor(b)' = CountedFor(b)
  BY DEF Open, CountedFor
<1> QED
  BY <1>3, <1>4, <1>5 DEF SoundOK

\* Nothing that stays is sound.
LEMMA SoundAlone ==
  ASSUME \A b \in asks' : b.sound => SoundOK(b)'
  PROVE  SoundInv'
  BY DEF SoundInv, SoundOK

\* The requests of before, or fewer, and requests just sent that are not marks.
LEMMA SoundAsked ==
  ASSUME TypedInv, SoundInv, rows' = rows, \A w \in Subscribers : Awaiting(w)' => Awaiting(w),
         \A b \in asks' : b \in asks \/ (~b.sound /\ ~(b.by \in Subscribers /\ b.op = "readOne" /\ b.stage = "sent"))
  PROVE  SoundInv'
  BY SoundKept DEF Mark

\* An answer that is sound: its subscriber awaits nothing.
LEMMA SoundAnswer ==
  ASSUME TypedInv, NEW a \in asks, NEW b, b.by = a.by, b.op = a.op, b.stage = "ok", b.sound = Sound(a),
         DOMAIN rows' = DOMAIN rows, wire' = wire, jobs' = jobs,
         \A x \in asks' : x = b \/ \E y \in asks \ {a} : Alike(y, x),
         a.op \in Counters \cup {"readAll"}, b.sound, a.by \in Subscribers
  PROVE  ~Awaiting(b.by)' /\ \A i \in DOMAIN rows' : ~Marking(b.by, i)'
<1>1. ~Awaiting(a.by) /\ ~\E y \in asks \ {a} : y.by = a.by /\ y.op = "readOne" /\ y.stage = "sent"
  BY DEF Sound, Counters
<1>2. ASSUME NEW i, NEW x \in asks', Mark(x, a.by, i) PROVE FALSE
  BY <1>1, <1>2 DEF Mark, Alike
<1>3. \A i : ~Marking(b.by, i)'
  BY <1>2, MarkingNext
<1>4. ~Awaiting(b.by)'
  BY <1>1 DEF Awaiting
<1> QED
  BY <1>3, <1>4

LEMMA ServeReadSound ==
  ASSUME TypedInv, SoundInv, NEW a \in asks, ServeRead(a), wire' = wire
  PROVE  SoundInv'
<1>0. PICK b : b = Reading(a)
  OBVIOUS
<1>1. rows' = rows /\ jobs' = jobs /\ asks' = (asks \ {a}) \cup {b} /\ a.op \in Counters \cup {"list", "load", "poll"}
  BY <1>0, ReadingIs DEF ServeRead
<1>2. /\ b.by = a.by /\ b.op = a.op /\ b.stage = "ok" /\ b.sound = Sound(a)
      /\ a.op \in Counters => b.number = Open(rows, CountedFor(a))
      /\ a.op = "load" => b.seen = rows
  BY <1>0, ReadingIs
<1>3. SoundOK(b)'
  <2>1. \A x \in asks' : x = b \/ \E y \in asks \ {a} : Alike(y, x)
    BY <1>1 DEF Alike
  <2>2. b.sound /\ b.op \in Counters \cup {"readAll"} /\ b.by \in Subscribers =>
           ~Awaiting(b.by)' /\ \A i \in DOMAIN rows' : ~Marking(b.by, i)'
    BY <1>1, <1>2, <2>1, SoundAnswer
  <2>3. b.op \in Counters => b.number = Open(rows', CountedFor(b))
    BY <1>1, <1>2 DEF CountedFor
  <2>4. b.op # "readAll"
    BY <1>1, <1>2 DEF Counters
  <2>5. Open(rows', CountedFor(b)) = Open(rows, CountedFor(b))' /\ CountedFor(b)' = CountedFor(b)
    BY DEF Open, CountedFor
  <2> QED
    BY <1>1, <1>2, <2>2, <2>3, <2>4, <2>5 DEF SoundOK
<1>4. \A x \in asks' : \A w, i : Mark(x, w, i) => x \in asks
  BY <1>1, <1>2 DEF Mark
<1>5. \A w \in Subscribers : Awaiting(w)' => Awaiting(w)
  BY <1>1 DEF Awaiting
<1> QED
  BY <1>1, <1>2, <1>3, <1>4, <1>5, SoundKept

LEMMA ServeMarkSound ==
  ASSUME TypedInv, SoundInv, NEW a \in asks, ServeMark(a), wire' = wire
  PROVE  SoundInv'
<1>0. PICK b : b = Answer(a, << >>, 0)
  OBVIOUS
<1>1. /\ rows' = After(a) /\ jobs' = jobs /\ a.op \in {"readOne", "readAll"}
      /\ asks' = Replied(IF After(a) = rows THEN asks \ {a} ELSE Disturbed(asks \ {a}), a, b)
  BY <1>0 DEF ServeMark, After
<1>2. b.by = a.by /\ b.op = a.op /\ b.stage = "ok" /\ b.sound = Sound(a)
  BY <1>0, <1>1, SeenIs, AnswerIs
<1>3. DOMAIN rows' = DOMAIN rows /\ (a.op = "readAll" => \A i \in DOMAIN rows' : rows'[i].mine \/ rows'[i].done)
  BY <1>1, AfterIs
<1>4. \A x \in Disturbed(asks \ {a}) : ~x.sound /\ \E y \in asks \ {a} : Alike(y, x)
  BY DisturbedFits
<1>5. SoundOK(b)'
  <2>1. \A x \in asks' : x = b \/ \E y \in asks \ {a} : Alike(y, x)
    BY <1>1, <1>4 DEF Alike, Replied
  <2>2. b.sound /\ b.op \in Counters \cup {"readAll"} /\ b.by \in Subscribers =>
           ~Awaiting(b.by)' /\ \A i \in DOMAIN rows' : ~Marking(b.by, i)'
    BY <1>1, <1>2, <1>3, <2>1, SoundAnswer
  <2>3. b.op # "load" /\ b.op \notin Counters
    BY <1>1, <1>2 DEF Counters
  <2> QED
    BY <1>2, <1>3, <2>2, <2>3 DEF SoundOK
<1>6. CASE After(a) = rows
  <2>1. \A x \in asks' : x = b \/ x \in asks
    BY <1>1, <1>6 DEF Replied
  <2>2. \A x \in asks' : \A w, i : Mark(x, w, i) => x \in asks
    BY <1>2, <2>1 DEF Mark
  <2>3. \A w \in Subscribers : Awaiting(w)' => Awaiting(w)
    BY <1>1 DEF Awaiting
  <2> QED
    BY <1>1, <1>2, <1>5, <1>6, <2>1, <2>2, <2>3, SoundKept
<1>7. CASE After(a) # rows
  <2>1. \A x \in asks' : x = b \/ ~x.sound
    BY <1>1, <1>4, <1>7 DEF Replied
  <2> QED
    BY <1>5, <2>1, SoundAlone
<1> QED
  BY <1>6, <1>7

LEMMA ServeSendSound ==
  ASSUME TypedInv, SoundInv, NEW a \in asks, ServeSend(a)
  PROVE  SoundInv'
<1>0. PICK b : b = StoredAsk(a)
  OBVIOUS
<1>1. asks' \subseteq Disturbed(asks \ {a}) \cup {b} /\ a.op = "send" /\ Len(rows) \in Nat
  BY <1>0, SeqIs DEF ServeSend, StoredAsk, Replied, TypedInv, TypeOK
<1>2. b.op = "send"
  BY <1>0, <1>1, SeenIs, StoredIs
<1>3. SoundOK(b)'
  BY <1>2 DEF SoundOK, Counters
<1>4. \A x \in Disturbed(asks \ {a}) : ~x.sound
  BY DisturbedFits
<1> QED
  BY <1>1, <1>3, <1>4, SoundAlone

\* A change at the server.
LEMMA DisturbedSound ==
  ASSUME TypedInv, asks' = Disturbed(asks)
  PROVE  SoundInv'
<1>1. \A b \in asks' : ~b.sound
  BY DisturbedFits
<1> QED
  BY <1>1, SoundAlone

\* An event is published: what is sound and awaits nothing is not there.
LEMMA PublishSound ==
  ASSUME TypedInv, SoundInv, NEW j \in jobs, Publish(j)
  PROVE  SoundInv'
<1>1. rows' = rows /\ asks' = (asks \ Replying(j)) \cup {[a EXCEPT !.stage = "ok"] : a \in Replying(j)}
  BY DEF Publish
<1>2. ASSUME NEW b \in asks', b.sound
      PROVE  \E a \in asks : /\ a.sound /\ a.seen = b.seen /\ a.number = b.number /\ a.op = b.op /\ a.by = b.by
  <2>1. CASE b \in asks
    BY <1>2, <2>1
  <2>2. CASE b \notin asks
    <3>1. PICK a \in Replying(j) : b = [a EXCEPT !.stage = "ok"]
      BY <1>1, <2>2
    <3>2. a \in asks /\ AskOK(a) /\ ~Unheeded(a)
      BY SeenIs DEF Replying, AskOK
    <3>3. LET c == [a EXCEPT !.stage = "ok"]
          IN  c.sound = a.sound /\ c.seen = a.seen /\ c.number = a.number /\ c.op = a.op /\ c.by = a.by
      BY <3>2, StagedIs
    <3> QED
      BY <1>2, <3>1, <3>2, <3>3
  <2> QED
    BY <2>1, <2>2
<1>3. \A w \in Subscribers : Awaiting(w)
  BY DEF Awaiting
<1>4. ASSUME NEW b \in asks', NEW w \in Subscribers, NEW i \in DOMAIN rows, Mark(b, w, i)
      PROVE  \E a \in asks : Mark(a, w, i)
  <2>1. CASE b \in asks
    BY <1>4, <2>1
  <2>2. CASE b \notin asks
    <3>1. PICK a \in Replying(j) : b = [a EXCEPT !.stage = "ok"]
      BY <1>1, <2>2
    <3>2. AskOK(a) /\ ~Unheeded(a)
      BY SeenIs DEF Replying, AskOK
    <3>3. LET c == [a EXCEPT !.stage = "ok"] IN c.stage = "ok"
      BY <3>2, StagedIs
    <3> QED
      BY <1>4, <3>1, <3>3 DEF Mark
  <2> QED
    BY <2>1, <2>2
<1> QED
  BY <1>1, <1>2, <1>3, <1>4, SoundKept

LEMMA FailSound ==
  ASSUME TypedInv, SoundInv, NEW a \in asks, Fail(a)
  PROVE  SoundInv'
<1>0. PICK b : b = [a EXCEPT !.stage = "failed"]
  OBVIOUS
<1>1. rows' = rows /\ wire' = wire /\ jobs' = jobs /\ asks' = (asks \ {a}) \cup {b} /\ ~Unheeded(a)
  BY <1>0 DEF Fail, network
<1>2. /\ b.by = a.by /\ b.op = a.op /\ b.sound = a.sound /\ b.seen = a.seen /\ b.number = a.number
      /\ b.stage = "failed"
  BY <1>0, <1>1, SeenIs, FailedIs
<1>3. \A x \in asks' : \A w, i : Mark(x, w, i) => x \in asks
  BY <1>1, <1>2 DEF Mark
<1>4. \A x \in asks' : x.sound => \E y \in asks :
          y.sound /\ y.seen = x.seen /\ y.number = x.number /\ y.op = x.op /\ y.by = x.by
  BY <1>1, <1>2
<1>5. \A w \in Subscribers : Awaiting(w)' => Awaiting(w)
  BY <1>1 DEF Awaiting
<1> QED
  BY <1>1, <1>3, <1>4, <1>5, SoundKept

\* The connections and the events.
LEMMA LinkSound ==
  ASSUME TypedInv, SoundInv, NEW w \in Subscribers, Connect(w) \/ Disconnect(w) \/ Handle(w)
  PROVE  SoundInv'
<1>1. rows' = rows /\ jobs' = jobs
  BY DEF Connect, Disconnect, Handle
<1>2. ASSUME NEW v \in Subscribers, Awaiting(v)' PROVE Awaiting(v)
  <2>1. wire[v] = << >> => wire'[v] = << >>
    BY DEF Connect, Disconnect, Handle, TypedInv, TypeOK
  <2> QED
    BY <1>1, <1>2, <2>1 DEF Awaiting
<1>3. ASSUME NEW b \in asks'
      PROVE b \in asks \/ b = Ask("badges", "count", 1) \/ b = Ask("badges", "tally", 1) \/ b = Ask("chat", "readAll", 0)
  <2>1. CASE Connect(w) \/ Disconnect(w)
    BY <2>1 DEF Connect, Disconnect, Counters
  <2>2. CASE Handle(w)
    BY <2>2 DEF Handle, HandleNotice, HandleMail, HandleChat, HandleOffice, Subscribers
  <2> QED
    BY <2>1, <2>2
<1>4. ASSUME NEW b \in asks'
      PROVE  b \in asks \/ (~b.sound /\ ~(b.by \in Subscribers /\ b.op = "readOne" /\ b.stage = "sent"))
  BY <1>3, AskFresh
<1> QED
  BY <1>1, <1>2, <1>4, SoundAsked

LEMMA ApplySound ==
  ASSUME TypedInv, SoundInv, NEW a \in asks, Apply(a)
  PROVE  SoundInv'
<1>1. rows' = rows /\ wire' = wire /\ jobs' = jobs
  BY DEF Apply, network
<1>2. ASSUME NEW b \in asks' PROVE b \in asks \/ b = Ask("chat", "readAll", 0)
  <2>1. CASE a.stage = "failed"
    BY <2>1 DEF Apply, Failed
  <2>2. CASE a.stage # "failed"
    <3>1. \/ asks' \subseteq asks
          \/ asks' = (asks \ {a}) \cup {Ask("chat", "readAll", 0)}
      BY <2>2, ApplyCases DEF Counted, Seeded, Listed, Loaded, Polled, AllRead, Sent
    <3> QED
      BY <3>1
  <2> QED
    BY <2>1, <2>2
<1>3. ASSUME NEW b \in asks'
      PROVE  b \in asks \/ (~b.sound /\ ~(b.by \in Subscribers /\ b.op = "readOne" /\ b.stage = "sent"))
  BY <1>2, AskFresh
<1>4. \A w \in Subscribers : Awaiting(w)' => Awaiting(w)
  BY <1>1 DEF Awaiting
<1> QED
  BY <1>1, <1>3, <1>4, SoundAsked

\* The user.
LEMMA PressSound ==
  ASSUME TypedInv, SoundInv, Toggle \/ MarkAll \/ PageMarkAll \/ Visit \/ SendMessage \/ Poll
                             \/ \E n \in DOMAIN listed : PageMarkOne(n)
  PROVE  SoundInv'
<1>1. rows' = rows /\ wire' = wire /\ jobs' = jobs
  BY DEF Toggle, MarkAll, PageMarkAll, Visit, SendMessage, Poll, PageMarkOne, network
<1>2. ASSUME NEW b \in asks'
      PROVE  b \in asks \/ (~b.sound /\ ~(b.by \in Subscribers /\ b.op = "readOne" /\ b.stage = "sent"))
  <2>1. CASE \E n \in DOMAIN listed : PageMarkOne(n)
    <3>1. PICK n \in DOMAIN listed : PageMarkOne(n)
      BY <2>1
    <3>2. b \in asks \/ b = Ask("page", "readOne", listed[n].row)
      BY <3>1 DEF PageMarkOne
    <3> QED
      BY <3>2, AskFresh DEF Subscribers
  <2>2. CASE Toggle \/ MarkAll \/ PageMarkAll \/ Visit \/ SendMessage \/ Poll
    <3>1. scene \in {"notices", "chat", "list", "office"}
      BY SceneFacts DEF TypedInv
    <3>2. \/ b \in asks
          \/ b = Ask("bell", "list", 0) \/ b = Ask("bell", "readAll", 0) \/ b = Ask("page", "readAll", 0)
          \/ b = Ask("page", "list", 0) \/ b = Ask("mail", "count", 0) \/ b = Ask("chat", "load", 0)
          \/ b = Ask("page", "poll", 0) \/ b = Ask("chat", "send", 0)
      BY <2>2, <3>1 DEF Toggle, MarkAll, PageMarkAll, Visit, SendMessage, Poll
    <3> QED
      BY <3>2, AskFresh
  <2> QED
    BY <2>1, <2>2
<1>3. \A w \in Subscribers : Awaiting(w)' => Awaiting(w)
  BY <1>1 DEF Awaiting
<1> QED
  BY <1>1, <1>2, <1>3, SoundAsked

LEMMA MarkOneSound ==
  ASSUME TypedInv, SoundInv, NEW n \in DOMAIN items, MarkOne(n)
  PROVE  SoundInv'
<1>1. asks' = Disturbed(asks \ Cancelled("bell", "list")) \cup {Ask("bell", "readOne", items[n].row)}
  BY DEF MarkOne
<1>2. \A b \in Disturbed(asks \ Cancelled("bell", "list")) : ~b.sound
  BY DisturbedFits
<1> QED
  BY <1>1, <1>2, AskFresh, SoundAlone

LEMMA LeaveSound ==
  ASSUME TypedInv, SoundInv, Leave
  PROVE  SoundInv'
<1>1. rows' = rows /\ wire' = [wire EXCEPT !["chat"] = << >>] /\ jobs' = jobs
  BY DEF Leave
<1>2. \A w \in Subscribers : Awaiting(w)' => Awaiting(w)
  BY <1>1 DEF TypedInv, TypeOK, Awaiting
<1>3. ASSUME NEW b \in asks', b.sound
      PROVE  \E a \in asks :
                /\ a.sound /\ a.seen = b.seen /\ a.number = b.number /\ a.op = b.op
                /\ b.by \in Subscribers \/ b.op \in Counters => a.by = b.by
  <2>1. b # Ask("mail", "count", 0)
    BY <1>3, AskFresh
  <2>2. PICK a \in asks : b = Orphan(a) /\ Stays(a)
    BY <2>1, LeftAsks
  <2>3. /\ b.by = (IF a.by \in {"page", "chat"} THEN "gone" ELSE a.by)
        /\ b.op = a.op /\ b.seen = a.seen /\ b.sound = a.sound /\ b.number = a.number
    <3>1. AskOK(a)
      BY SeenIs
    <3> QED
      BY <2>2, <3>1, OrphanIs
  <2> QED
    BY <1>3, <2>2, <2>3 DEF Subscribers, Stays, Counters
<1>4. ASSUME NEW b \in asks', NEW w \in Subscribers, NEW i \in DOMAIN rows, Mark(b, w, i)
      PROVE  \E a \in asks : Mark(a, w, i)
  <2>1. b # Ask("mail", "count", 0)
    BY <1>4, AskFresh DEF Mark
  <2>2. PICK a \in asks : b = Orphan(a)
    BY <2>1, LeftAsks
  <2>3. Mark(a, w, i)
    BY <1>4, <2>2, SeenIs, OrphanIs DEF Subscribers, Mark
  <2> QED
    BY <2>3
<1> QED
  BY <1>1, <1>2, <1>3, <1>4, SoundKept

-----------------------------------------------------------------------------
(* What is listed, and what a conversation shows.                          *)

LEMMA ListsIs ==
  ASSUME NEW i
  PROVE  /\ Lists(i) <=> \E n \in DOMAIN listed : listed[n].row = i
         /\ Lists(i)' <=> \E n \in DOMAIN listed' : listed'[n].row = i
  BY DEF Lists

LEMMA OnWireIs ==
  ASSUME NEW w, NEW type, NEW i
  PROVE  /\ OnWire(w, type, i) <=> \E n \in DOMAIN wire[w] : wire[w][n].type = type /\ wire[w][n].row = i
         /\ OnWire(w, type, i)' <=> \E n \in DOMAIN wire'[w] : wire'[w][n].type = type /\ wire'[w][n].row = i
  BY DEF OnWire

Sender(a, i) == a.by = "chat" /\ a.op = "send" /\ a.stage = "ok" /\ a.row = i

LEMMA AnsweringIs ==
  ASSUME NEW i
  PROVE  /\ Answering(i) <=> \E a \in asks : Sender(a, i)
         /\ Answering(i)' <=> \E a \in asks' : Sender(a, i)
  BY DEF Answering, Sender

\* An entry appended that was not listed.
LEMMA ListAppended ==
  ASSUME TypedInv, NEW i \in DOMAIN rows, listed' = Append(listed, [row |-> i, done |-> FALSE])
  PROVE  /\ \A j : Lists(j)' <=> Lists(j) \/ j = i
         /\ ShownInv /\ ~Lists(i) => ShownInv'
         /\ \A n \in DOMAIN listed : n \in DOMAIN listed' /\ listed'[n].row = listed[n].row
<1> DEFINE e == [row |-> i, done |-> FALSE]
<1>1. e \in EntryType /\ e.row = i
  BY DEF EntryType
<1> HIDE DEF e
<1>2. listed \in Seq(EntryType) /\ listed' = Append(listed, e)
  BY ShownIs DEF e
<1>3. /\ Len(listed) \in Nat /\ DOMAIN listed = 1..Len(listed) /\ DOMAIN listed' = 1..(Len(listed) + 1)
      /\ \A n \in 1..Len(listed) : listed'[n] = listed[n]
      /\ listed'[Len(listed) + 1] = e
  BY <1>1, <1>2, AppendIs, SeqIs
<1>4. ASSUME NEW j PROVE Lists(j)' <=> Lists(j) \/ j = i
  <2>1. ASSUME NEW n \in DOMAIN listed', listed'[n].row = j PROVE Lists(j) \/ j = i
    <3>1. CASE n = Len(listed) + 1
      BY <1>1, <1>3, <2>1, <3>1
    <3>2. CASE n \in 1..Len(listed)
      BY <1>3, <2>1, <3>2, ListsIs
    <3> QED
      BY <1>3, <3>1, <3>2
  <2>2. ASSUME Lists(j) PROVE Lists(j)'
    <3>1. PICK n \in DOMAIN listed : listed[n].row = j
      BY <2>2, ListsIs
    <3>2. n \in DOMAIN listed' /\ listed'[n].row = j
      BY <1>3, <3>1
    <3> QED
      BY <3>2, ListsIs
  <2>3. Lists(i)'
    <3>1. Len(listed) + 1 \in DOMAIN listed' /\ listed'[Len(listed) + 1].row = i
      BY <1>1, <1>3
    <3> QED
      BY <3>1, ListsIs
  <2> QED
    BY <2>1, <2>2, <2>3, ListsIs
<1>5. ASSUME ShownInv, ~Lists(i), NEW m \in DOMAIN listed', NEW n \in DOMAIN listed', listed'[m].row = listed'[n].row
      PROVE  m = n
  <2>1. \A k \in 1..Len(listed) : listed[k].row # i
    BY <1>3, <1>5, ListsIs
  <2>2. CASE m = Len(listed) + 1 /\ n = Len(listed) + 1
    BY <2>2
  <2>3. CASE m \in 1..Len(listed) /\ n \in 1..Len(listed)
    BY <1>3, <1>5, <2>3 DEF ShownInv
  <2>4. CASE m \in 1..Len(listed) /\ n = Len(listed) + 1
    BY <1>1, <1>3, <1>5, <2>1, <2>4
  <2>5. CASE n \in 1..Len(listed) /\ m = Len(listed) + 1
    BY <1>1, <1>3, <1>5, <2>1, <2>5
  <2> QED
    BY <1>3, <2>2, <2>3, <2>4, <2>5
<1>6. \A n \in DOMAIN listed : n \in DOMAIN listed' /\ listed'[n].row = listed[n].row
  BY <1>3
<1> QED
  BY <1>4, <1>5, <1>6 DEF ShownInv

\* The rows listed stay the same.
LEMMA ListSame ==
  ASSUME DOMAIN listed' = DOMAIN listed, \A n \in DOMAIN listed : listed'[n].row = listed[n].row
  PROVE  (\A j : Lists(j)' <=> Lists(j)) /\ (ShownInv => ShownInv')
  BY ListsIs DEF ShownInv

LEMMA HandleShown ==
  ASSUME TypedInv, ShownInv, NEW w \in Subscribers, Handle(w)
  PROVE  ShownInv'
<1>1. CASE w = "chat"
  <2>1. wire[w] # << >> /\ listed' = IF Lists(Head(wire[w]).row) THEN listed
                                    ELSE Append(listed, [row |-> Head(wire[w]).row, done |-> FALSE])
    BY <1>1 DEF Handle, HandleChat
  <2>2. Head(wire[w]).row \in DOMAIN rows
    BY <2>1, WireIs, TailIs
  <2> QED
    BY <2>1, <2>2, ListAppended, ListSame
<1>2. CASE w # "chat"
  <2>1. listed' = listed
    BY <1>2 DEF Handle, HandleNotice, HandleMail, HandleOffice, Subscribers
  <2> QED
    BY <2>1, ListSame
<1> QED
  BY <1>1, <1>2

LEMMA ApplyShown ==
  ASSUME TypedInv, ShownInv, NEW a \in asks, Apply(a)
  PROVE  ShownInv'
<1>0. AskOK(a) /\ a.seen \in Seq(RowType) /\ Len(a.seen) <= Len(rows) /\ PageSize \in Nat /\ Window \in Nat
  BY SeenIs, ShownIs
<1>1. CASE listed' = listed
  BY <1>1, ListSame
<1>2. CASE Listed(a) /\ listed' # listed
  <2>1. PICK s : s = Newest(a.seen, PageSize)
    OBVIOUS
  <2>2. listed' = s
    BY <1>2, <2>1 DEF Listed
  <2>3. \A i, j \in DOMAIN s : s[i].row = s[j].row => i = j
    BY <1>0, <2>1, NewestIs
  <2> QED
    BY <2>2, <2>3 DEF ShownInv
<1>3. CASE Loaded(a)
  <2>1. PICK s, k : s = Latest(a.seen, Window) /\ k = Before(a.seen, Window)
    OBVIOUS
  <2>2. listed' = s
    BY <1>3, <2>1 DEF Loaded
  <2>3. /\ k \in 0..Len(a.seen) /\ Len(a.seen) \in Nat /\ DOMAIN s = 1..(Len(a.seen) - k)
        /\ \A i \in DOMAIN s : s[i].row = k + i
    BY <1>0, <2>1, LatestIs
  <2> QED
    BY <2>2, <2>3 DEF ShownInv
<1>4. CASE a.op = "readAll" /\ a.stage = "ok" /\ AllRead(a) /\ listed' # listed
  <2>0. a.by \in {"bell", "page"}
    BY <1>0, <1>4 DEF AskOK, Unheeded
  <2>1. listed' = Ticked(listed)
    BY <1>4, <2>0 DEF AllRead
  <2> QED
    BY <2>1, ShownIs, TickedIs, ListSame
<1>5. CASE a.stage = "ok" /\ a.op = "send" /\ Sent(a)
  <2>1. listed' = IF Lists(a.row) THEN listed ELSE Append(listed, [row |-> a.row, done |-> FALSE])
    BY <1>5 DEF Sent
  <2>2. a.row \in DOMAIN rows
    BY <1>0, <1>5 DEF AskOK
  <2> QED
    BY <2>1, <2>2, ListAppended, ListSame
<1>6. a.stage = "failed" => listed' = listed
  BY DEF Apply, Failed
<1>7. Counted(a) \/ Polled(a) \/ (\E b \in Together(a) : Seeded(a, b)) => listed' = listed
  BY DEF Counted, Polled, Seeded
<1> QED
  BY <1>1, <1>2, <1>3, <1>4, <1>5, <1>6, <1>7, ApplyCases

LEMMA PageMarkOneShown ==
  ASSUME TypedInv, ShownInv, NEW n \in DOMAIN listed, PageMarkOne(n)
  PROVE  ShownInv'
<1>1. listed' = Marked(listed, listed[n].row)
  BY DEF PageMarkOne
<1> QED
  BY <1>1, ShownIs, MarkedIs, ListSame

LEMMA PageShown ==
  ASSUME Visit \/ Leave PROVE ShownInv'
<1>1. listed' = << >>
  BY DEF Visit, Leave
<1> QED
  BY <1>1 DEF ShownInv

LEMMA ComingIs ==
  ASSUME NEW w, NEW type, NEW i
  PROVE  /\ Unpublished(type, i) <=> \E j \in jobs : j.type = type /\ j.row = i
         /\ Unpublished(type, i)' <=> \E j \in jobs' : j.type = type /\ j.row = i
         /\ Coming(w, type, i) <=> OnWire(w, type, i) \/ Unpublished(type, i)
         /\ Coming(w, type, i)' <=> OnWire(w, type, i)' \/ Unpublished(type, i)'
  BY DEF Unpublished, Coming

\* What is to be published stays so, and what is on a wire.
LEMMA ComingKept ==
  ASSUME NEW w, wire'[w] = wire[w], jobs \subseteq jobs'
  PROVE  \A type, i : Coming(w, type, i) => Coming(w, type, i)'
BY OnWireIs, ComingIs

\* The rows that are owed to a list that starts with the same row.
LEMMA OwedIs ==
  ASSUME Len(rows) \in Nat, Len(rows') \in Nat, Len(rows) <= Len(rows'), Window \in Nat,
         \A n \in DOMAIN listed : n \in DOMAIN listed' /\ listed'[n].row = listed[n].row
  PROVE  \A i \in Nat : Owed(i)' => Owed(i)
BY DEF Owed

LEMMA RowsAre ==
  ASSUME TypedInv
  PROVE  /\ rows \in Seq(RowType) /\ Len(rows) \in Nat /\ DOMAIN rows = 1..Len(rows)
         /\ DOMAIN rows \subseteq Nat
<1>1. rows \in Seq(RowType)
  BY DEF TypedInv, TypeOK, RowType
<1> QED
  BY <1>1, SeqIs

\* Nothing of a conversation gets lost.
LEMMA ThreadKept ==
  ASSUME ThreadInv, "thread" \in exact' => "thread" \in exact /\ scene' = scene,
         "thread" \in exact' => \A i \in DOMAIN rows' :
            \/ Unpublished("new", i)'
            \/ /\ i \in DOMAIN rows /\ (Owed(i)' => Owed(i))
               /\ Lists(i) => Lists(i)'
               /\ Coming("chat", "new", i) => Coming("chat", "new", i)' \/ Lists(i)' \/ Answering(i)'
               /\ Answering(i) => Lists(i)' \/ Answering(i)'
  PROVE  ThreadInv'
<1> SUFFICES ASSUME "thread" \in exact'
             PROVE  scene' = "chat" /\ \A i \in DOMAIN rows' :
                       Owed(i)' => Lists(i)' \/ Coming("chat", "new", i)' \/ Answering(i)'
  BY DEF ThreadInv
<1>1. scene = "chat" /\ \A i \in DOMAIN rows : Owed(i) => Lists(i) \/ Coming("chat", "new", i) \/ Answering(i)
  BY DEF ThreadInv
<1>2. \A i : Unpublished("new", i)' => Coming("chat", "new", i)'
  BY ComingIs
<1> QED
  BY <1>1, <1>2

\* Rows are added with their events to come; of the requests nothing but what is asked
\* for changes, and no answer to a message sent goes.
LEMMA ThreadGrown ==
  ASSUME TypedInv, ThreadInv, "thread" \in exact' => "thread" \in exact, scene' = scene,
         Len(rows) <= Len(rows'), Len(rows') \in Nat, DOMAIN rows' = 1..Len(rows'),
         \A i \in DOMAIN rows' : i \in DOMAIN rows \/ Unpublished("new", i)',
         DOMAIN listed' = DOMAIN listed, \A n \in DOMAIN listed : listed'[n].row = listed[n].row,
         wire'["chat"] = wire["chat"], jobs \subseteq jobs',
         \A a \in asks : \A i : Sender(a, i) => \E b \in asks' : Sender(b, i)
  PROVE  ThreadInv'
<1>1. \A i : Coming("chat", "new", i) => Coming("chat", "new", i)'
  BY ComingKept
<1>2. \A i : Lists(i) => Lists(i)'
  BY ListSame
<1>3. \A i : Answering(i) => Answering(i)'
  BY AnsweringIs
<1>4. \A i \in Nat : Owed(i)' => Owed(i)
  <2>1. Len(rows) \in Nat /\ Window \in Nat
    BY ShownIs, SeqIs DEF TypedInv, TypeOK
  <2> QED
    BY <2>1, OwedIs
<1>5. DOMAIN rows' \subseteq Nat
  OBVIOUS
<1> QED
  BY <1>1, <1>2, <1>3, <1>4, <1>5, ThreadKept

\* The same where no row is added.
LEMMA ThreadStill ==
  ASSUME TypedInv, ThreadInv, "thread" \in exact' => "thread" \in exact, scene' = scene,
         DOMAIN rows' = DOMAIN rows, Len(rows') = Len(rows),
         DOMAIN listed' = DOMAIN listed, \A n \in DOMAIN listed : listed'[n].row = listed[n].row,
         wire'["chat"] = wire["chat"], jobs \subseteq jobs',
         \A a \in asks : \A i : Sender(a, i) => \E b \in asks' : Sender(b, i)
  PROVE  ThreadInv'
<1>1. Len(rows) \in Nat /\ DOMAIN rows = 1..Len(rows)
  BY SeqIs DEF TypedInv, TypeOK
<1> QED
  BY <1>1, ThreadGrown

\* It cannot be said that the conversation is complete.
LEMMA ThreadOpen ==
  ASSUME "thread" \notin exact' PROVE ThreadInv'
  BY DEF ThreadInv

LEMMA LinkThread ==
  ASSUME TypedInv, ThreadInv, NEW w \in Subscribers, Connect(w) \/ Disconnect(w)
  PROVE  ThreadInv'
<1>1. scene' = scene /\ rows' = rows /\ listed' = listed /\ jobs' = jobs
  BY DEF Connect, Disconnect, shown
<1>2. \A a \in asks : a.op = "send" => a \in asks'
  BY DEF Connect, Disconnect, Counters
<1>3. \A a \in asks : \A i : Sender(a, i) => a \in asks'
  BY <1>2 DEF Sender
<1>5. CASE wire'["chat"] = wire["chat"]
  <2>1. exact' \subseteq exact
    BY DEF Connect, Disconnect
  <2> QED
    BY <1>1, <1>3, <1>5, <2>1, ThreadStill
<1>6. CASE wire'["chat"] # wire["chat"]
  <2>1. Disconnect(w)
    BY <1>6 DEF Connect
  <2>2. wire \in [Subscribers -> Seq(Events)] /\ "chat" \in Subscribers /\ wire' = [wire EXCEPT ![w] = << >>]
    BY <2>1 DEF Disconnect, TypedInv, TypeOK, Events, Subscribers
  <2>3. w = "chat" /\ wire["chat"] # << >>
    BY <1>6, <2>2
  <2>4. "thread" \notin exact'
    BY <2>1, <2>3, ThingFacts DEF Disconnect
  <2> QED
    BY <2>4, ThreadOpen
<1> QED
  BY <1>5, <1>6

LEMMA HandleThread ==
  ASSUME TypedInv, ThreadInv, NEW w \in Subscribers, Handle(w)
  PROVE  ThreadInv'
<1>1. /\ scene' = scene /\ rows' = rows /\ exact' = exact /\ jobs' = jobs
      /\ wire[w] # << >> /\ wire' = [wire EXCEPT ![w] = Tail(wire[w])]
  BY DEF Handle
<1>2. asks \subseteq asks'
  BY DEF Handle, HandleNotice, HandleMail, HandleChat, HandleOffice, Subscribers
<1>3. CASE w # "chat"
  <2>1. listed' = listed
    BY <1>3 DEF Handle, HandleNotice, HandleMail, HandleOffice, Subscribers
  <2>3. wire'["chat"] = wire["chat"]
    BY <1>1, <1>3 DEF TypedInv, TypeOK
  <2> QED
    BY <1>1, <1>2, <2>1, <2>3, ThreadStill
<1>4. CASE w = "chat"
  <2>0. PICK r : r = Head(wire["chat"]).row
    OBVIOUS
  <2>1. listed' = IF Lists(r) THEN listed ELSE Append(listed, [row |-> r, done |-> FALSE])
    BY <1>4, <2>0 DEF Handle, HandleChat
  <2>2. /\ wire["chat"] \in Seq(Events) /\ wire["chat"] # << >> /\ wire'["chat"] = Tail(wire["chat"])
        /\ "chat" \in Subscribers
    BY <1>1, <1>4 DEF TypedInv, TypeOK, Events
  <2>3. /\ Head(wire["chat"]) = wire["chat"][1] /\ 1 \in DOMAIN wire["chat"]
        /\ Len(wire["chat"]) \in Nat \ {0} /\ DOMAIN wire["chat"] = 1..Len(wire["chat"])
        /\ DOMAIN wire'["chat"] = 1..(Len(wire["chat"]) - 1)
        /\ \A i \in 1..(Len(wire["chat"]) - 1) : wire'["chat"][i] = wire["chat"][i + 1]
    BY <2>2, TailIs, SeqIs
  <2>4. r \in DOMAIN rows
    BY <2>0, <2>2, <2>3, WireIs
  <2>5. /\ (\A j : Lists(j) => Lists(j)') /\ Lists(r)'
        /\ \A n \in DOMAIN listed : n \in DOMAIN listed' /\ listed'[n].row = listed[n].row
    <3>1. CASE Lists(r)
      BY <2>1, <3>1, ListSame
    <3>2. CASE ~Lists(r)
      BY <2>1, <2>4, <3>2, ListAppended
    <3> QED
      BY <3>1, <3>2
  <2>6. ASSUME NEW i, OnWire("chat", "new", i) PROVE OnWire("chat", "new", i)' \/ i = r
    <3>1. PICK n \in DOMAIN wire["chat"] : wire["chat"][n].type = "new" /\ wire["chat"][n].row = i
      BY <2>6, OnWireIs
    <3>2. CASE n = 1
      BY <2>0, <2>3, <3>1, <3>2
    <3>3. CASE n # 1
      <4>1. n - 1 \in 1..(Len(wire["chat"]) - 1) /\ (n - 1) + 1 = n
        BY <2>3, <3>3
      <4>2. wire'["chat"][n - 1] = wire["chat"][n] /\ n - 1 \in DOMAIN wire'["chat"]
        BY <2>3, <4>1
      <4> QED
        BY <3>1, <4>2, OnWireIs
    <3> QED
      BY <3>2, <3>3
  <2>7. \A i : Coming("chat", "new", i) => Coming("chat", "new", i)' \/ Lists(i)'
    BY <1>1, <2>5, <2>6, ComingIs
  <2>8. \A i : Answering(i) => Answering(i)'
    BY <1>2, AnsweringIs
  <2>9. \A i \in DOMAIN rows : Owed(i)' => Owed(i)
    <3>1. Len(rows) \in Nat /\ Window \in Nat /\ DOMAIN rows \subseteq Nat
      BY ShownIs, RowsAre
    <3> QED
      BY <1>1, <2>5, <3>1, OwedIs
  <2> QED
    BY <1>1, <2>5, <2>7, <2>8, <2>9, ThreadKept
<1> QED
  BY <1>3, <1>4

\* Requests disturbed are still there.
LEMMA DisturbedSends ==
  ASSUME TypedInv, NEW as, as \subseteq asks
  PROVE  \A a \in as : \E b \in Disturbed(as) : \A i : (Sender(a, i) => Sender(b, i)) /\ (\A w : Mark(a, w, i) => Mark(b, w, i))
<1> SUFFICES ASSUME NEW a \in as
             PROVE  \E b \in Disturbed(as) : \A i : (Sender(a, i) => Sender(b, i)) /\ (\A w : Mark(a, w, i) => Mark(b, w, i))
  OBVIOUS
<1>1. PICK b \in Disturbed(as) : Alike(a, b)
  BY DisturbedFits
<1>2. \A i : (Sender(a, i) => Sender(b, i)) /\ (\A w : Mark(a, w, i) => Mark(b, w, i))
  BY <1>1 DEF Sender, Mark, Alike
<1> QED
  BY <1>2

\* A row is stored, with its event to come.
LEMMA StoreThread ==
  ASSUME TypedInv, ThreadInv, NEW kind \in KindsOf(scene), NEW mine \in BOOLEAN, mine => scene = "chat",
         rows' = Append(rows, Row(kind, mine)), jobs' = jobs \cup {Job("new", Len(rows) + 1, FALSE)},
         scene' = scene, listed' = listed, wire' = wire, exact' = exact,
         \A a \in asks : \A i : Sender(a, i) => \E b \in asks' : Sender(b, i)
  PROVE  ThreadInv'
<1>1. /\ rows' \in Seq(RowType) /\ Len(rows) \in Nat /\ DOMAIN rows = 1..Len(rows)
      /\ Len(rows') = Len(rows) + 1 /\ DOMAIN rows' = 1..(Len(rows) + 1)
  BY RowStored
<1>0. PICK k : k = Len(rows) + 1
  OBVIOUS
<1>2. Unpublished("new", k)'
  <2>1. PICK j : j = Job("new", k, FALSE)
    OBVIOUS
  <2>2. j \in jobs' /\ j.type = "new" /\ j.row = k
    BY <1>0, <2>1 DEF Job
  <2> QED
    BY <2>2 DEF Unpublished
<1>3. ASSUME NEW i \in DOMAIN rows', i \notin DOMAIN rows PROVE Unpublished("new", i)'
  <2>1. i = k
    BY <1>0, <1>1, <1>3
  <2> QED
    BY <1>2, <2>1
<1>4. jobs \subseteq jobs'
  OBVIOUS
<1>5. Len(rows') \in Nat /\ Len(rows) <= Len(rows') /\ DOMAIN rows' = 1..Len(rows')
  BY <1>1
<1> QED
  BY <1>3, <1>4, <1>5, ThreadGrown

LEMMA ArriveThread ==
  ASSUME TypedInv, ThreadInv, NEW kind \in Kinds, Arrive(kind)
  PROVE  ThreadInv'
<1>1. \A a \in asks : \A i : Sender(a, i) => \E b \in asks' : Sender(b, i)
  BY DisturbedSends DEF Arrive
<1>2. /\ kind \in KindsOf(scene) /\ rows' = Append(rows, Row(kind, FALSE)) /\ scene' = scene
      /\ jobs' = jobs \cup {Job("new", Len(rows) + 1, FALSE)} /\ listed' = listed /\ wire' = wire
      /\ exact' = exact
  BY DEF Arrive, shown, network
<1> QED
  BY <1>1, <1>2, StoreThread

\* A change at the server that adds no row.
LEMMA DisturbedThread ==
  ASSUME TypedInv, ThreadInv, ReadElsewhere \/ \E i \in DOMAIN rows : Decide(i)
  PROVE  ThreadInv'
<1>1. /\ scene' = scene /\ listed' = listed /\ asks' = Disturbed(asks) /\ exact' \subseteq exact
      /\ wire' = wire /\ jobs \subseteq jobs'
  BY DEF Decide, ReadElsewhere, shown, network
<1>3. \A a \in asks : \A i : Sender(a, i) => \E b \in asks' : Sender(b, i)
  BY <1>1, DisturbedSends
<1>4. DOMAIN rows' = DOMAIN rows /\ Len(rows') = Len(rows)
  BY DoneIs, AllDoneIs DEF Decide, ReadElsewhere
<1> QED
  BY <1>1, <1>3, <1>4, ThreadStill

\* An event of the conversation reaches it, or is the answer of its request to send.
LEMMA PublishThread ==
  ASSUME TypedInv, ThreadInv, JobsInv, NEW j \in jobs, Publish(j)
  PROVE  ThreadInv'
<1>1. /\ scene' = scene /\ rows' = rows /\ listed' = listed /\ exact' = exact \ Missed(j)
      /\ asks' = (asks \ Replying(j)) \cup {[a EXCEPT !.stage = "ok"] : a \in Replying(j)}
  BY DEF Publish, shown
<1>2. "chat" \in Subscribers /\ TypeOK
  BY DEF Subscribers, TypedInv
<1>3. \A i : OnWire("chat", "new", i) => OnWire("chat", "new", i)'
  BY <1>2, PublishOn
<1>4. \A i : Answering(i) => Answering(i)'
  <2>1. \A a \in asks : \A i : Sender(a, i) => a \in asks'
    BY <1>1 DEF Sender, Replying
  <2> QED
    BY <2>1, AnsweringIs
<1>5. ASSUME "thread" \in exact', j.type = "new" PROVE OnWire("chat", "new", j.row)' \/ Answering(j.row)'
  <2>1. CASE link["chat"] = "open"
    BY <1>2, <1>5, <2>1, PublishOn
  <2>2. CASE link["chat"] # "open"
    <3>1. \E a \in Replying(j) : a.by = "chat"
      BY <1>1, <1>5, <2>2, KindFacts DEF Missed
    <3>2. PICK a \in Replying(j) : a.by = "chat"
      BY <3>1
    <3>3. PICK b : b = [a EXCEPT !.stage = "ok"]
      OBVIOUS
    <3>4. a \in asks /\ a.op = "send" /\ a.stage = "stored" /\ a.row = j.row /\ AskOK(a)
      BY <3>2, SeenIs DEF Replying
    <3>5. ~Unheeded(a)
      BY <3>4 DEF AskOK
    <3>6. b.by = "chat" /\ b.op = "send" /\ b.stage = "ok" /\ b.row = j.row
      BY <3>2, <3>3, <3>4, <3>5, StagedIs
    <3>7. b \in asks' /\ Sender(b, j.row)
      BY <1>1, <3>2, <3>3, <3>6 DEF Sender
    <3> QED
      BY <3>7, AnsweringIs
  <2> QED
    BY <2>1, <2>2
<1>6. ASSUME "thread" \in exact', NEW i, Unpublished("new", i)
      PROVE  Unpublished("new", i)' \/ OnWire("chat", "new", i)' \/ Answering(i)'
  BY <1>5, <1>6, PublishOff
<1>7. "thread" \in exact' => \A i : Coming("chat", "new", i) => Coming("chat", "new", i)' \/ Answering(i)'
  BY <1>3, <1>6, ComingIs
<1>8. \A i \in DOMAIN rows : Owed(i)' => Owed(i)
  BY <1>1 DEF Owed
<1>9. (\A i : Lists(i) => Lists(i)') /\ ("thread" \in exact' => "thread" \in exact)
  BY <1>1, ListSame
<1> QED
  BY <1>1, <1>4, <1>7, <1>8, <1>9, ThreadKept

LEMMA ServeThread ==
  ASSUME TypedInv, ThreadInv, NEW a \in asks, a.stage = "sent", ServeRead(a) \/ ServeMark(a),
         UNCHANGED <<scene, network>>, UNCHANGED shown
  PROVE  ThreadInv'
<1>1. listed' = listed /\ exact' \subseteq exact /\ wire' = wire /\ jobs' = jobs
  BY DEF ServeRead, ServeMark, shown, network
<1>2. DOMAIN rows' = DOMAIN rows /\ Len(rows') = Len(rows)
  <2>1. CASE ServeRead(a)
    BY <2>1 DEF ServeRead
  <2>2. CASE ServeMark(a)
    <3>1. a.op \in {"readOne", "readAll"} /\ rows' = After(a)
      BY <2>2 DEF ServeMark, After
    <3> QED
      BY <3>1, AfterIs
  <2> QED
    BY <2>1, <2>2
<1>3. ASSUME NEW b \in asks, NEW i, Sender(b, i) PROVE \E c \in asks' : Sender(c, i)
  <2>1. b \in asks \ {a}
    BY <1>3 DEF Sender
  <2>2. CASE asks \ {a} \subseteq asks'
    BY <1>3, <2>1, <2>2
  <2>3. CASE Disturbed(asks \ {a}) \subseteq asks'
    <3>1. PICK c \in Disturbed(asks \ {a}) : \A k : Sender(b, k) => Sender(c, k)
      BY <2>1, DisturbedSends
    <3>2. Sender(c, i) /\ c # a
      BY <1>3, <3>1 DEF Sender
    <3> QED
      BY <2>3, <3>1, <3>2
  <2> QED
    BY <2>2, <2>3 DEF ServeRead, ServeMark, Replied
<1> QED
  BY <1>1, <1>2, <1>3, ThreadStill

LEMMA ServeSendThread ==
  ASSUME TypedInv, ThreadInv, NEW a \in asks, a.stage = "sent", ServeSend(a),
         UNCHANGED <<scene, network>>, UNCHANGED shown
  PROVE  ThreadInv'
<1>1. /\ listed' = listed /\ a.op = "send" /\ rows' = Append(rows, Row("message", TRUE)) /\ wire' = wire
      /\ jobs' = jobs \cup {Job("new", Len(rows) + 1, FALSE)} /\ exact' = exact
  BY DEF ServeSend, shown, network
<1>2. scene = "chat" /\ "message" \in KindsOf(scene)
  BY <1>1, SeenIs, KindFacts DEF AskOK
<1>3. ASSUME NEW b \in asks, NEW i, Sender(b, i) PROVE \E c \in asks' : Sender(c, i)
  <2>1. b \in asks \ {a}
    BY <1>3 DEF Sender
  <2>2. PICK c \in Disturbed(asks \ {a}) : \A k : Sender(b, k) => Sender(c, k)
    BY <2>1, DisturbedSends
  <2>3. Sender(c, i) /\ c # a
    BY <1>3, <2>2 DEF Sender
  <2>4. c \in asks'
    BY <2>2, <2>3 DEF ServeSend, Replied
  <2> QED
    BY <2>3, <2>4
<1> QED
  BY <1>1, <1>2, <1>3, StoreThread

LEMMA FailThread ==
  ASSUME TypedInv, ThreadInv, NEW a \in asks, Fail(a)
  PROVE  ThreadInv'
<1>1. scene' = scene /\ rows' = rows /\ listed' = listed /\ wire' = wire /\ jobs' = jobs /\ exact' \subseteq exact
  BY DEF Fail, shown, network
<1>2. CASE a.op = "send"
  <2>1. "thread" \notin exact'
    BY <1>2 DEF Fail
  <2> QED
    BY <2>1, ThreadOpen
<1>3. CASE a.op # "send"
  <2>1. \A b \in asks : b.op = "send" => b \in asks'
    BY <1>3 DEF Fail
  <2>2. \A b \in asks : \A i : Sender(b, i) => b \in asks'
    BY <2>1 DEF Sender
  <2> QED
    BY <1>1, <2>2, ThreadStill
<1> QED
  BY <1>2, <1>3

\* A sound answer to the load lists everything that is owed.
LEMMA LoadedThread ==
  ASSUME TypedInv, SoundInv, NEW a \in asks, a.op = "load", Loaded(a), UNCHANGED <<scene, rows>>
  PROVE  ThreadInv'
<1>1. listed' = Latest(a.seen, Window) /\ exact' = Known({"thread"}, a.sound)
  BY DEF Loaded
<1>2. CASE a.sound
  <2>1. a.seen = rows /\ scene = "chat"
    BY <1>2, SeenIs DEF SoundInv, SoundOK, AskOK
  <2>2. PICK s, k, n : s = Latest(rows, Window) /\ k = Before(rows, Window) /\ n = Len(rows)
    OBVIOUS
  <2>3. /\ n \in Nat /\ k \in 0..n /\ k >= n - Window /\ DOMAIN s = 1..(n - k) /\ DOMAIN rows = 1..n
        /\ \A i \in DOMAIN s : s[i].row = k + i
    <3>1. rows \in Seq(RowType) /\ Window \in Nat
      BY ShownIs, RowsAre
    <3>2. Len(rows) \in Nat /\ DOMAIN rows = 1..Len(rows)
      BY RowsAre
    <3>3. /\ Before(rows, Window) \in 0..Len(rows) /\ Before(rows, Window) >= Len(rows) - Window
          /\ DOMAIN Latest(rows, Window) = 1..(Len(rows) - Before(rows, Window))
          /\ \A i \in DOMAIN Latest(rows, Window) : Latest(rows, Window)[i].row = Before(rows, Window) + i
      <4>1. Len(rows) <= Len(rows)
        BY <3>2
      <4> QED
        BY <3>1, <4>1, LatestIs
    <3> QED
      BY <2>2, <3>2, <3>3
  <2>4. Window \in Nat
    BY ShownIs
  <2>5. k = n - Window \/ k = 0
    BY <2>2, <2>3, <2>4 DEF Before
  <2>6. ASSUME NEW i \in DOMAIN rows, Owed(i)' PROVE Lists(i)'
    <3>1. i \in 1..n /\ listed' = s
      BY <1>1, <2>1, <2>2, <2>3
    <3>2. i > n - Window \/ \A m \in DOMAIN s : m = 1 => i >= s[m].row
      BY <2>2, <2>6, <3>1 DEF Owed
    <3>3. CASE i > k
      <4>1. PICK m : m = i - k
        OBVIOUS
      <4>2. m \in 1..(n - k) /\ k + m = i
        BY <2>3, <3>1, <3>3, <4>1
      <4>3. m \in DOMAIN s /\ s[m].row = i
        BY <2>3, <4>2
      <4> QED
        BY <3>1, <4>3, ListsIs
    <3>4. CASE ~(i > k)
      <4>1. k # 0 /\ n > k
        BY <2>3, <2>4, <2>5, <3>1, <3>4, LiveAssumption
      <4>2. 1 \in DOMAIN s /\ s[1].row = k + 1
        BY <2>3, <4>1
      <4> QED
        BY <2>3, <2>4, <2>5, <3>1, <3>2, <3>4, <4>1, <4>2
    <3> QED
      BY <3>3, <3>4
  <2> QED
    BY <2>1, <2>6 DEF ThreadInv
<1>3. CASE ~a.sound
  BY <1>1, <1>3, ThreadOpen DEF Known
<1> QED
  BY <1>2, <1>3

\* The answer to a message sent adds it to the list.
LEMMA SentThread ==
  ASSUME TypedInv, ThreadInv, NEW a \in asks, a.op = "send", a.stage = "ok", Sent(a),
         UNCHANGED <<scene, rows, jobs, network>>
  PROVE  ThreadInv'
<1>1. /\ listed' = IF Lists(a.row) THEN listed ELSE Append(listed, [row |-> a.row, done |-> FALSE])
      /\ exact' = exact /\ asks' = asks \ {a} /\ wire' = wire
  BY DEF Sent, network
<1>2. a.row \in DOMAIN rows
  BY SeenIs DEF AskOK
<1>3. /\ (\A j : Lists(j) => Lists(j)') /\ Lists(a.row)'
      /\ \A n \in DOMAIN listed : n \in DOMAIN listed' /\ listed'[n].row = listed[n].row
  <2>1. CASE Lists(a.row)
    BY <1>1, <2>1, ListSame
  <2>2. CASE ~Lists(a.row)
    BY <1>1, <1>2, <2>2, ListAppended
  <2> QED
    BY <2>1, <2>2
<1>4. \A i : Coming("chat", "new", i) => Coming("chat", "new", i)'
  BY <1>1, ComingKept
<1>5. \A b \in asks : \A i : Sender(b, i) => Lists(i)' \/ b \in asks'
  BY <1>1, <1>3 DEF Sender
<1>6. \A i : Answering(i) => Lists(i)' \/ Answering(i)'
  BY <1>5, AnsweringIs
<1>7. \A i \in DOMAIN rows : Owed(i)' => Owed(i)
  <2>1. Len(rows) \in Nat /\ Window \in Nat /\ DOMAIN rows \subseteq Nat
    BY ShownIs, RowsAre
  <2> QED
    BY <1>3, <2>1, OwedIs
<1> QED
  BY <1>1, <1>3, <1>4, <1>6, <1>7, ThreadKept

\* Answers: a load replaces the list, the answer to a message sent adds to it.
LEMMA ApplyThread ==
  ASSUME TypedInv, SoundInv, ThreadInv, NEW a \in asks, Apply(a)
  PROVE  ThreadInv'
<1>1. UNCHANGED <<scene, rows, jobs, network>> /\ wire' = wire
  BY DEF Apply, network
<1>2. CASE a.stage = "ok" /\ a.op = "load" /\ Loaded(a)
  BY <1>1, <1>2, LoadedThread
<1>3. CASE a.stage = "ok" /\ a.op = "send" /\ Sent(a)
  BY <1>1, <1>3, SentThread
<1>4. CASE a.op = "list" /\ Listed(a)
  <2>1. scene # "chat" /\ exact' = exact
    BY <1>4, SeenIs DEF Listed, AskOK
  <2> QED
    BY <2>1 DEF ThreadInv
<1>5. CASE \/ a.stage = "failed" /\ Failed(a)
           \/ Counted(a) /\ a.op = "count"
           \/ Polled(a) /\ a.op = "poll"
           \/ AllRead(a) /\ a.op = "readAll" /\ a.stage = "ok"
           \/ a.op = "count" /\ \E b \in Together(a) : Seeded(a, b)
  <2>1. \A b \in asks : b.op = "send" /\ b.stage = "ok" => b \in asks'
    BY <1>5 DEF Failed, Counted, Polled, AllRead, Seeded, Together, Counters
  <2>2. \A b \in asks : \A i : Sender(b, i) => b \in asks'
    BY <2>1 DEF Sender
  <2>0. a.stage = "ok" /\ a.op = "readAll" => a.by \in {"bell", "page"}
    BY SeenIs DEF AskOK, Unheeded
  <2>3. listed' = listed \/ listed' = Ticked(listed)
    BY <1>5, <2>0 DEF Failed, Counted, Polled, AllRead, Seeded
  <2>4. DOMAIN listed' = DOMAIN listed /\ \A n \in DOMAIN listed : listed'[n].row = listed[n].row
    BY <2>3, ShownIs, TickedIs
  <2>5. "thread" \in exact' => "thread" \in exact
    <3>1. CASE Counted(a) /\ a.op = "count"
      <4>1. a.op \in Counters
        BY <3>1 DEF Counters
      <4>2. CountedFor(a) # "thread"
        BY <4>1, CountedForIs, SceneFacts DEF Kinds, TypedInv
      <4> QED
        BY <3>1, <4>2 DEF Counted, Known
    <3>2. CASE ~(Counted(a) /\ a.op = "count")
      <4>1. CASE AllRead(a) /\ a.op = "readAll" /\ a.stage = "ok"
        <5>1. CASE a.by = "bell"
          <6>1. exact' = Known({"notice"}, a.sound)
            BY <4>1, <5>1 DEF AllRead
          <6> QED
            BY <6>1 DEF Known
        <5>2. CASE a.by = "page"
          BY <4>1, <5>2 DEF AllRead
        <5> QED
          BY <2>0, <4>1, <5>1, <5>2
      <4>2. CASE Failed(a) \/ Polled(a)
        BY <4>2 DEF Failed, Polled
      <4>3. CASE \E b \in Together(a) : Seeded(a, b)
        BY <4>3 DEF Seeded
      <4> QED
        BY <1>5, <3>2, <4>1, <4>2, <4>3
    <3> QED
      BY <3>1, <3>2
  <2> QED
    BY <1>1, <2>2, <2>4, <2>5, ThreadStill
<1>6. a.stage = "failed" => Failed(a)
  BY DEF Apply
<1> QED
  BY <1>2, <1>3, <1>4, <1>5, <1>6, ApplyCases

LEMMA PressThread ==
  ASSUME TypedInv, ThreadInv, \/ Toggle \/ MarkAll \/ PageMarkAll \/ SendMessage \/ Poll
                              \/ \E n \in DOMAIN items : MarkOne(n)
                              \/ \E n \in DOMAIN listed : PageMarkOne(n)
  PROVE  ThreadInv'
<1>1. scene' = scene /\ rows' = rows /\ wire' = wire /\ jobs' = jobs /\ exact' \subseteq exact
  BY DEF Toggle, MarkAll, PageMarkAll, SendMessage, Poll, MarkOne, PageMarkOne, network
<1>2. DOMAIN listed' = DOMAIN listed /\ \A n \in DOMAIN listed : listed'[n].row = listed[n].row
  <2>1. CASE \E n \in DOMAIN listed : PageMarkOne(n)
    <3>1. PICK n \in DOMAIN listed : PageMarkOne(n)
      BY <2>1
    <3>2. listed' = Marked(listed, listed[n].row)
      BY <3>1 DEF PageMarkOne
    <3> QED
      BY <3>2, ShownIs, MarkedIs
  <2>2. CASE ~\E n \in DOMAIN listed : PageMarkOne(n)
    BY <2>2 DEF Toggle, MarkAll, PageMarkAll, SendMessage, Poll, MarkOne, shown
  <2> QED
    BY <2>1, <2>2
<1>3. ASSUME NEW b \in asks, NEW i, Sender(b, i) PROVE \E c \in asks' : Sender(c, i)
  <2>1. CASE \E n \in DOMAIN items : MarkOne(n)
    <3>1. PICK as : as = asks \ Cancelled("bell", "list")
      OBVIOUS
    <3>2. b \in as /\ as \subseteq asks
      BY <1>3, <3>1 DEF Cancelled, Sender
    <3>3. Disturbed(as) \subseteq asks'
      BY <2>1, <3>1 DEF MarkOne
    <3> QED
      BY <1>3, <3>2, <3>3, DisturbedSends
  <2>2. CASE ~\E n \in DOMAIN items : MarkOne(n)
    <3>1. b.op = "send"
      BY <1>3 DEF Sender
    <3>2. b \in asks'
      BY <2>2, <3>1 DEF Toggle, MarkAll, PageMarkAll, SendMessage, Poll, PageMarkOne, Cancelled
    <3> QED
      BY <1>3, <3>2
  <2> QED
    BY <2>1, <2>2
<1> QED
  BY <1>1, <1>2, <1>3, ThreadStill

LEMMA PageThread ==
  ASSUME TypedInv, Visit \/ Leave PROVE ThreadInv'
<1>1. "thread" \notin exact'
  BY DEF Visit, Leave, TypedInv, SceneInv
<1> QED
  BY <1>1, ThreadOpen

-----------------------------------------------------------------------------
(* Numbers.                                                                *)

\* An exact number is of a kind of the scene, and kept by an event stream.
LEMMA ExactIs ==
  ASSUME TypedInv, NEW c \in exact \cap Kinds
  PROVE  /\ c \in KindsOf(scene) /\ c \in {"notice", "message", "report", "verdict"}
         /\ KeptBy(c) \in Subscribers /\ KeptBy(c) # "chat" /\ c \in ThingsOf(KeptBy(c))
         /\ c = "notice" <=> KeptBy(c) = "bell"
         /\ c = "message" <=> KeptBy(c) = "mail"
         /\ scene = "notices" => c = "notice"
         /\ scene = "chat" => c = "message"
         /\ scene = "office" => KeptBy(c) = "badges" /\ c \in {"report", "verdict"}
<1>1. exact \subseteq (KindsOf(scene) \cup {"thread"}) \ {"failure"}
  BY DEF TypedInv, SceneInv
<1>2. c \in KindsOf(scene) /\ c \in {"notice", "message", "report", "verdict"}
  BY <1>1 DEF Kinds
<1>3. c \in Kinds
  OBVIOUS
<1> QED
  BY <1>2, <1>3, KindFacts, ThingFacts, SceneFacts DEF TypedInv, Subscribers

\* The counted rows, with the subscriber named.
LEMMA BelievedIs ==
  ASSUME NEW c, NEW w, w = KeptBy(c)
  PROVE  /\ Believed(c) = {i \in DOMAIN rows : Counting(c, w, i) /\ ~Coming(w, "new", i)}
         /\ Believed(c)' = {i \in DOMAIN rows' : Counting(c, w, i)' /\ ~Coming(w, "new", i)'}
         /\ Firm(c) <=> \A i \in DOMAIN rows :
                           rows[i].kind = c /\ ~rows[i].mine /\ Coming(w, "new", i) => Counting(c, w, i)
         /\ Firm(c)' <=> \A i \in DOMAIN rows' :
                           rows'[i].kind = c /\ ~rows'[i].mine /\ Coming(w, "new", i)' => Counting(c, w, i)'
<1>1. KeptBy(c)' = w
  BY DEF KeptBy
<1> QED
  BY <1>1 DEF Believed, Firm

LEMMA CountingIs ==
  ASSUME NEW c, NEW w, NEW i
  PROVE  /\ Counting(c, w, i) <=> /\ rows[i].kind = c /\ ~rows[i].mine /\ ~Marking(w, i)
                                  /\ ~rows[i].done \/ Coming(w, "resolved", i)
         /\ Counting(c, w, i)' <=> /\ rows'[i].kind = c /\ ~rows'[i].mine /\ ~Marking(w, i)'
                                   /\ ~rows'[i].done \/ Coming(w, "resolved", i)'
  BY DEF Counting

\* Nothing changes on a wire, and nothing is published.
LEMMA ComingSame ==
  ASSUME NEW w, wire'[w] = wire[w], jobs' = jobs
  PROVE  \A type, i : Coming(w, type, i)' <=> Coming(w, type, i)
BY OnWireIs, ComingIs

\* They are finitely many.
LEMMA BelievedFinite ==
  ASSUME TypedInv, NEW c PROVE IsFiniteSet(Believed(c))
<1>1. IsFiniteSet(DOMAIN rows)
  <2>1. rows \in Seq(RowType)
    BY DEF TypedInv, TypeOK, RowType
  <2>2. DOMAIN rows = 1..Len(rows) /\ Len(rows) \in Nat
    BY <2>1, SeqIs
  <2> QED
    BY <2>2, FS_Interval
<1>2. Believed(c) \subseteq DOMAIN rows
  BY DEF Believed
<1> QED
  BY <1>1, <1>2, FS_Subset

\* The same rows count.
LEMMA CountStep ==
  ASSUME NEW c, NEW w, w = KeptBy(c), CountOK(c), DOMAIN rows' = DOMAIN rows, count'[c] = count[c],
         \A i \in DOMAIN rows : /\ rows'[i].kind = rows[i].kind /\ rows'[i].mine = rows[i].mine
                                /\ Coming(w, "new", i)' <=> Coming(w, "new", i)
                                /\ Counting(c, w, i)' <=> Counting(c, w, i),
         AllReadDue => AllReadDue'
  PROVE  CountOK(c)'
<1>1. CASE c = "notice" /\ AllReadDue
  BY <1>1 DEF CountOK
<1>2. CASE Firm(c) /\ count[c] = Cardinality(Believed(c))
  <2>1. Believed(c)' = Believed(c)
    BY BelievedIs
  <2>2. Firm(c)'
    BY <1>2, BelievedIs
  <2>3. CountOK(c)' <=> (c = "notice" /\ AllReadDue') \/ (Firm(c)' /\ count'[c] = Cardinality(Believed(c)'))
    BY DEF CountOK
  <2> QED
    BY <1>2, <2>1, <2>2, <2>3
<1> QED
  BY <1>1, <1>2 DEF CountOK

\* Requests that no number depends on.
Plain(a) == ~Due(a) /\ \A w \in Subscribers, i \in Nat : ~Mark(a, w, i)

\* Rows stay, and nothing that a number depends on is sent or answered.
LEMMA CountPlain ==
  ASSUME TypedInv, CountInv, rows' = rows, jobs' = jobs,
         \A c \in exact' \cap Kinds : c \in exact /\ count'[c] = count[c] /\ wire'[KeptBy(c)] = wire[KeptBy(c)],
         \A b \in asks' : b \in asks \/ Plain(b), \A a \in asks : a \in asks' \/ Plain(a)
  PROVE  CountInv'
<1> SUFFICES ASSUME NEW c \in exact' \cap Kinds PROVE CountOK(c)'
  BY DEF CountInv
<1>1. PICK w : w = KeptBy(c)
  OBVIOUS
<1>2. c \in exact \cap Kinds /\ w \in Subscribers /\ wire'[w] = wire[w] /\ count'[c] = count[c]
  BY <1>1, ExactIs
<1>3. CountOK(c)
  BY <1>2 DEF CountInv
<1>4. DOMAIN rows \subseteq Nat
  BY SeqIs DEF TypedInv, TypeOK
<1>5. \A i \in DOMAIN rows : Marking(w, i)' <=> Marking(w, i)
  BY <1>2, <1>4, MarkingIs, MarkingNext DEF Plain
<1>6. \A t, i : Coming(w, t, i)' <=> Coming(w, t, i)
  BY <1>2, ComingSame
<1>7. \A i \in DOMAIN rows : Counting(c, w, i)' <=> Counting(c, w, i)
  BY <1>5, <1>6, CountingIs
<1>8. AllReadDue => AllReadDue'
  BY DEF AllReadDue, Plain
<1> QED
  BY <1>1, <1>2, <1>3, <1>6, <1>7, <1>8, CountStep

LEMMA PlainIs ==
  ASSUME NEW a, a.op # "readOne" \/ a.stage # "sent" \/ a.by \notin Subscribers,
         a.op # "readAll" \/ a.stage # "ok" \/ a.by # "bell"
  PROVE  Plain(a)
  BY DEF Plain, Due, Mark

LEMMA PlainAsk ==
  ASSUME NEW w, NEW op, NEW i, NEW b, b = Ask(w, op, i), op # "readOne" \/ w \notin Subscribers
  PROVE  Plain(b)
  BY AskFresh, PlainIs

LEMMA LinkCount ==
  ASSUME TypedInv, CountInv, NEW w \in Subscribers, Connect(w) \/ Disconnect(w)
  PROVE  CountInv'
<1>1. rows' = rows /\ jobs' = jobs /\ count' = count /\ exact' \subseteq exact
  BY DEF Connect, Disconnect, shown
<1>2. ASSUME NEW b \in asks', b \notin asks PROVE Plain(b)
  <2>1. PICK op \in Counters : b = Ask("badges", op, 1)
    BY <1>2 DEF Connect, Disconnect
  <2>2. op # "readOne"
    BY DEF Counters
  <2> QED
    BY <2>1, <2>2, PlainAsk
<1>3. \A a \in asks : a \in asks' \/ Plain(a)
  BY PlainIs DEF Connect, Disconnect, Counters
<1>4. ASSUME NEW c \in exact' \cap Kinds PROVE wire'[KeptBy(c)] = wire[KeptBy(c)]
  <2>1. c \in exact \cap Kinds /\ KeptBy(c) \in Subscribers /\ c \in ThingsOf(KeptBy(c))
    BY <1>1, ExactIs
  <2>2. CASE Connect(w)
    BY <2>2 DEF Connect
  <2>3. CASE Disconnect(w)
    <3>1. wire \in [Subscribers -> Seq(Events)] /\ wire' = [wire EXCEPT ![w] = << >>]
      BY <2>3 DEF Disconnect, TypedInv, TypeOK, Events
    <3>2. KeptBy(c) = w => wire[w] = << >>
      BY <2>1, <2>3 DEF Disconnect
    <3> QED
      BY <2>1, <3>1, <3>2
  <2> QED
    BY <2>2, <2>3
<1> QED
  BY <1>1, <1>2, <1>3, <1>4, CountPlain

LEMMA ServeReadCount ==
  ASSUME TypedInv, CountInv, NEW a \in asks, ServeRead(a), wire' = wire, UNCHANGED shown
  PROVE  CountInv'
<1>1. rows' = rows /\ jobs' = jobs /\ count' = count /\ exact' = exact
  BY DEF ServeRead, shown
<1>2. asks' = (asks \ {a}) \cup {Reading(a)} /\ Reading(a).op = a.op /\ a.op \notin {"readOne", "readAll"}
  BY ReadingIs DEF Counters
<1>3. Plain(a) /\ Plain(Reading(a))
  BY <1>2, PlainIs
<1> QED
  BY <1>1, <1>2, <1>3, CountPlain

LEMMA FailCount ==
  ASSUME TypedInv, CountInv, NEW a \in asks, Fail(a)
  PROVE  CountInv'
<1>0. PICK b : b = [a EXCEPT !.stage = "failed"]
  OBVIOUS
<1>1. /\ rows' = rows /\ wire' = wire /\ jobs' = jobs /\ count' = count /\ exact' \subseteq exact
      /\ asks' = (asks \ {a}) \cup {b} /\ ~Unheeded(a)
  BY <1>0 DEF Fail, network, shown
<1>2. CASE a.op \in {"readAll", "send"}
  <2>1. exact' = exact \ (KindsOf(scene) \cup {"thread"})
    BY <1>2 DEF Fail
  <2>2. exact' \cap Kinds = {}
    BY <2>1, ExactIs
  <2> QED
    BY <2>2 DEF CountInv
<1>3. CASE a.op \notin {"readAll", "send"}
  <2>1. b.op = a.op
    BY <1>0, <1>1, SeenIs, FailedIs
  <2>2. a.op # "readOne"
    BY <1>1 DEF Unheeded
  <2>3. Plain(a) /\ Plain(b)
    BY <1>3, <2>1, <2>2, PlainIs
  <2> QED
    BY <1>1, <2>3, CountPlain
<1> QED
  BY <1>2, <1>3

LEMMA ReadElsewhereCount ==
  ASSUME TypedInv, ReadElsewhere PROVE CountInv'
<1>1. exact' = exact \ KindsOf(scene)
  BY DEF ReadElsewhere
<1>2. exact' \cap Kinds = {}
  BY <1>1, ExactIs
<1> QED
  BY <1>2 DEF CountInv

\* Presses that ask for something.
LEMMA PressCount ==
  ASSUME TypedInv, CountInv, \/ Toggle \/ MarkAll \/ PageMarkAll \/ SendMessage \/ Poll \/ Visit
                             \/ \E n \in DOMAIN listed : PageMarkOne(n)
  PROVE  CountInv'
<1>1. rows' = rows /\ wire' = wire /\ jobs' = jobs /\ exact' = exact
  BY DEF Toggle, MarkAll, PageMarkAll, SendMessage, Poll, Visit, PageMarkOne, network
<1>2. ASSUME NEW c \in exact' \cap Kinds PROVE count'[c] = count[c]
  <2>1. c # "failure" /\ c \in Kinds
    BY <1>1, ExactIs
  <2>2. count' = count \/ count' = [count EXCEPT !["failure"] = 0]
    BY DEF Toggle, MarkAll, PageMarkAll, SendMessage, Poll, Visit, PageMarkOne, shown
  <2> QED
    BY <2>1, <2>2 DEF TypedInv, TypeOK
<1>3. scene \in {"notices", "chat", "list", "office"}
  BY SceneFacts DEF TypedInv
<1>4. ASSUME NEW b \in asks' PROVE b \in asks \/ Plain(b)
  <2>1. CASE \E n \in DOMAIN listed : PageMarkOne(n)
    <3>1. PICK n \in DOMAIN listed : PageMarkOne(n)
      BY <2>1
    <3>2. b \in asks \/ b = Ask("page", "readOne", listed[n].row)
      BY <3>1 DEF PageMarkOne
    <3> QED
      BY <3>2, PlainAsk DEF Subscribers
  <2>2. CASE ~\E n \in DOMAIN listed : PageMarkOne(n)
    <3>1. \/ b \in asks
          \/ b = Ask("bell", "list", 0) \/ b = Ask("bell", "readAll", 0) \/ b = Ask("page", "readAll", 0)
          \/ b = Ask("page", "list", 0) \/ b = Ask("mail", "count", 0) \/ b = Ask("chat", "load", 0)
          \/ b = Ask("page", "poll", 0) \/ b = Ask("chat", "send", 0)
      BY <1>3, <2>2 DEF Toggle, MarkAll, PageMarkAll, Visit, SendMessage, Poll
    <3> QED
      BY <3>1, PlainAsk
  <2> QED
    BY <2>1, <2>2
<1>5. ASSUME NEW a \in asks PROVE a \in asks' \/ Plain(a)
  <2>1. a.op \notin {"count", "list"} => a \in asks'
    BY <1>3 DEF Toggle, MarkAll, PageMarkAll, Visit, SendMessage, Poll, PageMarkOne, Cancelled
  <2> QED
    BY <2>1, PlainIs
<1>6. \A c \in exact' \cap Kinds : c \in exact /\ count'[c] = count[c] /\ wire'[KeptBy(c)] = wire[KeptBy(c)]
  BY <1>1, <1>2
<1> QED
  BY <1>1, <1>4, <1>5, <1>6, CountPlain

\* The page is left: what it asked for is no subscriber's.
LEMMA LeaveCount ==
  ASSUME TypedInv, CountInv, Leave
  PROVE  CountInv'
<1>1. rows' = rows /\ jobs' = jobs /\ count' = count /\ wire' = [wire EXCEPT !["chat"] = << >>] /\ exact' = exact \ {"thread"}
  BY DEF Leave
<1> SUFFICES ASSUME NEW c \in exact' \cap Kinds PROVE CountOK(c)'
  BY DEF CountInv
<1>2. PICK w : w = KeptBy(c)
  OBVIOUS
<1>3. c \in exact \cap Kinds /\ w \in Subscribers /\ w # "chat"
  BY <1>1, <1>2, ExactIs
<1>4. CountOK(c)
  BY <1>3 DEF CountInv
<1>5. wire'[w] = wire[w]
  BY <1>1, <1>3 DEF TypedInv, TypeOK
<1>6. ASSUME NEW a \in asks, a.op \in {"readOne", "readAll"}, a.by \in Subscribers, a.by # "chat"
      PROVE  \E b \in asks' : b.by = a.by /\ b.op = a.op /\ b.row = a.row /\ b.stage = a.stage
  <2>1. PICK b : b = Orphan(a)
    OBVIOUS
  <2>2. b \in asks'
    BY <1>6, <2>1, LeftAsks DEF Subscribers
  <2>3. b.by = a.by /\ b.op = a.op /\ b.row = a.row /\ b.stage = a.stage
    BY <1>6, <2>1, SeenIs, OrphanIs DEF Subscribers
  <2> QED
    BY <2>2, <2>3
<1>7. ASSUME NEW b \in asks', b.op = "readOne", b.by \in Subscribers
      PROVE  \E a \in asks : b.by = a.by /\ b.op = a.op /\ b.row = a.row /\ b.stage = a.stage
  <2>1. b # Ask("mail", "count", 0)
    BY <1>7, AskFresh
  <2>2. PICK a \in asks : b = Orphan(a)
    BY <2>1, LeftAsks
  <2> QED
    BY <1>7, <2>2, SeenIs, OrphanIs DEF Subscribers
<1>8. \A i : Marking(w, i)' <=> Marking(w, i)
  BY <1>3, <1>6, <1>7, MarkingIs, MarkingNext DEF Mark
<1>9. AllReadDue => AllReadDue'
  BY <1>6 DEF AllReadDue, Due, Subscribers
<1>10. \A t, i : Coming(w, t, i)' <=> Coming(w, t, i)
  BY <1>1, <1>5, ComingSame
<1>11. \A i \in DOMAIN rows : Counting(c, w, i)' <=> Counting(c, w, i)
  BY <1>1, <1>8, <1>10, CountingIs
<1> QED
  BY <1>1, <1>2, <1>4, <1>9, <1>10, <1>11, CountStep

\* The event at the head of a wire is taken from it, and comes once.
Taken(w, type, r) ==
    /\ wire[w] # << >> /\ wire' = [wire EXCEPT ![w] = Tail(wire[w])]
    /\ type = Head(wire[w]).type /\ r = Head(wire[w]).row
OffWire(w, type, r) ==
    /\ r \in DOMAIN rows /\ type \in {"new", "resolved"}
    /\ \A t, i : (i # r \/ t # type) => (OnWire(w, t, i)' <=> OnWire(w, t, i))
    /\ OnWire(w, type, r)
    /\ type = "new" \/ "report" \in exact => ~OnWire(w, type, r)'
    /\ type = "resolved" =>
          rows[r].kind = "report" /\ rows[r].done /\ ("report" \in exact => ~OnWire(w, "new", r))

LEMMA HeadIs ==
  ASSUME TypedInv, WireInv, NEW w \in Subscribers, NEW type, NEW r, Taken(w, type, r)
  PROVE  OffWire(w, type, r)
<1>0. /\ wire[w] # << >> /\ wire' = [wire EXCEPT ![w] = Tail(wire[w])]
      /\ type = Head(wire[w]).type /\ r = Head(wire[w]).row
  BY DEF Taken
<1>1. wire \in [Subscribers -> Seq(Events)]
  BY DEF TypedInv, TypeOK, Events
<1>2. wire'[w] = Tail(wire[w])
  BY <1>0, <1>1
<1> DEFINE l == Len(wire[w])
<1>3. /\ Head(wire[w]) = wire[w][1] /\ l \in Nat \ {0} /\ DOMAIN wire[w] = 1..l
      /\ DOMAIN wire'[w] = 1..(l - 1) /\ \A n \in 1..(l - 1) : wire'[w][n] = wire[w][n + 1]
  BY <1>0, <1>1, <1>2, TailIs, WireIs
<1> HIDE DEF l
<1>4. 1 \in DOMAIN wire[w] /\ type = wire[w][1].type /\ r = wire[w][1].row
  BY <1>0, <1>3
<1>5. r \in DOMAIN rows /\ type \in {"new", "resolved"}
  BY <1>4, WireIs
<1>6. ASSUME NEW t, NEW i, OnWire(w, t, i)' PROVE \E n \in 2..l : wire[w][n].type = t /\ wire[w][n].row = i
  <2>1. PICK n \in DOMAIN wire'[w] : wire'[w][n].type = t /\ wire'[w][n].row = i
    BY <1>6, OnWireIs
  <2>2. n \in 1..(l - 1) /\ n + 1 \in 2..l
    BY <1>3, <2>1
  <2>3. wire[w][n + 1].type = t /\ wire[w][n + 1].row = i
    BY <1>3, <2>1, <2>2
  <2> QED
    BY <2>2, <2>3
<1>7. ASSUME NEW t, NEW i, OnWire(w, t, i), i # r \/ t # type PROVE OnWire(w, t, i)'
  <2>1. PICK n \in DOMAIN wire[w] : wire[w][n].type = t /\ wire[w][n].row = i
    BY <1>7, OnWireIs
  <2>2. n # 1
    BY <1>4, <1>7, <2>1
  <2>3. n - 1 \in 1..(l - 1) /\ (n - 1) + 1 = n
    BY <1>3, <2>1, <2>2
  <2>4. n - 1 \in DOMAIN wire'[w] /\ wire'[w][n - 1] = wire[w][n]
    BY <1>3, <2>3
  <2> QED
    BY <2>1, <2>4, OnWireIs
<1>8. ASSUME NEW t, NEW i, OnWire(w, t, i)' PROVE OnWire(w, t, i)
  <2>1. PICK n \in 2..l : wire[w][n].type = t /\ wire[w][n].row = i
    BY <1>6, <1>8
  <2>2. n \in DOMAIN wire[w]
    BY <1>3, <2>1
  <2> QED
    BY <2>1, <2>2, OnWireIs
<1>9. WireOK(w)
  BY DEF WireInv
<1>10. ASSUME type = "new" \/ "report" \in exact, OnWire(w, type, r)' PROVE FALSE
  <2>1. PICK n \in 2..l : wire[w][n].type = type /\ wire[w][n].row = r
    BY <1>6, <1>10
  <2>2. n \in DOMAIN wire[w] /\ n # 1
    BY <1>3, <2>1
  <2>3. wire[w][1].type = wire[w][n].type /\ wire[w][1].row = wire[w][n].row
    BY <1>4, <2>1
  <2> QED
    BY <1>4, <1>5, <1>9, <1>10, <2>2, <2>3 DEF WireOK
<1>11. ASSUME type = "resolved"
       PROVE  rows[r].kind = "report" /\ rows[r].done /\ ("report" \in exact => ~OnWire(w, "new", r))
  <2>1. rows[r].kind = "report" /\ rows[r].done
    BY <1>4, <1>9, <1>11 DEF WireOK
  <2>2. ASSUME "report" \in exact, NEW n \in DOMAIN wire[w], wire[w][n].type = "new", wire[w][n].row = r PROVE FALSE
    <3>1. n \in 1..l
      BY <1>3
    <3>2. n < 1
      BY <1>4, <1>9, <1>11, <2>2 DEF WireOK
    <3> QED
      BY <1>3, <3>1, <3>2
  <2> QED
    BY <2>1, <2>2, OnWireIs
<1>12. OnWire(w, type, r)
  BY <1>4, OnWireIs
<1> QED
  BY <1>5, <1>7, <1>8, <1>10, <1>11, <1>12 DEF OffWire

\* The same of what is to be published: nothing of it is of the same row.
Gone(w, type, r) ==
    /\ r \in DOMAIN rows /\ type \in {"new", "resolved"}
    /\ \A t, i : (i # r \/ t # type) => (Coming(w, t, i)' <=> Coming(w, t, i))
    /\ Coming(w, type, r)
    /\ type = "new" \/ "report" \in exact => ~Coming(w, type, r)'
    /\ type = "resolved" =>
          rows[r].kind = "report" /\ rows[r].done /\ ("report" \in exact => ~Coming(w, "new", r))

LEMMA HeadGone ==
  ASSUME TypedInv, WireInv, JobsInv, NEW w \in Subscribers, jobs' = jobs, NEW type, NEW r, Taken(w, type, r)
  PROVE  Gone(w, type, r)
<1>1. /\ r \in DOMAIN rows /\ type \in {"new", "resolved"}
      /\ \A t, i : (i # r \/ t # type) => (OnWire(w, t, i)' <=> OnWire(w, t, i))
      /\ OnWire(w, type, r)
      /\ type = "new" \/ "report" \in exact => ~OnWire(w, type, r)'
      /\ type = "resolved" => rows[r].kind = "report" /\ rows[r].done /\ ("report" \in exact => ~OnWire(w, "new", r))
  BY HeadIs DEF OffWire
<1>2. PICK n \in DOMAIN wire[w] : wire[w][n].type = type /\ wire[w][n].row = r
  BY <1>1, OnWireIs
<1>3. WireOK(w)
  BY DEF WireInv
<1>4. type = "new" => ~Unpublished("new", r)
  BY <1>2, <1>3 DEF WireOK
<1>5. type = "resolved" /\ "report" \in exact => ~Unpublished("new", r)
  BY <1>2, <1>3 DEF WireOK
<1>6. type = "resolved" /\ "report" \in exact => ~Unpublished("resolved", r)
  BY <1>1 DEF JobsInv, JobOK, Unpublished
<1>7. \A t, i : Unpublished(t, i)' <=> Unpublished(t, i)
  BY ComingIs
<1> QED
  BY <1>1, <1>4, <1>5, <1>6, <1>7, ComingIs DEF Gone

\* Nothing but the wire and the numbers change.
LEMMA CountingHandled ==
  ASSUME NEW c, NEW w, NEW i, rows' = rows, Marking(w, i)' <=> Marking(w, i),
         Coming(w, "resolved", i)' <=> Coming(w, "resolved", i)
  PROVE  Counting(c, w, i)' <=> Counting(c, w, i)
  BY CountingIs

\* The number is counted up for a row whose event arrives.
LEMMA NewHandled ==
  ASSUME TypedInv, NEW c, NEW w, w = KeptBy(c), NEW r \in DOMAIN rows, rows' = rows, count'[c] = count[c] + 1,
         rows[r].kind = c, ~rows[r].mine, Coming(w, "new", r), ~Coming(w, "new", r)',
         \A i : Marking(w, i)' <=> Marking(w, i),
         \A t, i : (i # r \/ t # "new") => (Coming(w, t, i)' <=> Coming(w, t, i)),
         CountOK(c), AllReadDue => AllReadDue'
  PROVE  CountOK(c)'
<1>1. CASE c = "notice" /\ AllReadDue
  BY <1>1 DEF CountOK
<1>2. CASE Firm(c) /\ count[c] = Cardinality(Believed(c))
  <2>1. \A i : Counting(c, w, i)' <=> Counting(c, w, i)
    BY CountingHandled
  <2>2. Counting(c, w, r)
    BY <1>2, BelievedIs
  <2>3. Believed(c)' = Believed(c) \cup {r} /\ r \notin Believed(c)
    BY <2>1, <2>2, BelievedIs
  <2>4. Cardinality(Believed(c)') = Cardinality(Believed(c)) + 1
    BY <2>3, BelievedFinite, FS_AddElement
  <2>5. Firm(c)'
    BY <1>2, <2>1, BelievedIs
  <2>6. CountOK(c)' <=> (c = "notice" /\ AllReadDue') \/ (Firm(c)' /\ count'[c] = Cardinality(Believed(c)'))
    BY DEF CountOK
  <2> QED
    BY <1>2, <2>4, <2>5, <2>6
<1> QED
  BY <1>1, <1>2 DEF CountOK

\* And down for a report whose verdict arrives.
LEMMA VerdictHandled ==
  ASSUME TypedInv, NEW c, NEW w, w = KeptBy(c), c = "report", NEW r \in DOMAIN rows, rows' = rows,
         count[c] \in Nat, count[c] > 0 => count'[c] = count[c] - 1,
         rows[r].kind = c, ~rows[r].mine, rows[r].done, ~Marking(w, r), ~Coming(w, "new", r),
         Coming(w, "resolved", r), ~Coming(w, "resolved", r)',
         \A i : Marking(w, i)' <=> Marking(w, i),
         \A t, i : (i # r \/ t # "resolved") => (Coming(w, t, i)' <=> Coming(w, t, i)),
         CountOK(c)
  PROVE  CountOK(c)'
<1>1. Firm(c) /\ count[c] = Cardinality(Believed(c))
  BY DEF CountOK
<1>2. \A i : i # r => (Counting(c, w, i)' <=> Counting(c, w, i))
  BY CountingHandled
<1>3. Counting(c, w, r) /\ ~Counting(c, w, r)'
  BY CountingIs
<1>4. Believed(c)' = Believed(c) \ {r} /\ r \in Believed(c)
  BY <1>2, <1>3, BelievedIs
<1>5. Cardinality(Believed(c)') = Cardinality(Believed(c)) - 1
  BY <1>4, BelievedFinite, FS_RemoveElement
<1>6. count[c] > 0
  <2>1. Cardinality(Believed(c)) # 0
    BY <1>4, BelievedFinite, FS_EmptySet
  <2> QED
    BY <1>1, <2>1
<1>7. Firm(c)'
  BY <1>1, <1>2, BelievedIs
<1>8. CountOK(c)' <=> (c = "notice" /\ AllReadDue') \/ (Firm(c)' /\ count'[c] = Cardinality(Believed(c)'))
  BY DEF CountOK
<1> QED
  BY <1>1, <1>5, <1>6, <1>7, <1>8

\* An event of a row that is not counted.
LEMMA OtherHandled ==
  ASSUME NEW c, NEW w, w = KeptBy(c), NEW r \in DOMAIN rows, rows' = rows, count'[c] = count[c],
         rows[r].kind # c \/ rows[r].mine,
         \A i : Marking(w, i)' <=> Marking(w, i),
         \A t, i : i # r => (Coming(w, t, i)' <=> Coming(w, t, i)),
         CountOK(c), AllReadDue => AllReadDue'
  PROVE  CountOK(c)'
<1>1. CASE c = "notice" /\ AllReadDue
  BY <1>1 DEF CountOK
<1>2. CASE Firm(c) /\ count[c] = Cardinality(Believed(c))
  <2>1. \A i : Counting(c, w, i)' <=> Counting(c, w, i)
    <3>1. \A i : i # r => (Counting(c, w, i)' <=> Counting(c, w, i))
      BY CountingHandled
    <3>2. ~Counting(c, w, r)' /\ ~Counting(c, w, r)
      BY CountingIs
    <3> QED
      BY <3>1, <3>2
  <2>2. Believed(c)' = Believed(c)
    <3>1. ~Counting(c, w, r)
      BY CountingIs
    <3> QED
      BY <2>1, <3>1, BelievedIs
  <2>3. Firm(c)'
    BY <1>2, <2>1, BelievedIs
  <2>4. CountOK(c)' <=> (c = "notice" /\ AllReadDue') \/ (Firm(c)' /\ count'[c] = Cardinality(Believed(c)'))
    BY DEF CountOK
  <2> QED
    BY <1>2, <2>2, <2>3, <2>4
<1> QED
  BY <1>1, <1>2 DEF CountOK

LEMMA BumpIs ==
  ASSUME TypedInv, NEW k \in Kinds, NEW c \in Kinds
  PROVE  /\ Bump(k)[c] = IF c = k THEN count[c] + 1 ELSE count[c]
         /\ Drop(k)[c] = IF c = k THEN (IF count[c] > 0 THEN count[c] - 1 ELSE 0) ELSE count[c]
         /\ count[c] \in Nat
<1>1. count \in [Kinds -> Nat]
  BY ShownIs
<1> QED
  BY <1>1 DEF Bump, Drop

\* No mark is sent by the mail bell or the badges, and of stored rows only.
LEMMA MarkersIs ==
  ASSUME TypedInv, NEW w \in Subscribers, NEW i, Marking(w, i)
  PROVE  w = "bell" /\ i \in DOMAIN rows
<1>1. PICK a \in asks : Mark(a, w, i)
  BY MarkingIs
<1> QED
  BY <1>1, SeenIs DEF AskOK, Mark, Subscribers

LEMMA HandleCount ==
  ASSUME TypedInv, WireInv, JobsInv, CountInv, NEW w \in Subscribers, Handle(w)
  PROVE  CountInv'
<1>1. /\ rows' = rows /\ jobs' = jobs /\ exact' = exact /\ wire[w] # << >> /\ wire' = [wire EXCEPT ![w] = Tail(wire[w])]
      /\ wire \in [Subscribers -> Seq(Events)]
  BY DEF Handle, TypedInv, TypeOK, Events
<1>2. CASE w = "chat"
  <2>1. count' = count /\ \A b \in asks' : b \in asks \/ b = Ask("chat", "readAll", 0)
    BY <1>2 DEF Handle, HandleChat
  <2>2. asks \subseteq asks'
    BY <1>2 DEF Handle, HandleChat
  <2>3. ASSUME NEW c \in exact' \cap Kinds PROVE wire'[KeptBy(c)] = wire[KeptBy(c)]
    BY <1>1, <1>2, ExactIs
  <2>4. \A b \in asks' : b \in asks \/ Plain(b)
    BY <2>1, PlainAsk
  <2> QED
    BY <1>1, <2>1, <2>2, <2>3, <2>4, CountPlain
<1>3. CASE w # "chat"
  <2> SUFFICES ASSUME NEW c \in exact' \cap Kinds PROVE CountOK(c)'
    BY DEF CountInv
  <2>1. /\ asks' = asks
        /\ w = "bell" => count' = Bump("notice")
        /\ w = "mail" => count' = IF rows[Head(wire[w]).row].mine THEN count ELSE Bump("message")
        /\ w = "badges" => count' = IF Head(wire[w]).type = "resolved" THEN Drop("report")
                                    ELSE Bump(rows[Head(wire[w]).row].kind)
    BY <1>3 DEF Handle, HandleNotice, HandleMail, HandleOffice, Subscribers
  <2>2. c \in exact \cap Kinds /\ CountOK(c) /\ c \in KindsOf(scene)
    BY <1>1, ExactIs DEF CountInv
  <2>3. w \in Mounted(scene)
    BY <1>1, <1>3 DEF TypedInv, SceneInv
  <2>4. /\ w = KeptBy(c) /\ scene \in {"notices", "chat", "office"}
        /\ scene = "notices" => w = "bell" /\ c = "notice"
        /\ scene = "chat" => w = "mail" /\ c = "message"
        /\ scene = "office" => w = "badges"
    BY <2>2, <2>3, ExactIs, SceneFacts DEF TypedInv
  <2>5. PICK type, r : type = Head(wire[w]).type /\ r = Head(wire[w]).row
    OBVIOUS
  <2>6. /\ r \in DOMAIN rows /\ type \in {"new", "resolved"}
        /\ \A t, i : (i # r \/ t # type) => (Coming(w, t, i)' <=> Coming(w, t, i))
        /\ Coming(w, type, r)
        /\ type = "new" \/ "report" \in exact => ~Coming(w, type, r)'
        /\ type = "resolved" => rows[r].kind = "report" /\ rows[r].done /\ ("report" \in exact => ~Coming(w, "new", r))
    <3>1. Taken(w, type, r)
      BY <1>1, <2>5 DEF Taken
    <3> QED
      BY <1>1, <3>1, HeadGone DEF Gone
  <2>7. (\A i : Marking(w, i)' <=> Marking(w, i)) /\ (AllReadDue => AllReadDue')
    BY <2>1, MarkingIs, MarkingNext DEF AllReadDue
  <2>8. rows[r].kind \in KindsOf(scene) /\ rows[r].kind \in Kinds /\ (rows[r].mine => scene = "chat")
    BY <2>6, RowIs DEF TypedInv, SceneInv
  <2>9. CASE type = "new" /\ rows[r].kind = c /\ ~rows[r].mine
    <3>1. count'[c] = count[c] + 1
      BY <2>1, <2>2, <2>4, <2>5, <2>8, <2>9, BumpIs
    <3> QED
      BY <1>1, <2>2, <2>4, <2>6, <2>7, <2>9, <3>1, NewHandled
  <2>10. CASE type = "new" /\ (rows[r].kind # c \/ rows[r].mine)
    <3>1. count'[c] = count[c]
      <4>1. CASE rows[r].mine
        BY <2>1, <2>4, <2>5, <2>8, <4>1
      <4>2. CASE rows[r].kind # c /\ ~rows[r].mine
        <5>1. scene = "office"
          BY <2>2, <2>4, <2>8, <4>2, KindFacts
        <5>2. count' = Bump(rows[r].kind)
          BY <2>1, <2>4, <2>5, <2>10, <5>1
        <5> QED
          BY <2>2, <2>8, <4>2, <5>2, BumpIs
      <4> QED
        BY <2>10, <4>1, <4>2
    <3> QED
      BY <1>1, <2>2, <2>4, <2>6, <2>7, <2>10, <3>1, OtherHandled
  <2>11. CASE type = "resolved"
    <3>1. rows[r].kind = "report" /\ scene = "office" /\ w = "badges" /\ count' = Drop("report")
      BY <2>1, <2>4, <2>5, <2>6, <2>8, <2>11, KindFacts
    <3>2. "report" \in Kinds
      BY DEF Kinds
    <3>3. CASE c = "report"
      <4>1. count[c] \in Nat /\ (count[c] > 0 => count'[c] = count[c] - 1)
        BY <2>2, <3>1, <3>2, <3>3, BumpIs
      <4>2. ~rows[r].mine /\ ~Marking(w, r)
        BY <2>8, <3>1, MarkersIs
      <4> QED
        BY <1>1, <2>2, <2>4, <2>6, <2>7, <2>11, <3>1, <3>3, <4>1, <4>2, VerdictHandled
    <3>4. CASE c # "report"
      <4>1. count'[c] = count[c]
        BY <2>2, <3>1, <3>2, <3>4, BumpIs
      <4> QED
        BY <1>1, <2>2, <2>4, <2>6, <2>7, <3>1, <3>4, <4>1, OtherHandled
    <3> QED
      BY <3>3, <3>4
  <2> QED
    BY <2>6, <2>9, <2>10, <2>11
<1> QED
  BY <1>2, <1>3

\* Marks and answers that are disturbed are still there.
LEMMA DisturbedKeeps ==
  ASSUME TypedInv, NEW as, as \subseteq asks
  PROVE  /\ \A w, i : (\E b \in Disturbed(as) : Mark(b, w, i)) <=> (\E a \in as : Mark(a, w, i))
         /\ (\E b \in Disturbed(as) : Due(b)) <=> (\E a \in as : Due(a))
<1>1. ASSUME NEW a, NEW b, Alike(a, b)
      PROVE (Due(a) <=> Due(b)) /\ \A w, i : Mark(a, w, i) <=> Mark(b, w, i)
  BY <1>1 DEF Alike, Due, Mark
<1>2. (\A b \in Disturbed(as) : \E a \in as : Alike(a, b)) /\ (\A a \in as : \E b \in Disturbed(as) : Alike(a, b))
  BY DisturbedFits
<1> QED
  BY <1>1, <1>2

LEMMA DisturbedMarks ==
  ASSUME TypedInv, asks' = Disturbed(asks)
  PROVE  (\A w, i : Marking(w, i)' <=> Marking(w, i)) /\ (AllReadDue => AllReadDue')
<1>1. AllReadDue' <=> \E b \in asks' : Due(b)
  BY DEF AllReadDue, Due
<1> QED
  BY <1>1, DisturbedKeeps, MarkingIs, MarkingNext DEF AllReadDue

\* A row is added, whose event will tell if it is to be counted.
LEMMA RowAdded ==
  ASSUME TypedInv, NEW c, NEW w \in Subscribers, w = KeptBy(c), NEW k, k \notin DOMAIN rows, DOMAIN rows' = DOMAIN rows \cup {k},
         \A i \in DOMAIN rows : rows'[i] = rows[i], count'[c] = count[c],
         rows'[k].mine \/ (Coming(w, "new", k)' /\ ~rows'[k].done),
         \A i : Marking(w, i)' => Marking(w, i), \A i : Marking(w, i) => Marking(w, i)',
         \A t, i : i # k => (Coming(w, t, i)' <=> Coming(w, t, i)),
         CountOK(c), AllReadDue => AllReadDue'
  PROVE  CountOK(c)'
<1>1. CASE c = "notice" /\ AllReadDue
  BY <1>1 DEF CountOK
<1>2. CASE Firm(c) /\ count[c] = Cardinality(Believed(c))
  <2>1. \A i \in DOMAIN rows : i # k /\ (Counting(c, w, i)' <=> Counting(c, w, i))
    BY CountingIs
  <2>2. ~Marking(w, k)'
    BY MarkersIs
  <2>3. rows'[k].mine => ~Counting(c, w, k)'
    BY CountingIs
  <2>4. ~rows'[k].mine /\ rows'[k].kind = c => Counting(c, w, k)'
    BY <2>2, CountingIs
  <2>5. Believed(c)' = Believed(c)
    <3>1. /\ Believed(c) = {i \in DOMAIN rows : Counting(c, w, i) /\ ~Coming(w, "new", i)}
          /\ Believed(c)' = {i \in DOMAIN rows' : Counting(c, w, i)' /\ ~Coming(w, "new", i)'}
      BY BelievedIs
    <3>2. ~(Counting(c, w, k)' /\ ~Coming(w, "new", k)')
      BY <2>3
    <3>3. \A i \in DOMAIN rows : /\ Counting(c, w, i)' <=> Counting(c, w, i)
                                 /\ Coming(w, "new", i)' <=> Coming(w, "new", i)
      BY <2>1
    <3>4. ASSUME NEW i PROVE i \in Believed(c)' <=> i \in Believed(c)
      <4>1. CASE i = k
        BY <3>1, <3>2, <4>1
      <4>2. CASE i \in DOMAIN rows
        <5>1. i \in Believed(c) <=> Counting(c, w, i) /\ ~Coming(w, "new", i)
          BY <3>1, <4>2
        <5>2. i \in Believed(c)' <=> Counting(c, w, i)' /\ ~Coming(w, "new", i)'
          BY <3>1, <4>2
        <5>3. (Counting(c, w, i)' <=> Counting(c, w, i)) /\ (Coming(w, "new", i)' <=> Coming(w, "new", i))
          BY <3>3, <4>2
        <5> QED
          BY <5>1, <5>2, <5>3
      <4>3. CASE i \notin DOMAIN rows'
        BY <3>1, <4>3
      <4> QED
        BY <4>1, <4>2, <4>3
    <3> QED
      BY <3>1, <3>4
  <2>6. Firm(c)'
    BY <1>2, <2>1, <2>4, BelievedIs
  <2>7. CountOK(c)' <=> (c = "notice" /\ AllReadDue') \/ (Firm(c)' /\ count'[c] = Cardinality(Believed(c)'))
    BY DEF CountOK
  <2> QED
    BY <1>2, <2>5, <2>6, <2>7
<1> QED
  BY <1>1, <1>2 DEF CountOK

\* A row is stored, with its event to come.
LEMMA StoreCount ==
  ASSUME TypedInv, CountInv, NEW kind \in KindsOf(scene), NEW mine \in BOOLEAN, mine => scene = "chat",
         rows' = Append(rows, Row(kind, mine)), jobs' = jobs \cup {Job("new", Len(rows) + 1, FALSE)},
         scene' = scene, count' = count, wire' = wire, exact' = exact,
         \A w, i : Marking(w, i)' <=> Marking(w, i), AllReadDue => AllReadDue'
  PROVE  CountInv'
<1>1. PICK k : k = Len(rows) + 1
  OBVIOUS
<1>2. /\ k \notin DOMAIN rows /\ DOMAIN rows' = DOMAIN rows \cup {k}
      /\ \A i \in DOMAIN rows : rows'[i] = rows[i]
      /\ ~rows'[k].done
  <2>1. /\ Len(rows) \in Nat /\ DOMAIN rows = 1..Len(rows) /\ DOMAIN rows' = 1..(Len(rows) + 1)
        /\ \A i \in DOMAIN rows : rows'[i] = rows[i]
        /\ rows'[Len(rows) + 1] = Row(kind, mine)
    BY RowStored
  <2>2. ~Row(kind, mine).done
    BY DEF Row
  <2>3. k \notin DOMAIN rows /\ DOMAIN rows' = DOMAIN rows \cup {k}
    BY <1>1, <2>1
  <2>4. rows'[k] = Row(kind, mine)
    BY <1>1, <2>1
  <2> QED
    BY <2>1, <2>2, <2>3, <2>4
<1> SUFFICES ASSUME NEW c \in exact' \cap Kinds PROVE CountOK(c)'
  BY DEF CountInv
<1>3. PICK w : w = KeptBy(c)
  OBVIOUS
<1>4. c \in exact \cap Kinds /\ w \in Subscribers /\ CountOK(c)
  BY <1>3, ExactIs DEF CountInv
<1>5. \A t, i : Coming(w, t, i)' <=> Coming(w, t, i) \/ (t = "new" /\ i = k)
  <2>1. \A t, i : OnWire(w, t, i)' <=> OnWire(w, t, i)
    BY OnWireIs
  <2>2. PICK j : j = Job("new", k, FALSE)
    OBVIOUS
  <2>3. jobs' = jobs \cup {j} /\ j.type = "new" /\ j.row = k
    BY <1>1, <2>2 DEF Job
  <2>4. \A t, i : Unpublished(t, i)' <=> Unpublished(t, i) \/ (t = "new" /\ i = k)
    BY <2>3 DEF Unpublished
  <2> QED
    BY <2>1, <2>4, ComingIs
<1> QED
  BY <1>2, <1>3, <1>4, <1>5, RowAdded

LEMMA ArriveCount ==
  ASSUME TypedInv, CountInv, NEW kind \in Kinds, Arrive(kind)
  PROVE  CountInv'
<1>1. /\ kind \in KindsOf(scene) /\ rows' = Append(rows, Row(kind, FALSE)) /\ scene' = scene
      /\ jobs' = jobs \cup {Job("new", Len(rows) + 1, FALSE)} /\ count' = count /\ wire' = wire
      /\ exact' = exact /\ asks' = Disturbed(asks)
  BY DEF Arrive, shown, network
<1> QED
  BY <1>1, DisturbedMarks, StoreCount

LEMMA ServeSendCount ==
  ASSUME TypedInv, CountInv, NEW a \in asks, ServeSend(a), UNCHANGED <<scene, network>>, UNCHANGED shown
  PROVE  CountInv'
<1>0. PICK b : b = StoredAsk(a)
  OBVIOUS
<1>1. /\ a.op = "send" /\ rows' = Append(rows, Row("message", TRUE)) /\ wire' = wire /\ count' = count
      /\ jobs' = jobs \cup {Job("new", Len(rows) + 1, FALSE)} /\ exact' = exact
      /\ asks' = Replied(Disturbed(asks \ {a}), a, b)
  BY <1>0 DEF ServeSend, StoredAsk, shown, network
<1>2. scene = "chat" /\ "message" \in KindsOf(scene)
  BY <1>1, SeenIs, KindFacts DEF AskOK
<1>3. b.op = "send"
  <2>1. Len(rows) \in Nat /\ AskOK(a)
    BY SeenIs, RowsAre
  <2> QED
    BY <1>0, <1>1, <2>1, StoredIs
<1>4. \A x \in {a, b} : ~Due(x) /\ \A w, i : ~Mark(x, w, i)
  BY <1>1, <1>3 DEF Due, Mark
<1>5. (\A w, i : Marking(w, i)' <=> Marking(w, i)) /\ (AllReadDue => AllReadDue')
  <2>1. PICK as : as = asks \ {a}
    OBVIOUS
  <2>2. /\ \A w, i : (\E x \in Disturbed(as) : Mark(x, w, i)) <=> (\E x \in as : Mark(x, w, i))
        /\ (\E x \in Disturbed(as) : Due(x)) <=> (\E x \in as : Due(x))
    BY <2>1, DisturbedKeeps
  <2>3. asks' \subseteq Disturbed(as) \cup {b} /\ Disturbed(as) \subseteq asks' /\ asks = as \cup {a}
    BY <1>1, <2>1 DEF Replied
  <2>4. AllReadDue' <=> \E x \in asks' : Due(x)
    BY DEF AllReadDue, Due
  <2> QED
    BY <1>4, <2>2, <2>3, <2>4, MarkingIs, MarkingNext DEF AllReadDue
<1> QED
  BY <1>1, <1>2, <1>5, StoreCount

\* A report is decided: the badges count it until they are told.
LEMMA DecideCount ==
  ASSUME TypedInv, CountInv, NEW i \in DOMAIN rows, Decide(i)
  PROVE  CountInv'
<1>0. PICK j : j = Job("resolved", i, rows[i].done)
  OBVIOUS
<1>1. /\ count' = count /\ wire' = wire /\ asks' = Disturbed(asks) /\ rows' = [rows EXCEPT ![i].done = TRUE]
      /\ jobs' = jobs \cup {j} /\ rows[i].kind = "report"
      /\ exact' = IF rows[i].done \/ Job("new", i, FALSE) \in jobs THEN exact \ {"report"} ELSE exact
  BY <1>0 DEF Decide, shown, network
<1>2. /\ DOMAIN rows' = DOMAIN rows
      /\ \A k \in DOMAIN rows : rows'[k].kind = rows[k].kind /\ rows'[k].mine = rows[k].mine
      /\ rows'[i].done /\ \A k \in DOMAIN rows : k # i => rows'[k] = rows[k]
  BY <1>1, DoneIs
<1> SUFFICES ASSUME NEW c \in exact' \cap Kinds PROVE CountOK(c)'
  BY DEF CountInv
<1>3. PICK w : w = KeptBy(c)
  OBVIOUS
<1>4. c \in exact \cap Kinds /\ w \in Subscribers /\ CountOK(c) /\ (c = "report" => ~rows[i].done)
  BY <1>1, <1>3, ExactIs DEF CountInv
<1>5. \A t, k : Coming(w, t, k)' <=> Coming(w, t, k) \/ (t = "resolved" /\ k = i)
  <2>1. \A t, k : OnWire(w, t, k)' <=> OnWire(w, t, k)
    BY <1>1, OnWireIs
  <2>2. j.type = "resolved" /\ j.row = i
    BY <1>0 DEF Job
  <2>3. \A t, k : Unpublished(t, k)' <=> Unpublished(t, k) \/ (t = "resolved" /\ k = i)
    BY <1>1, <2>2 DEF Unpublished
  <2> QED
    BY <2>1, <2>3, ComingIs
<1>6. \A k : Marking(w, k)' <=> Marking(w, k)
  BY <1>1, DisturbedMarks
<1>7. ASSUME NEW k \in DOMAIN rows PROVE Counting(c, w, k)' <=> Counting(c, w, k)
  <2>1. CASE k # i
    BY <1>2, <1>5, <1>6, <2>1, CountingIs
  <2>2. CASE k = i
    BY <1>1, <1>2, <1>4, <1>5, <1>6, <2>2, CountingIs
  <2> QED
    BY <2>1, <2>2
<1> QED
  BY <1>1, <1>2, <1>3, <1>4, <1>5, <1>7, DisturbedMarks, CountStep

\* An event reaches a subscriber that is open; another does not count the row.
LEMMA PublishCount ==
  ASSUME TypedInv, JobsInv, CountInv, NEW j \in jobs, Publish(j)
  PROVE  CountInv'
<1>1. /\ rows' = rows /\ count' = count /\ exact' = exact \ Missed(j)
      /\ asks' = (asks \ Replying(j)) \cup {[a EXCEPT !.stage = "ok"] : a \in Replying(j)}
  BY DEF Publish, shown
<1>2. TypeOK
  BY DEF TypedInv
<1>3. \A b \in asks' : b \in asks \/ Plain(b)
  <2> SUFFICES ASSUME NEW a \in Replying(j), NEW b, b = [a EXCEPT !.stage = "ok"] PROVE Plain(b)
    BY <1>1
  <2>1. a \in asks /\ a.op = "send" /\ a.stage = "stored"
    BY DEF Replying
  <2>2. AskOK(a)
    BY <2>1, SeenIs
  <2>3. ~Unheeded(a)
    BY <2>1, <2>2 DEF AskOK
  <2>4. b.op = "send"
    BY <2>1, <2>2, <2>3, StagedIs
  <2> QED
    BY <2>4, PlainIs
<1>4. \A a \in asks : a \in asks' \/ Plain(a)
  <2>1. \A a \in Replying(j) : a.op = "send"
    BY DEF Replying
  <2> QED
    BY <1>1, <2>1, PlainIs
<1> SUFFICES ASSUME NEW c \in exact' \cap Kinds PROVE CountOK(c)'
  BY DEF CountInv
<1>5. PICK w : w = KeptBy(c)
  OBVIOUS
<1>6. c \in exact \cap Kinds /\ w \in Subscribers /\ CountOK(c) /\ DOMAIN rows \subseteq Nat
  BY <1>1, <1>5, ExactIs, RowsAre DEF CountInv
<1>7. link[w] = "open" \/ rows[j.row].mine
  BY <1>1, <1>5, <1>6 DEF Missed, Kinds
<1>8. \A i \in DOMAIN rows : Marking(w, i)' <=> Marking(w, i)
  BY <1>3, <1>4, <1>6, MarkingIs, MarkingNext DEF Plain
<1>9. AllReadDue => AllReadDue'
  BY <1>4 DEF AllReadDue, Plain
<1>10. j.row \in DOMAIN rows
  BY <1>2, PublishIs
<1>11. ASSUME NEW t, NEW i, (i # j.row \/ t # j.type) \/ link[w] = "open"
       PROVE  Coming(w, t, i)' <=> Coming(w, t, i)
  <2>1. OnWire(w, t, i)' <=> OnWire(w, t, i) \/ (link[w] = "open" /\ t = j.type /\ i = j.row)
    BY <1>2, <1>6, PublishOn
  <2>2. /\ Unpublished(t, i)' => Unpublished(t, i)
        /\ Unpublished(t, i) => Unpublished(t, i)' \/ (t = j.type /\ i = j.row)
        /\ Unpublished(j.type, j.row)
    BY PublishOff
  <2> QED
    BY <1>11, <2>1, <2>2, ComingIs
<1>12. CASE link[w] = "open"
  <2>1. \A i \in DOMAIN rows : Counting(c, w, i)' <=> Counting(c, w, i)
    BY <1>1, <1>8, <1>11, <1>12, CountingIs
  <2> QED
    BY <1>1, <1>5, <1>6, <1>9, <1>11, <1>12, <2>1, CountStep
<1>13. CASE rows[j.row].mine
  <2>1. CASE c = "notice" /\ AllReadDue
    BY <1>9, <2>1 DEF CountOK
  <2>2. CASE Firm(c) /\ count[c] = Cardinality(Believed(c))
    <3>1. \A i \in DOMAIN rows : Counting(c, w, i)' <=> Counting(c, w, i)
      <4>1. \A i \in DOMAIN rows : i # j.row => (Counting(c, w, i)' <=> Counting(c, w, i))
        BY <1>1, <1>8, <1>11, CountingIs
      <4>2. PICK r : r = j.row
        OBVIOUS
      <4>3. ~Counting(c, w, r)' /\ ~Counting(c, w, r)
        BY <1>1, <1>13, <4>2, CountingIs
      <4> QED
        BY <4>1, <4>2, <4>3
    <3>2. \A i \in DOMAIN rows : Counting(c, w, i) => i # j.row
      BY <1>13, CountingIs
    <3>3. \A i \in DOMAIN rows : i # j.row => (Coming(w, "new", i)' <=> Coming(w, "new", i))
      BY <1>11
    <3>4. Believed(c)' = Believed(c)
      <4>1. /\ Believed(c) = {i \in DOMAIN rows : Counting(c, w, i) /\ ~Coming(w, "new", i)}
            /\ Believed(c)' = {i \in DOMAIN rows' : Counting(c, w, i)' /\ ~Coming(w, "new", i)'}
        BY <1>5, BelievedIs
      <4>2. \A i \in DOMAIN rows : (Counting(c, w, i)' /\ ~Coming(w, "new", i)') <=> (Counting(c, w, i) /\ ~Coming(w, "new", i))
        BY <3>1, <3>2, <3>3
      <4> QED
        BY <1>1, <4>1, <4>2
    <3>5. Firm(c)'
      BY <1>1, <1>5, <1>13, <2>2, <3>1, <3>3, BelievedIs
    <3>6. CountOK(c)' <=> (c = "notice" /\ AllReadDue') \/ (Firm(c)' /\ count'[c] = Cardinality(Believed(c)'))
      BY DEF CountOK
    <3> QED
      BY <1>1, <2>2, <3>4, <3>5, <3>6
  <2> QED
    BY <1>6, <2>1, <2>2 DEF CountOK
<1> QED
  BY <1>7, <1>12, <1>13

\* A mark is served: the bell counts on its own marks, and is told of no others.
LEMMA ServeMarkCount ==
  ASSUME TypedInv, WireInv, JobsInv, CountInv, NEW a \in asks, a.stage = "sent", ServeMark(a),
         UNCHANGED <<scene, network>>, UNCHANGED shown
  PROVE  CountInv'
<1>0. PICK b : b = Answer(a, << >>, 0)
  OBVIOUS
<1>1. /\ rows' = After(a) /\ wire' = wire /\ jobs' = jobs /\ count' = count /\ a.op \in {"readOne", "readAll"}
      /\ exact' \subseteq exact
      /\ asks' = Replied(IF After(a) = rows THEN asks \ {a} ELSE Disturbed(asks \ {a}), a, b)
      /\ ~(a.by = "bell" /\ (a.op = "readAll" \/ After(a) # rows)) /\ After(a) # rows => exact' = exact \ KindsOf(scene)
  BY <1>0 DEF ServeMark, network, After, shown
<1>2. b.by = a.by /\ b.op = a.op /\ b.stage = "ok" /\ (~Unheeded(a) => b \in asks')
  BY <1>0, <1>1, SeenIs, AnswerIs DEF Replied
<1>3. AskOK(a)
  BY SeenIs
<1>4. CASE a.by # "bell" /\ After(a) # rows
  <2>1. exact' \cap Kinds = {}
    BY <1>1, <1>4, ExactIs
  <2> QED
    BY <2>1 DEF CountInv
<1>5. CASE a.by # "bell" /\ After(a) = rows
  <2>1. a.op = "readOne" => a.by \notin Subscribers
    BY <1>3, <1>5 DEF AskOK, Subscribers
  <2>2. Plain(a) /\ Plain(b)
    BY <1>1, <1>2, <1>5, <2>1, PlainIs
  <2>3. rows' = rows /\ asks' \subseteq asks \cup {b} /\ asks \ {a} \subseteq asks'
    BY <1>1, <1>5 DEF Replied
  <2>4. \A c \in exact' \cap Kinds : c \in exact /\ count'[c] = count[c] /\ wire'[KeptBy(c)] = wire[KeptBy(c)]
    BY <1>1
  <2> QED
    BY <1>1, <2>2, <2>3, <2>4, CountPlain
<1>6. CASE a.by = "bell"
  <2> SUFFICES ASSUME NEW c \in exact' \cap Kinds PROVE CountOK(c)'
    BY DEF CountInv
  <2>1. c = "notice" /\ c \in exact \cap Kinds /\ KeptBy(c) = "bell" /\ CountOK(c) /\ KindsOf(scene) = {"notice"}
    <3>1. scene = "notices"
      BY <1>3, <1>6 DEF AskOK
    <3> QED
      BY <1>1, <3>1, ExactIs, KindFacts DEF CountInv
  <2>2. CASE a.op = "readAll"
    <3>1. Due(b)
      BY <1>2, <1>6, <2>2 DEF Due
    <3>2. AllReadDue'
      BY <1>2, <1>6, <2>2, <3>1 DEF AllReadDue, Due, Unheeded
    <3> QED
      BY <2>1, <3>2 DEF CountOK
  <2>3. CASE a.op = "readOne"
    <3>1. PICK i : i = a.row
      OBVIOUS
    <3>2. /\ DOMAIN rows' = DOMAIN rows /\ i \in DOMAIN rows /\ rows'[i].done
          /\ \A j \in DOMAIN rows : j # i => rows'[j] = rows[j]
          /\ \A j \in DOMAIN rows : rows'[j].kind = rows[j].kind /\ rows'[j].mine = rows[j].mine
      BY <1>1, <2>3, <3>1, AfterIs
    <3>3. PICK as : as = asks \ {a}
      OBVIOUS
    <3>4. /\ \A w, j : (\E x \in asks' : Mark(x, w, j)) <=> (\E x \in as : Mark(x, w, j))
          /\ (\E x \in as : Due(x)) => (\E x \in asks' : Due(x))
      <4>1. ~Due(b) /\ \A w, j : ~Mark(b, w, j)
        BY <1>2, <2>3 DEF Due, Mark
      <4>2. /\ \A w, j : (\E x \in Disturbed(as) : Mark(x, w, j)) <=> (\E x \in as : Mark(x, w, j))
            /\ (\E x \in Disturbed(as) : Due(x)) <=> (\E x \in as : Due(x))
        BY <3>3, DisturbedKeeps
      <4>3. \/ asks' \subseteq as \cup {b} /\ as \subseteq asks'
            \/ asks' \subseteq Disturbed(as) \cup {b} /\ Disturbed(as) \subseteq asks'
        <5>1. CASE After(a) = rows
          <6>1. asks' = Replied(as, a, b)
            BY <1>1, <3>3, <5>1
          <6>2. asks' \subseteq as \cup {b} /\ as \subseteq asks'
            BY <6>1 DEF Replied
          <6> QED
            BY <6>2
        <5>2. CASE After(a) # rows
          <6>1. asks' = Replied(Disturbed(as), a, b)
            BY <1>1, <3>3, <5>2
          <6> QED
            BY <6>1 DEF Replied
        <5> QED
          BY <5>1, <5>2
      <4> QED
        BY <4>1, <4>2, <4>3
    <3>5. Mark(a, "bell", i) /\ ~Due(a) /\ \A j : Mark(a, "bell", j) => j = i
      BY <1>6, <2>3, <3>1 DEF Mark, Due
    <3>6. \A j : j # i => (Marking("bell", j)' <=> Marking("bell", j))
      BY <3>3, <3>4, <3>5, MarkingIs, MarkingNext
    <3>7. Marking("bell", i)
      BY <3>5, MarkingIs
    <3>8. AllReadDue => AllReadDue'
      <4>1. AllReadDue' <=> \E x \in asks' : Due(x)
        BY DEF AllReadDue, Due
      <4> QED
        BY <3>3, <3>4, <3>5, <4>1 DEF AllReadDue
    <3>9. \A t, j : Coming("bell", t, j)' <=> Coming("bell", t, j)
      BY <1>1, ComingSame
    <3>10. rows[i].kind = "notice"
      BY <2>1, <3>2, RowIs
    <3>11. ~Coming("bell", "resolved", i)
      <4>1. WireOK("bell")
        BY DEF WireInv, Subscribers
      <4>2. ~OnWire("bell", "resolved", i)
        BY <3>10, <4>1, OnWireIs DEF WireOK
      <4>3. ~Unpublished("resolved", i)
        BY <3>10 DEF JobsInv, JobOK, Unpublished
      <4> QED
        BY <4>2, <4>3, ComingIs
    <3>12. \A j \in DOMAIN rows : Counting(c, "bell", j)' <=> Counting(c, "bell", j)
      <4>1. \A j \in DOMAIN rows : j # i => (Counting(c, "bell", j)' <=> Counting(c, "bell", j))
        BY <3>2, <3>6, <3>9, CountingIs
      <4>2. ~Counting(c, "bell", i)
        BY <3>7, CountingIs
      <4>3. ~Counting(c, "bell", i)'
        BY <3>2, <3>9, <3>11, CountingIs
      <4> QED
        BY <4>1, <4>2, <4>3
    <3> QED
      BY <1>1, <2>1, <3>2, <3>8, <3>9, <3>12, CountStep
  <2> QED
    BY <1>1, <2>2, <2>3
<1> QED
  BY <1>4, <1>5, <1>6

\* A notice is marked in the bell: the number goes down at once.
LEMMA MarkOneCount ==
  ASSUME TypedInv, CountInv, NEW n \in DOMAIN items, MarkOne(n)
  PROVE  CountInv'
<1>0. PICK i : i = items[n].row
  OBVIOUS
<1>1. /\ rows' = rows /\ wire' = wire /\ jobs' = jobs /\ count' = Drop("notice") /\ dropdown
      /\ asks' = Disturbed(asks \ Cancelled("bell", "list")) \cup {Ask("bell", "readOne", i)}
      /\ exact' = IF rows[i].done \/ Awaiting("bell") \/ Marking("bell", i) THEN exact \ {"notice"} ELSE exact
  BY <1>0 DEF MarkOne, network
<1>2. scene = "notices" /\ i \in DOMAIN rows
  <2>1. items[n] \in EntryType
    BY ShownIs, SeqIs
  <2> QED
    BY <1>0, <1>1, <2>1 DEF EntryType, TypedInv, SceneInv
<1> SUFFICES ASSUME NEW c \in exact' \cap Kinds PROVE CountOK(c)'
  BY DEF CountInv
<1>3. c \in exact \cap Kinds /\ c = "notice" /\ KeptBy(c) = "bell" /\ "bell" = KeptBy(c) /\ CountOK(c)
  BY <1>1, <1>2, ExactIs, KindFacts DEF CountInv
<1>4. ~rows[i].done /\ wire["bell"] = << >> /\ jobs = {} /\ ~Marking("bell", i)
  BY <1>1, <1>3 DEF Awaiting
<1>5. PICK as : as = asks \ Cancelled("bell", "list")
  OBVIOUS
<1>6. PICK b : b = Ask("bell", "readOne", i)
  OBVIOUS
<1>7. ~Due(b) /\ Mark(b, "bell", i) /\ \A j : Mark(b, "bell", j) => j = i
  BY <1>6, AskFresh DEF Due, Mark
<1>8. /\ \A w, j : (\E x \in Disturbed(as) : Mark(x, w, j)) <=> (\E x \in as : Mark(x, w, j))
      /\ (\E x \in Disturbed(as) : Due(x)) <=> (\E x \in as : Due(x))
  BY <1>5, DisturbedKeeps
<1>9. asks' = Disturbed(as) \cup {b}
  BY <1>1, <1>5, <1>6
<1>10. \A x \in asks : (Due(x) \/ \E j : Mark(x, "bell", j)) => x \in as
  BY <1>5 DEF Due, Mark, Cancelled
<1>11. \A j : j # i => (Marking("bell", j)' <=> Marking("bell", j))
  BY <1>5, <1>7, <1>8, <1>9, <1>10, MarkingIs, MarkingNext
<1>12. Marking("bell", i)'
  BY <1>7, <1>9, MarkingNext
<1>13. AllReadDue => AllReadDue'
  <2>1. AllReadDue' <=> \E x \in asks' : Due(x)
    BY DEF AllReadDue, Due
  <2> QED
    BY <1>8, <1>9, <1>10, <2>1 DEF AllReadDue
<1>14. CASE AllReadDue
  BY <1>3, <1>13, <1>14 DEF CountOK
<1>15. CASE Firm(c) /\ count[c] = Cardinality(Believed(c))
  <2>1. \A t, j : ~Coming("bell", t, j) /\ ~Coming("bell", t, j)'
    BY <1>1, <1>4, OnWireIs, ComingIs
  <2>2. \A j \in DOMAIN rows : j # i => (Counting(c, "bell", j)' <=> Counting(c, "bell", j))
    BY <1>1, <1>11, <2>1, CountingIs
  <2>3. ~Counting(c, "bell", i)'
    BY <1>12, CountingIs
  <2>4. Counting(c, "bell", i)
    <3>1. rows[i].kind = "notice" /\ ~rows[i].mine
      BY <1>2, RowIs, KindFacts DEF TypedInv, SceneInv
    <3> QED
      BY <1>3, <1>4, <3>1, CountingIs
  <2>5. Believed(c)' = Believed(c) \ {i} /\ i \in Believed(c)
    BY <1>1, <1>2, <1>3, <2>1, <2>2, <2>3, <2>4, BelievedIs
  <2>6. Cardinality(Believed(c)') = Cardinality(Believed(c)) - 1 /\ Cardinality(Believed(c)) # 0
    BY <2>5, BelievedFinite, FS_RemoveElement, FS_EmptySet
  <2>7. Firm(c)'
    BY <1>3, <2>1, BelievedIs
  <2>8. count'[c] = count[c] - 1
    <3>1. "notice" \in Kinds
      BY DEF Kinds
    <3>2. count[c] \in Nat /\ count'[c] = IF count[c] > 0 THEN count[c] - 1 ELSE 0
      BY <1>1, <1>3, <3>1, BumpIs
    <3> QED
      BY <1>15, <2>6, <3>2
  <2>9. CountOK(c)' <=> (c = "notice" /\ AllReadDue') \/ (Firm(c)' /\ count'[c] = Cardinality(Believed(c)'))
    BY DEF CountOK
  <2> QED
    BY <1>15, <2>6, <2>7, <2>8, <2>9
<1> QED
  BY <1>3, <1>14, <1>15 DEF CountOK

\* A number read while nothing that changes it is on its way.
LEMMA SettledCount ==
  ASSUME NEW c, NEW w, w = KeptBy(c), rows' = rows, wire'[w] = << >>, jobs' = {},
         \A i \in DOMAIN rows : ~Marking(w, i)', count'[c] = Open(rows, c)
  PROVE  CountOK(c)'
<1>1. \A t, i : ~Coming(w, t, i)'
  BY OnWireIs, ComingIs
<1>2. \A i \in DOMAIN rows : Counting(c, w, i)' <=> rows[i].kind = c /\ ~rows[i].mine /\ ~rows[i].done
  BY <1>1, CountingIs
<1>3. Believed(c)' = {i \in DOMAIN rows : rows[i].kind = c /\ ~rows[i].mine /\ ~rows[i].done}
  BY <1>1, <1>2, BelievedIs
<1>4. count'[c] = Cardinality(Believed(c)')
  BY <1>3 DEF Open
<1>5. Firm(c)'
  BY <1>1, BelievedIs
<1>6. CountOK(c)' <=> (c = "notice" /\ AllReadDue') \/ (Firm(c)' /\ count'[c] = Cardinality(Believed(c)'))
  BY DEF CountOK
<1> QED
  BY <1>4, <1>5, <1>6

\* A sound number is shown.
LEMMA SoundCount ==
  ASSUME TypedInv, SoundInv, NEW a \in asks, a.op \in Counters, a.sound,
         UNCHANGED <<rows, jobs, wire>>, asks' \subseteq asks, NEW c, c = CountedFor(a), count'[c] = a.number
  PROVE  CountOK(c)'
<1>1. a.by \in Subscribers /\ KeptBy(c) = a.by
  BY CountedForIs
<1>2. SoundOK(a)
  BY DEF SoundInv
<1>3. /\ a.number = Open(rows, c) /\ wire[a.by] = << >> /\ jobs = {}
      /\ \A i \in DOMAIN rows : ~Marking(a.by, i)
  BY <1>1, <1>2 DEF SoundOK, Awaiting
<1>4. \A i \in DOMAIN rows : ~Marking(a.by, i)'
  BY <1>3, MarkingIs, MarkingNext
<1> QED
  BY <1>1, <1>3, <1>4, SettledCount

\* Answers are taken in that are no marks, and another number stays as it is.
LEMMA OtherCount ==
  ASSUME TypedInv, NEW c \in exact \cap Kinds, CountOK(c), UNCHANGED <<rows, jobs, wire>>, count'[c] = count[c],
         asks' \subseteq asks, \A a \in asks : a \in asks' \/ Plain(a)
  PROVE  CountOK(c)'
<1>1. PICK w : w = KeptBy(c)
  OBVIOUS
<1>2. w \in Subscribers /\ DOMAIN rows \subseteq Nat
  BY <1>1, ExactIs, RowsAre
<1>3. \A i \in DOMAIN rows : Marking(w, i)' <=> Marking(w, i)
  BY <1>2, MarkingIs, MarkingNext DEF Plain
<1>4. \A t, i : Coming(w, t, i)' <=> Coming(w, t, i)
  BY ComingSame
<1>5. \A i \in DOMAIN rows : Counting(c, w, i)' <=> Counting(c, w, i)
  BY <1>3, <1>4, CountingIs
<1>6. AllReadDue => AllReadDue'
  BY DEF AllReadDue, Plain
<1> QED
  BY <1>1, <1>4, <1>5, <1>6, CountStep

LEMMA CountedCount ==
  ASSUME TypedInv, SoundInv, CountInv, NEW a \in asks, a.op = "count", a.stage = "ok", Counted(a),
         UNCHANGED <<scene, rows, jobs, network>>
  PROVE  CountInv'
<1>1. PICK k : k = CountedFor(a)
  OBVIOUS
<1>2. /\ wire' = wire /\ asks' = asks \ {a} /\ exact' = Known({k}, a.sound)
      /\ count' = [count EXCEPT ![k] = a.number] /\ a.op \in Counters
  BY <1>1 DEF Counted, network, Counters
<1>3. Plain(a)
  BY PlainIs
<1>4. count \in [Kinds -> Nat]
  BY ShownIs
<1> SUFFICES ASSUME NEW c \in exact' \cap Kinds PROVE CountOK(c)'
  BY DEF CountInv
<1>5. CASE c = k
  <2>1. CASE a.sound
    <3>1. count'[c] = a.number
      BY <1>2, <1>4, <1>5
    <3> QED
      BY <1>1, <1>2, <1>5, <2>1, <3>1, SoundCount
  <2>2. CASE ~a.sound
    BY <1>2, <1>5, <2>2 DEF Known
  <2> QED
    BY <2>1, <2>2
<1>6. CASE c # k
  <2>1. c \in exact \cap Kinds
    BY <1>2, <1>6 DEF Known
  <2>2. CountOK(c) /\ count'[c] = count[c]
    BY <1>2, <1>4, <1>6, <2>1 DEF CountInv
  <2> QED
    BY <1>2, <1>3, <2>1, <2>2, OtherCount
<1> QED
  BY <1>5, <1>6

\* The badges take in what was asked for together.
LEMMA SeededCount ==
  ASSUME TypedInv, SoundInv, CountInv, NEW a \in asks, a.op = "count", a.by = "badges",
         NEW b \in Together(a), b.op = "tally", Seeded(a, b), UNCHANGED <<scene, rows, jobs, network>>
  PROVE  CountInv'
<1>0. b \in asks /\ b.by = "badges" /\ {a.op, b.op} \subseteq Counters
  BY DEF Together, Counters
<1>1. /\ wire' = wire /\ asks' = asks \ Together(a)
      /\ count' = [count EXCEPT !["report"] = a.number, !["verdict"] = b.number]
      /\ exact' = (exact \ {"report", "verdict"}) \cup
                     {c \in {"report", "verdict"} : IF c = "report" THEN a.sound ELSE b.sound}
  BY DEF Seeded, network
<1>2. CountedFor(a) = "report" /\ CountedFor(b) = "verdict"
  BY <1>0 DEF CountedFor
<1>3. count \in [Kinds -> Nat]
  BY ShownIs
<1>4. asks' \subseteq asks /\ \A x \in asks : x \in asks' \/ Plain(x)
  <2>1. \A x \in Together(a) : Plain(x)
    BY PlainIs DEF Together, Counters
  <2> QED
    BY <1>1, <2>1
<1> SUFFICES ASSUME NEW c \in exact' \cap Kinds PROVE CountOK(c)'
  BY DEF CountInv
<1>5. CASE c = "report"
  <2>1. a.sound /\ count'[c] = a.number
    BY <1>1, <1>3, <1>5
  <2> QED
    BY <1>0, <1>1, <1>2, <1>4, <1>5, <2>1, SoundCount
<1>6. CASE c = "verdict"
  <2>1. b.sound /\ count'[c] = b.number
    BY <1>1, <1>3, <1>6
  <2> QED
    BY <1>0, <1>1, <1>2, <1>4, <1>6, <2>1, SoundCount
<1>7. CASE c \notin {"report", "verdict"}
  <2>1. c \in exact \cap Kinds
    BY <1>1, <1>7
  <2>2. CountOK(c) /\ count'[c] = count[c]
    BY <1>1, <1>3, <1>7, <2>1 DEF CountInv
  <2> QED
    BY <1>1, <1>4, <2>1, <2>2, OtherCount
<1> QED
  BY <1>5, <1>6, <1>7

\* Everything is read, and the bell is told so.
LEMMA AllReadCount ==
  ASSUME TypedInv, SoundInv, NEW a \in asks, a.op = "readAll", a.stage = "ok", a.by = "bell", AllRead(a),
         UNCHANGED <<scene, rows, jobs, network>>
  PROVE  CountInv'
<1>1. /\ rows' = rows /\ wire' = wire /\ jobs' = jobs /\ asks' = asks \ {a} /\ exact' = Known({"notice"}, a.sound)
      /\ count' = [count EXCEPT !["notice"] = 0]
  BY DEF AllRead, network
<1>2. scene = "notices"
  BY SeenIs DEF AskOK
<1> SUFFICES ASSUME NEW c \in exact' \cap Kinds PROVE CountOK(c)'
  BY DEF CountInv
<1>3. c = "notice" /\ a.sound
  <2>1. \A x \in exact \cap Kinds : x = "notice"
    BY <1>2, ExactIs
  <2> QED
    BY <1>1, <2>1 DEF Known
<1>4. /\ wire["bell"] = << >> /\ jobs = {} /\ \A i \in DOMAIN rows : ~Marking("bell", i)
      /\ \A i \in DOMAIN rows : rows[i].mine \/ rows[i].done
  <2>1. SoundOK(a)
    BY DEF SoundInv
  <2> QED
    BY <1>3, <2>1 DEF SoundOK, Subscribers, Awaiting
<1>5. \A i \in DOMAIN rows : ~Marking("bell", i)'
  BY <1>1, <1>4, MarkingIs, MarkingNext
<1>6. count'[c] = Open(rows, c)
  <2>1. {i \in DOMAIN rows : rows[i].kind = c /\ ~rows[i].mine /\ ~rows[i].done} = {}
    BY <1>4
  <2>2. Open(rows, c) = 0
    BY <2>1, FS_EmptySet DEF Open
  <2> QED
    BY <1>1, <1>3, <2>2, ShownIs DEF Kinds
<1> QED
  BY <1>1, <1>3, <1>4, <1>5, <1>6, KindFacts, SettledCount

LEMMA ApplyCount ==
  ASSUME TypedInv, SoundInv, CountInv, NEW a \in asks, Apply(a)
  PROVE  CountInv'
<1>1. rows' = rows /\ jobs' = jobs /\ wire' = wire /\ UNCHANGED <<scene, rows, jobs, network>>
  BY DEF Apply, network
<1>2. CASE a.stage = "ok" /\ a.op = "count" /\ Counted(a)
  BY <1>1, <1>2, CountedCount
<1>3. CASE a.op = "count" /\ a.by = "badges" /\ \E b \in Together(a) : b.op = "tally" /\ Seeded(a, b)
  <2>1. PICK b \in Together(a) : b.op = "tally" /\ Seeded(a, b)
    BY <1>3
  <2> QED
    BY <1>1, <1>3, <2>1, SeededCount
<1>4. CASE a.stage = "ok" /\ a.op = "readAll" /\ a.by = "bell" /\ AllRead(a)
  BY <1>1, <1>4, AllReadCount
<1>5. CASE \/ a.op = "list" /\ Listed(a)
           \/ a.op = "load" /\ Loaded(a)
           \/ a.op = "poll" /\ Polled(a)
           \/ a.op = "readAll" /\ a.by = "page" /\ AllRead(a)
           \/ a.op = "send" /\ Sent(a)
  <2>1. Plain(a)
    BY <1>5, PlainIs
  <2>2. /\ count' = count /\ asks \ {a} \subseteq asks'
        /\ \A b \in asks' : b \in asks \/ b = Ask("chat", "readAll", 0)
    BY <1>5 DEF Listed, Loaded, Polled, AllRead, Sent
  <2>3. exact' \subseteq exact \cup {"thread"}
    BY <1>5 DEF Listed, Loaded, Polled, AllRead, Sent, Known
  <2>4. \A b \in asks' : b \in asks \/ Plain(b)
    BY <2>2, PlainAsk
  <2>5. \A c \in exact' \cap Kinds : c \in exact /\ count'[c] = count[c] /\ wire'[KeptBy(c)] = wire[KeptBy(c)]
    BY <1>1, <2>2, <2>3 DEF Kinds
  <2>6. \A x \in asks : x \in asks' \/ Plain(x)
    BY <2>1, <2>2
  <2> QED
    BY <1>1, <2>4, <2>5, <2>6, CountPlain
<1>6. CASE a.stage = "failed"
  <2>1. Failed(a)
    BY <1>6 DEF Apply
  <2>2. ~Unheeded(a)
    BY <1>6, SeenIs DEF AskOK
  <2>3. Plain(a) /\ \A x \in Together(a) : Plain(x)
    BY <1>6, PlainIs DEF Together, Counters
  <2>4. count' = count /\ exact' = exact
    BY <2>1 DEF Failed
  <2>5. \A b \in asks' : b \in asks \/ Plain(b)
    <3>1. \A b \in asks' : b \in asks \/ b = Ask("chat", "readAll", 0)
      BY <2>1 DEF Failed
    <3> QED
      BY <3>1, PlainAsk
  <2>6. \A x \in asks : x \in asks' \/ Plain(x)
    BY <2>1, <2>3 DEF Failed
  <2> QED
    BY <1>1, <2>4, <2>5, <2>6, CountPlain
<1>7. a.op = "readAll" /\ a.stage = "ok" => a.by \in {"bell", "page"}
  BY SeenIs DEF AskOK, Unheeded
<1> QED
  BY <1>2, <1>3, <1>4, <1>5, <1>6, <1>7, ApplyCases

-----------------------------------------------------------------------------
(* The invariant.                                                          *)

LEMMA InitInv == Init => LiveInv
<1> SUFFICES ASSUME Init PROVE LiveInv
  OBVIOUS
<1>0. scene \in {"notices", "chat", "list", "office"} /\ Limit \in Nat /\ jobs = {}
  BY LiveAssumption DEF Init
<1>1. rows \in Seq(RowType) /\ \A i \in DOMAIN rows : ~rows[i].mine
  <2>1. \A k \in KindsOf(scene) : Row(k, FALSE) \in RowType /\ Row(k, FALSE).mine = FALSE
    BY DEF Row, RowType
  <2>2. CASE rows = << >>
    BY <2>2
  <2>3. CASE rows # << >>
    <3>1. PICK k \in KindsOf(scene) : rows = <<Row(k, FALSE)>>
      BY <2>3 DEF Init
    <3>2. PICK r \in RowType : r = Row(k, FALSE) /\ r.mine = FALSE
      BY <2>1
    <3>3. rows = <<r>>
      BY <3>1, <3>2
    <3>4. DOMAIN rows = {1} /\ rows[1] = r
      BY <3>3
    <3>5. rows \in Seq(RowType)
      BY <3>3
    <3> QED
      BY <3>2, <3>4, <3>5
  <2> QED
    BY <2>2, <2>3
<1>2. /\ link \in [Subscribers -> {"idle", "connecting", "open", "reconnecting"}]
      /\ wire \in [Subscribers -> Seq(Events)] /\ \A w \in Subscribers : wire[w] = << >>
      /\ \A w \in Subscribers : link[w] # "idle" => w \in Mounted(scene)
      /\ link["chat"] = "idle"
  <2>1. "chat" \notin Mounted(scene) /\ "chat" \in Subscribers
    BY <1>0, KindFacts DEF Subscribers
  <2>2. << >> \in Seq(Events)
    OBVIOUS
  <2> QED
    BY <2>1, <2>2 DEF Init
<1>3. TypeOK
  <2>1. count \in [Kinds -> Nat] /\ sidebar \in Nat /\ exact = {}
    BY DEF Init
  <2>2. items \in Seq(EntryType) /\ listed \in Seq(EntryType) /\ Len(items) <= Limit
    BY <1>0 DEF Init
  <2> QED
    BY <1>0, <1>1, <1>2, <2>1, <2>2 DEF TypeOK, RowType, Events, EntryType
<1>4. SceneInv
  BY <1>1, <1>2 DEF Init, SceneInv
<1>5. ASSUME NEW a \in asks PROVE AskOK(a) /\ ~a.sound
  <2>1. PICK w \in Mounted(scene) : \E op \in Counts(w) : a = Ask(w, op, 0)
    BY DEF Init
  <2>2. PICK op \in Counts(w) : a = Ask(w, op, 0)
    BY <2>1
  <2>3. /\ w \in {"bell", "mail", "badges"} /\ (w = "bell" => scene = "notices")
        /\ w = "badges" => scene = "office"
    BY <1>0, KindFacts
  <2>4. op \in {"count", "tally"} /\ (op = "tally" => w = "badges")
    BY <2>2 DEF Counts, Counters
  <2>5. AskOK(Ask(w, op, 0))
    <3>1. w \in Askers /\ op \in Ops /\ w # "gone" /\ w # "chat" /\ 0 \in Nat
      BY <2>3, <2>4 DEF Askers, Ops, Subscribers
    <3> QED
      BY <1>3, <2>3, <2>4, <3>1, AskFits
  <2> QED
    BY <2>2, <2>5, AskFresh
<1>6. AsksInv /\ SoundInv
  BY <1>5 DEF AsksInv, SoundInv, SoundOK
<1>7. WireInv /\ JobsInv
  BY <1>0, <1>2 DEF WireInv, WireOK, JobsInv
<1>8. ShownInv
  BY DEF Init, ShownInv
<1>9. ThreadInv /\ CountInv
  BY DEF Init, ThreadInv, CountInv
<1> QED
  BY <1>3, <1>4, <1>6, <1>7, <1>8, <1>9 DEF LiveInv

\* The disjuncts of Next.
LEMMA NextCases ==
  ASSUME Next
  PROVE  \/ \E w \in Subscribers : Connect(w) \/ Disconnect(w)
         \/ \E w \in Subscribers : Handle(w)
         \/ \E k \in Kinds : Arrive(k)
         \/ \E i \in DOMAIN rows : Decide(i)
         \/ \E j \in jobs : Publish(j)
         \/ ReadElsewhere
         \/ \E a \in asks : /\ a.stage = "sent" /\ ServeRead(a)
                            /\ UNCHANGED <<scene, network, presses, faults>> /\ UNCHANGED shown
         \/ \E a \in asks : /\ a.stage = "sent" /\ ServeMark(a)
                            /\ UNCHANGED <<scene, network, presses, faults>> /\ UNCHANGED shown
         \/ \E a \in asks : /\ a.stage = "sent" /\ ServeSend(a)
                            /\ UNCHANGED <<scene, network, presses, faults>> /\ UNCHANGED shown
         \/ \E a \in asks : Fail(a)
         \/ \E a \in asks : Apply(a)
         \/ Toggle \/ MarkAll \/ PageMarkAll \/ SendMessage \/ Poll
         \/ Visit
         \/ Leave
         \/ \E n \in DOMAIN items : MarkOne(n)
         \/ \E n \in DOMAIN listed : PageMarkOne(n)
  BY DEF Next, Serve

LEMMA ApplyTyped ==
  ASSUME TypedInv, NEW a \in asks, Apply(a) PROVE TypedInv'
<1>1. UNCHANGED <<scene, rows, jobs, network>>
  BY DEF Apply
<1>2. CASE a.stage = "failed"
  BY <1>1, <1>2, FailedTyped DEF Apply
<1>3. CASE a.stage # "failed"
  <2>1. /\ a.stage = "ok"
        /\ \/ a.op = "count" /\ Counted(a)
           \/ \E b \in Together(a) : b.op = "tally" /\ Seeded(a, b)
           \/ Listed(a)
           \/ a.op = "load" /\ Loaded(a)
           \/ Polled(a)
           \/ a.op = "readAll" /\ AllRead(a)
           \/ a.op = "send" /\ Sent(a)
    BY <1>3, ApplyCases
  <2>2. \A b \in Together(a) : b \in asks
    BY DEF Together
  <2> QED
    BY <1>1, <2>1, <2>2, CountedTyped, SeededTyped, ListedTyped, LoadedTyped, PolledTyped, AllReadTyped, SentTyped
<1> QED
  BY <1>2, <1>3

LEMMA NextTyped ==
  ASSUME TypedInv, Next PROVE TypedInv'
<1>1. CASE \E w \in Subscribers : Connect(w) \/ Disconnect(w) \/ Handle(w)
  BY <1>1, ConnectTyped, DisconnectTyped, HandleTyped
<1>2. CASE \/ \E k \in Kinds : Arrive(k)
           \/ \E i \in DOMAIN rows : Decide(i)
           \/ \E j \in jobs : Publish(j)
           \/ ReadElsewhere
  BY <1>2, ArriveTyped, DecideTyped, PublishTyped, ReadElsewhereTyped
<1>3. CASE \E a \in asks : /\ a.stage = "sent"
                           /\ ServeRead(a) \/ ServeMark(a) \/ ServeSend(a)
                           /\ UNCHANGED <<scene, network, presses, faults>> /\ UNCHANGED shown
  BY <1>3, ServeReadTyped, ServeMarkTyped, ServeSendTyped
<1>4. CASE \E a \in asks : Fail(a) \/ Apply(a)
  BY <1>4, FailTyped, ApplyTyped
<1>5. CASE Toggle \/ MarkAll \/ PageMarkAll \/ SendMessage \/ Poll \/ Visit \/ Leave
  BY <1>5, ToggleTyped, MarkAllTyped, AskingTyped, VisitTyped, LeaveTyped
<1>6. CASE \/ \E n \in DOMAIN items : MarkOne(n)
           \/ \E n \in DOMAIN listed : PageMarkOne(n)
  BY <1>6, MarkOneTyped, PageMarkOneTyped
<1> QED
  BY <1>1, <1>2, <1>3, <1>4, <1>5, <1>6, NextCases

\* The number of reports is exact again only after nothing was on its way.
LEMMA ApplyWire ==
  ASSUME TypedInv, WireInv, JobsInv, SoundInv, NEW a \in asks, Apply(a)
  PROVE  WireInv' /\ JobsInv'
<1>1. jobs' = jobs /\ rows' = rows /\ wire' = wire
  BY DEF Apply, network
<1>2. "report" \in exact' => "report" \in exact \/ Emptied
  <2>1. CASE a.stage = "failed"
    BY <2>1 DEF Apply, Failed
  <2>2. CASE a.stage # "failed" /\ a.op = "count" /\ a.by = "badges"
    <3>1. PICK b \in Together(a) : Seeded(a, b)
      BY <2>2, ApplyCases
    <3>2. "report" \in exact' => a.sound
      BY <3>1 DEF Seeded
    <3>3. a.sound => Emptied
      <4>1. SUFFICES ASSUME a.sound PROVE Emptied
        OBVIOUS
      <4>2. ~Awaiting("badges") /\ scene = "office"
        <5>1. SoundOK(a)
          BY DEF SoundInv
        <5> QED
          BY <2>2, <4>1, <5>1, CountedForIs DEF SoundOK, Counters
      <4>3. \A w \in Subscribers : wire[w] # << >> => w = "badges"
        BY <4>2, KindFacts DEF TypedInv, SceneInv
      <4> QED
        BY <4>2, <4>3 DEF Awaiting, Emptied
    <3> QED
      BY <3>2, <3>3
  <2>3. CASE a.stage # "failed" /\ ~(a.op = "count" /\ a.by = "badges")
    <3>1. \/ a.op = "count" /\ a.by # "badges" /\ Counted(a)
          \/ Listed(a) \/ Loaded(a) \/ Polled(a) \/ Sent(a)
          \/ a.stage = "ok" /\ a.op = "readAll" /\ AllRead(a)
      BY <2>3, ApplyCases
    <3>2. CASE a.op = "count" /\ a.by # "badges" /\ Counted(a)
      BY <3>2, CountedForIs DEF Counted, Known, Counters
    <3>3. CASE Listed(a) \/ Polled(a) \/ Sent(a)
      BY <3>3 DEF Listed, Polled, Sent
    <3>4. CASE Loaded(a) \/ (a.stage = "ok" /\ a.op = "readAll" /\ AllRead(a))
      <4>1. CASE Loaded(a)
        BY <4>1 DEF Loaded, Known
      <4>2. CASE a.stage = "ok" /\ a.op = "readAll" /\ AllRead(a)
        <5>1. a.by \in {"bell", "page"}
          BY <4>2, SeenIs DEF AskOK, Unheeded
        <5>2. CASE a.by = "bell"
          <6>1. exact' = Known({"notice"}, a.sound)
            BY <4>2, <5>2 DEF AllRead
          <6> QED
            BY <6>1 DEF Known
        <5>3. CASE a.by = "page"
          BY <4>2, <5>3 DEF AllRead
        <5> QED
          BY <5>1, <5>2, <5>3
      <4> QED
        BY <3>4, <4>1, <4>2
    <3> QED
      BY <3>1, <3>2, <3>3, <3>4
  <2> QED
    BY <2>1, <2>2, <2>3
<1> QED
  BY <1>1, <1>2, EventsKept

LEMMA NextWire ==
  ASSUME TypedInv, WireInv, JobsInv, SoundInv, Next PROVE WireInv' /\ JobsInv'
<1>1. CASE \/ \E w \in Subscribers : Handle(w)
           \/ \E i \in DOMAIN rows : Decide(i)
           \/ \E j \in jobs : Publish(j)
           \/ \E a \in asks : Apply(a)
  BY <1>1, HandleWire, DecideWire, PublishWire, ApplyWire
<1>2. CASE \/ \E k \in Kinds : Arrive(k)
           \/ \E a \in asks : ServeSend(a) /\ UNCHANGED <<scene, network, presses, faults>>
  <2>1. /\ wire' = wire /\ exact' = exact /\ jobs' = jobs \cup {Job("new", Len(rows) + 1, FALSE)}
        /\ \E r : rows' = Append(rows, r)
    BY <1>2 DEF Arrive, ServeSend, network
  <2>2. PICK r : rows' = Append(rows, r)
    BY <2>1
  <2>3. Len(rows) \in Nat /\ DOMAIN rows = 1..Len(rows) /\ \A i \in DOMAIN rows : rows'[i] = rows[i]
    BY <2>2, RowsAre
  <2> QED
    BY <2>1, <2>3, StoreWire
<1>3. CASE \/ \E w \in Subscribers : Connect(w) \/ Disconnect(w)
           \/ \E a \in asks : Fail(a) \/ (ServeRead(a) /\ UNCHANGED <<scene, network, presses, faults>>)
           \/ Toggle \/ MarkAll \/ PageMarkAll \/ SendMessage \/ Poll \/ Visit \/ Leave
           \/ \E n \in DOMAIN items : MarkOne(n)
           \/ \E n \in DOMAIN listed : PageMarkOne(n)
  <2>1. rows' = rows /\ jobs' = jobs /\ exact' \subseteq exact
    BY <1>3 DEF Connect, Disconnect, Fail, ServeRead, Toggle, MarkAll, PageMarkAll, SendMessage, Poll, Visit,
                Leave, MarkOne, PageMarkOne
  <2>2. \/ wire' = wire
        \/ \E w : wire' = [wire EXCEPT ![w] = << >>]
    BY <1>3 DEF Connect, Disconnect, Fail, ServeRead, Toggle, MarkAll, PageMarkAll, SendMessage, Poll, Visit,
                Leave, MarkOne, PageMarkOne, network
  <2>3. \A w \in Subscribers : wire'[w] = wire[w] \/ wire'[w] = << >>
    BY <2>2 DEF TypedInv, TypeOK
  <2> QED
    BY <2>1, <2>3, EventsKept
<1>4. CASE \/ ReadElsewhere
           \/ \E a \in asks : ServeMark(a) /\ UNCHANGED <<scene, network, presses, faults>>
  <2>1. wire' = wire /\ jobs' = jobs /\ exact' \subseteq exact
    BY <1>4 DEF ReadElsewhere, ServeMark, network
  <2>2. \A i \in DOMAIN rows : rows'[i].kind = rows[i].kind /\ (rows[i].done => rows'[i].done)
    <3>1. CASE ReadElsewhere
      BY <3>1, AllDoneIs DEF ReadElsewhere
    <3>2. CASE \E a \in asks : ServeMark(a)
      BY <3>2, AfterIs DEF ServeMark, After
    <3> QED
      BY <1>4, <3>1, <3>2
  <2> QED
    BY <2>1, <2>2, EventsKept
<1> QED
  BY <1>1, <1>2, <1>3, <1>4, NextCases

LEMMA NextSound ==
  ASSUME TypedInv, SoundInv, Next PROVE SoundInv'
<1>1. CASE \E w \in Subscribers : Connect(w) \/ Disconnect(w) \/ Handle(w)
  BY <1>1, LinkSound
<1>2. CASE \/ \E k \in Kinds : Arrive(k)
           \/ \E i \in DOMAIN rows : Decide(i)
           \/ ReadElsewhere
  <2>1. asks' = Disturbed(asks)
    BY <1>2 DEF Arrive, Decide, ReadElsewhere
  <2> QED
    BY <2>1, DisturbedSound
<1>3. CASE \E a \in asks : /\ ServeRead(a) \/ ServeMark(a) \/ ServeSend(a)
                           /\ UNCHANGED <<scene, network, presses, faults>>
  <2>1. wire' = wire
    BY <1>3 DEF network
  <2> QED
    BY <1>3, <2>1, ServeReadSound, ServeMarkSound, ServeSendSound
<1>4. CASE (\E a \in asks : Fail(a) \/ Apply(a)) \/ \E j \in jobs : Publish(j)
  BY <1>4, FailSound, ApplySound, PublishSound
<1>5. CASE \/ Toggle \/ MarkAll \/ PageMarkAll \/ Visit \/ SendMessage \/ Poll
           \/ \E n \in DOMAIN listed : PageMarkOne(n)
  BY <1>5, PressSound
<1>6. CASE Leave \/ \E n \in DOMAIN items : MarkOne(n)
  BY <1>6, LeaveSound, MarkOneSound
<1> QED
  BY <1>1, <1>2, <1>3, <1>4, <1>5, <1>6, NextCases

LEMMA NextShown ==
  ASSUME TypedInv, ShownInv, Next PROVE ShownInv'
<1>1. CASE \E w \in Subscribers : Handle(w)
  BY <1>1, HandleShown
<1>2. CASE \E a \in asks : Apply(a)
  BY <1>2, ApplyShown
<1>3. CASE \E n \in DOMAIN listed : PageMarkOne(n)
  BY <1>3, PageMarkOneShown
<1>4. CASE Visit \/ Leave
  BY <1>4, PageShown
<1>5. CASE \/ \E w \in Subscribers : Connect(w) \/ Disconnect(w)
           \/ \E k \in Kinds : Arrive(k)
           \/ \E i \in DOMAIN rows : Decide(i)
           \/ \E j \in jobs : Publish(j)
           \/ ReadElsewhere
           \/ UNCHANGED shown
           \/ \E a \in asks : Fail(a)
           \/ Toggle \/ MarkAll \/ PageMarkAll \/ SendMessage \/ Poll
           \/ \E n \in DOMAIN items : MarkOne(n)
  <2>1. listed' = listed
    BY <1>5 DEF Connect, Disconnect, Arrive, Decide, Publish, ReadElsewhere, Fail, Toggle, MarkAll, PageMarkAll,
                SendMessage, Poll, MarkOne, shown
  <2> QED
    BY <2>1, ListSame
<1> QED
  BY <1>1, <1>2, <1>3, <1>4, <1>5, NextCases

LEMMA NextThread ==
  ASSUME TypedInv, SoundInv, JobsInv, ThreadInv, Next PROVE ThreadInv'
<1>1. CASE \E w \in Subscribers : Connect(w) \/ Disconnect(w) \/ Handle(w)
  BY <1>1, LinkThread, HandleThread
<1>2. CASE \/ \E k \in Kinds : Arrive(k)
           \/ \E i \in DOMAIN rows : Decide(i)
           \/ \E j \in jobs : Publish(j)
           \/ ReadElsewhere
  BY <1>2, ArriveThread, DisturbedThread, PublishThread
<1>3. CASE \E a \in asks : /\ a.stage = "sent"
                           /\ ServeRead(a) \/ ServeMark(a) \/ ServeSend(a)
                           /\ UNCHANGED <<scene, network>> /\ UNCHANGED shown
  BY <1>3, ServeThread, ServeSendThread
<1>4. CASE \E a \in asks : Fail(a) \/ Apply(a)
  BY <1>4, FailThread, ApplyThread
<1>5. CASE \/ Toggle \/ MarkAll \/ PageMarkAll \/ SendMessage \/ Poll
           \/ \E n \in DOMAIN items : MarkOne(n)
           \/ \E n \in DOMAIN listed : PageMarkOne(n)
  BY <1>5, PressThread
<1>6. CASE Visit \/ Leave
  BY <1>6, PageThread
<1> QED
  BY <1>1, <1>2, <1>3, <1>4, <1>5, <1>6, NextCases

LEMMA NextCount ==
  ASSUME TypedInv, WireInv, JobsInv, SoundInv, CountInv, Next PROVE CountInv'
<1>1. CASE \E w \in Subscribers : Connect(w) \/ Disconnect(w) \/ Handle(w)
  BY <1>1, LinkCount, HandleCount
<1>2. CASE \/ \E k \in Kinds : Arrive(k)
           \/ \E i \in DOMAIN rows : Decide(i)
           \/ \E j \in jobs : Publish(j)
           \/ ReadElsewhere
  BY <1>2, ArriveCount, DecideCount, PublishCount, ReadElsewhereCount
<1>3. CASE \E a \in asks : /\ a.stage = "sent"
                           /\ ServeRead(a) \/ ServeMark(a) \/ ServeSend(a)
                           /\ UNCHANGED <<scene, network>> /\ UNCHANGED shown
  <2>1. wire' = wire
    BY <1>3 DEF network
  <2> QED
    BY <1>3, <2>1, ServeReadCount, ServeMarkCount, ServeSendCount
<1>4. CASE \E a \in asks : Fail(a) \/ Apply(a)
  BY <1>4, FailCount, ApplyCount
<1>5. CASE \/ Toggle \/ MarkAll \/ PageMarkAll \/ SendMessage \/ Poll \/ Visit
           \/ \E n \in DOMAIN listed : PageMarkOne(n)
  BY <1>5, PressCount
<1>6. CASE Leave \/ \E n \in DOMAIN items : MarkOne(n)
  BY <1>6, LeaveCount, MarkOneCount
<1> QED
  BY <1>1, <1>2, <1>3, <1>4, <1>5, <1>6, NextCases

\* A step that leaves everything alone.
LEMMA StillInv ==
  ASSUME LiveInv, UNCHANGED vars PROVE LiveInv'
<1>1. /\ UNCHANGED <<scene, rows, jobs, link, wire, asks, count, dropdown, items>>
      /\ UNCHANGED <<page, listed, sidebar, exact>>
  BY DEF vars, network, shown
<1>2. TypedInv /\ WireInv /\ JobsInv /\ SoundInv /\ ShownInv /\ ThreadInv /\ CountInv
  BY DEF LiveInv, TypedInv
<1>3. TypedInv'
  BY <1>1, <1>2, AsksSame, TypedSame
<1>4. WireInv' /\ JobsInv'
  BY <1>1, <1>2, EventsKept
<1>5. SoundInv'
  <2>1. \A w \in Subscribers : Awaiting(w)' => Awaiting(w)
    BY <1>1 DEF Awaiting
  <2> QED
    BY <1>1, <1>2, <2>1, SoundAsked
<1>6. ShownInv'
  BY <1>1, <1>2, ListSame
<1>7. ThreadInv'
  BY <1>1, <1>2, ThreadStill
<1>8. CountInv'
  BY <1>1, <1>2, CountPlain
<1> QED
  BY <1>3, <1>4, <1>5, <1>6, <1>7, <1>8 DEF LiveInv, TypedInv

\* Whatever is counted and listed is accounted for by what is stored, on the
\* wire or asked for, in every scene and for every number of rows and presses.
LEMMA LiveInvariant == Spec => []LiveInv
<1>1. ASSUME LiveInv, Next PROVE LiveInv'
  <2>1. TypedInv /\ WireInv /\ JobsInv /\ SoundInv /\ ShownInv /\ ThreadInv /\ CountInv
    BY <1>1 DEF LiveInv, TypedInv
  <2>2. TypedInv' /\ WireInv' /\ JobsInv' /\ SoundInv' /\ ShownInv' /\ ThreadInv' /\ CountInv'
    BY <1>1, <2>1, NextTyped, NextWire, NextSound, NextShown, NextThread, NextCount
  <2> QED
    BY <2>2 DEF LiveInv, TypedInv
<1>2. LiveInv /\ [Next]_vars => LiveInv'
  BY <1>1, StillInv
<1> QED
  BY <1>2, InitInv, PTL DEF Spec

-----------------------------------------------------------------------------
(* What the widgets show.                                                  *)

\* "Dedupe against the SSE echo" (messages/[id]/page.tsx): numbers are
\* never negative, what is listed, to be published or on the wire is stored, and a
\* conversation never shows a message twice, in whichever order its event, the
\* answer to handleSend, a reload and a new visit come.
THEOREM WidgetsSoundSafe == Spec => []WidgetsSound
<1>1. LiveInv => WidgetsSound
  BY DEF LiveInv, ShownInv, WidgetsSound, ShownOnce
<1> QED
  BY <1>1, LiveInvariant, PTL

\* A conversation whose load met no new message, and whose stream missed none
\* since, shows the latest Window messages and every one since the oldest it
\* lists, once nothing of it is on its way.
THEOREM ThreadCompleteSafe == Spec => []ThreadComplete
<1>1. LiveInv => ThreadComplete
  <2> SUFFICES ASSUME LiveInv, "thread" \in exact, Quiet("chat"), NEW i \in DOMAIN rows,
                      i > Len(rows) - Window \/ \E n \in DOMAIN listed : n = 1 /\ i >= listed[n].row
               PROVE  Lists(i)
    BY DEF ThreadComplete
  <2>1. Owed(i)
    BY DEF Owed
  <2>2. Lists(i) \/ Coming("chat", "new", i) \/ Answering(i)
    BY <2>1 DEF LiveInv, ThreadInv
  <2>3. ~Awaiting("chat") /\ \A a \in asks : a.by = "chat" => a.op \in Counters \cup {"poll"}
    BY DEF Quiet
  <2>4. ~Coming("chat", "new", i) /\ ~Answering(i)
    BY <2>3 DEF Awaiting, Coming, OnWire, Unpublished, Answering, Counters
  <2> QED
    BY <2>2, <2>4
<1> QED
  BY <1>1, LiveInvariant, PTL

\* "Seeded from the same REST endpoints ... then kept in sync via SSE events":
\* a number read while nothing was on its way, and which has missed no change
\* since, is the server's whenever its widget has nothing on its way.
THEOREM CountsExactSafe == Spec => []CountsExactApart
<1>1. LiveInv => CountsExactApart
  <2> SUFFICES ASSUME LiveInv, NEW c \in exact \cap Kinds, Quiet(KeptBy(c))
               PROVE  count[c] = Open(rows, c)
    BY DEF CountsExactApart
  <2>1. PICK w : w = KeptBy(c)
    OBVIOUS
  <2>2. TypedInv /\ CountOK(c)
    BY DEF LiveInv, TypedInv, CountInv
  <2>3. \A type, i : ~Coming(w, type, i)
    BY <2>1 DEF Quiet, Awaiting, Coming, OnWire, Unpublished
  <2>4. \A a \in asks : a.by = w => a.op \notin {"readOne", "readAll"}
    BY <2>1 DEF Quiet, Counters
  <2>5. \A i : ~Marking(w, i)
    BY <2>4 DEF Marking
  <2>6. ~(c = "notice" /\ AllReadDue)
    <3>1. c = "notice" => w = "bell"
      BY <2>1, <2>2, ExactIs
    <3> QED
      BY <2>4, <3>1 DEF AllReadDue, Due
  <2>7. count[c] = Cardinality(Believed(c))
    BY <2>2, <2>6 DEF CountOK
  <2>8. Believed(c) = {i \in DOMAIN rows : rows[i].kind = c /\ ~rows[i].mine /\ ~rows[i].done}
    BY <2>1, <2>3, <2>5 DEF Believed, Counting
  <2> QED
    BY <2>7, <2>8 DEF Open
<1> QED
  BY <1>1, LiveInvariant, PTL
=============================================================================
