---------------------------- MODULE ThreadProofs ----------------------------
(***************************************************************************)
(* Proofs about Thread, for every number of users, topics, replies and     *)
(* concurrent requests.  The inductive invariant ties the local variables  *)
(* of the requests and of the moderation goroutines to the stored rows.    *)
(***************************************************************************)
EXTENDS ThreadApart, FiniteSetTheorems, TLAPS

\* A reply's request before its INSERT: the id it claimed is still free.
Unwritten(q) == q.pc \in {"dedup", "gate", "floor", "insert"}

RequestInv ==
  /\ \A r \in Requests : Unwritten(req[r]) => req[r].post \notin DOMAIN post
  /\ \A r, s \in Requests :
       Unwritten(req[r]) /\ Unwritten(req[s]) /\ req[r].post = req[s].post => r = s
  /\ \A r \in Requests : req[r].pc \in {"after", "softdelete", "update"} =>
       req[r].post \in DOMAIN post

\* The floor a request read is the successor of a floor in use, and above
\* every floor it saw.
FloorReadInv ==
  \A r \in Requests : req[r].pc = "insert" =>
    /\ req[r].floor >= 2
    /\ req[r].floor > 2 =>
         \E q \in PostsOf(req[r].topic) : post[q].floor = req[r].floor - 1
    /\ \A q \in req[r].seen : q \in DOMAIN post /\ post[q].floor < req[r].floor

JobInv ==
  \A p \in Posts : job[p] # "none" =>
    p \in DOMAIN post /\ (job[p] = "notify" => ~post[p].live)

Inv ==
  /\ TypeOK
  /\ IsFiniteSet(DOMAIN post)
  /\ RequestInv
  /\ FloorReadInv
  /\ JobInv
  /\ FloorsConnected
  /\ FloorsNotReused
  /\ HiddenNoticeIsTrue

-----------------------------------------------------------------------------
LEMMA TypeInit == Init => TypeOK
BY DEF Init, TypeOK, TopicRow, Request, JobState

\* The program counter tells which kind of request it is.
LEMMA RequestKinds ==
  ASSUME NEW q \in Request
  PROVE  /\ q.pc \in {"dedup", "gate", "floor", "insert", "after"} <=> q \in Posting
         /\ q.pc = "softdelete" <=> q \in Deleting
         /\ q.pc = "update" <=> q \in Editing
         /\ q.pc = "setlocked" <=> q \in Locking
         /\ q.pc = "deletetopic" <=> q \in Dropping
         /\ q.pc = "idle" <=> q = Idle
BY DEF Request, Posting, Deleting, Editing, Locking, Dropping, Idle

LEMMA PostingMoves ==
  ASSUME NEW q \in Posting, NEW pc \in {"dedup", "gate", "floor", "insert", "after"}
  PROVE  [q EXCEPT !.pc = pc] \in Posting
BY DEF Posting

LEMMA PostingReads ==
  ASSUME NEW q \in Posting, NEW n \in Nat, NEW S \in SUBSET Posts
  PROVE  [q EXCEPT !.pc = "insert", !.floor = n, !.seen = S] \in Posting
BY DEF Posting

\* Every call made after a reply is well formed.
LEMMA EffectsOfPostType ==
  ASSUME TypeOK, NEW q \in Posting, NEW mentioned \in SUBSET Users,
         NEW parents \in SUBSET LivePostsOf(q.topic)
  PROVE  EffectsOfPost(q, mentioned, parents) \subseteq Effect
<1>1. q.post \in Posts /\ q.author \in Users /\ q.topic \in Topics
  BY DEF Posting
<1>2. ASSUME NEW S \in SUBSET Users,
             NEW k \in {"reply", "parent", "mention", "trigger", "reward"}
      PROVE  EffectsOf(k, q.post, S) \subseteq Effect
  BY <1>1 DEF EffectsOf, Effect
<1>3. OwnerTold(q) \subseteq Users /\ MentionTold(q, mentioned) \subseteq Users
  BY <1>1, ThreadAssumption DEF OwnerTold, MentionTold
<1>4. \A x \in parents : ParentTold(q, x) \subseteq Users
  BY DEF ParentTold, LivePostsOf, PostsOf, TypeOK, PostRow
<1> DEFINE told == {EffectsOf("parent", q.post, ParentTold(q, x)) : x \in parents}
<1>5. UNION told \subseteq Effect
  <2>1. \A S \in told : S \subseteq Effect
    BY <1>2, <1>4
  <2> QED
    BY <2>1, Zenon
<1> DEFINE trigger == IF q.topic \in AnonTopics THEN {} ELSE {q.author}
           reward == IF q.text \in LongTexts THEN {q.author} ELSE {}
<1>6. trigger \subseteq Users /\ reward \subseteq Users
  BY <1>1
<1>7. EffectsOf("trigger", q.post, trigger) \subseteq Effect
  BY <1>2, <1>6
<1>8. EffectsOf("reward", q.post, reward) \subseteq Effect
  BY <1>2, <1>6
<1>9. EffectsOf("reply", q.post, OwnerTold(q)) \subseteq Effect
  BY <1>2, <1>3
<1>10. EffectsOf("mention", q.post, MentionTold(q, mentioned)) \subseteq Effect
  BY <1>2, <1>3
<1>11. EffectsOfPost(q, mentioned, parents) =
         EffectsOf("reply", q.post, OwnerTold(q)) \cup (UNION told)
           \cup EffectsOf("mention", q.post, MentionTold(q, mentioned))
           \cup EffectsOf("trigger", q.post, trigger) \cup EffectsOf("reward", q.post, reward)
  BY Zenon DEF EffectsOfPost
<1> HIDE DEF told, trigger, reward
<1> QED
  <2>1. \A A, B, C, D, E, T : A \subseteq T /\ B \subseteq T /\ C \subseteq T /\ D \subseteq T
          /\ E \subseteq T => A \cup B \cup C \cup D \cup E \subseteq T
    OBVIOUS
  <2> QED
    BY <1>5, <1>7, <1>8, <1>9, <1>10, <1>11, <2>1, Zenon

\* Replacing one request by another keeps the type of req.
LEMMA ReqType ==
  ASSUME TypeOK, NEW r \in Requests, NEW q \in Request, req' = [req EXCEPT ![r] = q]
  PROVE  req' \in [Requests -> Request]
BY DEF TypeOK

LEMMA FinishType ==
  ASSUME TypeOK, NEW r \in Requests, Finish(r)
  PROVE  req' \in [Requests -> Request]
BY ReqType DEF Finish, Request

LEMMA GotoType ==
  ASSUME TypeOK, NEW r \in Requests, req[r] \in Posting,
         NEW pc \in {"dedup", "gate", "floor", "insert", "after"}, Goto(r, pc)
  PROVE  req' \in [Requests -> Request]
<1>1. [req[r] EXCEPT !.pc = pc] \in Request
  BY PostingMoves DEF Request
<1>2. req' = [req EXCEPT ![r] = [req[r] EXCEPT !.pc = pc]]
  BY DEF Goto
<1> QED
  BY <1>1, <1>2, ReqType

\* The counters and the rows keep their types when a reply is deleted.
LEMMA SoftDeleteType ==
  ASSUME TypeOK, NEW p \in DOMAIN post, SoftDelete(p)
  PROVE  /\ topic' \in [Topics -> TopicRow]
         /\ DOMAIN post' = DOMAIN post
         /\ post' \in [DOMAIN post' -> PostRow]
<1>1. post[p].topic \in Topics /\ post[p] \in PostRow
  BY DEF TypeOK, PostRow
<1>2. [post[p] EXCEPT !.live = FALSE] \in PostRow
  BY <1>1 DEF PostRow
<1>3. \A n \in Nat : Decremented(n) \in Nat
  BY DEF Decremented
<1> QED
  BY <1>1, <1>2, <1>3 DEF SoftDelete, TypeOK, TopicRow

LEMMA SubmitType ==
  ASSUME TypeOK, NEW r \in Requests, NEW q \in Request, Begin(r, q),
         UNCHANGED <<topic, post, job, effects, crashes>>
  PROVE  TypeOK'
<1>1. req' \in [Requests -> Request]
  BY ReqType DEF Begin
<1> QED
  BY <1>1 DEF TypeOK

\* Types are preserved.  That a deletion's reply exists is in RequestInv and JobInv.
LEMMA TypeStep == TypeOK /\ RequestInv /\ JobInv /\ [Next]_vars => TypeOK'
<1> SUFFICES ASSUME TypeOK, RequestInv, JobInv, [Next]_vars PROVE TypeOK'
  OBVIOUS
<1>1. ASSUME NEW r \in Requests, NEW u \in Users, NEW t \in Topics, NEW c \in Texts,
             NEW p \in Posts, SubmitPost(r, u, t, c, p) \/ SubmitBotReply(r, u, t, c, p)
      PROVE  TypeOK'
  <2>1. ASSUME NEW b \in BOOLEAN, NEW pc \in {"dedup", "gate"}
        PROVE  [pc |-> pc, topic |-> t, author |-> u, bot |-> b, text |-> c,
                post |-> p, floor |-> 0, seen |-> {}] \in Request
    BY DEF Request, Posting
  <2> QED
    BY <1>1, <2>1, SubmitType DEF SubmitPost, SubmitBotReply
<1>2. ASSUME NEW r \in Requests, NEW p \in Posts, ReadForDelete(r, p)
      PROVE  TypeOK'
  <2>1. [pc |-> "softdelete", post |-> p] \in Request
    BY DEF Request, Deleting
  <2> QED
    BY <1>2, <2>1, SubmitType DEF ReadForDelete
<1>3. ASSUME NEW r \in Requests, NEW u \in Users, NEW p \in Posts, NEW c \in Texts,
             ReadForEdit(r, u, p, c)
      PROVE  TypeOK'
  <2>1. [pc |-> "update", post |-> p, text |-> c] \in Request
    BY DEF Request, Editing
  <2> QED
    BY <1>3, <2>1, SubmitType DEF ReadForEdit
<1>4. ASSUME NEW r \in Requests, NEW t \in Topics, NEW b \in BOOLEAN, ReadForLock(r, t, b)
      PROVE  TypeOK'
  <2>1. [pc |-> "setlocked", topic |-> t, locked |-> b] \in Request
    BY DEF Request, Locking
  <2> QED
    BY <1>4, <2>1, SubmitType DEF ReadForLock
<1>5. ASSUME NEW r \in Requests, NEW t \in Topics, ReadForDrop(r, t)
      PROVE  TypeOK'
  <2>1. [pc |-> "deletetopic", topic |-> t] \in Request
    BY DEF Request, Dropping
  <2> QED
    BY <1>5, <2>1, SubmitType DEF ReadForDrop
<1>6. ASSUME NEW r \in Requests, RequestStep(r)
      PROVE  TypeOK'
  <2> DEFINE q == req[r]
  <2>0. q \in Request
    BY DEF TypeOK
  <2>1. CASE CheckDuplicate(r)
    <3>1. q \in Posting
      BY <2>0, <2>1, RequestKinds DEF CheckDuplicate
    <3>2. Finish(r) \/ Goto(r, "gate")
      BY <2>1 DEF CheckDuplicate
    <3>3. req' \in [Requests -> Request]
      BY <3>1, <3>2, FinishType, GotoType
    <3> QED
      BY <2>1, <3>3 DEF CheckDuplicate, TypeOK
  <2>2. CASE CheckTopic(r)
    <3>1. q \in Posting
      BY <2>0, <2>2, RequestKinds DEF CheckTopic
    <3>2. Finish(r) \/ Goto(r, "floor")
      BY <2>2 DEF CheckTopic
    <3>3. req' \in [Requests -> Request]
      BY <3>1, <3>2, FinishType, GotoType
    <3> QED
      BY <2>2, <3>3 DEF CheckTopic, TypeOK
  <2>3. CASE ReadTopFloor(r)
    <3>1. q \in Posting
      BY <2>0, <2>3, RequestKinds DEF ReadTopFloor
    <3>2. PICK m \in TopFloor(q.topic) :
            req' = [req EXCEPT ![r].pc = "insert", ![r].floor = m + 1,
                               ![r].seen = PostsOf(q.topic)]
      BY <2>3 DEF ReadTopFloor
    <3>3. m + 1 \in Nat /\ PostsOf(q.topic) \in SUBSET Posts
      BY DEF TopFloor, PostsOf, TypeOK, PostRow
    <3> DEFINE new == [q EXCEPT !.pc = "insert", !.floor = m + 1, !.seen = PostsOf(q.topic)]
    <3>4. new \in Posting
      BY <3>1, <3>3, PostingReads
    <3> HIDE DEF new
    <3>5. req' = [req EXCEPT ![r] = new]
      BY <3>2 DEF new
    <3>6. req' \in [Requests -> Request]
      BY <3>4, <3>5, ReqType DEF Request
    <3> QED
      BY <2>3, <3>6 DEF ReadTopFloor, TypeOK
  <2>4. CASE InsertPost(r)
    <3>1. q \in Posting /\ Goto(r, "after")
      BY <2>0, <2>4, RequestKinds DEF InsertPost
    <3>2. req' \in [Requests -> Request]
      BY <3>1, GotoType
    <3>3. q.topic \in Topics /\ q.post \in Posts
      BY <3>1 DEF Posting
    <3>4. topic' \in [Topics -> TopicRow]
      BY <2>4, <3>3 DEF InsertPost, TypeOK, TopicRow
    <3> DEFINE row == [topic |-> q.topic, author |-> q.author, bot |-> q.bot,
                       text |-> q.text, floor |-> q.floor, seen |-> q.seen,
                       live |-> TRUE, recent |-> TRUE]
    <3>5. row \in PostRow
      BY <3>1 DEF Posting, PostRow
    <3>6. post' = [p \in DOMAIN post \cup {q.post} |-> IF p = q.post THEN row ELSE post[p]]
      BY <2>4 DEF InsertPost
    <3>7. DOMAIN post' \subseteq Posts /\ post' \in [DOMAIN post' -> PostRow]
      BY <3>3, <3>5, <3>6 DEF TypeOK
    <3> QED
      BY <2>4, <3>2, <3>4, <3>7 DEF InsertPost, TypeOK
  <2>5. CASE AfterPost(r) \/ AfterBotReply(r)
    <3>1. q \in Posting /\ Finish(r)
      BY <2>0, <2>5, RequestKinds DEF AfterPost, AfterBotReply
    <3>2. q.post \in Posts /\ q.author \in Users /\ q.topic \in Topics
      BY <3>1 DEF Posting
    <3>3. effects' \subseteq Effect
      <4>1. CASE AfterPost(r)
        <5>1. PICK mentioned \in SUBSET Users, parents \in SUBSET LivePostsOf(q.topic) :
                effects' = effects \cup EffectsOfPost(q, mentioned, parents)
          BY <4>1 DEF AfterPost
        <5>2. EffectsOfPost(q, mentioned, parents) \subseteq Effect
          BY <3>1, <5>1, EffectsOfPostType
        <5> QED
          BY <5>1, <5>2 DEF TypeOK
      <4>2. CASE AfterBotReply(r)
        BY <4>2, <3>2, ThreadAssumption DEF AfterBotReply, OwnerTold, EffectsOf, Effect, TypeOK
      <4> QED
        BY <2>5, <4>1, <4>2
    <3>4. req' \in [Requests -> Request]
      BY <3>1, FinishType
    <3>5. job' \in [Posts -> JobState]
      BY <2>5, <3>2 DEF AfterPost, AfterBotReply, TypeOK, JobState
    <3> QED
      BY <2>5, <3>3, <3>4, <3>5 DEF AfterPost, AfterBotReply, TypeOK
  <2>6. CASE CommitDelete(r)
    <3>1. q.post \in DOMAIN post /\ SoftDelete(q.post) /\ Finish(r)
      BY <2>0, <2>6, RequestKinds DEF CommitDelete, RequestInv
    <3> QED
      BY <2>6, <3>1, FinishType, SoftDeleteType DEF CommitDelete, TypeOK
  <2>7. CASE CommitEdit(r)
    <3>1. q \in Editing /\ q.post \in DOMAIN post /\ q.text \in Texts /\ Finish(r)
      BY <2>0, <2>7, RequestKinds DEF CommitEdit, RequestInv, Editing
    <3>2. [post[q.post] EXCEPT !.text = q.text] \in PostRow
      BY <3>1 DEF TypeOK, PostRow
    <3>3. post' = post \/ post' = [post EXCEPT ![q.post] = [post[q.post] EXCEPT !.text = q.text]]
      BY <2>7 DEF CommitEdit
    <3>4. DOMAIN post' = DOMAIN post /\ post' \in [DOMAIN post' -> PostRow]
      BY <3>1, <3>2, <3>3 DEF TypeOK
    <3> QED
      BY <2>7, <3>1, <3>4, FinishType DEF CommitEdit, TypeOK
  <2>8. CASE CommitLock(r)
    <3>1. q \in Locking /\ Finish(r)
      BY <2>0, <2>8, RequestKinds DEF CommitLock
    <3>2. topic' \in [Topics -> TopicRow]
      BY <2>8, <3>1 DEF CommitLock, Locking, TypeOK, TopicRow
    <3> QED
      BY <2>8, <3>1, <3>2, FinishType DEF CommitLock, TypeOK
  <2>9. CASE CommitDrop(r)
    <3>1. q \in Dropping /\ Finish(r)
      BY <2>0, <2>9, RequestKinds DEF CommitDrop
    <3>2. topic' \in [Topics -> TopicRow]
      BY <2>9, <3>1 DEF CommitDrop, Dropping, TypeOK, TopicRow
    <3> QED
      BY <2>9, <3>1, <3>2, FinishType DEF CommitDrop, TypeOK
  <2> QED
    BY <1>6, <2>1, <2>2, <2>3, <2>4, <2>5, <2>6, <2>7, <2>8, <2>9 DEF RequestStep
<1>7. ASSUME NEW p \in Posts, JobStep(p)
      PROVE  TypeOK'
  <2>1. CASE ModeratorAnswers(p)
    BY <2>1 DEF ModeratorAnswers, TypeOK, JobState
  <2>2. CASE ReadForHide(p)
    BY <2>2 DEF ReadForHide, TypeOK, JobState
  <2>3. CASE CommitHide(p)
    <3>1. p \in DOMAIN post /\ SoftDelete(p)
      BY <2>3 DEF CommitHide, JobInv
    <3> QED
      BY <2>3, <3>1, SoftDeleteType DEF CommitHide, TypeOK, JobState
  <2>4. CASE NotifyHidden(p)
    <3>1. p \in DOMAIN post /\ post[p].author \in Users
      BY <2>4 DEF NotifyHidden, JobInv, TypeOK, PostRow
    <3>2. effects' \subseteq Effect
      BY <2>4, <3>1 DEF NotifyHidden, EffectsOf, Effect, TypeOK
    <3> QED
      BY <2>4, <3>2 DEF NotifyHidden, TypeOK, JobState
  <2> QED
    BY <1>7, <2>1, <2>2, <2>3, <2>4 DEF JobStep
<1>8. ASSUME NEW p \in Posts, WindowPasses(p)
      PROVE  TypeOK'
  <2>1. [post[p] EXCEPT !.recent = FALSE] \in PostRow
    BY <1>8 DEF WindowPasses, TypeOK, PostRow
  <2> QED
    BY <1>8, <2>1 DEF WindowPasses, TypeOK
<1>9. CASE Crash
  BY <1>9 DEF Crash, TypeOK, Request, JobState
<1>10. CASE UNCHANGED vars
  BY <1>10 DEF vars, TypeOK
<1> QED
  BY <1>1, <1>2, <1>3, <1>4, <1>5, <1>6, <1>7, <1>8, <1>9, <1>10 DEF Next, Submit

-----------------------------------------------------------------------------
(* What a step does to the rows: one reply is inserted, or the rows stay   *)
(* where they are and none comes back to life.                             *)
RowsKept ==
  /\ DOMAIN post' = DOMAIN post
  /\ \A p \in DOMAIN post :
       /\ post'[p].topic = post[p].topic
       /\ post'[p].author = post[p].author
       /\ post'[p].floor = post[p].floor
       /\ post'[p].seen = post[p].seen
       /\ ~post[p].live => ~post'[p].live /\ post'[p].text = post[p].text

LEMMA SoftDeleteRows ==
  ASSUME TypeOK, NEW p \in DOMAIN post, SoftDelete(p)
  PROVE  RowsKept /\ ~post'[p].live
BY DEF SoftDelete, RowsKept, TypeOK, PostRow

LEMMA RowsStep ==
  ASSUME TypeOK, RequestInv, JobInv, [Next]_vars
  PROVE  RowsKept \/ \E r \in Requests : InsertPost(r)
<1>1. ASSUME NEW r \in Requests, CommitDelete(r) PROVE RowsKept
  BY <1>1, SoftDeleteRows DEF CommitDelete, RequestInv
<1>2. ASSUME NEW r \in Requests, CommitEdit(r) PROVE RowsKept
  BY <1>2 DEF CommitEdit, Editable, RowsKept, RequestInv, TypeOK, PostRow
<1>3. ASSUME NEW p \in Posts, CommitHide(p) PROVE RowsKept
  BY <1>3, SoftDeleteRows DEF CommitHide, JobInv
<1>4. ASSUME NEW p \in Posts, WindowPasses(p) PROVE RowsKept
  BY <1>4 DEF WindowPasses, RowsKept, TypeOK, PostRow
<1>5. post' = post => RowsKept
  BY DEF RowsKept
<1> QED
  BY <1>1, <1>2, <1>3, <1>4, <1>5, Zenon
     DEF Next, Submit, RequestStep, JobStep, vars, SubmitPost, SubmitBotReply,
         ReadForDelete, ReadForEdit, ReadForLock, ReadForDrop, CheckDuplicate, CheckTopic,
         ReadTopFloor, AfterPost, AfterBotReply, CommitLock, CommitDrop,
         ModeratorAnswers, ReadForHide, NotifyHidden, Crash

\* What inserting a reply does to the rows.
LEMMA InsertRows ==
  ASSUME TypeOK, RequestInv, NEW r \in Requests, InsertPost(r)
  PROVE  /\ req[r] \in Posting /\ req[r].post \notin DOMAIN post
         /\ DOMAIN post' = DOMAIN post \cup {req[r].post}
         /\ \A p \in DOMAIN post : post'[p] = post[p]
         /\ post'[req[r].post].topic = req[r].topic
         /\ post'[req[r].post].author = req[r].author
         /\ post'[req[r].post].floor = req[r].floor
         /\ post'[req[r].post].seen = req[r].seen
         /\ post'[req[r].post].live
<1>1. req[r] \in Posting
  BY RequestKinds DEF InsertPost, TypeOK
<1> QED
  BY <1>1 DEF InsertPost, RequestInv, Unwritten

\* The claims on row ids stay disjoint, and what a request is about to delete
\* or edit exists.
LEMMA RequestInvStep ==
  ASSUME TypeOK, RequestInv, JobInv, [Next]_vars
  PROVE  RequestInv'
<1> USE DEF Unwritten
<1>1. ASSUME NEW r \in Requests, NEW u \in Users, NEW t \in Topics, NEW c \in Texts,
             NEW p \in Posts, SubmitPost(r, u, t, c, p) \/ SubmitBotReply(r, u, t, c, p)
      PROVE  RequestInv'
  <2>1. p \notin DOMAIN post /\ \A s \in Requests : Unwritten(req[s]) => req[s].post # p
    BY <1>1, RequestKinds DEF SubmitPost, SubmitBotReply, Unclaimed, TypeOK
  <2> QED
    BY <1>1, <2>1 DEF SubmitPost, SubmitBotReply, Begin, RequestInv, TypeOK
<1>2. ASSUME NEW r \in Requests, NEW p \in Posts, ReadForDelete(r, p)
      PROVE  RequestInv'
  BY <1>2 DEF ReadForDelete, Begin, RequestInv, TypeOK
<1>3. ASSUME NEW r \in Requests, NEW u \in Users, NEW p \in Posts, NEW c \in Texts,
             ReadForEdit(r, u, p, c)
      PROVE  RequestInv'
  BY <1>3 DEF ReadForEdit, Begin, RequestInv, TypeOK
<1>4. ASSUME NEW r \in Requests, NEW t \in Topics, NEW b \in BOOLEAN, ReadForLock(r, t, b)
      PROVE  RequestInv'
  BY <1>4 DEF ReadForLock, Begin, RequestInv, TypeOK
<1>5. ASSUME NEW r \in Requests, NEW t \in Topics, ReadForDrop(r, t)
      PROVE  RequestInv'
  BY <1>5 DEF ReadForDrop, Begin, RequestInv, TypeOK
<1>6. ASSUME NEW r \in Requests, CheckDuplicate(r) \/ CheckTopic(r)
      PROVE  RequestInv'
  <2>1. req[r] \in Posting
    BY <1>6, RequestKinds DEF CheckDuplicate, CheckTopic, TypeOK
  <2>2. Finish(r) \/ Goto(r, "gate") \/ Goto(r, "floor")
    BY <1>6 DEF CheckDuplicate, CheckTopic
  <2> QED
    BY <1>6, <2>1, <2>2
       DEF CheckDuplicate, CheckTopic, Finish, Goto, Idle, Posting, RequestInv, TypeOK
<1>7. ASSUME NEW r \in Requests, ReadTopFloor(r)
      PROVE  RequestInv'
  <2>1. req[r] \in Posting
    BY <1>7, RequestKinds DEF ReadTopFloor, TypeOK
  <2> QED
    BY <1>7, <2>1 DEF ReadTopFloor, Posting, RequestInv, TypeOK
<1>8. ASSUME NEW r \in Requests, InsertPost(r)
      PROVE  RequestInv'
  BY <1>8, InsertRows DEF InsertPost, Goto, Posting, RequestInv, TypeOK
<1>9. ASSUME NEW r \in Requests, AfterPost(r) \/ AfterBotReply(r) \/ CommitDelete(r)
                                    \/ CommitEdit(r) \/ CommitLock(r) \/ CommitDrop(r)
      PROVE  RequestInv'
  <2>1. DOMAIN post' = DOMAIN post /\ Finish(r)
    BY <1>9, SoftDeleteRows
       DEF AfterPost, AfterBotReply, CommitDelete, CommitEdit, CommitLock, CommitDrop,
           RequestInv, RowsKept, TypeOK
  <2> QED
    BY <2>1 DEF Finish, Idle, RequestInv, TypeOK
<1>10. ASSUME NEW p \in Posts, JobStep(p) \/ WindowPasses(p)
       PROVE  RequestInv'
  <2>1. DOMAIN post' = DOMAIN post /\ req' = req
    BY <1>10, SoftDeleteRows
       DEF JobStep, ModeratorAnswers, ReadForHide, CommitHide, NotifyHidden, WindowPasses,
           JobInv, RowsKept, TypeOK
  <2> QED
    BY <2>1 DEF RequestInv
<1>11. CASE Crash
  BY <1>11 DEF Crash, Idle, RequestInv
<1>12. CASE UNCHANGED vars
  BY <1>12 DEF vars, RequestInv
<1> QED
  BY <1>1, <1>2, <1>3, <1>4, <1>5, <1>6, <1>7, <1>8, <1>9, <1>10, <1>11, <1>12
     DEF Next, Submit, RequestStep

\* A request that is about to insert a reply was so before, or has just read.
LEMMA InsertersStep ==
  ASSUME TypeOK, [Next]_vars, NEW s \in Requests, req'[s].pc = "insert"
  PROVE  \/ req'[s] = req[s]
         \/ ReadTopFloor(s)
<1>1. ASSUME NEW r \in Requests, Submit(r) PROVE req'[s] = req[s]
  BY <1>1 DEF Submit, SubmitPost, SubmitBotReply, ReadForDelete, ReadForEdit, ReadForLock,
              ReadForDrop, Begin, TypeOK
<1>2. ASSUME NEW r \in Requests, RequestStep(r) PROVE req'[s] = req[s] \/ ReadTopFloor(s)
  <2>1. CASE ReadTopFloor(r)
    BY <2>1 DEF ReadTopFloor, TypeOK
  <2>2. CASE CheckDuplicate(r) \/ CheckTopic(r) \/ InsertPost(r)
    <3>1. Finish(r) \/ Goto(r, "gate") \/ Goto(r, "floor") \/ Goto(r, "after")
      BY <2>2 DEF CheckDuplicate, CheckTopic, InsertPost
    <3>2. req[r] \in Posting
      BY <2>2, RequestKinds DEF CheckDuplicate, CheckTopic, InsertPost, TypeOK
    <3> QED
      BY <3>1, <3>2 DEF Finish, Goto, Idle, Posting, TypeOK
  <2>3. CASE AfterPost(r) \/ AfterBotReply(r) \/ CommitDelete(r) \/ CommitEdit(r)
               \/ CommitLock(r) \/ CommitDrop(r)
    BY <2>3 DEF AfterPost, AfterBotReply, CommitDelete, CommitEdit, CommitLock, CommitDrop,
                Finish, Idle, TypeOK
  <2> QED
    BY <1>2, <2>1, <2>2, <2>3 DEF RequestStep
<1>3. ASSUME NEW p \in Posts, JobStep(p) \/ WindowPasses(p) PROVE req'[s] = req[s]
  BY <1>3 DEF JobStep, ModeratorAnswers, ReadForHide, CommitHide, NotifyHidden, WindowPasses
<1>4. ~Crash
  BY DEF Crash, Idle
<1>5. UNCHANGED vars => req'[s] = req[s]
  BY DEF vars
<1> QED
  BY <1>1, <1>2, <1>3, <1>4, <1>5 DEF Next

\* What a request read about floors stays true, since rows only get added.
LEMMA FloorReadStep ==
  ASSUME TypeOK, RequestInv, JobInv, FloorReadInv, FloorsConnected, [Next]_vars
  PROVE  FloorReadInv'
<1>1. RowsKept \/ \E r \in Requests : InsertPost(r)
  BY RowsStep
<1>2. /\ DOMAIN post \subseteq DOMAIN post'
      /\ \A p \in DOMAIN post : post'[p].topic = post[p].topic /\ post'[p].floor = post[p].floor
  BY <1>1, InsertRows DEF RowsKept
<1> SUFFICES ASSUME NEW s \in Requests, req'[s].pc = "insert"
             PROVE  /\ req'[s].floor >= 2
                    /\ req'[s].floor > 2 =>
                         \E q \in DOMAIN post' : /\ post'[q].topic = req'[s].topic
                                                /\ post'[q].floor = req'[s].floor - 1
                    /\ \A q \in req'[s].seen :
                         q \in DOMAIN post' /\ post'[q].floor < req'[s].floor
  BY DEF FloorReadInv, PostsOf
<1>3. CASE req'[s] = req[s]
  BY <1>2, <1>3 DEF FloorReadInv, PostsOf
<1>4. CASE ReadTopFloor(s)
  <2>1. req[s] \in Posting
    BY <1>4, RequestKinds DEF ReadTopFloor, TypeOK
  <2>2. PICK m \in TopFloor(req[s].topic) :
          req' = [req EXCEPT ![s].pc = "insert", ![s].floor = m + 1,
                             ![s].seen = PostsOf(req[s].topic)]
    BY <1>4 DEF ReadTopFloor
  <2>3. /\ req'[s].floor = m + 1
        /\ req'[s].seen = PostsOf(req[s].topic)
        /\ req'[s].topic = req[s].topic
    BY <2>1, <2>2 DEF Posting, TypeOK
  <2>4. post' = post
    BY <1>4 DEF ReadTopFloor
  <2>5. /\ m \in {1} \cup {post[p].floor : p \in PostsOf(req[s].topic)}
        /\ \A p \in PostsOf(req[s].topic) : post[p].floor <= m
    BY <2>2 DEF TopFloor
  <2>6. \A p \in PostsOf(req[s].topic) : p \in DOMAIN post /\ post[p].floor \in Nat
                                          /\ post[p].floor >= 2
    BY DEF PostsOf, TypeOK, PostRow, FloorsConnected
  <2>7. m \in Nat /\ m >= 1
    BY <2>5, <2>6
  <2>8. m # 1 => \E q \in PostsOf(req[s].topic) : post[q].floor = m
    BY <2>5
  <2> QED
    BY <2>3, <2>4, <2>5, <2>6, <2>7, <2>8 DEF PostsOf
<1> QED
  BY <1>3, <1>4, InsertersStep

\* The numbering of floors.
LEMMA FloorsStep ==
  ASSUME TypeOK, TypeOK', RequestInv, JobInv, FloorReadInv, FloorsConnected,
         FloorsNotReused, [Next]_vars
  PROVE  FloorsConnected' /\ FloorsNotReused'
<1>1. CASE RowsKept
  BY <1>1 DEF RowsKept, FloorsConnected, FloorsNotReused, PostsOf, TypeOK, PostRow
<1>2. ASSUME NEW r \in Requests, InsertPost(r)
      PROVE  FloorsConnected' /\ FloorsNotReused'
  <2> DEFINE n == req[r].post
  <2>1. /\ n \notin DOMAIN post
        /\ DOMAIN post' = DOMAIN post \cup {n}
        /\ \A p \in DOMAIN post : post'[p] = post[p]
        /\ post'[n].topic = req[r].topic
        /\ post'[n].floor = req[r].floor
        /\ post'[n].seen = req[r].seen
    BY <1>2, InsertRows
  <2>2. /\ req[r].floor >= 2
        /\ req[r].floor > 2 =>
             \E q \in PostsOf(req[r].topic) : post[q].floor = req[r].floor - 1
        /\ \A q \in req[r].seen : q \in DOMAIN post /\ post[q].floor < req[r].floor
    BY <1>2 DEF InsertPost, FloorReadInv
  <2>3. FloorsConnected'
    BY <2>1, <2>2 DEF FloorsConnected, PostsOf
  <2>4. FloorsNotReused'
    BY <2>1, <2>2 DEF FloorsNotReused
  <2> QED
    BY <2>3, <2>4
<1> QED
  BY <1>1, <1>2, RowsStep

\* Moderation works on existing replies, and tells only after hiding them.
LEMMA JobStepInv ==
  ASSUME TypeOK, RequestInv, JobInv, [Next]_vars
  PROVE  JobInv'
<1>1. RowsKept \/ \E r \in Requests : InsertPost(r)
  BY RowsStep
<1>2. /\ DOMAIN post \subseteq DOMAIN post'
      /\ \A p \in DOMAIN post : ~post[p].live => ~post'[p].live
  BY <1>1, InsertRows DEF RowsKept
<1>3. ASSUME NEW r \in Requests, AfterPost(r) PROVE JobInv'
  BY <1>3, <1>2 DEF AfterPost, RequestInv, JobInv, TypeOK
<1>4. ASSUME NEW p \in Posts, JobStep(p) PROVE JobInv'
  <2>1. CASE CommitHide(p)
    BY <2>1, <1>2, SoftDeleteRows DEF CommitHide, JobInv, TypeOK
  <2> QED
    BY <1>2, <1>4, <2>1
       DEF JobStep, ModeratorAnswers, ReadForHide, NotifyHidden, JobInv, TypeOK
<1>5. CASE Crash
  BY <1>5 DEF Crash, JobInv
<1>6. CASE job' = job
  BY <1>2, <1>6 DEF JobInv
<1> QED
  BY <1>3, <1>4, <1>5, <1>6
     DEF Next, Submit, RequestStep, vars, SubmitPost, SubmitBotReply,
         ReadForDelete, ReadForEdit, ReadForLock, ReadForDrop, CheckDuplicate, CheckTopic,
         ReadTopFloor, InsertPost, AfterBotReply, CommitDelete, CommitEdit, CommitLock,
         CommitDrop, WindowPasses

\* Whoever was told that a reply is hidden can check it.
LEMMA HiddenNoticeStep ==
  ASSUME TypeOK, RequestInv, JobInv, HiddenNoticeIsTrue, [Next]_vars
  PROVE  HiddenNoticeIsTrue'
<1>1. RowsKept \/ \E r \in Requests : InsertPost(r)
  BY RowsStep
<1>2. \A p \in DOMAIN post :
        /\ p \in DOMAIN post' /\ post'[p].author = post[p].author
        /\ ~post[p].live => ~post'[p].live
  BY <1>1, InsertRows DEF RowsKept
<1>3. \A e \in effects' : e.kind = "hidden" =>
        \/ e \in effects
        \/ e.post \in DOMAIN post /\ ~post[e.post].live /\ e.to = post[e.post].author
  <2>1. ASSUME NEW r \in Requests, AfterPost(r) \/ AfterBotReply(r),
               NEW e \in effects', e.kind = "hidden"
        PROVE  e \in effects
    BY <2>1 DEF AfterPost, AfterBotReply, EffectsOfPost, EffectsOf
  <2>2. ASSUME NEW p \in Posts, NotifyHidden(p), NEW e \in effects', e \notin effects
        PROVE  e.post \in DOMAIN post /\ ~post[e.post].live /\ e.to = post[e.post].author
    BY <2>2 DEF NotifyHidden, EffectsOf, JobInv
  <2>3. \/ effects' = effects
        \/ \E r \in Requests : AfterPost(r) \/ AfterBotReply(r)
        \/ \E p \in Posts : NotifyHidden(p)
    BY DEF Next, Submit, RequestStep, JobStep, vars, SubmitPost, SubmitBotReply,
           ReadForDelete, ReadForEdit, ReadForLock, ReadForDrop, CheckDuplicate, CheckTopic,
           ReadTopFloor, InsertPost, CommitDelete, CommitEdit, CommitLock, CommitDrop,
           ModeratorAnswers, ReadForHide, CommitHide, WindowPasses, Crash
  <2> QED
    BY <2>1, <2>2, <2>3
<1> QED
  BY <1>2, <1>3 DEF HiddenNoticeIsTrue

LEMMA FiniteStep ==
  ASSUME TypeOK, RequestInv, JobInv, IsFiniteSet(DOMAIN post), [Next]_vars
  PROVE  IsFiniteSet(DOMAIN post)'
<1>1. CASE RowsKept
  BY <1>1 DEF RowsKept
<1>2. ASSUME NEW r \in Requests, InsertPost(r) PROVE IsFiniteSet(DOMAIN post)'
  <2>1. DOMAIN post' = DOMAIN post \cup {req[r].post}
    BY <1>2, InsertRows
  <2>2. IsFiniteSet(DOMAIN post \cup {req[r].post})
    BY FS_AddElement
  <2> QED
    BY <2>1, <2>2
<1> QED
  BY <1>1, <1>2, RowsStep

-----------------------------------------------------------------------------
(* The counter.                                                            *)

LEMMA DecrementedFits ==
  ASSUME NEW n \in Nat, NEW k \in Nat, n <= k
  PROVE  Decremented(n) <= k /\ (k >= 1 => Decremented(n) <= k - 1)
BY DEF Decremented

\* A deletion takes at most one reply out of sight and, if it takes one, takes
\* one off the counter; if the reply was gone already, only the counter drops.
LEMMA SoftDeleteCount ==
  ASSUME TypeOK, IsFiniteSet(DOMAIN post), ReplyCountNeverOver,
         NEW p \in DOMAIN post, SoftDelete(p)
  PROVE  ReplyCountNeverOver'
<1> SUFFICES ASSUME NEW t \in Topics
             PROVE  topic'[t].replies <= Cardinality(LivePostsOf(t)')
  BY DEF ReplyCountNeverOver, LivePostsOf, PostsOf
<1>1. LivePostsOf(t)' = LivePostsOf(t) \ {p}
  BY DEF SoftDelete, LivePostsOf, PostsOf, TypeOK, PostRow
<1>2. IsFiniteSet(LivePostsOf(t))
  BY FS_Subset DEF LivePostsOf, PostsOf
<1>3. /\ Cardinality(LivePostsOf(t)) \in Nat
      /\ Cardinality(LivePostsOf(t)') = IF p \in LivePostsOf(t)
                                         THEN Cardinality(LivePostsOf(t)) - 1
                                         ELSE Cardinality(LivePostsOf(t))
      /\ p \in LivePostsOf(t) => Cardinality(LivePostsOf(t)) >= 1
  <2>1. Cardinality(LivePostsOf(t)) = 0 => LivePostsOf(t) = {}
    BY <1>2, FS_EmptySet
  <2>2. Cardinality(LivePostsOf(t)) \in Nat
    BY <1>2, FS_CardinalityType
  <2>3. Cardinality(LivePostsOf(t) \ {p}) = IF p \in LivePostsOf(t)
                                            THEN Cardinality(LivePostsOf(t)) - 1
                                            ELSE Cardinality(LivePostsOf(t))
    BY <1>2, FS_RemoveElement
  <2>4. p \in LivePostsOf(t) => Cardinality(LivePostsOf(t)) # 0
    BY <2>1
  <2> QED
    BY <1>1, <2>2, <2>3, <2>4
<1>4. topic[t].replies \in Nat /\ topic[t].replies <= Cardinality(LivePostsOf(t))
  BY DEF TypeOK, TopicRow, ReplyCountNeverOver
<1>5. CASE t = post[p].topic
  <2>1. topic'[t].replies = Decremented(topic[t].replies)
    BY <1>5 DEF SoftDelete, TypeOK, TopicRow
  <2> QED
    BY <1>3, <1>4, <2>1, DecrementedFits
<1>6. CASE t # post[p].topic
  <2>1. topic'[t] = topic[t] /\ p \notin LivePostsOf(t)
    BY <1>6 DEF SoftDelete, LivePostsOf, PostsOf, TypeOK
  <2> QED
    BY <1>3, <1>4, <2>1
<1> QED
  BY <1>5, <1>6

LEMMA InsertCount ==
  ASSUME TypeOK, RequestInv, IsFiniteSet(DOMAIN post), ReplyCountNeverOver,
         NEW r \in Requests, InsertPost(r)
  PROVE  ReplyCountNeverOver'
<1> SUFFICES ASSUME NEW t \in Topics
             PROVE  topic'[t].replies <= Cardinality(LivePostsOf(t)')
  BY DEF ReplyCountNeverOver, LivePostsOf, PostsOf
<1> DEFINE n == req[r].post
<1>1. /\ n \notin DOMAIN post
      /\ DOMAIN post' = DOMAIN post \cup {n}
      /\ \A p \in DOMAIN post : post'[p] = post[p]
      /\ post'[n].topic = req[r].topic /\ post'[n].live
  BY InsertRows
<1>2. IsFiniteSet(LivePostsOf(t)) /\ n \notin LivePostsOf(t)
  BY <1>1, FS_Subset DEF LivePostsOf, PostsOf
<1>3. topic[t].replies \in Nat /\ topic[t].replies <= Cardinality(LivePostsOf(t))
      /\ Cardinality(LivePostsOf(t)) \in Nat
  BY <1>2, FS_CardinalityType DEF TypeOK, TopicRow, ReplyCountNeverOver
<1>4. CASE t = req[r].topic
  <2>1. LivePostsOf(t)' = LivePostsOf(t) \cup {n}
    BY <1>1, <1>4 DEF LivePostsOf, PostsOf
  <2>2. topic'[t].replies = topic[t].replies + 1
    BY <1>4 DEF InsertPost, TypeOK, TopicRow
  <2>3. Cardinality(LivePostsOf(t) \cup {n}) = Cardinality(LivePostsOf(t)) + 1
    BY <1>2, FS_AddElement
  <2> QED
    BY <1>3, <2>1, <2>2, <2>3
<1>5. CASE t # req[r].topic
  <2>1. LivePostsOf(t)' = LivePostsOf(t)
    BY <1>1, <1>5 DEF LivePostsOf, PostsOf
  <2>2. topic'[t] = topic[t]
    BY <1>5 DEF InsertPost, TypeOK
  <2> QED
    BY <1>3, <2>1, <2>2
<1> QED
  BY <1>4, <1>5

LEMMA CountStep ==
  ASSUME TypeOK, RequestInv, JobInv, IsFiniteSet(DOMAIN post), ReplyCountNeverOver,
         [Next]_vars
  PROVE  ReplyCountNeverOver'
<1> DEFINE SameCount ==
      /\ DOMAIN post' = DOMAIN post
      /\ \A p \in DOMAIN post : post'[p].topic = post[p].topic /\ post'[p].live = post[p].live
      /\ \A t \in Topics : topic'[t].replies = topic[t].replies
<1>1. SameCount => ReplyCountNeverOver'
  <2> SUFFICES ASSUME SameCount, NEW t \in Topics
               PROVE  topic'[t].replies <= Cardinality(LivePostsOf(t)')
    BY DEF ReplyCountNeverOver, LivePostsOf, PostsOf
  <2>1. LivePostsOf(t)' = LivePostsOf(t)
    BY DEF LivePostsOf, PostsOf
  <2> QED
    BY <2>1 DEF ReplyCountNeverOver
<1>2. ASSUME NEW r \in Requests, RequestStep(r) PROVE ReplyCountNeverOver'
  <2>1. CASE InsertPost(r)
    BY <2>1, InsertCount
  <2>2. CASE CommitDelete(r)
    BY <2>2, SoftDeleteCount DEF CommitDelete, RequestInv
  <2>3. CASE CommitEdit(r)
    BY <2>3, <1>1 DEF CommitEdit, RequestInv, TypeOK, PostRow
  <2>4. CASE CommitLock(r) \/ CommitDrop(r)
    BY <2>4, <1>1 DEF CommitLock, CommitDrop, TypeOK, TopicRow
  <2>5. CASE CheckDuplicate(r) \/ CheckTopic(r) \/ ReadTopFloor(r) \/ AfterPost(r)
               \/ AfterBotReply(r)
    BY <2>5, <1>1 DEF CheckDuplicate, CheckTopic, ReadTopFloor, AfterPost, AfterBotReply
  <2> QED
    BY <1>2, <2>1, <2>2, <2>3, <2>4, <2>5 DEF RequestStep
<1>3. ASSUME NEW p \in Posts, JobStep(p) \/ WindowPasses(p) PROVE ReplyCountNeverOver'
  <2>1. CASE CommitHide(p)
    BY <2>1, SoftDeleteCount DEF CommitHide, JobInv
  <2>2. CASE WindowPasses(p)
    BY <2>2, <1>1 DEF WindowPasses, TypeOK, PostRow
  <2>3. CASE ModeratorAnswers(p) \/ ReadForHide(p) \/ NotifyHidden(p)
    BY <2>3, <1>1 DEF ModeratorAnswers, ReadForHide, NotifyHidden
  <2> QED
    BY <1>3, <2>1, <2>2, <2>3 DEF JobStep
<1>4. ASSUME NEW r \in Requests, Submit(r) PROVE ReplyCountNeverOver'
  BY <1>4, <1>1 DEF Submit, SubmitPost, SubmitBotReply, ReadForDelete, ReadForEdit,
                    ReadForLock, ReadForDrop
<1>5. CASE Crash \/ UNCHANGED vars
  BY <1>5, <1>1 DEF Crash, vars
<1> QED
  BY <1>2, <1>3, <1>4, <1>5 DEF Next

-----------------------------------------------------------------------------
(* Who is told of a reply, and what a lock keeps out.                      *)

Notice(e) == e.kind \in {"reply", "parent", "mention"}

\* A notice of a reply goes to somebody else than its author, and to the topic
\* owner by one route only; a request that is about to send them carries the
\* author and the topic of the row it inserted.
ToldInv ==
  /\ \A e \in effects : Notice(e) =>
       /\ e.post \in DOMAIN post
       /\ e.to # post[e.post].author
       /\ e.to = TopicOwner[post[e.post].topic] => e.kind = "reply"
  /\ \A r \in Requests : req[r].pc = "after" =>
       /\ req[r].post \in DOMAIN post
       /\ post[req[r].post].author = req[r].author
       /\ post[req[r].post].topic = req[r].topic

LEMMA ToldImplies ==
  ASSUME TypeOK, ToldInv
  PROVE  OwnerToldOnce
<1>1. \A e, f \in Effect : e.kind = f.kind /\ e.post = f.post /\ e.to = f.to => e = f
  BY DEF Effect
<1> QED
  BY <1>1 DEF OwnerToldOnce, ToldInv, Notice, TypeOK

\* The requests about to send notices were so before, or have just inserted.
LEMMA TellersStep ==
  ASSUME TypeOK, [Next]_vars, NEW s \in Requests, req'[s].pc = "after"
  PROVE  \/ req'[s] = req[s]
         \/ InsertPost(s)
<1>1. ASSUME NEW r \in Requests, Submit(r) PROVE req'[s] = req[s]
  BY <1>1 DEF Submit, SubmitPost, SubmitBotReply, ReadForDelete, ReadForEdit, ReadForLock,
              ReadForDrop, Begin, TypeOK
<1>2. ASSUME NEW r \in Requests, RequestStep(r) PROVE req'[s] = req[s] \/ InsertPost(s)
  <2>1. CASE ReadTopFloor(r)
    <3>1. req[r] \in Posting
      BY <2>1, RequestKinds DEF ReadTopFloor, TypeOK
    <3> QED
      BY <2>1, <3>1 DEF ReadTopFloor, Posting, TypeOK
  <2>2. CASE CheckDuplicate(r) \/ CheckTopic(r)
    <3>1. Finish(r) \/ Goto(r, "gate") \/ Goto(r, "floor")
      BY <2>2 DEF CheckDuplicate, CheckTopic
    <3>2. req[r] \in Posting
      BY <2>2, RequestKinds DEF CheckDuplicate, CheckTopic, TypeOK
    <3> QED
      BY <3>1, <3>2 DEF Finish, Goto, Idle, Posting, TypeOK
  <2>3. CASE InsertPost(r)
    BY <2>3 DEF InsertPost, Goto, TypeOK
  <2>4. CASE AfterPost(r) \/ AfterBotReply(r) \/ CommitDelete(r) \/ CommitEdit(r)
               \/ CommitLock(r) \/ CommitDrop(r)
    BY <2>4 DEF AfterPost, AfterBotReply, CommitDelete, CommitEdit, CommitLock, CommitDrop,
                Finish, Idle, TypeOK
  <2> QED
    BY <1>2, <2>1, <2>2, <2>3, <2>4 DEF RequestStep
<1>3. ASSUME NEW p \in Posts, JobStep(p) \/ WindowPasses(p) PROVE req'[s] = req[s]
  BY <1>3 DEF JobStep, ModeratorAnswers, ReadForHide, CommitHide, NotifyHidden, WindowPasses
<1>4. ~Crash
  BY DEF Crash, Idle
<1>5. UNCHANGED vars => req'[s] = req[s]
  BY DEF vars
<1> QED
  BY <1>1, <1>2, <1>3, <1>4, <1>5 DEF Next

LEMMA ToldStep ==
  ASSUME TypeOK, RequestInv, JobInv, ToldInv, [Next]_vars
  PROVE  ToldInv'
<1>1. RowsKept \/ \E r \in Requests : InsertPost(r)
  BY RowsStep
<1>2. \A p \in DOMAIN post :
        /\ p \in DOMAIN post'
        /\ post'[p].author = post[p].author
        /\ post'[p].topic = post[p].topic
  BY <1>1, InsertRows DEF RowsKept
<1>3. \A e \in effects' : Notice(e) =>
        \/ e \in effects
        \/ /\ e.post \in DOMAIN post
           /\ e.to # post[e.post].author
           /\ e.to = TopicOwner[post[e.post].topic] => e.kind = "reply"
  <2>1. ASSUME NEW r \in Requests, AfterPost(r),
               NEW e \in effects', Notice(e), e \notin effects
        PROVE  /\ e.post \in DOMAIN post
               /\ e.to # post[e.post].author
               /\ e.to = TopicOwner[post[e.post].topic] => e.kind = "reply"
    <3> DEFINE q == req[r]
    <3>1. /\ q.post \in DOMAIN post
          /\ post[q.post].author = q.author
          /\ post[q.post].topic = q.topic
      BY <2>1 DEF AfterPost, ToldInv
    <3>2. PICK mentioned \in SUBSET Users, parents \in SUBSET LivePostsOf(q.topic) :
            effects' = effects \cup EffectsOfPost(q, mentioned, parents)
      BY <2>1 DEF AfterPost
    <3>3. e \in EffectsOfPost(q, mentioned, parents)
      BY <2>1, <3>2
    <3>4. \/ e \in EffectsOf("reply", q.post, OwnerTold(q))
          \/ \E x \in parents : e \in EffectsOf("parent", q.post, ParentTold(q, x))
          \/ e \in EffectsOf("mention", q.post, MentionTold(q, mentioned))
      BY <2>1, <3>3 DEF EffectsOfPost, EffectsOf, Notice
    <3>5. CASE e \in EffectsOf("reply", q.post, OwnerTold(q))
      BY <3>1, <3>5 DEF EffectsOf, OwnerTold
    <3>6. CASE \E x \in parents : e \in EffectsOf("parent", q.post, ParentTold(q, x))
      BY <3>1, <3>6 DEF EffectsOf, ParentTold
    <3>7. CASE e \in EffectsOf("mention", q.post, MentionTold(q, mentioned))
      BY <3>1, <3>7 DEF EffectsOf, MentionTold
    <3> QED
      BY <3>4, <3>5, <3>6, <3>7
  <2>2. ASSUME NEW r \in Requests, AfterBotReply(r), NEW e \in effects', e \notin effects
        PROVE  /\ e.post \in DOMAIN post
               /\ e.to # post[e.post].author
               /\ e.to = TopicOwner[post[e.post].topic] => e.kind = "reply"
    <3>1. /\ req[r].post \in DOMAIN post
          /\ post[req[r].post].author = req[r].author
          /\ post[req[r].post].topic = req[r].topic
      BY <2>2 DEF AfterBotReply, ToldInv
    <3>2. e \in EffectsOf("reply", req[r].post, OwnerTold(req[r]))
      BY <2>2 DEF AfterBotReply
    <3> QED
      BY <3>1, <3>2 DEF EffectsOf, OwnerTold
  <2>3. ASSUME NEW p \in Posts, NotifyHidden(p), NEW e \in effects', Notice(e)
        PROVE  e \in effects
    BY <2>3 DEF NotifyHidden, EffectsOf, Notice
  <2>4. \/ effects' = effects
        \/ \E r \in Requests : AfterPost(r) \/ AfterBotReply(r)
        \/ \E p \in Posts : NotifyHidden(p)
    BY DEF Next, Submit, RequestStep, JobStep, vars, SubmitPost, SubmitBotReply,
           ReadForDelete, ReadForEdit, ReadForLock, ReadForDrop, CheckDuplicate, CheckTopic,
           ReadTopFloor, InsertPost, CommitDelete, CommitEdit, CommitLock, CommitDrop,
           ModeratorAnswers, ReadForHide, CommitHide, WindowPasses, Crash
  <2> QED
    BY <2>1, <2>2, <2>3, <2>4
<1>4. ASSUME NEW r \in Requests, req'[r].pc = "after"
      PROVE  /\ req'[r].post \in DOMAIN post'
             /\ post'[req'[r].post].author = req'[r].author
             /\ post'[req'[r].post].topic = req'[r].topic
  <2>1. CASE req'[r] = req[r]
    BY <1>2, <1>4, <2>1 DEF ToldInv
  <2>2. CASE InsertPost(r)
    <3>1. /\ req'[r].post = req[r].post
          /\ req'[r].author = req[r].author
          /\ req'[r].topic = req[r].topic
      BY <2>2, InsertRows DEF InsertPost, Goto, Posting, TypeOK
    <3> QED
      BY <2>2, <3>1, InsertRows
  <2> QED
    BY <1>4, <2>1, <2>2, TellersStep
<1>5. ASSUME NEW e \in effects', Notice(e)
      PROVE  /\ e.post \in DOMAIN post'
             /\ e.to # post'[e.post].author
             /\ e.to = TopicOwner[post'[e.post].topic] => e.kind = "reply"
  BY <1>2, <1>3, <1>5 DEF ToldInv
<1> QED
  BY <1>4, <1>5 DEF ToldInv, Notice

\* A request gets past the check of a topic only while the topic is open.
LEMMA GateStep ==
  ASSUME TypeOK, [Next]_vars, NEW t \in Topics, NEW s \in PastGate(t)', Closed(t)
  PROVE  s \in PastGate(t)
<1>0. s \in Requests /\ req'[s] \in Posting /\ req'[s].topic = t
        /\ req'[s].pc \in {"floor", "insert"}
  BY DEF PastGate
<1>1. CASE req'[s] = req[s]
  BY <1>0, <1>1 DEF PastGate
<1>2. ASSUME NEW r \in Requests, Submit(r) PROVE req'[s] = req[s]
  BY <1>0, <1>2 DEF Submit, SubmitPost, SubmitBotReply, ReadForDelete, ReadForEdit, ReadForLock,
              ReadForDrop, Begin, TypeOK
<1>3. ASSUME NEW r \in Requests, RequestStep(r) PROVE s \in PastGate(t)
  <2>1. CASE ReadTopFloor(r)
    <3>1. req[r] \in Posting
      BY <2>1, RequestKinds DEF ReadTopFloor, TypeOK
    <3> QED
      BY <1>0, <2>1, <3>1 DEF ReadTopFloor, Posting, TypeOK, PastGate
  <2>2. CASE CheckTopic(r)
    <3>1. req[r] \in Posting
      BY <2>2, RequestKinds DEF CheckTopic, TypeOK
    <3>2. Finish(r) => s # r
      BY <1>0 DEF Finish, Idle, TypeOK
    <3>3. req'[r].topic = req[r].topic \/ Finish(r)
      BY <2>2, <3>1 DEF CheckTopic, Goto, Posting, TypeOK
    <3>4. s # r
      BY <1>0, <2>2, <3>2, <3>3 DEF CheckTopic
    <3> QED
      BY <1>0, <1>1, <2>2, <3>4 DEF CheckTopic, Finish, Goto, TypeOK
  <2>3. CASE CheckDuplicate(r) \/ InsertPost(r)
    <3>1. Finish(r) \/ Goto(r, "gate") \/ Goto(r, "after")
      BY <2>3 DEF CheckDuplicate, InsertPost
    <3>2. req[r] \in Posting
      BY <2>3, RequestKinds DEF CheckDuplicate, InsertPost, TypeOK
    <3>3. req'[s] = req[s]
      BY <1>0, <3>1, <3>2 DEF Finish, Goto, Idle, Posting, TypeOK
    <3> QED
      BY <1>1, <3>3
  <2>4. CASE AfterPost(r) \/ AfterBotReply(r) \/ CommitDelete(r) \/ CommitEdit(r)
               \/ CommitLock(r) \/ CommitDrop(r)
    <3>1. req'[s] = req[s]
      BY <1>0, <2>4 DEF AfterPost, AfterBotReply, CommitDelete, CommitEdit, CommitLock,
                  CommitDrop, Finish, Idle, TypeOK
    <3> QED
      BY <1>1, <3>1
  <2> QED
    BY <1>3, <2>1, <2>2, <2>3, <2>4 DEF RequestStep
<1>4. ASSUME NEW p \in Posts, JobStep(p) \/ WindowPasses(p) PROVE req'[s] = req[s]
  BY <1>4 DEF JobStep, ModeratorAnswers, ReadForHide, CommitHide, NotifyHidden, WindowPasses
<1>5. ~Crash
  BY <1>0 DEF Crash, Idle
<1>6. UNCHANGED vars => req'[s] = req[s]
  BY DEF vars
<1> QED
  BY <1>1, <1>2, <1>3, <1>4, <1>5, <1>6 DEF Next

-----------------------------------------------------------------------------
(* The theorems.                                                           *)

LEMMA InvInit == Init => Inv /\ ReplyCountNeverOver
<1> SUFFICES ASSUME Init PROVE Inv /\ ReplyCountNeverOver
  OBVIOUS
<1>1. DOMAIN post = {} /\ IsFiniteSet(DOMAIN post)
  BY FS_EmptySet DEF Init
<1>2. \A t \in Topics : LivePostsOf(t) = {}
  BY <1>1 DEF LivePostsOf, PostsOf
<1>3. ReplyCountNeverOver
  <2>1. Cardinality({}) = 0
    BY FS_EmptySet
  <2>2. \A t \in Topics : topic[t].replies = 0 /\ Cardinality(LivePostsOf(t)) = 0
    BY <1>2, <2>1 DEF Init
  <2> QED
    BY <2>2 DEF ReplyCountNeverOver
<1> QED
  BY <1>1, <1>3, TypeInit
     DEF Init, Inv, RequestInv, Unwritten, FloorReadInv, JobInv, FloorsConnected,
         FloorsNotReused, HiddenNoticeIsTrue, Idle

LEMMA InvStep == Inv /\ [Next]_vars => Inv'
<1> SUFFICES ASSUME Inv, [Next]_vars PROVE Inv'
  OBVIOUS
<1>1. TypeOK'
  BY TypeStep DEF Inv
<1> QED
  BY <1>1, RequestInvStep, FloorReadStep, FloorsStep, JobStepInv, HiddenNoticeStep,
     FiniteStep DEF Inv

LEMMA SpecInv == Spec => []Inv
BY InvInit, InvStep, PTL DEF Spec

\* The state of the reply component is well typed in every reachable state.
THEOREM ThreadTypeCorrect == Spec => []TypeOK
<1>1. Inv => TypeOK
  BY DEF Inv
<1> QED
  BY <1>1, SpecInv, PTL

\* However admins, moderation and authors overlap, the reply_count shown with
\* a topic is at most the number of its visible replies.
THEOREM ReplyCountSafe == Spec => []ReplyCountNeverOver
<1>1. Inv /\ ReplyCountNeverOver /\ [Next]_vars => ReplyCountNeverOver'
  BY CountStep DEF Inv
<1>2. Init => ReplyCountNeverOver
  BY InvInit
<1> QED
  BY <1>1, <1>2, SpecInv, PTL DEF Spec

\* Floor numbers start at 2, leave no gaps, and a reply is numbered above all
\* the replies its transaction saw.
THEOREM FloorsSafe == Spec => [](FloorsConnected /\ FloorsNotReused)
<1>1. Inv => FloorsConnected /\ FloorsNotReused
  BY DEF Inv
<1> QED
  BY <1>1, SpecInv, PTL

\* An author is told that moderation hid a reply only when it is hidden.
THEOREM HiddenNoticeSafe == Spec => []HiddenNoticeIsTrue
<1>1. Inv => HiddenNoticeIsTrue
  BY DEF Inv
<1> QED
  BY <1>1, SpecInv, PTL

\* No interleaving of an edit with a deletion changes or revives a deleted reply.
THEOREM DeletedSafe == Spec => DeletedStaysDeleted
<1>1. Inv /\ [Next]_vars =>
        [\A p \in DOMAIN post : ~post[p].live =>
           ~post'[p].live /\ post'[p].text = post[p].text]_vars
  BY RowsStep, InsertRows DEF Inv, RowsKept
<1> QED
  BY <1>1, SpecInv, PTL DEF Spec, DeletedStaysDeleted

\* The author of a reply is told of it by no route, the topic owner by one.
THEOREM OwnerToldSafe == Spec => []OwnerToldOnce
<1>1. Init => ToldInv
  BY DEF Init, ToldInv, Idle
<1>2. Inv /\ ToldInv /\ [Next]_vars => ToldInv'
  BY ToldStep DEF Inv
<1>3. Inv /\ ToldInv => OwnerToldOnce
  BY ToldImplies DEF Inv
<1> QED
  BY <1>1, <1>2, <1>3, SpecInv, PTL DEF Spec

\* While a topic stays locked or deleted, no request gets past the check.
THEOREM LockDrainsSafe == Spec => LockDrains
<1>1. Inv /\ [Next]_vars =>
        [\A t \in Topics :
           /\ topic[t].locked \/ topic[t].deleted
           /\ topic'[t].locked \/ topic'[t].deleted
           => PastGate(t)' \subseteq PastGate(t)]_vars
  BY GateStep DEF Inv, Closed
<1> QED
  BY <1>1, SpecInv, PTL DEF Spec, LockDrains

-----------------------------------------------------------------------------
(* Goroutines that do not overlap.                                         *)

\* One request or one moderation is at work at most.
AloneInv ==
  /\ \A r, s \in Requests : req[r] # Idle /\ req[s] # Idle => r = s
  /\ \A p, q \in Posts : job[p] # "none" /\ job[q] # "none" => p = q
  /\ \A r \in Requests, p \in Posts : req[r] # Idle => job[p] = "none"

CountExact == \A t \in Topics : topic[t].replies = Cardinality(LivePostsOf(t))

\* What a goroutine read is still so when it writes.
FreshReads ==
  /\ \A r \in Requests : req[r].pc = "softdelete" => post[req[r].post].live
  /\ \A p \in Posts : job[p] = "commit" => post[p].live
  /\ \A r \in Requests : req[r].pc = "insert" => req[r].seen = PostsOf(req[r].topic)
  /\ \A r \in Requests : req[r].pc \in {"gate", "floor", "insert"} /\ ~req[r].bot =>
       ~IsDuplicate(req[r].author, req[r].topic, req[r].text)

ApartInv == ~overlap => AloneInv /\ CountExact /\ FloorsUnique /\ FreshReads

LEMMA AtMostOne ==
  ASSUME NEW S, \A x, y \in S : x = y
  PROVE  IsFiniteSet(S) /\ Cardinality(S) \in Nat /\ (Cardinality(S) = 0 => S = {})
<1>1. CASE S = {}
  BY <1>1, FS_EmptySet
<1>2. ASSUME NEW x \in S PROVE IsFiniteSet(S) /\ Cardinality(S) \in Nat /\ Cardinality(S) # 0
  <2>1. S = {} \cup {x} /\ x \notin {}
    OBVIOUS
  <2>2. IsFiniteSet({}) /\ Cardinality({}) = 0
    BY FS_EmptySet
  <2>3. IsFiniteSet({} \cup {x}) /\ Cardinality({} \cup {x}) = 1
    BY <2>2, FS_AddElement
  <2> QED
    BY <2>1, <2>3
<1> QED
  BY <1>1, <1>2

\* A request that begins without setting "overlap" finds nobody at work.
LEMMA BeginsAlone ==
  ASSUME AloneInv, ~BeginsBesideOthers, NEW r \in Requests, req[r] = Idle, req'[r] # Idle
  PROVE  (\A s \in Requests : req[s] = Idle) /\ (\A p \in Posts : job[p] = "none")
<1> DEFINE W == {s \in Requests : req[s] # Idle}
           J == {p \in Posts : job[p] # "none"}
<1>1. Cardinality(W) \in Nat /\ (Cardinality(W) = 0 => W = {})
  BY AtMostOne DEF AloneInv
<1>2. Cardinality(J) \in Nat /\ (Cardinality(J) = 0 => J = {})
  BY AtMostOne DEF AloneInv
<1>3. ~(Cardinality(W) + Cardinality(J) > 0)
  BY DEF BeginsBesideOthers, InFlight
<1> HIDE DEF W, J
<1>4. W = {} /\ J = {}
  BY <1>1, <1>2, <1>3
<1> QED
  BY <1>4 DEF W, J

\* The steps, as what they do to requests and moderations: r begins from rest,
\* r goes on or ends, r ends and leaves a moderation, or a moderation goes on.
Begins(r) == /\ req[r] = Idle /\ UNCHANGED job
             /\ \A s \in Requests : s # r => req'[s] = req[s]
GoesOn(r) == /\ req[r] # Idle /\ UNCHANGED job
             /\ \A s \in Requests : s # r => req'[s] = req[s]
HandsOver(r, p) == /\ req[r] # Idle /\ req'[r] = Idle
                   /\ \A s \in Requests : s # r => req'[s] = req[s]
                   /\ \A q \in Posts : q # p => job'[q] = job[q]
Moderates(p) == /\ job[p] # "none" /\ UNCHANGED req
                /\ \A q \in Posts : q # p => job'[q] = job[q]
Rests == (\A r \in Requests : req'[r] = Idle) /\ (\A p \in Posts : job'[p] = "none")

LEMMA ReqSet ==
  ASSUME TypeOK, NEW r \in Requests, NEW q, req' = [req EXCEPT ![r] = q]
  PROVE  req'[r] = q /\ \A s \in Requests : s # r => req'[s] = req[s]
BY DEF TypeOK

LEMMA RequestGoesOn ==
  ASSUME TypeOK, NEW r \in Requests, RequestStep(r)
  PROVE  GoesOn(r) \/ (AfterPost(r) /\ \E p \in Posts : HandsOver(r, p))
<1>1. ASSUME req[r] # Idle, UNCHANGED job, Finish(r) \/ \E pc : Goto(r, pc) PROVE GoesOn(r)
  BY <1>1 DEF GoesOn, Finish, Goto, TypeOK
<1>2. CASE CheckDuplicate(r)
  BY <1>1, <1>2 DEF CheckDuplicate, Idle
<1>3. CASE CheckTopic(r)
  BY <1>1, <1>3 DEF CheckTopic, Idle
<1>4. CASE ReadTopFloor(r)
  BY <1>4 DEF ReadTopFloor, Idle, GoesOn, TypeOK
<1>5. CASE InsertPost(r)
  BY <1>1, <1>5 DEF InsertPost, Idle
<1>6. CASE AfterPost(r)
  <2>1. req[r] # Idle /\ req' = [req EXCEPT ![r] = Idle]
    BY <1>6 DEF AfterPost, Idle, Finish
  <2>2. req[r].post \in Posts /\ job' = [job EXCEPT ![req[r].post] = "check"]
    BY <1>6, RequestKinds DEF AfterPost, TypeOK, Posting
  <2>3. HandsOver(r, req[r].post)
    BY <2>1, <2>2, ReqSet DEF HandsOver, TypeOK
  <2> QED
    BY <1>6, <2>2, <2>3
<1>7. CASE AfterBotReply(r)
  BY <1>1, <1>7 DEF AfterBotReply, Idle
<1>8. CASE CommitDelete(r) \/ CommitEdit(r) \/ CommitLock(r) \/ CommitDrop(r)
  BY <1>1, <1>8 DEF CommitDelete, CommitEdit, CommitLock, CommitDrop, Idle
<1> QED
  BY <1>2, <1>3, <1>4, <1>5, <1>6, <1>7, <1>8 DEF RequestStep

LEMMA SubmitBegins ==
  ASSUME TypeOK, NEW r \in Requests, Submit(r)
  PROVE  Begins(r) /\ req'[r] # Idle /\ UNCHANGED <<topic, post>>
<1>1. ASSUME NEW q, Begin(r, q), q.pc # "idle", UNCHANGED <<topic, post, job>>
      PROVE  Begins(r) /\ req'[r] # Idle /\ UNCHANGED <<topic, post>>
  <2>1. q # Idle
    BY <1>1 DEF Idle
  <2>2. req[r] = Idle /\ req' = [req EXCEPT ![r] = q]
    BY <1>1 DEF Begin
  <2>3. req'[r] = q /\ \A s \in Requests : s # r => req'[s] = req[s]
    BY <2>2, ReqSet
  <2> QED
    BY <1>1, <2>1, <2>2, <2>3 DEF Begins
<1>2. ASSUME NEW u \in Users, NEW t \in Topics, NEW c \in Texts, NEW p \in Posts,
             SubmitPost(r, u, t, c, p) \/ SubmitBotReply(r, u, t, c, p)
      PROVE  Begins(r) /\ req'[r] # Idle /\ UNCHANGED <<topic, post>>
  BY <1>1, <1>2 DEF SubmitPost, SubmitBotReply
<1>3. ASSUME NEW p \in Posts, ReadForDelete(r, p)
      PROVE  Begins(r) /\ req'[r] # Idle /\ UNCHANGED <<topic, post>>
  BY <1>1, <1>3 DEF ReadForDelete
<1>4. ASSUME NEW u \in Users, NEW p \in Posts, NEW c \in Texts, ReadForEdit(r, u, p, c)
      PROVE  Begins(r) /\ req'[r] # Idle /\ UNCHANGED <<topic, post>>
  BY <1>1, <1>4 DEF ReadForEdit
<1>5. ASSUME NEW t \in Topics, ReadForDrop(r, t) \/ \E b \in BOOLEAN : ReadForLock(r, t, b)
      PROVE  Begins(r) /\ req'[r] # Idle /\ UNCHANGED <<topic, post>>
  BY <1>1, <1>5 DEF ReadForDrop, ReadForLock
<1> QED
  BY <1>2, <1>3, <1>4, <1>5 DEF Submit

LEMMA JobGoesOn ==
  ASSUME TypeOK, NEW p \in Posts, JobStep(p)
  PROVE  Moderates(p)
BY DEF JobStep, ModeratorAnswers, ReadForHide, CommitHide, NotifyHidden, Moderates, TypeOK

LEMMA AloneStep ==
  ASSUME TypeOK, AloneInv, ~BeginsBesideOthers, [Next]_vars
  PROVE  AloneInv'
<1>1. ASSUME NEW r \in Requests, Submit(r) PROVE AloneInv'
  <2>1. Begins(r) /\ req'[r] # Idle
    BY <1>1, SubmitBegins
  <2>2. (\A s \in Requests : req[s] = Idle) /\ (\A p \in Posts : job[p] = "none")
    BY <2>1, BeginsAlone DEF Begins
  <2> QED
    BY <2>1, <2>2 DEF AloneInv, Begins
<1>2. ASSUME NEW r \in Requests, GoesOn(r) PROVE AloneInv'
  BY <1>2 DEF AloneInv, GoesOn
<1>3. ASSUME NEW r \in Requests, NEW p \in Posts, HandsOver(r, p) PROVE AloneInv'
  BY <1>3 DEF AloneInv, HandsOver
<1>4. ASSUME NEW p \in Posts, Moderates(p) PROVE AloneInv'
  BY <1>4 DEF AloneInv, Moderates
<1>5. ASSUME Rests PROVE AloneInv'
  BY <1>5 DEF AloneInv, Rests
<1>6. ASSUME UNCHANGED <<req, job>> PROVE AloneInv'
  BY <1>6 DEF AloneInv
<1>7. Crash => Rests
  BY DEF Crash, Rests
<1> QED
  BY <1>1, <1>2, <1>3, <1>4, <1>5, <1>6, <1>7, RequestGoesOn, JobGoesOn
     DEF Next, WindowPasses, vars

\* Rows and counters as far as counts and floors go.
RowsSame ==
  /\ DOMAIN post' = DOMAIN post
  /\ \A p \in DOMAIN post : /\ post'[p].topic = post[p].topic /\ post'[p].live = post[p].live
                            /\ post'[p].floor = post[p].floor
  /\ \A t \in Topics : topic'[t].replies = topic[t].replies

LEMMA RowsSameKeeps ==
  ASSUME RowsSame, CountExact, FloorsUnique
  PROVE  CountExact' /\ FloorsUnique' /\ \A t : PostsOf(t)' = PostsOf(t)
<1>1. \A t : LivePostsOf(t)' = LivePostsOf(t) /\ PostsOf(t)' = PostsOf(t)
  BY DEF RowsSame, LivePostsOf, PostsOf
<1>2. CountExact'
  BY <1>1 DEF RowsSame, CountExact
<1>3. FloorsUnique'
  BY DEF RowsSame, FloorsUnique
<1> QED
  BY <1>1, <1>2, <1>3

\* Deleting a visible reply takes one off the count of its topic.
LEMMA SoftDeleteExact ==
  ASSUME TypeOK, IsFiniteSet(DOMAIN post), CountExact, FloorsUnique,
         NEW p \in DOMAIN post, post[p].live, SoftDelete(p)
  PROVE  CountExact' /\ FloorsUnique'
<1>1. /\ DOMAIN post' = DOMAIN post
      /\ \A q \in DOMAIN post : /\ post'[q].topic = post[q].topic /\ post'[q].floor = post[q].floor
                                /\ post'[q].live = (post[q].live /\ q # p)
  BY DEF SoftDelete, TypeOK, PostRow
<1>2. FloorsUnique'
  BY <1>1 DEF FloorsUnique
<1>3. ASSUME NEW t \in Topics PROVE topic'[t].replies = Cardinality(LivePostsOf(t)')
  <2> DEFINE L == LivePostsOf(t)
  <2>1. L' = L \ {p} /\ (p \in L <=> post[p].topic = t)
    BY <1>1 DEF LivePostsOf, PostsOf
  <2>2. IsFiniteSet(L)
    BY FS_Subset DEF LivePostsOf, PostsOf
  <2>3. Cardinality(L) \in Nat
    BY <2>2, FS_CardinalityType
  <2>4. topic[t].replies = Cardinality(L) /\ topic[t] \in TopicRow
    BY DEF CountExact, TypeOK
  <2>5. CASE post[p].topic = t
    <3>1. topic'[t].replies = Decremented(topic[t].replies)
      BY <2>5 DEF SoftDelete, TypeOK, TopicRow
    <3>2. Cardinality(L \ {p}) = Cardinality(L) - 1
      BY <2>1, <2>2, <2>5, FS_RemoveElement
    <3>3. Cardinality(L \ {p}) \in Nat
      BY <2>2, FS_RemoveElement, FS_CardinalityType
    <3> HIDE DEF L
    <3> QED
      BY <2>1, <2>3, <2>4, <3>1, <3>2, <3>3 DEF Decremented, L
  <2>6. CASE post[p].topic # t
    <3>1. topic'[t] = topic[t]
      BY <2>6 DEF SoftDelete, TypeOK
    <3>2. L' = L
      BY <2>1, <2>6
    <3> QED
      BY <2>4, <3>1, <3>2
  <2> QED
    BY <2>5, <2>6
<1> QED
  BY <1>2, <1>3 DEF CountExact

\* A reply numbered from all replies there are gets a floor of its own.
LEMMA InsertExact ==
  ASSUME Inv, CountExact, FloorsUnique, FreshReads, NEW r \in Requests, InsertPost(r)
  PROVE  CountExact' /\ FloorsUnique'
<1> DEFINE n == req[r].post
<1>1. /\ req[r] \in Posting /\ n \notin DOMAIN post
      /\ DOMAIN post' = DOMAIN post \cup {n}
      /\ \A p \in DOMAIN post : post'[p] = post[p]
      /\ post'[n].topic = req[r].topic /\ post'[n].live /\ post'[n].floor = req[r].floor
  BY InsertRows DEF Inv
<1>2. ASSUME NEW p \in DOMAIN post, post[p].topic = req[r].topic PROVE post[p].floor # req[r].floor
  <2>1. p \in req[r].seen
    BY <1>2 DEF InsertPost, FreshReads, PostsOf
  <2>2. post[p].floor < req[r].floor
    BY <2>1 DEF InsertPost, Inv, FloorReadInv
  <2>3. post[p].floor \in Nat /\ req[r].floor \in Nat
    BY <1>1 DEF Inv, TypeOK, PostRow, Posting
  <2> QED
    BY <2>2, <2>3
<1>3. FloorsUnique'
  BY <1>1, <1>2 DEF FloorsUnique
<1>4. ASSUME NEW t \in Topics PROVE topic'[t].replies = Cardinality(LivePostsOf(t)')
  <2> DEFINE L == LivePostsOf(t)
  <2>1. n \notin L /\ L' = IF t = req[r].topic THEN L \cup {n} ELSE L
    BY <1>1 DEF LivePostsOf, PostsOf
  <2>2. IsFiniteSet(L)
    BY FS_Subset DEF LivePostsOf, PostsOf, Inv
  <2>3. Cardinality(L) \in Nat /\ topic[t].replies = Cardinality(L) /\ topic[t] \in TopicRow
    BY <2>2, FS_CardinalityType DEF CountExact, Inv, TypeOK
  <2>4. topic'[t].replies = IF t = req[r].topic THEN topic[t].replies + 1 ELSE topic[t].replies
    BY DEF InsertPost, Inv, TypeOK, TopicRow
  <2>5. Cardinality(L \cup {n}) = Cardinality(L) + 1
    BY <2>1, <2>2, FS_AddElement
  <2> HIDE DEF L, n
  <2> QED
    BY <2>1, <2>3, <2>4, <2>5 DEF L
<1> QED
  BY <1>3, <1>4 DEF CountExact

LEMMA ExactStep ==
  ASSUME Inv, CountExact, FloorsUnique, FreshReads, [Next]_vars
  PROVE  CountExact' /\ FloorsUnique'
<1>1. UNCHANGED <<topic, post>> => RowsSame
  BY DEF RowsSame
<1>2. ASSUME NEW r \in Requests, CommitDelete(r) PROVE CountExact' /\ FloorsUnique'
  <2>1. req[r].post \in DOMAIN post /\ post[req[r].post].live
    BY <1>2 DEF CommitDelete, FreshReads, Inv, RequestInv
  <2> QED
    BY <1>2, <2>1, SoftDeleteExact DEF CommitDelete, Inv
<1>3. ASSUME NEW p \in Posts, CommitHide(p) PROVE CountExact' /\ FloorsUnique'
  <2>1. p \in DOMAIN post /\ post[p].live
    BY <1>3 DEF CommitHide, FreshReads, Inv, JobInv
  <2> QED
    BY <1>3, <2>1, SoftDeleteExact DEF CommitHide, Inv
<1>4. ASSUME NEW r \in Requests, CommitEdit(r) PROVE RowsSame
  BY <1>4 DEF CommitEdit, RowsSame, Inv, TypeOK, PostRow, RequestInv
<1>5. ASSUME NEW r \in Requests, CommitLock(r) \/ CommitDrop(r) PROVE RowsSame
  BY <1>5 DEF CommitLock, CommitDrop, RowsSame, Inv, TypeOK, TopicRow
<1>6. ASSUME NEW p \in Posts, WindowPasses(p) PROVE RowsSame
  BY <1>6 DEF WindowPasses, RowsSame, Inv, TypeOK, PostRow
<1>7. ASSUME NEW r \in Requests, Submit(r) PROVE RowsSame
  BY <1>1, <1>7, SubmitBegins DEF Inv
<1>8. ASSUME NEW r \in Requests,
             \/ CheckDuplicate(r) \/ CheckTopic(r) \/ ReadTopFloor(r) \/ AfterPost(r) \/ AfterBotReply(r)
      PROVE  RowsSame
  <2>1. UNCHANGED <<topic, post>>
    BY <1>8, Zenon DEF CheckDuplicate, CheckTopic, ReadTopFloor, AfterPost, AfterBotReply
  <2> QED
    BY <1>1, <2>1
<1>9. ASSUME NEW p \in Posts, ModeratorAnswers(p) \/ ReadForHide(p) \/ NotifyHidden(p)
      PROVE  RowsSame
  BY <1>1, <1>9 DEF ModeratorAnswers, ReadForHide, NotifyHidden
<1>10. Crash \/ UNCHANGED vars => RowsSame
  BY <1>1 DEF Crash, vars
<1>11. RowsSame => CountExact' /\ FloorsUnique'
  BY RowsSameKeeps
<1> QED
  BY <1>2, <1>3, <1>4, <1>5, <1>6, <1>7, <1>8, <1>9, <1>10, <1>11, InsertExact
     DEF Next, RequestStep, JobStep

FreshOf(q) ==
  /\ q.pc = "softdelete" => post[q.post].live
  /\ q.pc = "insert" => q.seen = PostsOf(q.topic)
  /\ q.pc \in {"gate", "floor", "insert"} /\ ~q.bot => ~IsDuplicate(q.author, q.topic, q.text)

LEMMA FreshParts ==
  FreshReads <=> /\ \A r \in Requests : FreshOf(req[r])
                 /\ \A p \in Posts : job[p] = "commit" => post[p].live
BY DEF FreshReads, FreshOf

LEMMA FreshPartsAfter ==
  ASSUME \A r \in Requests : FreshOf(req[r])',
         \A p \in Posts : job'[p] = "commit" => post'[p].live
  PROVE  FreshReads'
BY DEF FreshReads, FreshOf

LEMMA IdleIsFresh ==
  ASSUME NEW r \in Requests, req'[r] = Idle
  PROVE  FreshOf(req[r])'
BY DEF FreshOf, Idle

\* Whoever goes on alone has only its own reads to keep fresh.
LEMMA FreshAlone ==
  ASSUME AloneInv, NEW r \in Requests, GoesOn(r), FreshOf(req[r])'
  PROVE  FreshReads'
<1>1. \A p \in Posts : job'[p] = "none"
  BY DEF GoesOn, AloneInv
<1>2. ASSUME NEW s \in Requests PROVE FreshOf(req[s])'
  <2>1. s # r => req'[s] = Idle
    BY DEF GoesOn, AloneInv
  <2> QED
    BY <2>1, IdleIsFresh
<1> QED
  BY <1>1, <1>2, FreshPartsAfter

LEMMA FreshBegun ==
  ASSUME TypeOK, AloneInv, ~BeginsBesideOthers, NEW r \in Requests, Submit(r)
  PROVE  FreshReads'
<1>1. Begins(r) /\ req'[r] # Idle /\ UNCHANGED <<topic, post>>
  BY SubmitBegins
<1>2. (\A s \in Requests : req[s] = Idle) /\ (\A p \in Posts : job[p] = "none")
  BY <1>1, BeginsAlone DEF Begins
<1>3. FreshOf(req[r])'
  <2>1. ASSUME NEW u \in Users, NEW t \in Topics, NEW c \in Texts, NEW p \in Posts,
               SubmitPost(r, u, t, c, p)
        PROVE  req'[r].pc = "dedup"
    BY <2>1 DEF SubmitPost, Begin, TypeOK
  <2>2. ASSUME NEW u \in Users, NEW t \in Topics, NEW c \in Texts, NEW p \in Posts,
               SubmitBotReply(r, u, t, c, p)
        PROVE  req'[r].pc = "gate" /\ req'[r].bot = TRUE
    BY <2>2 DEF SubmitBotReply, Begin, TypeOK
  <2>3. ASSUME NEW p \in Posts, ReadForDelete(r, p)
        PROVE  req'[r].pc = "softdelete" /\ post'[req'[r].post].live
    BY <2>3 DEF ReadForDelete, Begin, TypeOK
  <2>4. ASSUME NEW u \in Users, NEW p \in Posts, NEW c \in Texts, ReadForEdit(r, u, p, c)
        PROVE  req'[r].pc = "update"
    BY <2>4 DEF ReadForEdit, Begin, TypeOK
  <2>5. ASSUME NEW t \in Topics, ReadForDrop(r, t) PROVE req'[r].pc = "deletetopic"
    BY <2>5 DEF ReadForDrop, Begin, TypeOK
  <2>6. ASSUME NEW t \in Topics, NEW b \in BOOLEAN, ReadForLock(r, t, b)
        PROVE  req'[r].pc = "setlocked"
    BY <2>6 DEF ReadForLock, Begin, TypeOK
  <2>7. \/ req'[r].pc \in {"dedup", "update", "deletetopic", "setlocked"}
        \/ req'[r].pc = "gate" /\ req'[r].bot = TRUE
        \/ req'[r].pc = "softdelete" /\ post'[req'[r].post].live
    BY <2>1, <2>2, <2>3, <2>4, <2>5, <2>6 DEF Submit
  <2> QED
    BY <2>7 DEF FreshOf
<1>4. \A p \in Posts : job'[p] = "none"
  BY <1>1, <1>2 DEF Begins
<1>5. ASSUME NEW s \in Requests PROVE FreshOf(req[s])'
  <2>1. s # r => req'[s] = Idle
    BY <1>1, <1>2 DEF Begins
  <2> QED
    BY <1>3, <2>1, IdleIsFresh
<1> QED
  BY <1>4, <1>5, FreshPartsAfter

LEMMA FreshRequest ==
  ASSUME TypeOK, AloneInv, FreshReads, NEW r \in Requests, RequestStep(r)
  PROVE  FreshReads'
<1>1. FreshOf(req[r]) /\ req[r] \in Request
  BY FreshParts DEF TypeOK
<1>2. ASSUME NEW p \in Posts, HandsOver(r, p), job'[p] # "commit" PROVE FreshReads'
  <2>1. ASSUME NEW s \in Requests PROVE FreshOf(req[s])'
    <3>1. req'[s] = Idle
      BY <1>2 DEF HandsOver, AloneInv
    <3> QED
      BY <3>1, IdleIsFresh
  <2>2. \A q \in Posts : job'[q] # "commit"
    BY <1>2 DEF HandsOver, AloneInv
  <2> QED
    BY <2>1, <2>2, FreshPartsAfter
<1>3. ASSUME GoesOn(r), UNCHANGED post,
             req'[r] = Idle \/ req'[r].pc = "after" \/ FreshOf(req'[r])
      PROVE  FreshReads'
  <2>1. FreshOf(req[r])'
    BY <1>3 DEF FreshOf, PostsOf, IsDuplicate, LivePostsOf, Idle
  <2> QED
    BY <1>3, <2>1, FreshAlone
<1>4. ASSUME Finish(r) PROVE req'[r] = Idle
  BY <1>4 DEF Finish, TypeOK
<1>5. ASSUME GoesOn(r), req'[r] = Idle \/ req'[r].pc = "after" PROVE FreshReads'
  <2>1. FreshOf(req[r])'
    BY <1>5 DEF FreshOf, Idle
  <2> QED
    BY <1>5, <2>1, FreshAlone
<1>6. CASE AfterPost(r)
  <2>1. req[r] # Idle /\ req' = [req EXCEPT ![r] = Idle]
    BY <1>6 DEF AfterPost, Idle, Finish
  <2>2. req[r].post \in Posts /\ job' = [job EXCEPT ![req[r].post] = "check"]
    BY <1>6, RequestKinds DEF AfterPost, TypeOK, Posting
  <2>3. HandsOver(r, req[r].post) /\ job'[req[r].post] = "check"
    BY <2>1, <2>2, ReqSet DEF HandsOver, TypeOK
  <2> QED
    BY <1>2, <2>2, <2>3
<1>7. CASE ~AfterPost(r)
  <2>1. GoesOn(r)
    BY <1>7, RequestGoesOn
  <2>2. CASE CheckDuplicate(r)
    <3>1. CASE Finish(r)
      BY <1>4, <1>5, <2>1, <3>1
    <3>2. CASE ~IsDuplicate(req[r].author, req[r].topic, req[r].text) /\ Goto(r, "gate")
      <4>1. req[r] \in Posting
        BY <1>1, <2>2, RequestKinds DEF CheckDuplicate
      <4>2. req'[r] = [req[r] EXCEPT !.pc = "gate"]
        BY <3>2 DEF Goto, TypeOK
      <4>3. req'[r].pc = "gate" /\ req'[r].author = req[r].author /\ req'[r].topic = req[r].topic
            /\ req'[r].text = req[r].text
        BY <4>1, <4>2 DEF Posting
      <4>4. FreshOf(req'[r])
        BY <3>2, <4>3 DEF FreshOf
      <4> QED
        BY <1>3, <2>1, <2>2, <4>4 DEF CheckDuplicate
    <3> QED
      BY <2>2, <3>1, <3>2 DEF CheckDuplicate
  <2>3. CASE CheckTopic(r)
    <3>1. CASE Finish(r)
      BY <1>4, <1>5, <2>1, <3>1
    <3>2. CASE Goto(r, "floor")
      <4>1. req[r] \in Posting
        BY <1>1, <2>3, RequestKinds DEF CheckTopic
      <4>2. req'[r] = [req[r] EXCEPT !.pc = "floor"]
        BY <3>2 DEF Goto, TypeOK
      <4>3. req'[r].pc = "floor" /\ req'[r].author = req[r].author /\ req'[r].topic = req[r].topic
            /\ req'[r].text = req[r].text /\ req'[r].bot = req[r].bot
        BY <4>1, <4>2 DEF Posting
      <4>4. FreshOf(req'[r])
        BY <1>1, <2>3, <4>3 DEF FreshOf, CheckTopic
      <4> QED
        BY <1>3, <2>1, <2>3, <4>4 DEF CheckTopic
    <3> QED
      BY <2>3, <3>1, <3>2 DEF CheckTopic
  <2>4. CASE ReadTopFloor(r)
    <3>1. req[r] \in Posting
      BY <1>1, <2>4, RequestKinds DEF ReadTopFloor
    <3>2. PICK m : req' = [req EXCEPT ![r].pc = "insert", ![r].floor = m + 1,
                                      ![r].seen = PostsOf(req[r].topic)]
      BY <2>4, Zenon DEF ReadTopFloor
    <3>3. req'[r] = [req[r] EXCEPT !.pc = "insert", !.floor = m + 1, !.seen = PostsOf(req[r].topic)]
      BY <3>2 DEF TypeOK
    <3>4. req'[r].pc = "insert" /\ req'[r].author = req[r].author /\ req'[r].topic = req[r].topic
          /\ req'[r].text = req[r].text /\ req'[r].bot = req[r].bot
          /\ req'[r].seen = PostsOf(req[r].topic)
      BY <3>1, <3>3 DEF Posting
    <3>5. FreshOf(req'[r])
      BY <1>1, <2>4, <3>4 DEF FreshOf, ReadTopFloor
    <3> QED
      BY <1>3, <2>1, <2>4, <3>5 DEF ReadTopFloor
  <2>5. CASE InsertPost(r)
    <3>1. req[r] \in Posting /\ req'[r] = [req[r] EXCEPT !.pc = "after"]
      BY <1>1, <2>5, RequestKinds DEF InsertPost, Goto, TypeOK
    <3>2. req'[r].pc = "after"
      BY <3>1 DEF Posting
    <3> QED
      BY <1>5, <2>1, <3>2
  <2>6. CASE Finish(r)
    BY <1>4, <1>5, <2>1, <2>6
  <2> QED
    BY <1>7, <2>2, <2>3, <2>4, <2>5, <2>6
       DEF RequestStep, AfterBotReply, CommitDelete, CommitEdit, CommitLock, CommitDrop
<1> QED
  BY <1>6, <1>7

LEMMA FreshModeration ==
  ASSUME TypeOK, AloneInv, NEW p \in Posts, JobStep(p)
  PROVE  FreshReads'
<1>1. Moderates(p)
  BY JobGoesOn
<1>2. ASSUME NEW s \in Requests PROVE FreshOf(req[s])'
  <2>1. req'[s] = Idle
    BY <1>1 DEF Moderates, AloneInv
  <2> QED
    BY <2>1, IdleIsFresh
<1>3. \A q \in Posts : q # p => job'[q] = "none"
  BY <1>1 DEF Moderates, AloneInv
<1>4. job'[p] = "commit" => post'[p].live
  BY DEF JobStep, ModeratorAnswers, ReadForHide, CommitHide, NotifyHidden, TypeOK
<1> QED
  BY <1>2, <1>3, <1>4, FreshPartsAfter

LEMMA FreshStep ==
  ASSUME Inv, AloneInv, ~BeginsBesideOthers, FreshReads, [Next]_vars
  PROVE  FreshReads'
<1>1. ASSUME NEW p \in Posts, WindowPasses(p) PROVE FreshReads'
  <2>1. /\ DOMAIN post' = DOMAIN post /\ UNCHANGED <<req, job>>
        /\ \A q \in DOMAIN post :
             /\ post'[q].topic = post[q].topic /\ post'[q].live = post[q].live
             /\ post'[q].author = post[q].author /\ post'[q].text = post[q].text
             /\ post'[q].recent => post[q].recent
    BY <1>1 DEF WindowPasses, Inv, TypeOK, PostRow
  <2>2. \A t : PostsOf(t)' = PostsOf(t) /\ LivePostsOf(t)' = LivePostsOf(t)
    BY <2>1 DEF PostsOf, LivePostsOf
  <2>3. \A u, t, c : IsDuplicate(u, t, c)' => IsDuplicate(u, t, c)
    BY <2>1, <2>2 DEF IsDuplicate, PostsOf, LivePostsOf
  <2>4. \A r \in Requests : req[r].pc = "softdelete" => req[r].post \in DOMAIN post
    BY DEF Inv, RequestInv
  <2>5. \A q \in Posts : job[q] # "none" => q \in DOMAIN post
    BY DEF Inv, JobInv
  <2>6. ASSUME NEW r \in Requests PROVE FreshOf(req[r])'
    <3>1. FreshOf(req[r]) /\ req'[r] = req[r]
      BY <2>1, FreshParts
    <3> QED
      BY <2>1, <2>2, <2>3, <2>4, <3>1 DEF FreshOf
  <2>7. \A q \in Posts : job'[q] = "commit" => post'[q].live
    BY <2>1, <2>5, FreshParts
  <2> QED
    BY <2>6, <2>7, FreshPartsAfter
<1>2. ASSUME Crash PROVE FreshReads'
  BY <1>2 DEF Crash, FreshReads, Idle
<1>3. ASSUME UNCHANGED vars PROVE FreshReads'
  BY <1>3 DEF vars, FreshReads, PostsOf, LivePostsOf, IsDuplicate
<1> QED
  BY <1>1, <1>2, <1>3, FreshBegun, FreshRequest, FreshModeration DEF Next, Inv

LEMMA ApartInvHolds == ApartSpec => [](Inv /\ ApartInv)
<1>1. ApartInit => Inv /\ ApartInv
  <2> SUFFICES ASSUME ApartInit PROVE Inv /\ ApartInv
    OBVIOUS
  <2>1. Inv
    BY InvInit DEF ApartInit
  <2>2. DOMAIN post = {} /\ \A t \in Topics : topic[t].replies = 0
    BY DEF ApartInit, Init
  <2>3. \A t : LivePostsOf(t) = {}
    BY <2>2 DEF LivePostsOf, PostsOf
  <2>4. CountExact /\ FloorsUnique
    BY <2>2, <2>3, FS_EmptySet DEF CountExact, FloorsUnique
  <2>5. AloneInv /\ FreshReads
    BY DEF ApartInit, Init, AloneInv, FreshReads, Idle
  <2> QED
    BY <2>1, <2>4, <2>5 DEF ApartInv
<1>2. Inv /\ ApartInv /\ [ApartNext]_apartVars => Inv' /\ ApartInv'
  <2> SUFFICES ASSUME Inv, ApartInv, [ApartNext]_apartVars PROVE Inv' /\ ApartInv'
    OBVIOUS
  <2>1. [Next]_vars /\ (~overlap' => ~overlap)
    <3>1. CASE ApartNext
      BY <3>1, Zenon DEF ApartNext
    <3>2. CASE UNCHANGED apartVars
      <4>1. vars' = vars /\ overlap' = overlap
        BY <3>2 DEF apartVars
      <4> QED
        BY <4>1, Zenon
    <3> QED
      BY <3>1, <3>2
  <2>2. ~overlap' => ~BeginsBesideOthers
    <3>1. CASE ApartNext
      BY <3>1, Zenon DEF ApartNext
    <3>2. CASE UNCHANGED apartVars
      <4>1. UNCHANGED req
        BY <3>2 DEF apartVars, vars
      <4> QED
        BY <4>1 DEF BeginsBesideOthers
    <3> QED
      BY <3>1, <3>2
  <2>3. ~overlap' => AloneInv' /\ CountExact' /\ FloorsUnique' /\ FreshReads'
    BY <2>1, <2>2, AloneStep, ExactStep, FreshStep DEF ApartInv, Inv
  <2> QED
    BY <2>1, <2>3, InvStep DEF ApartInv
<1> QED
  BY <1>1, <1>2, PTL DEF ApartSpec

\* Goroutines that come one by one, restarts in between or not, leave
\* reply_count exact and every floor given once (CreatePost, SoftDeletePost).
THEOREM ThreadExactApartSafe == ApartSpec => []ThreadExactApart
<1>1. ApartInv => ThreadExactApart
  BY DEF ApartInv, ThreadExactApart, ReplyCountExactApart, FloorsUniqueApart, CountExact,
         ReplyCountExact
<1> QED
  BY <1>1, ApartInvHolds, PTL

\* As long as no two goroutines overlapped no user's reply is inserted beside
\* its recent twin (RecentDuplicatePost).
THEOREM NoDoublePostSafe == ApartSpec => NoDoublePostApart
<1>1. ASSUME Inv, ApartInv, [ApartNext]_apartVars
      PROVE  [\A p \in DOMAIN post' \ DOMAIN post :
                overlap \/ post'[p].bot \/ ~IsDuplicate(post'[p].author, post'[p].topic, post'[p].text)]_apartVars
  <2> SUFFICES ASSUME NEW p \in DOMAIN post' \ DOMAIN post, ~overlap, ~post'[p].bot
               PROVE  ~IsDuplicate(post'[p].author, post'[p].topic, post'[p].text)
    OBVIOUS
  <2>1. [Next]_vars
    BY <1>1 DEF ApartNext, apartVars
  <2>2. PICK r \in Requests : InsertPost(r)
    BY <1>1, <2>1, RowsStep DEF Inv, RowsKept
  <2>3. req[r] \in Posting /\ p = req[r].post
    BY <1>1, <2>2, InsertRows DEF Inv
  <2>4. /\ post'[p].author = req[r].author /\ post'[p].topic = req[r].topic
        /\ post'[p].text = req[r].text /\ post'[p].bot = req[r].bot
    BY <2>2, <2>3 DEF InsertPost
  <2>5. req[r].pc = "insert" /\ ~req[r].bot /\ FreshReads
    BY <1>1, <2>2, <2>4, Zenon DEF InsertPost, ApartInv
  <2> QED
    BY <2>4, <2>5 DEF FreshReads
<1> QED
  BY <1>1, ApartInvHolds, PTL DEF ApartSpec, NoDoublePostApart
=============================================================================
