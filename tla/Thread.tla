------------------------------- MODULE Thread -------------------------------
(***************************************************************************)
(* The replies of forum topics: CreatePost, PostBotReply, UpdatePost,      *)
(* DeletePost, SetTopicLocked, DeleteTopic and the background moderation   *)
(* of replies (internal/forum/service.go over internal/forum/repository.go)*)
(*                                                                         *)
(* Every HTTP request is a goroutine and every repository transaction runs *)
(* at Postgres' default READ COMMITTED level.  A transaction is therefore  *)
(* one step per read, each seeing what is committed at that moment, and    *)
(* one step for all its writes: the rows it writes stay locked until it    *)
(* commits and nobody reads them before, so its writes can be moved to the *)
(* commit, while UPDATE ... SET n = n + 1 works on the latest row.         *)
(***************************************************************************)
EXTENDS Integers, FiniteSets

CONSTANTS
  Users,        \* accounts, the owners of bots among them
  Moderators,   \* users whose role may edit any reply
  Topics,       \* existing topics
  TopicOwner,   \* who opened each topic
  AnonTopics,   \* topics of anonymous boards
  Posts,        \* row ids of replies
  Texts,        \* reply bodies
  LongTexts,    \* bodies long enough to be rewarded
  Requests,     \* slots for concurrent HTTP requests and bot goroutines
  MaxInFlight,  \* bound: goroutines at work at the same time
  MaxCrashes    \* bound: restarts of the server

ASSUME ThreadAssumption ==
  /\ Moderators \subseteq Users
  /\ TopicOwner \in [Topics -> Users]
  /\ AnonTopics \subseteq Topics
  /\ LongTexts \subseteq Texts

VARIABLES
  topic,    \* topics: is_locked, deleted_at and the reply_count column
  post,     \* posts: the inserted rows, by id
  req,      \* where each request is, with its local variables
  job,      \* asyncModeratePost, at most one goroutine for each reply
  effects,  \* calls made to the notifier, the bot trigger and the wallet
  crashes

vars == <<topic, post, req, job, effects, crashes>>

-----------------------------------------------------------------------------
(* Rows and requests.  "seen" is a history variable: the rows the reply's  *)
(* SELECT MAX(floor) ran over.                                             *)

PostRow == [topic: Topics, author: Users, bot: BOOLEAN, text: Texts,
            floor: Nat, seen: SUBSET Posts, live: BOOLEAN, recent: BOOLEAN]

TopicRow == [locked: BOOLEAN, deleted: BOOLEAN, replies: Nat]

Idle == [pc |-> "idle"]

Posting == [pc: {"dedup", "gate", "floor", "insert", "after"}, topic: Topics,
            author: Users, bot: BOOLEAN, text: Texts, post: Posts,
            floor: Nat, seen: SUBSET Posts]
Deleting == [pc: {"softdelete"}, post: Posts]
Editing  == [pc: {"update"}, post: Posts, text: Texts]
Locking  == [pc: {"setlocked"}, topic: Topics, locked: BOOLEAN]
Dropping == [pc: {"deletetopic"}, topic: Topics]

Request == {Idle} \cup Posting \cup Deleting \cup Editing \cup Locking \cup Dropping

JobState == {"none", "check", "hide", "commit", "notify"}

Effect == [kind: {"reply", "parent", "mention", "trigger", "reward", "hidden"},
           post: Posts, to: Users]

TypeOK ==
  /\ topic \in [Topics -> TopicRow]
  /\ DOMAIN post \subseteq Posts
  /\ post \in [DOMAIN post -> PostRow]
  /\ req \in [Requests -> Request]
  /\ job \in [Posts -> JobState]
  /\ effects \subseteq Effect
  /\ crashes \in Nat

Init ==
  /\ topic = [t \in Topics |-> [locked |-> FALSE, deleted |-> FALSE, replies |-> 0]]
  /\ post = [p \in {} |-> {}]
  /\ req = [r \in Requests |-> Idle]
  /\ job = [p \in Posts |-> "none"]
  /\ effects = {}
  /\ crashes = 0

-----------------------------------------------------------------------------
(* What the queries of the repository compute.                             *)

PostsOf(t) == {p \in DOMAIN post : post[p].topic = t}
LivePostsOf(t) == {p \in PostsOf(t) : post[p].live}

\* Slip: the window's comparison the wrong way round.
StaleDuplicate(u, t, c) ==
  \E p \in LivePostsOf(t) :
    post[p].author = u /\ post[p].text = c /\ ~post[p].recent

\* RecentDuplicatePost: the author's identical live reply inside the window.
IsDuplicate(u, t, c) ==
  \E p \in LivePostsOf(t) :
    post[p].author = u /\ post[p].text = c /\ post[p].recent

\* Slip: locked topics are not refused.
ClosedIfDeleted(t) == topic[t].deleted

\* What CreatePost and PostBotReply refuse to reply to.
Closed(t) == topic[t].deleted \/ topic[t].locked

\* Slips: floors numbered over the visible replies, or from 1 in a topic without.
TopLiveFloor(t) ==
  {m \in {1} \cup {post[p].floor : p \in LivePostsOf(t)} :
     \A p \in LivePostsOf(t) : post[p].floor <= m}
TopFloorOrNone(t) ==
  {m \in {0} \cup {post[p].floor : p \in PostsOf(t)} :
     \A p \in PostsOf(t) : post[p].floor <= m}

\* SELECT COALESCE(MAX(floor), 1), the one member of this set: deleted replies
\* count too, and floor 1 is the topic itself.
TopFloor(t) ==
  {m \in {1} \cup {post[p].floor : p \in PostsOf(t)} :
     \A p \in PostsOf(t) : post[p].floor <= m}

\* Slip: no decrement.
NotDecremented(n) == n

\* GREATEST(reply_count - 1, 0)
Decremented(n) == IF n > 0 THEN n - 1 ELSE 0

\* Slip: the UPDATE is not scoped to rows that are not deleted.
AnyEditable(p) == TRUE

\* WHERE id = ? AND deleted_at IS NULL, of UpdatePostContent
Editable(p) == post[p].live

MayEdit(u, p) == u \in Moderators \/ u = post[p].author

\* The writes of SoftDeletePost: its UPDATEs do not look at deleted_at again.
SoftDelete(p) ==
  /\ post' = [post EXCEPT ![p].live = FALSE]
  /\ topic' = [topic EXCEPT ![post[p].topic].replies = Decremented(@)]

-----------------------------------------------------------------------------
InFlight == Cardinality({r \in Requests : req[r] # Idle})
              + Cardinality({p \in Posts : job[p] # "none"})

Begin(r, request) ==
  /\ req[r] = Idle
  /\ InFlight < MaxInFlight
  /\ req' = [req EXCEPT ![r] = request]

Finish(r) == req' = [req EXCEPT ![r] = Idle]

Goto(r, pc) == req' = [req EXCEPT ![r].pc = pc]

Unclaimed(p) ==
  /\ p \notin DOMAIN post
  /\ \A r \in Requests : req[r] \in Posting => req[r].post # p

\* A user replies.  The row's id is chosen here, so that ids never run out later.
SubmitPost(r, u, t, c, p) ==
  /\ Unclaimed(p)
  /\ Begin(r, [pc |-> "dedup", topic |-> t, author |-> u, bot |-> FALSE, text |-> c,
               post |-> p, floor |-> 0, seen |-> {}])
  /\ UNCHANGED <<topic, post, job, effects, crashes>>

\* A bot's webhook answered: PostBotReply neither deduplicates nor filters.
SubmitBotReply(r, u, t, c, p) ==
  /\ Unclaimed(p)
  /\ Begin(r, [pc |-> "gate", topic |-> t, author |-> u, bot |-> TRUE, text |-> c,
               post |-> p, floor |-> 0, seen |-> {}])
  /\ UNCHANGED <<topic, post, job, effects, crashes>>

\* The duplicate check and the word filter.
CheckDuplicate(r) ==
  /\ req[r].pc = "dedup"
  /\ \E filtered \in BOOLEAN :
       IF filtered \/ IsDuplicate(req[r].author, req[r].topic, req[r].text)
         THEN Finish(r)
         ELSE Goto(r, "gate")
  /\ UNCHANGED <<topic, post, job, effects, crashes>>

\* TopicByID: not found, locked, or go on.
CheckTopic(r) ==
  /\ req[r].pc = "gate"
  /\ IF Closed(req[r].topic) THEN Finish(r) ELSE Goto(r, "floor")
  /\ UNCHANGED <<topic, post, job, effects, crashes>>

\* First statement of the transaction in repository.CreatePost.
ReadTopFloor(r) ==
  /\ req[r].pc = "floor"
  /\ \E m \in TopFloor(req[r].topic) :
       req' = [req EXCEPT ![r].pc = "insert", ![r].floor = m + 1,
                          ![r].seen = PostsOf(req[r].topic)]
  /\ UNCHANGED <<topic, post, job, effects, crashes>>

\* Its INSERT and its UPDATE of the topic; neither looks at the topic again.
InsertPost(r) ==
  /\ req[r].pc = "insert"
  /\ LET q == req[r]
         row == [topic |-> q.topic, author |-> q.author, bot |-> q.bot,
                 text |-> q.text, floor |-> q.floor, seen |-> q.seen,
                 live |-> TRUE, recent |-> TRUE]
     IN /\ post' = [p \in DOMAIN post \cup {q.post} |->
                      IF p = q.post THEN row ELSE post[p]]
        /\ topic' = [topic EXCEPT ![q.topic].replies = @ + 1]
  /\ Goto(r, "after")
  /\ UNCHANGED <<job, effects, crashes>>

\* Slip: the topic owner is not left out of the mentions.
MentionToldOwner(q, mentioned) == mentioned \ {q.author}

\* Who is told of a reply: the topic owner, the author of the floor replied
\* to, the users mentioned.
OwnerTold(q) == {TopicOwner[q.topic]} \ {q.author}
ParentTold(q, parent) == {post[parent].author} \ {q.author, TopicOwner[q.topic]}
MentionTold(q, mentioned) == mentioned \ {q.author, TopicOwner[q.topic]}

EffectsOf(kind, p, users) == {[kind |-> kind, post |-> p, to |-> u] : u \in users}

\* Notices to the topic owner, the author replied to and the users mentioned,
\* the bot trigger (not on anonymous boards), and the reward.
EffectsOfPost(q, mentioned, parents) ==
  EffectsOf("reply", q.post, OwnerTold(q))
    \cup (UNION {EffectsOf("parent", q.post, ParentTold(q, x)) : x \in parents})
    \cup EffectsOf("mention", q.post, MentionTold(q, mentioned))
    \cup EffectsOf("trigger", q.post, IF q.topic \in AnonTopics THEN {} ELSE {q.author})
    \cup EffectsOf("reward", q.post, IF q.text \in LongTexts THEN {q.author} ELSE {})

\* After the commit of a user's reply; the moderation goroutine is started.
AfterPost(r) ==
  /\ req[r].pc = "after"
  /\ ~req[r].bot
  /\ LET q == req[r]
     IN \E mentioned \in SUBSET Users, parents \in SUBSET LivePostsOf(q.topic) :
          /\ \A x, y \in parents : x = y   \* First: at most one row
          /\ effects' = effects \cup EffectsOfPost(q, mentioned, parents)
          /\ job' = [job EXCEPT ![q.post] = "check"]
  /\ Finish(r)
  /\ UNCHANGED <<topic, post, crashes>>

\* After the commit of a bot's reply: only the topic owner is told.
AfterBotReply(r) ==
  /\ req[r].pc = "after"
  /\ req[r].bot
  /\ effects' = effects \cup EffectsOf("reply", req[r].post, OwnerTold(req[r]))
  /\ Finish(r)
  /\ UNCHANGED <<topic, post, job, crashes>>

-----------------------------------------------------------------------------
\* DeletePost, up to the read of its transaction.
ReadForDelete(r, p) ==
  /\ p \in DOMAIN post /\ post[p].live
  /\ Begin(r, [pc |-> "softdelete", post |-> p])
  /\ UNCHANGED <<topic, post, job, effects, crashes>>

CommitDelete(r) ==
  /\ req[r].pc = "softdelete"
  /\ SoftDelete(req[r].post)
  /\ Finish(r)
  /\ UNCHANGED <<job, effects, crashes>>

\* UpdatePost reads the reply and checks who may edit it ...
ReadForEdit(r, u, p, c) ==
  /\ p \in DOMAIN post /\ post[p].live /\ MayEdit(u, p)
  /\ Begin(r, [pc |-> "update", post |-> p, text |-> c])
  /\ UNCHANGED <<topic, post, job, effects, crashes>>

\* ... then filter and moderator, seconds later, and the scoped UPDATE.
CommitEdit(r) ==
  /\ req[r].pc = "update"
  /\ \E blocked \in BOOLEAN :
       post' = IF blocked \/ ~Editable(req[r].post)
                 THEN post
                 ELSE [post EXCEPT ![req[r].post].text = req[r].text]
  /\ Finish(r)
  /\ UNCHANGED <<topic, job, effects, crashes>>

\* SetTopicLocked.
ReadForLock(r, t, b) ==
  /\ ~topic[t].deleted
  /\ Begin(r, [pc |-> "setlocked", topic |-> t, locked |-> b])
  /\ UNCHANGED <<topic, post, job, effects, crashes>>

CommitLock(r) ==
  /\ req[r].pc = "setlocked"
  /\ topic' = [topic EXCEPT ![req[r].topic].locked = req[r].locked]
  /\ Finish(r)
  /\ UNCHANGED <<post, job, effects, crashes>>

\* DeleteTopic: its replies stay as they are.
ReadForDrop(r, t) ==
  /\ ~topic[t].deleted
  /\ Begin(r, [pc |-> "deletetopic", topic |-> t])
  /\ UNCHANGED <<topic, post, job, effects, crashes>>

CommitDrop(r) ==
  /\ req[r].pc = "deletetopic"
  /\ topic' = [topic EXCEPT ![req[r].topic].deleted = TRUE]
  /\ Finish(r)
  /\ UNCHANGED <<post, job, effects, crashes>>

-----------------------------------------------------------------------------
(* asyncModeratePost, in a goroutine that outlives its request.            *)

\* The verdict; an unreachable model passes.
ModeratorAnswers(p) ==
  /\ job[p] = "check"
  /\ \E blocked \in BOOLEAN :
       job' = [job EXCEPT ![p] = IF blocked THEN "hide" ELSE "none"]
  /\ UNCHANGED <<topic, post, req, effects, crashes>>

\* Slip: the author is told before the deletion.
NotifyBeforeHide(p) ==
  /\ job[p] = "hide"
  /\ job' = [job EXCEPT ![p] = IF post[p].live THEN "notify" ELSE "none"]
  /\ UNCHANGED <<topic, post, req, effects, crashes>>

\* SoftDeletePost's read: a reply deleted meanwhile ends the goroutine.
ReadForHide(p) ==
  /\ job[p] = "hide"
  /\ job' = [job EXCEPT ![p] = IF post[p].live THEN "commit" ELSE "none"]
  /\ UNCHANGED <<topic, post, req, effects, crashes>>

CommitHide(p) ==
  /\ job[p] = "commit"
  /\ SoftDelete(p)
  /\ job' = [job EXCEPT ![p] = "notify"]
  /\ UNCHANGED <<req, effects, crashes>>

NotifyHidden(p) ==
  /\ job[p] = "notify"
  /\ effects' = effects \cup EffectsOf("hidden", p, {post[p].author})
  /\ job' = [job EXCEPT ![p] = "none"]
  /\ UNCHANGED <<topic, post, req, crashes>>

-----------------------------------------------------------------------------
\* More than duplicateWindow passes since the reply was created.
WindowPasses(p) ==
  /\ p \in DOMAIN post /\ post[p].recent
  /\ post' = [post EXCEPT ![p].recent = FALSE]
  /\ UNCHANGED <<topic, req, job, effects, crashes>>

\* The server stops: open transactions roll back, goroutines are gone.
Crash ==
  /\ crashes < MaxCrashes
  /\ crashes' = crashes + 1
  /\ req' = [r \in Requests |-> Idle]
  /\ job' = [p \in Posts |-> "none"]
  /\ UNCHANGED <<topic, post, effects>>

RequestStep(r) ==
  \/ CheckDuplicate(r) \/ CheckTopic(r) \/ ReadTopFloor(r) \/ InsertPost(r)
  \/ AfterPost(r) \/ AfterBotReply(r)
  \/ CommitDelete(r) \/ CommitEdit(r) \/ CommitLock(r) \/ CommitDrop(r)

JobStep(p) == ModeratorAnswers(p) \/ ReadForHide(p) \/ CommitHide(p) \/ NotifyHidden(p)

Submit(r) ==
  \/ \E u \in Users, t \in Topics, c \in Texts, p \in Posts :
       SubmitPost(r, u, t, c, p) \/ SubmitBotReply(r, u, t, c, p)
  \/ \E p \in Posts : ReadForDelete(r, p)
  \/ \E u \in Users, p \in Posts, c \in Texts : ReadForEdit(r, u, p, c)
  \/ \E t \in Topics : ReadForDrop(r, t) \/ \E b \in BOOLEAN : ReadForLock(r, t, b)

Next ==
  \/ \E r \in Requests : Submit(r) \/ RequestStep(r)
  \/ \E p \in Posts : JobStep(p) \/ WindowPasses(p)
  \/ Crash

Spec == Init /\ [][Next]_vars

-----------------------------------------------------------------------------
(* Properties of every interleaving.                                       *)

\* The reply_count shown with a topic never exceeds the replies one can see,
\* whatever deletions by admins and by moderation overlap (SoftDeletePost may
\* decrement twice for one reply, CreatePost counts each reply once).
ReplyCountNeverOver ==
  \A t \in Topics : topic[t].replies <= Cardinality(LivePostsOf(t))

\* Floors of a topic start at 2 and have no gaps, because CreatePost numbers
\* from the highest floor ever used, even if several replies share a number.
FloorsConnected ==
  \A p \in DOMAIN post :
    /\ post[p].floor >= 2
    /\ post[p].floor > 2 =>
         \E q \in PostsOf(post[p].topic) : post[q].floor = post[p].floor - 1

\* A reply comes after every reply its transaction could see, deleted ones
\* included: a link to a floor is never taken over by a later reply.
FloorsNotReused ==
  \A p \in DOMAIN post : \A q \in post[p].seen :
    q \in DOMAIN post /\ post[q].floor < post[p].floor

\* A deleted reply is never edited nor comes back, even by an edit that read
\* it before the deletion (the scope of UpdatePostContent).
DeletedStaysDeleted ==
  [][\A p \in DOMAIN post : ~post[p].live =>
       ~post'[p].live /\ post'[p].text = post[p].text]_vars

\* Requests past the check of the topic, on their way to insert a reply.
PastGate(t) ==
  {r \in Requests : req[r] \in Posting /\ req[r].topic = t /\ req[r].pc \in {"floor", "insert"}}

\* Once a topic is locked or deleted only the replies that had already passed
\* the check can still land in it: their number never grows.
LockDrains ==
  [][\A t \in Topics :
       /\ topic[t].locked \/ topic[t].deleted
       /\ topic'[t].locked \/ topic'[t].deleted
       => PastGate(t)' \subseteq PastGate(t)]_vars

\* asyncModeratePost tells an author that a reply was hidden only when it is.
HiddenNoticeIsTrue ==
  \A e \in effects : e.kind = "hidden" =>
    e.post \in DOMAIN post /\ ~post[e.post].live /\ e.to = post[e.post].author

\* The routes by which a reply is announced do not overlap: the topic owner
\* hears of it once, its author never.
OwnerToldOnce ==
  LET Notices == {e \in effects : e.kind \in {"reply", "parent", "mention"}}
  IN /\ \A e \in Notices : e.to # post[e.post].author
     /\ \A e, f \in Notices :
          e.post = f.post /\ e.to = f.to /\ e.to = TopicOwner[post[e.post].topic] => e = f

-----------------------------------------------------------------------------
(* Properties of the transactions run one after the other; requests that   *)
(* overlap break them, see the README.                                     *)

\* reply_count is the number of visible replies.
ReplyCountExact ==
  \A t \in Topics :
    (\A r \in Requests : req[r] = Idle) => topic[t].replies = Cardinality(LivePostsOf(t))

\* "CreatePost atomically assigns the next floor number".
FloorsUnique ==
  \A p, q \in DOMAIN post :
    post[p].topic = post[q].topic /\ post[p].floor = post[q].floor => p = q
=============================================================================
