---------------------------- MODULE SessionProofs ----------------------------
(***************************************************************************)
(* What holds of sessions for any number of users, tabs and requests: who  *)
(* signed out stays signed out, and the store and the stream of a tab that *)
(* nothing interfered with are those of the user its tokens belong to.     *)
(***************************************************************************)
EXTENDS Session, TLAPS

Kinds == {"login", "register", "logout", "verify", "call", "me"}
SignIns == {"login", "register"}
Somebody == Users \cup {Nobody}

CallSet ==
    [tab : Tabs, kind : Kinds, who : Somebody, token : Nat, again : BOOLEAN,
     stage : {"sent", "refreshing"}, reply : {"none", "ok", "unauthorized", "invalid", "lost"},
     pair : Nat]

StreamSet == [token : Nat, status : {"idle", "connecting", "open", "reconnecting"}]

TypeInv ==
    /\ owner \in Seq(Users) /\ storage \in 0..Len(owner)
    /\ live \subseteq 1..Len(owner) /\ renewable \subseteq 1..Len(owner)
    /\ kept \in Somebody /\ user \in [Tabs -> Somebody]
    /\ stream \in [Tabs -> StreamSet]
    /\ \A t \in Tabs : stream[t].token \in 0..Len(owner)
    /\ calls \in [Calls -> CallSet \cup {Nobody}]
    /\ out \in BOOLEAN

\* What a request in flight holds, by its kind and how far it is.
CallOK(c, own) ==
    /\ c.token \in 0..Len(own) /\ c.pair \in 0..Len(own)
    /\ c.kind \in SignIns \cup {"verify"} => c.who \in Users
    /\ c.kind \in SignIns \cup {"verify", "logout"} =>
         c.stage = "sent" /\ c.reply \in {"none", "ok", "lost"}
    /\ (c.kind \in SignIns /\ c.reply = "ok") => c.pair \in 1..Len(own) /\ own[c.pair] = c.who
    /\ (c.kind \in {"call", "me"} /\ c.stage = "sent" /\ c.reply = "ok") => c.token \in 1..Len(own)
    /\ c.stage = "refreshing" => c.token \in 1..Len(own)
    /\ (c.stage = "refreshing" /\ c.reply = "ok") =>
         c.pair \in 1..Len(own) /\ own[c.pair] = own[c.token]

CallsInv == \A k \in Calls : calls[k] # Nobody => CallOK(calls[k], owner)

\* A request that holds no token and brings none.
Harmless(c) ==
    c.kind \notin SignIns /\ c.stage = "sent" /\ c.token = 0 /\ c.reply # "invalid"

OutInv ==
    out => storage = 0 /\ \A k \in Calls : calls[k] # Nobody => Harmless(calls[k])

Holder(own, pair) == IF pair = 0 THEN Nobody ELSE own[pair]

\* A request seen from a tab that nothing interfered with.
InTune(t, c, own, pair) ==
    /\ c.tab = t => c.kind # "verify"
    /\ c.kind \in SignIns \cup {"logout"} => c.tab = t
    /\ c.kind \in SignIns => pair = 0
    /\ c.kind = "logout" => c.reply # "lost"
    /\ c.stage = "refreshing" => pair # 0 /\ own[c.token] = own[pair]
    /\ (c.tab = t /\ c.kind = "me") => pair # 0 /\ c.token # 0 /\ own[c.token] = own[pair]

\* The store and the stream of such a tab.
Follows(u, s, own, pair) ==
    /\ u = Holder(own, pair)
    /\ s.status # "idle" => pair # 0 /\ s.token # 0 /\ own[s.token] = own[pair]

TabInTune(t) ==
    /\ Follows(user[t], stream[t], owner, storage)
    /\ \A k \in Calls : calls[k] # Nobody => InTune(t, calls[k], owner, storage)
    /\ \A k \in Calls : (calls[k] # Nobody /\ calls[k].tab = t) =>
          \A j \in Calls : j # k => calls[j] = Nobody

TabsInv == \A t \in Tabs : t \notin mingled => TabInTune(t)

IInv == TypeInv /\ CallsInv /\ OutInv /\ TabsInv

-----------------------------------------------------------------------------
(* Pairs of tokens are only ever added.                                    *)

Grows ==
    /\ owner' \in Seq(Users) /\ Len(owner) <= Len(owner')
    /\ \A n \in 1..Len(owner) : owner'[n] = owner[n]
    /\ live' \subseteq 1..Len(owner') /\ renewable' \subseteq 1..Len(owner')

LEMMA SameServer == ASSUME TypeInv, UNCHANGED server PROVE Grows
  BY DEF TypeInv, Grows, server

\* The pair that is issued is u's, be its number new or used again.
LEMMA IssueGrows ==
  ASSUME TypeInv, NEW k \in Calls, NEW u \in Users, Issue(k, u)
  PROVE  Grows /\ \E n \in Nat : n \in 1..Len(owner') /\ owner'[n] = u /\ ReplyPair(k, n)
<1>1. PICK n \in Fresh(u) :
        /\ owner' = IF n \in Issued THEN owner ELSE Append(owner, u)
        /\ live' = live \cup {n} /\ renewable' = renewable \cup {n} /\ ReplyPair(k, n)
  BY DEF Issue
<1>2. Len(owner) \in Nat /\ owner \in Seq(Users)
  BY DEF TypeInv
<1>3. \/ n = Len(owner) + 1
      \/ n \in 1..Len(owner) /\ owner[n] = u
  BY <1>1 DEF Fresh, Issued
<1>4. CASE n = Len(owner) + 1
  <2>1. owner' = Append(owner, u)
    BY <1>1, <1>2, <1>4 DEF Issued
  <2>2. /\ owner' \in Seq(Users) /\ Len(owner') = Len(owner) + 1 /\ owner'[n] = u
        /\ \A m \in 1..Len(owner) : owner'[m] = owner[m]
    BY <1>2, <1>4, <2>1
  <2>3. n \in 1..Len(owner') /\ 1..Len(owner) \subseteq 1..Len(owner')
    BY <1>2, <1>4, <2>2
  <2>. QED
    BY <1>1, <1>2, <2>2, <2>3 DEF Grows, TypeInv
<1>5. CASE n \in 1..Len(owner) /\ owner[n] = u
  <2>1. owner' = owner
    BY <1>1, <1>5 DEF Issued
  <2>. QED
    BY <1>1, <1>2, <1>5, <2>1 DEF Grows, TypeInv
<1>. QED
  BY <1>3, <1>4, <1>5

LEMMA CallKept ==
  ASSUME TypeInv, Grows, NEW c \in CallSet, CallOK(c, owner)
  PROVE  CallOK(c, owner')
<1>1. Len(owner) \in Nat /\ Len(owner') \in Nat
  BY DEF TypeInv, Grows
<1>. QED
  BY <1>1 DEF Grows, CallOK, CallSet

-----------------------------------------------------------------------------
(* A request that goes on, or ends without a change of who is signed in.   *)

\* Between the pairs before and after, the user of a tab is the same.
SameHolder ==
    \/ storage' = storage
    \/ storage # 0 /\ storage' # 0 /\ owner'[storage'] = owner[storage]

LEMMA CallMoves ==
  ASSUME IInv, Grows, NEW k \in Calls, calls[k] # Nobody,
         calls' = [calls EXCEPT ![k] = calls'[k]],
         calls'[k] # Nobody =>
           /\ calls'[k] \in CallSet /\ calls'[k].tab = calls[k].tab
           /\ CallOK(calls'[k], owner')
           /\ out => Harmless(calls'[k]),
         storage' \in 0..Len(owner'), out => storage' = 0, out' = out,
         kept' \in Somebody, user' \in [Tabs -> Somebody], stream' \in [Tabs -> StreamSet],
         \A t \in Tabs : stream'[t].token \in 0..Len(owner'),
         mingled \subseteq mingled',
         \A t \in Tabs : t \notin mingled' =>
           /\ SameHolder /\ user'[t] = user[t] /\ stream'[t] = stream[t]
           /\ calls'[k] # Nobody => InTune(t, calls'[k], owner', storage')
  PROVE  IInv'
<1>1. calls \in [Calls -> CallSet \cup {Nobody}] /\ \A j \in Calls : j # k => calls'[j] = calls[j]
  BY DEF IInv, TypeInv
<1>2. TypeInv'
  BY <1>1 DEF IInv, TypeInv, Grows
<1>3. CallsInv'
  <2>. SUFFICES ASSUME NEW j \in Calls, calls'[j] # Nobody PROVE CallOK(calls'[j], owner')
    BY DEF CallsInv
  <2>1. CASE j = k
    BY <2>1
  <2>2. CASE j # k
    <3>1. calls'[j] = calls[j] /\ calls[j] \in CallSet /\ CallOK(calls[j], owner)
      BY <1>1, <2>2 DEF IInv, CallsInv
    <3>. QED
      BY <3>1, CallKept DEF IInv
  <2>. QED
    BY <2>1, <2>2
<1>4. OutInv'
  BY <1>1 DEF IInv, OutInv
<1>5. TabsInv'
  <2>. SUFFICES ASSUME NEW t \in Tabs, t \notin mingled' PROVE TabInTune(t)'
    BY DEF TabsInv
  <2>1. TabInTune(t) /\ SameHolder
    BY DEF IInv, TabsInv
  <2>2. Follows(user[t], stream[t], owner', storage')
    BY <2>1 DEF TabInTune, Follows, Holder, SameHolder, Grows, IInv, TypeInv, StreamSet
  <2>3. ASSUME NEW j \in Calls, j # k, calls[j] # Nobody
        PROVE  InTune(t, calls[j], owner', storage')
    <3>1. calls[j] \in CallSet /\ CallOK(calls[j], owner) /\ InTune(t, calls[j], owner, storage)
      BY <1>1, <2>1, <2>3 DEF TabInTune, IInv, CallsInv
    <3>2. storage \in 0..Len(owner) /\ Len(owner) \in Nat /\ calls[j].token \in Nat
      BY <3>1 DEF IInv, TypeInv, CallSet
    <3>3. calls[j].kind \in SignIns => storage' = 0
      BY <2>1, <3>1 DEF InTune, SameHolder
    <3>. QED
      BY <2>1, <3>1, <3>2, <3>3 DEF InTune, SameHolder, Grows, CallOK
  <2>. QED
    BY <1>1, <2>1, <2>2, <2>3 DEF TabInTune
<1>. QED
  BY <1>2, <1>3, <1>4, <1>5 DEF IInv

-----------------------------------------------------------------------------
(* A request that ends with somebody signed in, or nobody.                 *)

LEMMA CallEnds ==
  ASSUME IInv, NEW k \in Calls, calls[k] # Nobody, UNCHANGED server,
         calls' = [calls EXCEPT ![k] = Nobody],
         storage' \in 0..Len(owner), out' \in BOOLEAN,
         out' => storage' = 0 /\ (out \/ \A j \in Calls : j # k => calls[j] = Nobody),
         kept' \in Somebody, user' \in [Tabs -> Somebody], stream' \in [Tabs -> StreamSet],
         \A t \in Tabs : stream'[t].token \in 0..Len(owner),
         \A t \in Tabs : t \notin mingled' =>
           /\ t \notin mingled /\ calls[k].tab = t
           /\ Follows(user'[t], stream'[t], owner, storage')
  PROVE  IInv'
<1>1. /\ calls \in [Calls -> CallSet \cup {Nobody}] /\ calls'[k] = Nobody
      /\ \A j \in Calls : j # k => calls'[j] = calls[j]
  BY DEF IInv, TypeInv
<1>2. TypeInv'
  BY DEF IInv, TypeInv, server
<1>3. CallsInv'
  BY <1>1 DEF IInv, CallsInv, server
<1>4. OutInv'
  BY <1>1 DEF IInv, OutInv
<1>5. TabsInv'
  <2>. SUFFICES ASSUME NEW t \in Tabs, t \notin mingled' PROVE TabInTune(t)'
    BY DEF TabsInv
  <2>1. \A j \in Calls : j # k => calls[j] = Nobody
    BY DEF IInv, TabsInv, TabInTune
  <2>2. \A j \in Calls : calls'[j] = Nobody
    BY <1>1, <2>1
  <2>. QED
    BY <2>2 DEF TabInTune, server
<1>. QED
  BY <1>2, <1>3, <1>4, <1>5 DEF IInv

-----------------------------------------------------------------------------
(* A request that begins.                                                  *)

LEMMA CallStarts ==
  ASSUME IInv, UNCHANGED <<server, storage>>,
         NEW k \in Calls, calls[k] = Nobody, calls' = [calls EXCEPT ![k] = calls'[k]],
         calls'[k] \in CallSet, CallOK(calls'[k], owner),
         out' \in BOOLEAN, out' => out /\ Harmless(calls'[k]),
         kept' \in Somebody, user' \in [Tabs -> Somebody], stream' \in [Tabs -> StreamSet],
         \A t \in Tabs : stream'[t].token \in 0..Len(owner),
         \A t \in Tabs : t \notin mingled' =>
           /\ t \in mingled => \A j \in Calls : calls[j] = Nobody
           /\ calls'[k].tab = t => \A j \in Calls : calls[j] = Nobody
           /\ \A j \in Calls : calls[j] # Nobody => calls[j].tab # t
           /\ Follows(user'[t], stream'[t], owner, storage)
           /\ InTune(t, calls'[k], owner, storage)
  PROVE  IInv'
<1>1. /\ calls \in [Calls -> CallSet \cup {Nobody}]
      /\ \A j \in Calls : j # k => calls'[j] = calls[j]
  BY DEF IInv, TypeInv
<1>2. TypeInv'
  BY <1>1 DEF IInv, TypeInv, server
<1>3. CallsInv'
  BY <1>1 DEF IInv, CallsInv, server
<1>4. OutInv'
  BY <1>1 DEF IInv, OutInv
<1>5. TabsInv'
  <2>. SUFFICES ASSUME NEW t \in Tabs, t \notin mingled' PROVE TabInTune(t)'
    BY DEF TabsInv
  <2>1. \A j \in Calls : calls[j] # Nobody => InTune(t, calls[j], owner, storage)
    BY DEF IInv, TabsInv, TabInTune
  <2>2. \A j \in Calls : calls'[j] # Nobody => InTune(t, calls'[j], owner, storage)
    BY <1>1, <2>1
  <2>3. \A i \in Calls : (calls'[i] # Nobody /\ calls'[i].tab = t) =>
          \A j \in Calls : j # i => calls'[j] = Nobody
    BY <1>1
  <2>. QED
    BY <2>2, <2>3 DEF TabInTune, server
<1>. QED
  BY <1>2, <1>3, <1>4, <1>5 DEF IInv

-----------------------------------------------------------------------------
(* What people do.                                                         *)

LEMMA Sending ==
  ASSUME TypeInv, NEW t \in Tabs, NEW kind \in Kinds, NEW who \in Somebody, Send(t, kind, who)
  PROVE  \E k \in Calls :
           /\ calls[k] = Nobody /\ calls' = [calls EXCEPT ![k] = calls'[k]]
           /\ calls'[k] \in CallSet
           /\ calls'[k].tab = t /\ calls'[k].kind = kind /\ calls'[k].who = who
           /\ calls'[k].token = IF kind \in {"login", "register", "verify"} THEN 0 ELSE storage
           /\ calls'[k].stage = "sent" /\ calls'[k].reply = "none" /\ calls'[k].pair = 0
<1>. DEFINE k == CHOOSE j \in Free : TRUE
            r == Request(t, kind, who, IF kind \in {"login", "register", "verify"} THEN 0 ELSE storage)
<1>1. k \in Free /\ calls' = [calls EXCEPT ![k] = r]
  BY DEF Send
<1>2. k \in Calls /\ calls[k] = Nobody
  BY <1>1 DEF Free
<1>3. storage \in Nat
  BY DEF TypeInv
<1>4. r \in CallSet
  BY <1>3 DEF Request, CallSet, Kinds
<1>5. calls'[k] = r
  BY <1>1, <1>2 DEF TypeInv
<1>6. calls' = [calls EXCEPT ![k] = calls'[k]]
  BY <1>1, <1>5
<1>7. /\ r.tab = t /\ r.kind = kind /\ r.who = who
      /\ r.token = IF kind \in {"login", "register", "verify"} THEN 0 ELSE storage
      /\ r.stage = "sent" /\ r.reply = "none" /\ r.pair = 0
  BY DEF Request
<1>. HIDE DEF k, r
<1>. QED
  BY <1>2, <1>4, <1>5, <1>6, <1>7

LEMMA NotMet ==
  ASSUME TypeInv, NEW t \in Tabs, NEW s \in Tabs, s \notin Meets(t)
  PROVE  /\ \A j \in Calls : calls[j] # Nobody => calls[j].tab # s
         /\ s = t => \A j \in Calls : calls[j] = Nobody
  BY DEF Meets, Free

LEMMA SubmitStep ==
  ASSUME IInv, NEW t \in Tabs, NEW kind \in SignIns, NEW u \in Users, Submit(t, kind, u)
  PROVE  IInv'
<1>. USE DEF SignIns
<1>1. PICK k \in Calls :
        /\ calls[k] = Nobody /\ calls' = [calls EXCEPT ![k] = calls'[k]]
        /\ calls'[k] \in CallSet
        /\ calls'[k].tab = t /\ calls'[k].kind = kind /\ calls'[k].who = u
        /\ calls'[k].token = 0
        /\ calls'[k].stage = "sent" /\ calls'[k].reply = "none" /\ calls'[k].pair = 0
  BY Sending DEF Submit, IInv, Kinds, Somebody
<1>2. CallOK(calls'[k], owner)
  BY <1>1 DEF CallOK, IInv, TypeInv
<1>3. UNCHANGED <<server, storage, user, kept, stream>> /\ out' = FALSE
  BY DEF Submit, LeaveUser
<1>4. ASSUME NEW s \in Tabs, s \notin mingled'
      PROVE  /\ s \notin mingled
             /\ \A j \in Calls : calls[j] = Nobody
             /\ Follows(user'[s], stream'[s], owner, storage)
             /\ InTune(s, calls'[k], owner, storage)
  <2>1. s = t /\ s \notin mingled /\ s \notin Meets(t) /\ ~Replaces(t, u)
    BY <1>4 DEF Submit, Others
  <2>2. Follows(user[s], stream[s], owner, storage)
    BY <2>1 DEF IInv, TabsInv, TabInTune
  <2>3. storage = 0
    BY <2>1 DEF Replaces
  <2>. QED
    BY <1>1, <1>3, <2>1, <2>2, <2>3, NotMet DEF IInv, InTune
<1>5. \A s \in Tabs : s \notin mingled' =>
        \A j \in Calls : calls[j] # Nobody => calls[j].tab # s
  BY <1>4
<1>6. /\ kept' \in Somebody /\ user' \in [Tabs -> Somebody] /\ stream' \in [Tabs -> StreamSet]
      /\ \A s \in Tabs : stream'[s].token \in 0..Len(owner)
  BY <1>3 DEF IInv, TypeInv
<1>. QED
  BY <1>1, <1>2, <1>3, <1>4, <1>5, <1>6, CallStarts

LEMMA SignOutStep ==
  ASSUME IInv, NEW t \in Tabs, SignOut(t)
  PROVE  IInv'
<1>. USE DEF SignIns
<1>1. PICK k \in Calls :
        /\ calls[k] = Nobody /\ calls' = [calls EXCEPT ![k] = calls'[k]]
        /\ calls'[k] \in CallSet
        /\ calls'[k].tab = t /\ calls'[k].kind = "logout"
        /\ calls'[k].token = storage
        /\ calls'[k].stage = "sent" /\ calls'[k].reply = "none" /\ calls'[k].pair = 0
  <2>1. user[t] \in Somebody
    BY DEF IInv, TypeInv
  <2>. QED
    BY <2>1, Sending DEF SignOut, IInv, Kinds
<1>2. CallOK(calls'[k], owner)
  BY <1>1 DEF CallOK, IInv, TypeInv
<1>3. UNCHANGED <<server, storage, user, kept, stream, out>>
  BY DEF SignOut, LeaveUser
<1>4. out' => out /\ Harmless(calls'[k])
  BY <1>1, <1>3 DEF IInv, OutInv, Harmless
<1>5. ASSUME NEW s \in Tabs, s \notin mingled'
      PROVE  /\ s \notin mingled
             /\ \A j \in Calls : calls[j] = Nobody
             /\ Follows(user'[s], stream'[s], owner, storage)
             /\ InTune(s, calls'[k], owner, storage)
  <2>1. s = t /\ s \notin mingled /\ s \notin Meets(t)
    BY <1>5 DEF SignOut, Others
  <2>2. Follows(user[s], stream[s], owner, storage)
    BY <2>1 DEF IInv, TabsInv, TabInTune
  <2>. QED
    BY <1>1, <1>3, <2>1, <2>2, NotMet DEF IInv, InTune
<1>6. \A s \in Tabs : s \notin mingled' =>
        \A j \in Calls : calls[j] # Nobody => calls[j].tab # s
  BY <1>5
<1>7. /\ kept' \in Somebody /\ user' \in [Tabs -> Somebody] /\ stream' \in [Tabs -> StreamSet]
      /\ \A s \in Tabs : stream'[s].token \in 0..Len(owner)
  BY <1>3 DEF IInv, TypeInv
<1>8. out' \in BOOLEAN
  BY <1>3 DEF IInv, TypeInv
<1>. QED
  BY <1>1, <1>2, <1>3, <1>4, <1>5, <1>6, <1>7, <1>8, CallStarts

LEMMA VerifyStep ==
  ASSUME IInv, NEW t \in Tabs, NEW u \in Users, VerifyEmail(t, u)
  PROVE  IInv'
<1>. USE DEF SignIns
<1>1. PICK k \in Calls :
        /\ calls[k] = Nobody /\ calls' = [calls EXCEPT ![k] = calls'[k]]
        /\ calls'[k] \in CallSet
        /\ calls'[k].tab = t /\ calls'[k].kind = "verify" /\ calls'[k].who = u
        /\ calls'[k].token = 0
        /\ calls'[k].stage = "sent" /\ calls'[k].reply = "none" /\ calls'[k].pair = 0
  BY Sending DEF VerifyEmail, IInv, Kinds, Somebody
<1>2. CallOK(calls'[k], owner)
  BY <1>1 DEF CallOK, IInv, TypeInv
<1>3. UNCHANGED <<server, storage, user, kept, stream, out>>
  BY DEF VerifyEmail, LeaveUser
<1>4. out' => out /\ Harmless(calls'[k])
  BY <1>1, <1>3 DEF Harmless
<1>5. ASSUME NEW s \in Tabs, s \notin mingled'
      PROVE  /\ s \notin mingled /\ s # t
             /\ \A j \in Calls : calls[j] # Nobody => calls[j].tab # s
             /\ Follows(user'[s], stream'[s], owner, storage)
             /\ InTune(s, calls'[k], owner, storage)
  <2>1. s # t /\ s \notin mingled /\ s \notin Meets(t)
    BY <1>5 DEF VerifyEmail
  <2>2. Follows(user[s], stream[s], owner, storage)
    BY <2>1 DEF IInv, TabsInv, TabInTune
  <2>. QED
    BY <1>1, <1>3, <2>1, <2>2, NotMet DEF IInv, InTune
<1>6. /\ kept' \in Somebody /\ user' \in [Tabs -> Somebody] /\ stream' \in [Tabs -> StreamSet]
      /\ \A s \in Tabs : stream'[s].token \in 0..Len(owner)
  BY <1>3 DEF IInv, TypeInv
<1>7. out' \in BOOLEAN
  BY <1>3 DEF IInv, TypeInv
<1>. QED
  BY <1>1, <1>2, <1>3, <1>4, <1>5, <1>6, <1>7, CallStarts

LEMMA CallStep ==
  ASSUME IInv, NEW t \in Tabs, Call(t)
  PROVE  IInv'
<1>. USE DEF SignIns
<1>1. PICK k \in Calls :
        /\ calls[k] = Nobody /\ calls' = [calls EXCEPT ![k] = calls'[k]]
        /\ calls'[k] \in CallSet
        /\ calls'[k].tab = t /\ calls'[k].kind = "call"
        /\ calls'[k].token = storage
        /\ calls'[k].stage = "sent" /\ calls'[k].reply = "none" /\ calls'[k].pair = 0
  <2>1. user[t] \in Somebody
    BY DEF IInv, TypeInv
  <2>. QED
    BY <2>1, Sending DEF Call, IInv, Kinds
<1>2. CallOK(calls'[k], owner)
  BY <1>1 DEF CallOK, IInv, TypeInv
<1>3. UNCHANGED <<server, storage, user, kept, stream, out>>
  BY DEF Call, LeaveUser
<1>4. out' => out /\ Harmless(calls'[k])
  BY <1>1, <1>3 DEF IInv, OutInv, Harmless
<1>5. ASSUME NEW s \in Tabs, s \notin mingled'
      PROVE  /\ s \notin mingled
             /\ \A j \in Calls : calls[j] # Nobody => calls[j].tab # s
             /\ s = t => \A j \in Calls : calls[j] = Nobody
             /\ Follows(user'[s], stream'[s], owner, storage)
             /\ InTune(s, calls'[k], owner, storage)
  <2>1. s \notin mingled /\ s \notin Meets(t)
    BY <1>5 DEF Call
  <2>2. Follows(user[s], stream[s], owner, storage)
    BY <2>1 DEF IInv, TabsInv, TabInTune
  <2>. QED
    BY <1>1, <1>3, <2>1, <2>2, NotMet DEF IInv, InTune
<1>6. /\ kept' \in Somebody /\ user' \in [Tabs -> Somebody] /\ stream' \in [Tabs -> StreamSet]
      /\ \A s \in Tabs : stream'[s].token \in 0..Len(owner)
  BY <1>3 DEF IInv, TypeInv
<1>7. out' \in BOOLEAN
  BY <1>3 DEF IInv, TypeInv
<1>. QED
  BY <1>1, <1>2, <1>3, <1>4, <1>5, <1>6, <1>7, CallStarts

LEMMA OpenStep ==
  ASSUME IInv, NEW t \in Tabs, Open(t)
  PROVE  IInv'
<1>. USE DEF SignIns
<1>1. /\ UNCHANGED <<server, storage, out>> /\ storage \in 0..Len(owner) /\ out \in BOOLEAN
      /\ kept \in Somebody /\ user \in [Tabs -> Somebody] /\ stream \in [Tabs -> StreamSet]
      /\ \A s \in Tabs : stream[s].token \in 0..Len(owner)
  BY DEF Open, IInv, TypeInv
<1>2. ASSUME NEW s \in Tabs, s \notin mingled'
      PROVE  \/ s \notin mingled /\ s # t
             \/ s = t /\ Free = Calls /\ (storage = 0 \/ kept = owner[storage])
  BY <1>2 DEF Open
<1>3. ASSUME NEW s \in Tabs, s \notin mingled', s # t
      PROVE  Follows(user[s], stream[s], owner, storage)
  BY <1>2, <1>3 DEF IInv, TabsInv, TabInTune
<1>4. CASE storage = 0
  <2>1. /\ user' = [user EXCEPT ![t] = Nobody] /\ kept' = Nobody
        /\ stream' = [stream EXCEPT ![t] = Idle] /\ calls' = calls
    BY <1>4 DEF Open
  <2>2. /\ kept' \in Somebody /\ user' \in [Tabs -> Somebody] /\ stream' \in [Tabs -> StreamSet]
        /\ \A s \in Tabs : stream'[s].token \in 0..Len(owner)
    BY <1>1, <2>1 DEF Somebody, StreamSet, Idle
  <2>3. TypeInv' /\ CallsInv' /\ OutInv'
    BY <1>1, <2>1, <2>2 DEF IInv, TypeInv, CallsInv, OutInv, server
  <2>4. ASSUME NEW s \in Tabs, s \notin mingled' PROVE TabInTune(s)'
    <3>1. CASE s = t
      <4>1. Follows(user'[t], stream'[t], owner, storage)
        BY <1>1, <1>4, <2>1 DEF Follows, Holder, Idle
      <4>2. \A j \in Calls : calls[j] = Nobody
        BY <1>2, <2>4, <3>1 DEF Free
      <4>. QED
        BY <1>1, <2>1, <3>1, <4>1, <4>2 DEF TabInTune, server
    <3>2. CASE s # t
      <4>1. user'[s] = user[s] /\ stream'[s] = stream[s] /\ TabInTune(s)
        BY <1>1, <1>2, <2>1, <2>4, <3>2 DEF IInv, TabsInv
      <4>. QED
        BY <1>1, <2>1, <4>1 DEF TabInTune, server
    <3>. QED
      BY <3>1, <3>2
  <2>. QED
    BY <2>3, <2>4 DEF IInv, TabsInv
<1>5. CASE storage # 0
  <2>1. /\ Send(t, "me", kept) /\ user' = [user EXCEPT ![t] = kept] /\ kept' = kept
        /\ stream' = [stream EXCEPT ![t] = IF kept = Nobody THEN Idle ELSE Connecting(storage)]
    BY <1>5 DEF Open
  <2>2. PICK k \in Calls :
          /\ calls[k] = Nobody /\ calls' = [calls EXCEPT ![k] = calls'[k]]
          /\ calls'[k] \in CallSet
          /\ calls'[k].tab = t /\ calls'[k].kind = "me"
          /\ calls'[k].token = storage
          /\ calls'[k].stage = "sent" /\ calls'[k].reply = "none" /\ calls'[k].pair = 0
    BY <1>1, <2>1, Sending DEF IInv, Kinds
  <2>3. CallOK(calls'[k], owner)
    BY <1>1, <2>2 DEF CallOK, IInv, TypeInv
  <2>4. out' => out /\ Harmless(calls'[k])
    BY <1>1, <1>5 DEF IInv, OutInv
  <2>5. /\ kept' \in Somebody /\ user' \in [Tabs -> Somebody] /\ stream' \in [Tabs -> StreamSet]
        /\ \A s \in Tabs : stream'[s].token \in 0..Len(owner)
    BY <1>1, <2>1 DEF StreamSet, Idle, Connecting
  <2>6. ASSUME NEW s \in Tabs, s \notin mingled'
        PROVE  /\ s \in mingled => \A j \in Calls : calls[j] = Nobody
               /\ calls'[k].tab = s => \A j \in Calls : calls[j] = Nobody
               /\ \A j \in Calls : calls[j] # Nobody => calls[j].tab # s
               /\ Follows(user'[s], stream'[s], owner, storage)
               /\ InTune(s, calls'[k], owner, storage)
    <3>1. CASE s = t
      <4>1. (\A j \in Calls : calls[j] = Nobody) /\ kept = owner[storage]
        BY <1>2, <1>5, <2>6, <3>1 DEF Free
      <4>2. Follows(user'[t], stream'[t], owner, storage)
        BY <1>1, <1>5, <2>1, <4>1 DEF Follows, Holder, Idle, Connecting
      <4>. QED
        BY <1>5, <2>2, <3>1, <4>1, <4>2 DEF InTune
    <3>2. CASE s # t
      <4>1. user'[s] = user[s] /\ stream'[s] = stream[s]
        BY <1>1, <2>1, <3>2
      <4>2. s \notin mingled
        BY <1>2, <2>6, <3>2
      <4>3. \A j \in Calls : calls[j] # Nobody => calls[j].tab # s
        <5>1. CASE Free = Calls
          BY <5>1 DEF Free
        <5>2. CASE Free # Calls
          <6>1. s \notin Meets(t)
            BY <1>5, <2>6, <5>2 DEF Open
          <6>. QED
            BY <6>1, NotMet DEF IInv
        <5>. QED
          BY <5>1, <5>2
      <4>. QED
        BY <1>3, <2>2, <2>6, <3>2, <4>1, <4>2, <4>3 DEF InTune
    <3>. QED
      BY <3>1, <3>2
  <2>7. out' \in BOOLEAN
    BY <1>1
  <2>. QED
    BY <1>1, <2>2, <2>3, <2>4, <2>5, <2>6, <2>7, CallStarts
<1>. QED
  BY <1>4, <1>5

-----------------------------------------------------------------------------
(* What the server answers.                                                *)

\* The request in slot k is the one it was, but for its answer.
SameCall(k) ==
    /\ calls' = [calls EXCEPT ![k] = calls'[k]] /\ calls'[k] \in CallSet
    /\ calls'[k].tab = calls[k].tab /\ calls'[k].kind = calls[k].kind
    /\ calls'[k].who = calls[k].who /\ calls'[k].token = calls[k].token
    /\ calls'[k].stage = calls[k].stage

Replies == {"none", "ok", "unauthorized", "invalid", "lost"}

LEMMA Replied ==
  ASSUME TypeInv, NEW k \in Calls, calls[k] # Nobody, NEW r \in Replies, Reply(k, r)
  PROVE  SameCall(k) /\ calls'[k].reply = r /\ calls'[k].pair = calls[k].pair
<1>1. calls[k] \in CallSet /\ calls \in [Calls -> CallSet \cup {Nobody}]
  BY DEF TypeInv
<1>2. calls'[k] = [calls[k] EXCEPT !.reply = r]
  BY <1>1 DEF Reply
<1>3. [calls[k] EXCEPT !.reply = r] \in CallSet
  BY <1>1 DEF CallSet, Replies
<1>4. calls' = [calls EXCEPT ![k] = [calls[k] EXCEPT !.reply = r]]
  BY <1>1 DEF Reply
<1>. QED
  BY <1>1, <1>2, <1>3, <1>4 DEF SameCall, CallSet

LEMMA RepliedPair ==
  ASSUME TypeInv, NEW k \in Calls, calls[k] # Nobody, NEW n \in Nat, ReplyPair(k, n)
  PROVE  SameCall(k) /\ calls'[k].reply = "ok" /\ calls'[k].pair = n
<1>1. /\ calls[k] \in CallSet /\ calls \in [Calls -> CallSet \cup {Nobody}]
  BY DEF TypeInv
<1>2. calls'[k] = [calls[k] EXCEPT !.reply = "ok", !.pair = n]
  BY <1>1 DEF ReplyPair
<1>3. [calls[k] EXCEPT !.reply = "ok", !.pair = n] \in CallSet
  BY <1>1 DEF CallSet
<1>4. calls' = [calls EXCEPT ![k] = [calls[k] EXCEPT !.reply = "ok", !.pair = n]]
  BY <1>1 DEF ReplyPair
<1>. QED
  BY <1>1, <1>2, <1>3, <1>4 DEF SameCall, CallSet

LEMMA Answering ==
  ASSUME IInv, Grows, NEW k \in Calls, calls[k] # Nobody, SameCall(k),
         UNCHANGED <<storage, out>>, LeaveUser, mingled \subseteq mingled',
         calls'[k].pair \in 0..Len(owner'),
         calls[k].kind \in SignIns \cup {"verify", "logout"} => calls'[k].reply \in {"ok", "lost"},
         (calls[k].kind \in SignIns /\ calls'[k].reply = "ok") =>
            calls'[k].pair \in 1..Len(owner') /\ owner'[calls'[k].pair] = calls[k].who,
         (calls[k].kind \in {"call", "me"} /\ calls[k].stage = "sent" /\ calls'[k].reply = "ok") =>
            calls[k].token \in 1..Len(owner),
         (calls[k].stage = "refreshing" /\ calls'[k].reply = "ok") =>
            calls'[k].pair \in 1..Len(owner') /\ owner'[calls'[k].pair] = owner[calls[k].token],
         out => calls'[k].reply # "invalid",
         calls'[k].reply = "lost" => calls[k].tab \in mingled'
  PROVE  IInv'
<1>1. /\ calls[k] \in CallSet /\ CallOK(calls[k], owner)
      /\ storage \in 0..Len(owner) /\ Len(owner) \in Nat
  BY DEF IInv, TypeInv, CallsInv
<1>2. CallOK(calls'[k], owner')
  <2>1. calls'[k].token \in 0..Len(owner')
    BY <1>1 DEF SameCall, CallOK, Grows
  <2>. QED
    BY <1>1, <2>1 DEF SameCall, CallOK, Grows
<1>3. out => Harmless(calls'[k])
  BY DEF SameCall, Harmless, IInv, OutInv
<1>4. ASSUME NEW t \in Tabs, t \notin mingled'
      PROVE  InTune(t, calls'[k], owner', storage')
  <2>1. InTune(t, calls[k], owner, storage)
    BY <1>4 DEF IInv, TabsInv, TabInTune
  <2>2. calls[k].kind = "logout" => calls'[k].reply # "lost"
    BY <1>4, <2>1 DEF InTune
  <2>. QED
    BY <1>1, <2>1, <2>2 DEF InTune, SameCall, Grows, CallOK
<1>5. /\ kept' \in Somebody /\ user' \in [Tabs -> Somebody] /\ stream' \in [Tabs -> StreamSet]
      /\ \A t \in Tabs : stream'[t].token \in 0..Len(owner')
      /\ user' = user /\ stream' = stream /\ storage' \in 0..Len(owner')
      /\ out => storage' = 0
  BY <1>1 DEF LeaveUser, IInv, TypeInv, OutInv, Grows
<1>. QED
  BY <1>2, <1>3, <1>4, <1>5, CallMoves DEF SameCall, SameHolder

LEMMA ServeStep ==
  ASSUME IInv, NEW k \in Calls, Serve(k)
  PROVE  IInv'
<1>. USE DEF SignIns
<1>1. /\ calls[k] # Nobody /\ calls[k].stage = "sent" /\ calls[k].reply = "none"
      /\ UNCHANGED <<storage, out, mingled>> /\ LeaveUser
  BY DEF Serve, Pending
<1>2. /\ calls[k] \in CallSet /\ CallOK(calls[k], owner) /\ TypeInv
      /\ Len(owner) \in Nat /\ live \subseteq 1..Len(owner)
  BY <1>1 DEF IInv, TypeInv, CallsInv
<1>3. CASE calls[k].kind \in SignIns
  <2>1. Issue(k, calls[k].who) /\ calls[k].who \in Users
    BY <1>2, <1>3 DEF Serve, CallOK
  <2>2. Grows /\ \E n \in Nat : /\ n \in 1..Len(owner') /\ owner'[n] = calls[k].who
                                /\ ReplyPair(k, n)
    BY <1>2, <2>1, IssueGrows
  <2>3. /\ SameCall(k) /\ calls'[k].reply = "ok"
        /\ calls'[k].pair \in 1..Len(owner') /\ owner'[calls'[k].pair] = calls[k].who
    BY <1>1, <1>2, <2>2, RepliedPair
  <2>. QED
    BY <1>1, <1>2, <1>3, <2>2, <2>3, Answering
<1>4. ASSUME NEW r \in {"ok", "unauthorized", "invalid"}, Reply(k, r), Grows, calls[k].kind \notin SignIns,
             calls[k].kind \in {"verify", "logout"} => r = "ok",
             (calls[k].kind \in {"call", "me"} /\ r = "ok") => calls[k].token \in 1..Len(owner),
             out => r # "invalid"
      PROVE  IInv'
  <2>1. SameCall(k) /\ calls'[k].reply = r /\ calls'[k].pair = calls[k].pair
    BY <1>1, <1>2, <1>4, Replied DEF Replies
  <2>2. calls'[k].pair \in 0..Len(owner')
    BY <1>2, <1>4, <2>1 DEF CallOK, Grows
  <2>. QED
    BY <1>1, <1>2, <1>4, <2>1, <2>2, Answering
<1>5. CASE calls[k].kind = "logout"
  <2>1. Reply(k, "ok") /\ owner' = owner /\ renewable' = renewable /\ live' \subseteq live
    BY <1>5 DEF Serve
  <2>2. Grows
    BY <1>2, <2>1 DEF Grows, TypeInv
  <2>. QED
    BY <1>4, <1>5, <2>1, <2>2
<1>6. CASE calls[k].kind = "verify"
  <2>1. Reply(k, "ok") /\ Grows
    BY <1>2, <1>6, SameServer DEF Serve
  <2>. QED
    BY <1>4, <1>6, <2>1
<1>7. CASE calls[k].kind \in {"call", "me"}
  <2>. DEFINE r == Authorise(calls[k].token)
  <2>1. Reply(k, r) /\ Grows
    BY <1>2, <1>7, SameServer DEF Serve
  <2>2. r \in {"ok", "unauthorized", "invalid"} /\ (r = "ok" => calls[k].token \in live)
    BY DEF Authorise
  <2>3. out => r # "invalid"
    BY <1>1 DEF IInv, OutInv, Harmless, Authorise
  <2>. HIDE DEF r
  <2>. QED
    BY <1>2, <1>4, <1>7, <2>1, <2>2, <2>3
<1>. QED
  BY <1>2, <1>3, <1>5, <1>6, <1>7 DEF CallSet, Kinds

LEMMA ServeRefreshStep ==
  ASSUME IInv, NEW k \in Calls, ServeRefresh(k)
  PROVE  IInv'
<1>. USE DEF SignIns
<1>1. /\ calls[k] # Nobody /\ calls[k].stage = "refreshing" /\ calls[k].reply = "none"
      /\ UNCHANGED <<storage, out, mingled>> /\ LeaveUser
  BY DEF ServeRefresh, Pending
<1>2. /\ calls[k] \in CallSet /\ CallOK(calls[k], owner) /\ TypeInv
      /\ Len(owner) \in Nat /\ owner \in Seq(Users)
  BY <1>1 DEF IInv, TypeInv, CallsInv
<1>3. calls[k].token \in 1..Len(owner) /\ calls[k].kind \in {"call", "me"} /\ ~out
  BY <1>1, <1>2 DEF CallOK, CallSet, Kinds, IInv, OutInv, Harmless
<1>4. CASE calls[k].token \in renewable
  <2>1. Issue(k, owner[calls[k].token]) /\ owner[calls[k].token] \in Users
    BY <1>2, <1>3, <1>4 DEF ServeRefresh
  <2>2. Grows /\ \E n \in Nat : /\ n \in 1..Len(owner')
                                /\ owner'[n] = owner[calls[k].token] /\ ReplyPair(k, n)
    BY <1>2, <2>1, IssueGrows
  <2>3. /\ SameCall(k) /\ calls'[k].reply = "ok"
        /\ calls'[k].pair \in 1..Len(owner') /\ owner'[calls'[k].pair] = owner[calls[k].token]
    BY <1>1, <1>2, <2>2, RepliedPair
  <2>. QED
    BY <1>1, <1>2, <1>3, <2>2, <2>3, Answering
<1>5. CASE calls[k].token \notin renewable
  <2>1. Reply(k, "invalid") /\ Grows
    BY <1>2, <1>5, SameServer DEF ServeRefresh
  <2>2. SameCall(k) /\ calls'[k].reply = "invalid" /\ calls'[k].pair = calls[k].pair
    BY <1>1, <1>2, <2>1, Replied DEF Replies
  <2>3. calls'[k].pair \in 0..Len(owner')
    BY <1>2, <2>1, <2>2 DEF CallOK, Grows
  <2>. QED
    BY <1>1, <1>2, <1>3, <2>1, <2>2, <2>3, Answering
<1>. QED
  BY <1>4, <1>5

LEMMA RefuseStep ==
  ASSUME IInv, NEW k \in Calls, Refuse(k)
  PROVE  IInv'
<1>. USE DEF SignIns
<1>1. /\ calls[k] # Nobody /\ Reply(k, "lost") /\ mingled' = mingled \cup {calls[k].tab}
      /\ UNCHANGED <<server, storage, out>> /\ LeaveUser
  BY DEF Refuse
<1>2. Grows
  BY <1>1, SameServer DEF IInv
<1>3. SameCall(k) /\ calls'[k].reply = "lost" /\ calls'[k].pair = calls[k].pair
  BY <1>1, Replied DEF IInv, Replies
<1>4. calls'[k].pair \in 0..Len(owner')
  <2>1. CallOK(calls[k], owner)
    BY <1>1 DEF IInv, CallsInv
  <2>. QED
    BY <1>1, <1>3, <2>1 DEF CallOK, server
<1>. QED
  BY <1>1, <1>2, <1>3, <1>4, Answering

-----------------------------------------------------------------------------
(* What the browser does with an answer.                                   *)

LEMMA RenewStep ==
  ASSUME IInv, NEW k \in Calls, Renew(k)
  PROVE  IInv'
<1>. USE DEF SignIns
<1>1. /\ calls[k] # Nobody /\ calls[k].stage = "sent" /\ calls[k].reply = "invalid" /\ storage # 0
      /\ calls' = [calls EXCEPT ![k].stage = "refreshing", ![k].token = storage, ![k].reply = "none"]
      /\ UNCHANGED <<server, storage, out, mingled, user, kept, stream>>
  BY DEF Renew, Answered, MayRefresh, LeaveUser
<1>2. /\ calls[k] \in CallSet /\ CallOK(calls[k], owner) /\ TypeInv
      /\ Len(owner) \in Nat /\ storage \in 0..Len(owner) /\ storage \in Nat
      /\ calls \in [Calls -> CallSet \cup {Nobody}]
  BY <1>1 DEF IInv, TypeInv, CallsInv
<1>3. calls[k].kind \in {"call", "me"} /\ ~out
  BY <1>1, <1>2 DEF CallOK, CallSet, Kinds, IInv, OutInv, Harmless
<1>. DEFINE c == [calls[k] EXCEPT !.stage = "refreshing", !.token = storage, !.reply = "none"]
<1>4. calls' = [calls EXCEPT ![k] = c] /\ calls'[k] = c
  BY <1>1, <1>2
<1>5. /\ c \in CallSet /\ c.tab = calls[k].tab /\ c.kind = calls[k].kind /\ c.token = storage
      /\ c.stage = "refreshing" /\ c.reply = "none" /\ c.pair = calls[k].pair
  BY <1>2 DEF CallSet
<1>. HIDE DEF c
<1>6. Grows
  BY <1>1, <1>2, SameServer
<1>7. CallOK(c, owner)
  BY <1>1, <1>2, <1>3, <1>5 DEF CallOK
<1>8. ASSUME NEW t \in Tabs, t \notin mingled'
      PROVE  InTune(t, c, owner', storage')
  <2>1. InTune(t, calls[k], owner, storage)
    BY <1>1, <1>8 DEF IInv, TabsInv, TabInTune
  <2>. QED
    BY <1>1, <1>3, <1>5, <2>1 DEF InTune, server
<1>9. /\ kept' \in Somebody /\ user' \in [Tabs -> Somebody] /\ stream' \in [Tabs -> StreamSet]
      /\ \A t \in Tabs : stream'[t].token \in 0..Len(owner')
      /\ storage' \in 0..Len(owner') /\ CallOK(c, owner')
      /\ calls' = [calls EXCEPT ![k] = calls'[k]]
  BY <1>1, <1>2, <1>4, <1>7 DEF TypeInv, server
<1>. QED
  BY <1>1, <1>3, <1>4, <1>5, <1>6, <1>8, <1>9, CallMoves DEF SameHolder

LEMMA SendAgainStep ==
  ASSUME IInv, NEW k \in Calls, SendAgain(k)
  PROVE  IInv'
<1>. USE DEF SignIns
<1>1. /\ calls[k] # Nobody /\ calls[k].stage = "refreshing" /\ calls[k].reply = "ok"
      /\ storage' = calls[k].pair
      /\ calls' = [calls EXCEPT ![k].stage = "sent", ![k].token = calls[k].pair, ![k].again = TRUE,
                                ![k].reply = "none", ![k].pair = 0]
      /\ UNCHANGED <<server, out, mingled, user, kept, stream>>
  BY DEF SendAgain, Answered, LeaveUser
<1>2. /\ calls[k] \in CallSet /\ CallOK(calls[k], owner) /\ TypeInv /\ Len(owner) \in Nat
      /\ calls \in [Calls -> CallSet \cup {Nobody}]
  BY <1>1 DEF IInv, TypeInv, CallsInv
<1>3. /\ calls[k].kind \in {"call", "me"} /\ ~out
      /\ calls[k].pair \in 1..Len(owner) /\ owner[calls[k].pair] = owner[calls[k].token]
  BY <1>1, <1>2 DEF CallOK, CallSet, Kinds, IInv, OutInv, Harmless
<1>. DEFINE c == [calls[k] EXCEPT !.stage = "sent", !.token = calls[k].pair, !.again = TRUE,
                                  !.reply = "none", !.pair = 0]
<1>4. calls' = [calls EXCEPT ![k] = c] /\ calls'[k] = c
  BY <1>1, <1>2
<1>5. /\ c \in CallSet /\ c.tab = calls[k].tab /\ c.kind = calls[k].kind /\ c.token = calls[k].pair
      /\ c.stage = "sent" /\ c.reply = "none" /\ c.pair = 0
  BY <1>2 DEF CallSet
<1>. HIDE DEF c
<1>6. Grows
  BY <1>1, <1>2, SameServer
<1>7. CallOK(c, owner)
  BY <1>1, <1>2, <1>3, <1>5 DEF CallOK
<1>8. ASSUME NEW t \in Tabs, t \notin mingled'
      PROVE  InTune(t, c, owner', storage') /\ SameHolder
  <2>1. InTune(t, calls[k], owner, storage)
    BY <1>1, <1>8 DEF IInv, TabsInv, TabInTune
  <2>2. storage # 0 /\ storage' # 0 /\ owner[storage'] = owner[storage]
    BY <1>1, <1>2, <1>3, <2>1 DEF InTune
  <2>. QED
    BY <1>1, <1>3, <1>5, <2>1, <2>2 DEF InTune, SameHolder, server
<1>9. /\ kept' \in Somebody /\ user' \in [Tabs -> Somebody] /\ stream' \in [Tabs -> StreamSet]
      /\ \A t \in Tabs : stream'[t].token \in 0..Len(owner')
  BY <1>1, <1>2 DEF TypeInv, server
<1>10. storage' \in 0..Len(owner') /\ CallOK(c, owner') /\ calls' = [calls EXCEPT ![k] = calls'[k]]
  <2>1. calls' = [calls EXCEPT ![k] = calls'[k]]
    BY <1>4
  <2>2. owner' = owner /\ calls[k].pair \in 0..Len(owner)
    BY <1>1, <1>2, <1>3 DEF server
  <2>. QED
    BY <1>1, <1>7, <2>1, <2>2
<1>11. \A t \in Tabs : t \notin mingled' =>
         /\ SameHolder /\ user'[t] = user[t] /\ stream'[t] = stream[t]
         /\ calls'[k] # Nobody => InTune(t, calls'[k], owner', storage')
  BY <1>1, <1>4, <1>8
<1>12. /\ calls'[k] \in CallSet /\ calls'[k].tab = calls[k].tab /\ CallOK(calls'[k], owner')
       /\ ~out /\ out' = out /\ mingled \subseteq mingled' /\ calls[k] # Nobody
  BY <1>1, <1>3, <1>4, <1>5, <1>10
<1>. QED
  BY <1>6, <1>9, <1>10, <1>11, <1>12, CallMoves

\* The stream that SetUser leaves a tab with.
LEMMA SettingUser ==
  ASSUME TypeInv, NEW t \in Tabs, NEW u \in Somebody, NEW pair \in 0..Len(owner), SetUser(t, u, pair)
  PROVE  /\ kept' \in Somebody /\ user' \in [Tabs -> Somebody] /\ stream' \in [Tabs -> StreamSet]
         /\ \A s \in Tabs : stream'[s].token \in 0..Len(owner)
         /\ \A s \in Tabs : s # t => user'[s] = user[s] /\ stream'[s] = stream[s]
         /\ user'[t] = u /\ stream'[t] = Streamed(stream[t], user[t], u, pair)
<1>1. /\ user' = [user EXCEPT ![t] = u] /\ kept' = u
      /\ stream' = [stream EXCEPT ![t] = Streamed(stream[t], user[t], u, pair)]
      /\ user \in [Tabs -> Somebody] /\ stream \in [Tabs -> StreamSet]
      /\ \A s \in Tabs : stream[s].token \in 0..Len(owner)
      /\ pair \in Nat
  BY DEF SetUser, TypeInv
<1>2. /\ Streamed(stream[t], user[t], u, pair) \in StreamSet
      /\ Streamed(stream[t], user[t], u, pair).token \in 0..Len(owner)
  BY <1>1 DEF Streamed, Connecting, Idle, StreamSet, TypeInv
<1>. QED
  BY <1>1, <1>2

LEMMA StreamClosed ==
  ASSUME NEW s, NEW before, NEW pair
  PROVE  Streamed(s, before, Nobody, pair) = Idle
  BY DEF Streamed

LEMMA SignedInStep ==
  ASSUME SessionAssumption, IInv, NEW k \in Calls, SignedIn(k)
  PROVE  IInv'
<1>. DEFINE t == calls[k].tab
            u == calls[k].who
            pair == calls[k].pair
<1>1. /\ calls[k] # Nobody /\ calls[k].kind \in SignIns /\ calls[k].reply = "ok"
      /\ storage' = pair /\ SetUser(t, u, pair) /\ calls' = [calls EXCEPT ![k] = Nobody]
      /\ UNCHANGED <<server, out, mingled>>
  BY DEF SignedIn, Answered, Done, SignIns
<1>2. /\ calls[k] \in CallSet /\ CallOK(calls[k], owner) /\ TypeInv /\ Len(owner) \in Nat
  BY <1>1 DEF IInv, TypeInv, CallsInv
<1>3. /\ t \in Tabs /\ u \in Users /\ u \in Somebody /\ u # Nobody
      /\ pair \in 1..Len(owner) /\ pair \in 0..Len(owner) /\ pair # 0 /\ owner[pair] = u /\ ~out
  BY <1>1, <1>2 DEF CallOK, CallSet, Somebody, SessionAssumption, IInv, OutInv, Harmless
<1>. HIDE DEF t, u, pair
<1>4. /\ kept' \in Somebody /\ user' \in [Tabs -> Somebody] /\ stream' \in [Tabs -> StreamSet]
      /\ \A s \in Tabs : stream'[s].token \in 0..Len(owner)
      /\ user'[t] = u /\ stream'[t] = Streamed(stream[t], user[t], u, pair)
  BY <1>1, <1>2, <1>3, SettingUser
<1>5. ASSUME NEW s \in Tabs, s \notin mingled'
      PROVE  s \notin mingled /\ t = s /\ Follows(user'[s], stream'[s], owner, storage')
  <2>1. InTune(s, calls[k], owner, storage) /\ Follows(user[s], stream[s], owner, storage)
    BY <1>1, <1>5 DEF IInv, TabsInv, TabInTune
  <2>2. t = s /\ storage = 0
    BY <1>1, <2>1 DEF InTune, t
  <2>3. user[t] = Nobody
    BY <2>1, <2>2 DEF Follows, Holder
  <2>4. stream'[t].token = pair
    BY <1>3, <1>4, <2>3 DEF Streamed, Connecting
  <2>. QED
    BY <1>1, <1>3, <1>4, <1>5, <2>2, <2>4 DEF Follows, Holder
<1>. QED
  BY <1>1, <1>2, <1>3, <1>4, <1>5, CallEnds DEF t, IInv, TypeInv

LEMMA SignedOutStep ==
  ASSUME IInv, NEW k \in Calls, SignedOut(k)
  PROVE  IInv'
<1>. DEFINE t == calls[k].tab
<1>1. /\ calls[k] # Nobody /\ calls[k].kind = "logout" /\ calls[k].reply # "none" /\ storage' = 0
      /\ IF calls[k].reply = "ok" THEN SetUser(t, Nobody, 0) ELSE UNCHANGED <<user, kept, stream>>
      /\ calls' = [calls EXCEPT ![k] = Nobody]
      /\ out' = \A j \in Calls \ {k} : calls[j] = Nobody
      /\ UNCHANGED <<server, mingled>>
  BY DEF SignedOut, Done, LeaveUser
<1>2. /\ calls[k] \in CallSet /\ CallOK(calls[k], owner) /\ TypeInv /\ Len(owner) \in Nat
      /\ t \in Tabs /\ Nobody \in Somebody /\ 0 \in 0..Len(owner)
  BY <1>1 DEF IInv, TypeInv, CallsInv, CallSet, Somebody
<1>. HIDE DEF t
<1>3. /\ kept' \in Somebody /\ user' \in [Tabs -> Somebody] /\ stream' \in [Tabs -> StreamSet]
      /\ \A s \in Tabs : stream'[s].token \in 0..Len(owner)
      /\ calls[k].reply = "ok" => user'[t] = Nobody /\ stream'[t] = Idle
  <2>1. CASE calls[k].reply = "ok"
    <3>1. SetUser(t, Nobody, 0) /\ Streamed(stream[t], user[t], Nobody, 0) = Idle
      BY <1>1, <2>1, StreamClosed
    <3>. QED
      BY <1>2, <3>1, SettingUser
  <2>2. CASE calls[k].reply # "ok"
    BY <1>1, <1>2, <2>2 DEF TypeInv
  <2>. QED
    BY <2>1, <2>2
<1>4. ASSUME NEW s \in Tabs, s \notin mingled'
      PROVE  s \notin mingled /\ t = s /\ Follows(user'[s], stream'[s], owner, storage')
  <2>1. InTune(s, calls[k], owner, storage)
    BY <1>1, <1>4 DEF IInv, TabsInv, TabInTune
  <2>2. t = s /\ calls[k].reply = "ok"
    BY <1>1, <1>2, <2>1 DEF InTune, CallOK, t
  <2>. QED
    BY <1>1, <1>3, <1>4, <2>2 DEF Follows, Holder, Idle
<1>5. out' => storage' = 0 /\ (out \/ \A j \in Calls : j # k => calls[j] = Nobody)
  BY <1>1
<1>6. out' \in BOOLEAN
  BY <1>1
<1>. QED
  BY <1>1, <1>2, <1>3, <1>4, <1>5, <1>6, CallEnds DEF t

LEMMA VerifiedStep ==
  ASSUME IInv, NEW k \in Calls, Verified(k)
  PROVE  IInv'
<1>. DEFINE t == calls[k].tab
            u == calls[k].who
<1>1. /\ calls[k] # Nobody /\ calls[k].kind = "verify"
      /\ IF calls[k].reply = "ok" THEN SetUser(t, u, storage) ELSE UNCHANGED <<user, kept, stream>>
      /\ calls' = [calls EXCEPT ![k] = Nobody] /\ UNCHANGED <<server, storage, out, mingled>>
  BY DEF Verified, Done, LeaveUser
<1>2. /\ calls[k] \in CallSet /\ TypeInv /\ storage \in 0..Len(owner) /\ t \in Tabs /\ u \in Somebody
      /\ calls \in [Calls -> CallSet \cup {Nobody}]
  BY <1>1 DEF IInv, TypeInv, CallSet
<1>. HIDE DEF t, u
<1>3. /\ kept' \in Somebody /\ user' \in [Tabs -> Somebody] /\ stream' \in [Tabs -> StreamSet]
      /\ \A s \in Tabs : stream'[s].token \in 0..Len(owner)
      /\ \A s \in Tabs : s # t => user'[s] = user[s] /\ stream'[s] = stream[s]
  <2>1. CASE calls[k].reply = "ok"
    BY <1>1, <1>2, <2>1, SettingUser
  <2>2. CASE calls[k].reply # "ok"
    BY <1>1, <1>2, <2>2 DEF TypeInv
  <2>. QED
    BY <2>1, <2>2
<1>4. ASSUME NEW s \in Tabs, s \notin mingled'
      PROVE  SameHolder /\ user'[s] = user[s] /\ stream'[s] = stream[s]
  <2>1. InTune(s, calls[k], owner, storage)
    BY <1>1, <1>4 DEF IInv, TabsInv, TabInTune
  <2>. QED
    BY <1>1, <1>3, <2>1 DEF InTune, SameHolder, t
<1>5. calls'[k] = Nobody /\ Grows /\ owner' = owner
  BY <1>1, <1>2, SameServer DEF server
<1>6. out => storage' = 0
  BY <1>1 DEF IInv, OutInv
<1>7. calls' = [calls EXCEPT ![k] = calls'[k]]
  BY <1>1, <1>5
<1>. QED
  BY <1>1, <1>2, <1>3, <1>4, <1>5, <1>6, <1>7, CallMoves

LEMMA ReturnedStep ==
  ASSUME SessionAssumption, IInv, NEW k \in Calls, Returned(k)
  PROVE  IInv'
<1>. DEFINE t == calls[k].tab
            u == owner[calls[k].token]
<1>1. /\ calls[k] # Nobody /\ calls[k].kind \in {"me", "call"}
      /\ calls[k].stage = "sent" /\ calls[k].reply = "ok"
      /\ IF calls[k].kind = "me" THEN SetUser(t, u, storage) ELSE UNCHANGED <<user, kept, stream>>
      /\ calls' = [calls EXCEPT ![k] = Nobody] /\ UNCHANGED <<server, storage, out, mingled>>
  BY DEF Returned, Answered, Done, LeaveUser
<1>2. /\ calls[k] \in CallSet /\ CallOK(calls[k], owner) /\ TypeInv /\ storage \in 0..Len(owner)
      /\ t \in Tabs /\ calls \in [Calls -> CallSet \cup {Nobody}]
      /\ owner \in Seq(Users) /\ Len(owner) \in Nat
  BY <1>1 DEF IInv, TypeInv, CallSet, CallsInv
<1>3. u \in Users /\ u \in Somebody
  BY <1>1, <1>2 DEF CallOK, Somebody
<1>. HIDE DEF t, u
<1>4. /\ kept' \in Somebody /\ user' \in [Tabs -> Somebody] /\ stream' \in [Tabs -> StreamSet]
      /\ \A s \in Tabs : stream'[s].token \in 0..Len(owner)
      /\ \A s \in Tabs : s # t => user'[s] = user[s] /\ stream'[s] = stream[s]
      /\ calls[k].kind = "me" => user'[t] = u /\ stream'[t] = Streamed(stream[t], user[t], u, storage)
      /\ calls[k].kind # "me" => user' = user /\ stream' = stream
  <2>1. CASE calls[k].kind = "me"
    BY <1>1, <1>2, <1>3, <2>1, SettingUser
  <2>2. CASE calls[k].kind # "me"
    BY <1>1, <1>2, <2>2 DEF TypeInv
  <2>. QED
    BY <2>1, <2>2
<1>5. ASSUME NEW s \in Tabs, s \notin mingled'
      PROVE  SameHolder /\ user'[s] = user[s] /\ stream'[s] = stream[s]
  <2>1. CASE s = t /\ calls[k].kind = "me"
    <3>1. InTune(s, calls[k], owner, storage) /\ Follows(user[s], stream[s], owner, storage)
      BY <1>1, <1>5 DEF IInv, TabsInv, TabInTune
    <3>2. storage # 0 /\ u = owner[storage]
      BY <2>1, <3>1 DEF InTune, t, u
    <3>3. user[s] = u /\ user[s] # Nobody
      BY <1>3, <3>1, <3>2 DEF Follows, Holder, SessionAssumption
    <3>4. stream'[s] = stream[s]
      BY <1>3, <1>4, <2>1, <3>3 DEF Streamed, SessionAssumption
    <3>. QED
      BY <1>1, <1>4, <2>1, <3>3, <3>4 DEF SameHolder
  <2>2. CASE ~(s = t /\ calls[k].kind = "me")
    BY <1>1, <1>4, <2>2 DEF SameHolder
  <2>. QED
    BY <2>1, <2>2
<1>6. calls'[k] = Nobody /\ Grows /\ owner' = owner
  BY <1>1, <1>2, SameServer DEF server
<1>7. out => storage' = 0
  BY <1>1 DEF IInv, OutInv
<1>8. calls' = [calls EXCEPT ![k] = calls'[k]]
  BY <1>1, <1>6
<1>. QED
  BY <1>1, <1>2, <1>4, <1>5, <1>6, <1>7, <1>8, CallMoves

LEMMA ThrewStep ==
  ASSUME IInv, NEW k \in Calls, Threw(k)
  PROVE  IInv'
<1>. DEFINE t == calls[k].tab
            unauthorised == calls[k].reply \in {"invalid", "unauthorized"} \/ calls[k].stage = "refreshing"
            clears == calls[k].stage = "refreshing" \/ (calls[k].kind = "me" /\ unauthorised)
<1>1. /\ calls[k] # Nobody
      /\ storage' = IF clears THEN 0 ELSE storage
      /\ IF calls[k].kind = "me" /\ unauthorised
         THEN SetUser(t, Nobody, 0) ELSE UNCHANGED <<user, kept, stream>>
      /\ mingled' = IF clears THEN mingled \cup Others(t) \cup
                          (IF calls[k].kind = "me" THEN {} ELSE {t})
                    ELSE mingled
      /\ calls' = [calls EXCEPT ![k] = Nobody] /\ UNCHANGED <<server, out>>
  BY DEF Threw, GivesUp, Answered, Done, LeaveUser
<1>2. /\ calls[k] \in CallSet /\ TypeInv /\ storage \in 0..Len(owner) /\ Len(owner) \in Nat
      /\ t \in Tabs /\ calls \in [Calls -> CallSet \cup {Nobody}] /\ out \in BOOLEAN
      /\ 0 \in 0..Len(owner) /\ Nobody \in Somebody
  BY <1>1 DEF IInv, TypeInv, CallSet, Somebody
<1>. HIDE DEF t
<1>3. /\ kept' \in Somebody /\ user' \in [Tabs -> Somebody] /\ stream' \in [Tabs -> StreamSet]
      /\ \A s \in Tabs : stream'[s].token \in 0..Len(owner)
      /\ (calls[k].kind = "me" /\ unauthorised) => user'[t] = Nobody /\ stream'[t] = Idle
      /\ ~(calls[k].kind = "me" /\ unauthorised) => user' = user /\ stream' = stream
  <2>1. CASE calls[k].kind = "me" /\ unauthorised
    <3>1. SetUser(t, Nobody, 0) /\ Streamed(stream[t], user[t], Nobody, 0) = Idle
      BY <1>1, <2>1, StreamClosed
    <3>. QED
      BY <1>2, <2>1, <3>1, SettingUser
  <2>2. CASE ~(calls[k].kind = "me" /\ unauthorised)
    BY <1>1, <1>2, <2>2 DEF TypeInv
  <2>. QED
    BY <2>1, <2>2
<1>4. CASE clears
  <2>1. ASSUME NEW s \in Tabs, s \notin mingled'
        PROVE  s \notin mingled /\ t = s /\ Follows(user'[s], stream'[s], owner, storage')
    <3>1. s \notin mingled /\ t = s /\ calls[k].kind = "me"
      BY <1>1, <1>4, <2>1 DEF Others
    <3>. QED
      BY <1>1, <1>3, <1>4, <3>1 DEF Follows, Holder, Idle
  <2>2. /\ storage' = 0 /\ storage' \in 0..Len(owner) /\ out' = out /\ out' \in BOOLEAN
        /\ UNCHANGED server /\ calls' = [calls EXCEPT ![k] = Nobody]
    BY <1>1, <1>2, <1>4
  <2>3. ASSUME NEW s \in Tabs, s \notin mingled'
        PROVE  s \notin mingled /\ calls[k].tab = s /\ Follows(user'[s], stream'[s], owner, storage')
    BY <2>1, <2>3 DEF t
  <2>4. /\ calls[k] # Nobody /\ kept' \in Somebody
        /\ user' \in [Tabs -> Somebody] /\ stream' \in [Tabs -> StreamSet]
        /\ \A s \in Tabs : stream'[s].token \in 0..Len(owner)
    BY <1>1, <1>3
  <2>5. out' => storage' = 0 /\ (out \/ \A j \in Calls : j # k => calls[j] = Nobody)
    BY <2>2
  <2>. QED
    BY <2>2, <2>3, <2>4, <2>5, CallEnds
<1>5. CASE ~clears
  <2>1. /\ storage' = storage /\ mingled' = mingled
        /\ user' = user /\ stream' = stream /\ calls'[k] = Nobody
    BY <1>1, <1>2, <1>3, <1>5
  <2>2. Grows /\ owner' = owner
    BY <1>1, <1>2, SameServer DEF server
  <2>3. out => storage' = 0
    BY <2>1 DEF IInv, OutInv
  <2>4. calls' = [calls EXCEPT ![k] = calls'[k]]
    BY <1>1, <2>1
  <2>. QED
    BY <1>1, <1>2, <1>3, <2>1, <2>2, <2>3, <2>4, CallMoves DEF SameHolder
<1>. QED
  BY <1>4, <1>5

-----------------------------------------------------------------------------
(* Time and the streams.                                                   *)

LEMMA ExpireStep == ASSUME IInv, Expire PROVE IInv'
<1>1. /\ live' \subseteq live /\ renewable' \subseteq renewable
      /\ UNCHANGED <<owner, storage, kept, user, stream, calls, out, mingled>>
  BY DEF Expire, LeaveUser
<1>2. TypeInv'
  BY <1>1 DEF IInv, TypeInv
<1>. QED
  BY <1>1, <1>2 DEF IInv, CallsInv, OutInv, TabsInv, TabInTune

LEMMA StreamStep ==
  ASSUME IInv, NEW t \in Tabs, StreamOpened(t) \/ StreamRefused(t) \/ StreamDropped(t)
  PROVE  IInv'
<1>1. /\ UNCHANGED <<server, storage, kept, user, calls, out, mingled>>
      /\ stream[t].status # "idle"
      /\ \E s \in {"open", "reconnecting"} : stream' = [stream EXCEPT ![t].status = s]
  BY DEF StreamOpened, StreamRefused, StreamDropped
<1>2. /\ stream \in [Tabs -> StreamSet]
      /\ \A s \in Tabs : stream[s].token \in 0..Len(owner)
  BY DEF IInv, TypeInv
<1>3. /\ stream' \in [Tabs -> StreamSet]
      /\ \A s \in Tabs : stream'[s].token = stream[s].token
      /\ \A s \in Tabs : stream'[s].status # "idle" => stream[s].status # "idle"
  BY <1>1, <1>2 DEF StreamSet
<1>4. TypeInv'
  BY <1>1, <1>2, <1>3 DEF IInv, TypeInv, server
<1>5. TabsInv'
  <2>. SUFFICES ASSUME NEW s \in Tabs, s \notin mingled' PROVE TabInTune(s)'
    BY DEF TabsInv
  <2>1. TabInTune(s)
    BY <1>1 DEF IInv, TabsInv
  <2>2. Follows(user'[s], stream'[s], owner', storage')
    BY <1>1, <1>3, <2>1 DEF TabInTune, Follows, server
  <2>. QED
    BY <1>1, <2>1, <2>2 DEF TabInTune, server
<1>. QED
  BY <1>1, <1>4, <1>5 DEF IInv, CallsInv, OutInv, server

LEMMA InitIInv == ASSUME Init PROVE IInv
<1>1. TypeInv
  <2>1. owner = << >> /\ owner \in Seq(Users) /\ Len(owner) = 0
    BY DEF Init
  <2>2. stream \in [Tabs -> StreamSet] /\ \A t \in Tabs : stream[t].token = 0
    BY DEF Init, StreamSet, Idle
  <2>3. user \in [Tabs -> Somebody] /\ calls \in [Calls -> CallSet \cup {Nobody}] /\ kept \in Somebody
    BY DEF Init, Somebody
  <2>4. storage = 0 /\ live = {} /\ renewable = {} /\ out = FALSE
    BY DEF Init
  <2>5. storage \in 0..Len(owner) /\ \A t \in Tabs : stream[t].token \in 0..Len(owner)
    BY <2>1, <2>2, <2>4
  <2>6. live \subseteq 1..Len(owner) /\ renewable \subseteq 1..Len(owner) /\ out \in BOOLEAN
    BY <2>4
  <2>. QED
    BY <2>1, <2>2, <2>3, <2>5, <2>6 DEF TypeInv
<1>2. CallsInv /\ OutInv
  BY DEF Init, CallsInv, OutInv
<1>3. TabsInv
  BY DEF Init, TabsInv, TabInTune, Follows, Holder, Idle
<1>. QED
  BY <1>1, <1>2, <1>3 DEF IInv

LEMMA NextIInv == ASSUME SessionAssumption, IInv, [Next]_vars PROVE IInv'
<1>1. CASE \E t \in Tabs, u \in Users : SignIn(t, u) \/ Register(t, u) \/ VerifyEmail(t, u)
  BY <1>1, SubmitStep, VerifyStep DEF SignIn, Register, SignIns
<1>2. CASE \E t \in Tabs : SignOut(t) \/ Call(t) \/ Open(t)
  BY <1>2, SignOutStep, CallStep, OpenStep
<1>3. CASE \E k \in Calls : Progress(k) \/ Refuse(k)
  BY <1>3, ServeStep, ServeRefreshStep, RenewStep, SendAgainStep, SignedInStep, SignedOutStep,
     VerifiedStep, ReturnedStep, ThrewStep, RefuseStep DEF Progress
<1>4. CASE Expire
  BY <1>4, ExpireStep
<1>5. CASE \E t \in Tabs : StreamOpened(t) \/ StreamRefused(t) \/ StreamDropped(t)
  BY <1>5, StreamStep
<1>6. CASE UNCHANGED vars
  BY <1>6 DEF vars, server, IInv, TypeInv, CallsInv, OutInv, TabsInv, TabInTune
<1>. QED
  BY <1>1, <1>2, <1>3, <1>4, <1>5, <1>6 DEF Next

LEMMA SpecIInv == Spec => []IInv
<1>1. SessionAssumption
  BY SessionAssumption
<1>. QED
  BY <1>1, InitIInv, NextIInv, PTL DEF Spec

-----------------------------------------------------------------------------
\* Signed out with nothing else in flight, a browser gets no tokens back, and what
\* stores and streams hold stays typed (logout, doRequest and renewals).
THEOREM SignedOutSafe == Spec => []SessionsSound
<1>1. IInv => SessionsSound
  BY DEF IInv, TypeInv, OutInv, SessionsSound, TypeOK, SignedOutStays, Issued, Somebody, StreamSet
<1>. QED
  BY <1>1, SpecIInv, PTL

\* The store of a quiet tab that nothing interfered with names the user its tokens
\* are of, so AdminGuard lets administrators only through.
THEOREM StoreFollowsSafe == Spec => []StoreFollowsTokens
<1>1. SessionAssumption
  BY SessionAssumption
<1>2. IInv => StoreFollowsTokens
  <2>. SUFFICES ASSUME IInv, NEW t \in Tabs, t \notin mingled
                PROVE  /\ user[t] = IF storage = 0 THEN Nobody ELSE owner[storage]
                       /\ AdminGuard(t) => storage # 0 /\ owner[storage] \in Admins
    BY DEF StoreFollowsTokens, Quiet
  <2>1. Follows(user[t], stream[t], owner, storage)
    BY DEF IInv, TabsInv, TabInTune
  <2>. QED
    BY <1>1, <2>1 DEF Follows, Holder, AdminGuard, SessionAssumption
<1>. QED
  BY <1>2, SpecIInv, PTL

\* Such a tab listens to its own user's events (useStream).
THEOREM StreamOwnSafe == Spec => []StreamIsOwn
<1>1. IInv => StreamIsOwn
  <2>. SUFFICES ASSUME IInv, NEW t \in Tabs, t \notin mingled, stream[t].status # "idle"
                PROVE  owner[stream[t].token] = user[t]
    BY DEF StreamIsOwn, Quiet
  <2>1. Follows(user[t], stream[t], owner, storage)
    BY DEF IInv, TabsInv, TabInTune
  <2>. QED
    BY <2>1 DEF Follows, Holder
<1>. QED
  BY <1>1, SpecIInv, PTL
=============================================================================
