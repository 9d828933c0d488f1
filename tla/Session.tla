------------------------------ MODULE Session -------------------------------
(***************************************************************************)
(* A member's session in a browser: the pair of tokens in localStorage,    *)
(* shared by the tabs; the signed-in user each tab believes in; requests   *)
(* that renew the tokens once when the server refuses them (lib/           *)
(* api-client.ts); signing in and out; the check when a page is loaded     *)
(* (AuthBootstrap); and each tab's event stream (lib/stream.ts).           *)
(*                                                                         *)
(* A pair of tokens is the number of its issue, 0 for none.  Between two   *)
(* awaits JavaScript is not interrupted: each action is one such stretch.  *)
(***************************************************************************)
EXTENDS Integers, Sequences, FiniteSets

CONSTANTS
    Users,      \* accounts used in this browser
    Admins,     \* those with the role admin
    Newcomers,  \* those who have yet to register
    Tabs,       \* open tabs
    Calls,      \* slots for requests in flight
    Nobody,     \* no user, no request
    MaxIssues,  \* bound on pairs of tokens, whose numbers are used again
    MaxPresses, \* bound on sign-ins, sign-outs, page loads and other requests
    MaxFaults   \* bound on answers lost and streams dropped

ASSUME SessionAssumption ==
    /\ Nobody \notin Users /\ Admins \subseteq Users /\ Newcomers \subseteq Users
    /\ MaxIssues \in Nat /\ MaxPresses \in Nat /\ MaxFaults \in Nat

VARIABLES
    owner,     \* whom each pair was issued to, in order of issue
    live,      \* pairs whose access token is neither expired nor revoked
    renewable, \* pairs whose refresh token has not expired
    storage,   \* the pair in localStorage
    kept,      \* the user zustand persists in localStorage
    user,      \* the user in each tab's store
    calls,     \* requests in flight
    stream,    \* each tab's event stream: the token it captured and its status
    presses, faults,  \* bounds
    out,       \* history: signed out with nothing else in flight, and not in again
    mingled    \* history: tabs whose session something else interfered with

server == <<owner, live, renewable>>
vars == <<owner, live, renewable, storage, kept, user, calls, stream, presses, faults, out, mingled>>

Issued == 1..Len(owner)
Idle == [token |-> 0, status |-> "idle"]

-----------------------------------------------------------------------------
\* const token = getAccessToken(): captured once, when the stream is enabled.
Connecting(pair) == IF pair = 0 THEN Idle ELSE [token |-> pair, status |-> "connecting"]

\* Slip: the effect has no cleanup.
StreamedOnce(s, before, after, pair) == IF before = Nobody /\ after # Nobody THEN Connecting(pair) ELSE s

\* useStream(handlers, enabled): the effect depends on whether there is a user,
\* not on who it is.
Streamed(s, before, after, pair) ==
    IF after = Nobody THEN Idle
    ELSE IF before = Nobody THEN Connecting(pair)
    ELSE s

\* setUser(u) and clear() in tab t; zustand writes what it keeps through.
SetUser(t, u, pair) ==
    /\ user' = [user EXCEPT ![t] = u]
    /\ kept' = u
    /\ stream' = [stream EXCEPT ![t] = Streamed(@, user[t], u, pair)]

LeaveUser == UNCHANGED <<user, kept, stream>>

\* A request as doRequest sends it: with the token of that moment.
Request(t, kind, who, token) ==
    [tab |-> t, kind |-> kind, who |-> who, token |-> token, again |-> FALSE,
     stage |-> "sent", reply |-> "none", pair |-> 0]

Of(t) == {k \in Calls : calls[k] # Nobody /\ calls[k].tab = t}
Free == {k \in Calls : calls[k] = Nobody}

\* The tabs whose sessions a request of tab t sent now may interfere with.
Meets(t) ==
    LET busy == {calls[k].tab : k \in Calls \ Free}
    IN  IF busy = {} THEN {} ELSE busy \cup {t}

Send(t, kind, who) ==
    LET k == CHOOSE j \in Free : TRUE
    IN  /\ Free # {} /\ presses < MaxPresses /\ presses' = presses + 1
        /\ calls' = [calls EXCEPT ![k] =
              Request(t, kind, who, IF kind \in {"login", "register", "verify"} THEN 0 ELSE storage)]

-----------------------------------------------------------------------------
Init ==
    /\ owner = << >> /\ live = {} /\ renewable = {}
    /\ storage = 0 /\ kept = Nobody
    /\ user = [t \in Tabs |-> Nobody]
    /\ calls = [k \in Calls |-> Nobody]
    /\ stream = [t \in Tabs |-> Idle]
    /\ presses = 0 /\ faults = 0
    /\ out = FALSE /\ mingled = {}

\* The stores that are not told when tab t signs somebody in or out.
Others(t) == Tabs \ {t}

\* The stream is not told when one user takes the place of another.
Replaces(t, u) == user[t] \notin {Nobody, u} \/ storage # 0

Submit(t, kind, u) ==
    /\ ~\E k \in Of(t) : calls[k].kind = kind
    /\ Send(t, kind, u)
    /\ out' = FALSE
    /\ mingled' = mingled \cup Others(t) \cup Meets(t) \cup (IF Replaces(t, u) THEN {t} ELSE {})
    /\ UNCHANGED <<server, storage, faults>> /\ LeaveUser

\* onSubmit of the sign-in page, and of the registration page.
SignIn(t, u) == u \notin Newcomers /\ Submit(t, "login", u)

Register(t, u) == u \in Newcomers /\ (\A n \in Issued : owner[n] # u) /\ Submit(t, "register", u)

\* handleLogout of the user menu.
SignOut(t) ==
    /\ user[t] # Nobody
    /\ Send(t, "logout", user[t])
    /\ mingled' = mingled \cup Others(t) \cup Meets(t)
    /\ UNCHANGED <<server, storage, faults, out>> /\ LeaveUser

\* The page behind the link of the mail redeems its code, whoever is signed in in
\* this browser, if anybody: no tokens come with it.
VerifyEmail(t, u) ==
    /\ u \in Newcomers
    /\ Send(t, "verify", u)
    /\ mingled' = mingled \cup {t} \cup Meets(t)
    /\ UNCHANGED <<server, storage, faults, out>> /\ LeaveUser

\* Any other authorised request of a page.
Call(t) ==
    /\ user[t] # Nobody
    /\ Send(t, "call", user[t])
    /\ mingled' = mingled \cup Meets(t)
    /\ UNCHANGED <<server, storage, faults, out>> /\ LeaveUser

\* A page is loaded: the persisted user is taken over, then AuthBootstrap either
\* drops it, when there is no token, or asks the server who it is.
Open(t) ==
    /\ Of(t) = {}
    /\ IF storage = 0
       THEN /\ presses < MaxPresses /\ presses' = presses + 1
            /\ user' = [user EXCEPT ![t] = Nobody] /\ kept' = Nobody
            /\ stream' = [stream EXCEPT ![t] = Idle]
            /\ UNCHANGED calls
       ELSE /\ Send(t, "me", kept)
            /\ user' = [user EXCEPT ![t] = kept]
            /\ stream' = [stream EXCEPT ![t] = IF kept = Nobody THEN Idle ELSE Connecting(storage)]
            /\ UNCHANGED kept
    /\ mingled' = IF Free = Calls /\ (storage = 0 \/ kept = owner[storage])
                  THEN mingled \ {t} ELSE mingled \cup Meets(t) \cup {t}
    /\ UNCHANGED <<server, storage, faults, out>>

-----------------------------------------------------------------------------
(* The server.                                                             *)

Pending(k, stage) == calls[k] # Nobody /\ calls[k].stage = stage /\ calls[k].reply = "none"

Reply(k, r) == calls' = [calls EXCEPT ![k].reply = r]

\* What localStorage, requests, their answers and streams hold.
Held ==
    {storage} \cup {calls[k].token : k \in Calls \ Free} \cup {calls[k].pair : k \in Calls \ Free}
      \cup {stream[t].token : t \in Tabs}

\* The numbers a new pair of u may get: the next one, and past MaxIssues that of a
\* pair of u which nothing holds any more, so that renewals never run out.
Fresh(u) ==
    IF Len(owner) < MaxIssues THEN {Len(owner) + 1}
    ELSE {n \in Issued \ Held : owner[n] = u}

\* The answer that brings the pair n.
ReplyPair(k, n) == calls' = [calls EXCEPT ![k].reply = "ok", ![k].pair = n]

\* issueTokens: a new pair for the request k; those issued before stay as they are.
Issue(k, u) ==
    \E n \in Fresh(u) :
        /\ owner' = IF n \in Issued THEN owner ELSE Append(owner, u)
        /\ live' = live \cup {n} /\ renewable' = renewable \cup {n}
        /\ ReplyPair(k, n)

\* Without a token: "unauthorized"; with one that is not accepted: "invalid".
Authorise(token) == IF token = 0 THEN "unauthorized" ELSE IF token \in live THEN "ok" ELSE "invalid"

Serve(k) ==
    /\ Pending(k, "sent")
    /\ LET c == calls[k]
       IN  CASE c.kind \in {"login", "register"} ->
                  Issue(k, c.who)
             [] c.kind = "logout" ->
                  live' = live \ {c.token} /\ Reply(k, "ok") /\ UNCHANGED <<owner, renewable>>
             [] c.kind = "verify" -> Reply(k, "ok") /\ UNCHANGED server
             [] OTHER -> Reply(k, Authorise(c.token)) /\ UNCHANGED server
    /\ UNCHANGED <<storage, presses, faults, out, mingled>> /\ LeaveUser

ServeRefresh(k) ==
    /\ Pending(k, "refreshing")
    /\ IF calls[k].token \in renewable
       THEN Issue(k, owner[calls[k].token])
       ELSE Reply(k, "invalid") /\ UNCHANGED server
    /\ UNCHANGED <<storage, presses, faults, out, mingled>> /\ LeaveUser

\* A pair is due for which no number is left: the bound, not the code, ends it.
NoneLeft(k) ==
    \/ calls[k].kind \in {"login", "register"} /\ Fresh(calls[k].who) = {}
    \/ /\ calls[k].stage = "refreshing" /\ calls[k].token \in renewable
       /\ Fresh(owner[calls[k].token]) = {}

\* A sign-in may be refused, any answer may get lost.
Refuse(k) ==
    /\ calls[k] # Nobody /\ calls[k].reply = "none"
    /\ \/ NoneLeft(k) /\ UNCHANGED faults
       \/ faults < MaxFaults /\ faults' = faults + 1
    /\ Reply(k, "lost")
    /\ mingled' = mingled \cup {calls[k].tab}
    /\ UNCHANGED <<server, storage, presses, out>> /\ LeaveUser

\* What requests and streams present to the server at the moment.
Presented ==
    {calls[k].token : k \in {j \in Calls : Pending(j, "sent") \/ Pending(j, "refreshing")}}
      \cup {stream[t].token : t \in {r \in Tabs : stream[r].status \in {"connecting", "reconnecting"}}}

\* Time passes: an access token expires, or a pair altogether.  A token that nobody
\* presents may as well expire later.
Expire ==
    /\ \E n \in live \cap Presented :
          live' = live \ {n} /\ (renewable' = renewable \/ renewable' = renewable \ {n})
    /\ UNCHANGED <<owner, storage, presses, faults, out, mingled, calls>> /\ LeaveUser

-----------------------------------------------------------------------------
(* The answers, in doRequest and in the caller.                            *)

Answered(k, stage, r) == calls[k] # Nobody /\ calls[k].stage = stage /\ calls[k].reply = r

Done(k) == calls' = [calls EXCEPT ![k] = Nobody]

\* Slip: a request is renewed as often as it is refused.
MayRefreshEver(k) == storage # 0

\* Refused for its token, once, and there is a refresh token: renew and send again.
MayRefresh(k) == ~calls[k].again /\ storage # 0

Renew(k) ==
    /\ Answered(k, "sent", "invalid") /\ MayRefresh(k)
    /\ calls' = [calls EXCEPT ![k].stage = "refreshing", ![k].token = storage, ![k].reply = "none"]
    /\ UNCHANGED <<server, storage, presses, faults, out, mingled>> /\ LeaveUser

\* The new pair goes to localStorage, whatever happened there meanwhile.
SendAgain(k) ==
    /\ Answered(k, "refreshing", "ok")
    /\ storage' = calls[k].pair
    /\ calls' = [calls EXCEPT ![k].stage = "sent", ![k].token = calls[k].pair, ![k].again = TRUE,
                              ![k].reply = "none", ![k].pair = 0]
    /\ UNCHANGED <<server, presses, faults, out, mingled>> /\ LeaveUser

\* login() and register() store the tokens, then the page sets the user.
SignedIn(k) ==
    /\ calls[k] # Nobody /\ calls[k].kind \in {"login", "register"} /\ Answered(k, "sent", "ok")
    /\ storage' = calls[k].pair
    /\ SetUser(calls[k].tab, calls[k].who, calls[k].pair)
    /\ Done(k)
    /\ UNCHANGED <<server, presses, faults, out, mingled>>

\* Slips: tokens cleared only if the server agreed; the store left as it is.
SignedOutIfServed(k) ==
    /\ calls[k] # Nobody /\ calls[k].kind = "logout" /\ calls[k].reply # "none"
    /\ storage' = IF calls[k].reply = "ok" THEN 0 ELSE storage
    /\ IF calls[k].reply = "ok" THEN SetUser(calls[k].tab, Nobody, 0) ELSE LeaveUser
    /\ Done(k)
    /\ out' = \A j \in Calls \ {k} : calls[j] = Nobody
    /\ UNCHANGED <<server, presses, faults, mingled>>

SignedOutHalf(k) ==
    /\ calls[k] # Nobody /\ calls[k].kind = "logout" /\ calls[k].reply # "none"
    /\ storage' = 0 /\ LeaveUser /\ Done(k)
    /\ out' = \A j \in Calls \ {k} : calls[j] = Nobody
    /\ UNCHANGED <<server, presses, faults, mingled>>

\* logout() clears the tokens whatever the answer; the store only on success.
SignedOut(k) ==
    /\ calls[k] # Nobody /\ calls[k].kind = "logout" /\ calls[k].reply # "none"
    /\ storage' = 0
    /\ IF calls[k].reply = "ok" THEN SetUser(calls[k].tab, Nobody, 0) ELSE LeaveUser
    /\ Done(k)
    /\ out' = \A j \in Calls \ {k} : calls[j] = Nobody
    /\ UNCHANGED <<server, presses, faults, mingled>>

\* verifyEmail: setUser, with or without tokens.
Verified(k) ==
    /\ calls[k] # Nobody /\ calls[k].kind = "verify" /\ calls[k].reply # "none"
    /\ IF calls[k].reply = "ok" THEN SetUser(calls[k].tab, calls[k].who, storage) ELSE LeaveUser
    /\ Done(k)
    /\ UNCHANGED <<server, storage, presses, faults, out, mingled>>

\* me() tells who the token is of; any other call is done with its answer.
Returned(k) ==
    /\ calls[k] # Nobody /\ calls[k].kind \in {"me", "call"} /\ Answered(k, "sent", "ok")
    /\ IF calls[k].kind = "me" THEN SetUser(calls[k].tab, owner[calls[k].token], storage) ELSE LeaveUser
    /\ Done(k)
    /\ UNCHANGED <<server, storage, presses, faults, out, mingled>>

\* What ends a request: refused again, nothing to renew with, not renewed, lost.
GivesUp(k) ==
    \/ Answered(k, "sent", "invalid") /\ ~MayRefresh(k)
    \/ Answered(k, "sent", "unauthorized") \/ Answered(k, "sent", "lost")
    \/ calls[k] # Nobody /\ calls[k].stage = "refreshing" /\ calls[k].reply \in {"invalid", "lost"}

\* A renewal that failed clears the tokens, and so does me() on a 401.
Threw(k) ==
    /\ GivesUp(k) /\ calls[k].kind \notin {"logout", "verify"}
    /\ LET unauthorised == calls[k].reply \in {"invalid", "unauthorized"} \/ calls[k].stage = "refreshing"
           clears == calls[k].stage = "refreshing" \/ (calls[k].kind = "me" /\ unauthorised)
       IN  /\ storage' = IF clears THEN 0 ELSE storage
           /\ IF calls[k].kind = "me" /\ unauthorised THEN SetUser(calls[k].tab, Nobody, 0) ELSE LeaveUser
           /\ mingled' = IF clears THEN mingled \cup Others(calls[k].tab) \cup
                              (IF calls[k].kind = "me" THEN {} ELSE {calls[k].tab})
                         ELSE mingled
    /\ Done(k)
    /\ UNCHANGED <<server, presses, faults, out>>

-----------------------------------------------------------------------------
(* The event stream.                                                       *)

StreamOpened(t) ==
    /\ stream[t].status \in {"connecting", "reconnecting"} /\ stream[t].token \in live
    /\ stream' = [stream EXCEPT ![t].status = "open"]
    /\ UNCHANGED <<server, storage, kept, user, calls, presses, faults, out, mingled>>

\* Refused: the error handler sets a timer and tries again with the same token.
StreamRefused(t) ==
    /\ stream[t].status = "connecting" /\ stream[t].token \notin live
    /\ stream' = [stream EXCEPT ![t].status = "reconnecting"]
    /\ UNCHANGED <<server, storage, kept, user, calls, presses, faults, out, mingled>>

StreamDropped(t) ==
    /\ stream[t].status = "open" /\ faults < MaxFaults /\ faults' = faults + 1
    /\ stream' = [stream EXCEPT ![t].status = "reconnecting"]
    /\ UNCHANGED <<server, storage, kept, user, calls, presses, out, mingled>>

-----------------------------------------------------------------------------
Progress(k) ==
    \/ Serve(k) \/ ServeRefresh(k) \/ Renew(k) \/ SendAgain(k) \/ SignedIn(k) \/ SignedOut(k)
    \/ Verified(k) \/ Returned(k) \/ Threw(k)

Next ==
    \/ \E t \in Tabs, u \in Users : SignIn(t, u) \/ Register(t, u) \/ VerifyEmail(t, u)
    \/ \E t \in Tabs : SignOut(t) \/ Call(t) \/ Open(t)
    \/ \E k \in Calls : Progress(k) \/ Refuse(k)
    \/ Expire
    \/ \E t \in Tabs : StreamOpened(t) \/ StreamRefused(t) \/ StreamDropped(t)

Spec == Init /\ [][Next]_vars

\* The server answers and continuations run: while requests are in flight one of
\* them moves on; what people do and what time does is not promised.
FairSpec ==
    /\ Spec
    /\ WF_vars(\E k \in Calls : Progress(k) \/ Refuse(k))

\* Timers fire as well, and connections are answered.
StreamSpec ==
    /\ FairSpec
    /\ \A t \in Tabs : WF_vars(StreamOpened(t) \/ StreamRefused(t))
-----------------------------------------------------------------------------
(* Properties.                                                             *)

\* Tokens, users and streams are of the kinds the code keeps.
TypeOK ==
    /\ storage \in 0..Len(owner) /\ live \subseteq Issued /\ renewable \subseteq Issued
    /\ kept \in Users \cup {Nobody}
    /\ \A t \in Tabs : /\ user[t] \in Users \cup {Nobody}
                       /\ stream[t].token \in 0..Len(owner)
                       /\ stream[t].status \in {"idle", "connecting", "open", "reconnecting"}

\* Signed out with nothing else in flight, no tokens come back before somebody
\* signs in: a request that starts later has nothing to renew with.
SignedOutStays == out => storage = 0

\* Storage, tabs and calls are well typed, and a user who signed out stays so.
SessionsSound == TypeOK /\ SignedOutStays

Quiet(t) == Of(t) = {} /\ t \notin mingled

\* What AdminGuard lets through: the store's user is an administrator.
AdminGuard(t) == user[t] \in Admins

\* A quiet tab that nothing interfered with since its page was loaded believes in
\* the user its tokens are of, and in nobody without tokens.
StoreFollowsTokens ==
    \A t \in Tabs : Quiet(t) =>
        /\ user[t] = IF storage = 0 THEN Nobody ELSE owner[storage]
        /\ AdminGuard(t) => storage # 0 /\ owner[storage] \in Admins

\* Such a tab listens to the events of its own user: the stream is closed when
\* the user goes and opened with the token of the user who comes.
StreamIsOwn ==
    \A t \in Tabs : (Quiet(t) /\ stream[t].status # "idle") => owner[stream[t].token] = user[t]

\* Every request ends, however often each token that is issued expires at once: it
\* neither waits for ever for an answer, its own or that of a renewal, nor is it
\* renewed and refused for ever (doRequest).  Presses being bounded, one that did
\* not end would be in flight for good.
RequestsEnd == []<>(Free = Calls)

\* "Reconnects automatically with exponential backoff when the connection drops,
\* as long as the caller still has a valid auth token."
StreamComesBack ==
    \A t \in Tabs :
        []<>(stream[t].status \in {"open", "idle"} \/ storage = 0 \/ storage \notin live)
=============================================================================
