---------------------------- MODULE LedgerPages ----------------------------
(***************************************************************************)
(* The console's pages that browse what others wrote: the audit log, bot   *)
(* calls, private conversations, notifications, LLM calls and the credit   *)
(* ledger.  Four of them turn pages: their filter holds a key and an       *)
(* offset in pages of one row (50 in the code).                            *)
(***************************************************************************)
EXTENDS Screen

Entries == [i \in Ids |-> [key |-> IF i = 1 THEN "k1" ELSE "k2"]]

Hit(f, r) == f.key \in {"all", r.key}

\* A new key starts at the first page again; the previous page exists after
\* the first, the next one while the last answer's total reaches beyond it.
Turns(v, keys) ==
    {[key |-> k, off |-> 0] : k \in keys \ {v.filter.key}}
    \cup (IF v.filter.off # 0 THEN {[v.filter EXCEPT !.off = @ - 1]} ELSE {})
    \cup (IF v.filter.off + 1 < v.count THEN {[v.filter EXCEPT !.off = @ + 1]} ELSE {})

FirstPage == [key |-> "all", off |-> 0]

-----------------------------------------------------------------------------
\* Audit log: two select boxes, no pages, no buttons.
AuditFilters == {"all", "k1", "k2"}
AuditListed(d, f) == Where(d, {i \in Present(d) : f \in {"all", d[i].key}})

\* Bot calls: the list and the statistics are one reload (Promise.all).
BotLogsFilters == {"all", "k1", "k2"}
BotLogsListed(d, f) == Where(d, {i \in Present(d) : f \in {"all", d[i].key}})
BotLogsCount(d) == Cardinality(Present(d))

-----------------------------------------------------------------------------
(* Conversations.  The draft is the conversation shown in detail: emptied  *)
(* when another is asked for, filled by whichever answer comes last.       *)

MessagesListed(d, f) == Paged(d, {i \in Present(d) : Hit(f, d[i])}, f.off)

OpenDetail(c) == Handler(None, <<Ask("look", c, None)>>)
MessagesHandlers(v) == {OpenDetail(c) : c \in Present(v.rows)}
MessagesDrafts(v) == IF v.draft = None THEN {} ELSE {None}

\* The filter: a participant; also the button that resets it and the pager.
MessagesTurns(v) == Turns(v, {"all", "k1"})

-----------------------------------------------------------------------------
NotificationsListed(d, f) == Paged(d, {i \in Present(d) : Hit(f, d[i])}, f.off)
NotificationsTurns(v) == Turns(v, {"all", "k1"})

LLMListed(d, f) == Paged(d, {i \in Present(d) : Hit(f, d[i])}, f.off)
LLMTurns(v) == Turns(v, {"all", "k1"})

-----------------------------------------------------------------------------
(* The credit ledger.  An adjustment adds an entry; the modal (the draft)  *)
(* closes before the reload.  Its preview of the wallet is not kept.       *)

CreditsInit == [i \in Ids |-> IF i = 1 THEN [key |-> "k1"] ELSE None]

CreditsListed(d, f) == Paged(d, {i \in Present(d) : Hit(f, d[i])}, f.off)
CreditsTurns(v) == Turns(v, {"all", "k1"})

SubmitAdjust(e) ==
    Handler(WholePage, <<Ask("create", None, e.id), CloseEditor, Reload>>)

\* Off while busy and while no user, reason or amount is entered.
CreditsHandlers(v) ==
    IF v.draft # None /\ v.draft.id # None /\ v.busy = None THEN {SubmitAdjust(v.draft)} ELSE {}

\* The modal opens, a user is entered, the modal is cancelled.
CreditsDrafts(v) ==
    IF v.draft = None THEN {[id |-> None]}
    ELSE {[id |-> 1]} \cup IF v.busy = None THEN {None} ELSE {}

CreditsRefuse(q, d) == Unused(d) = {}
CreditsEffect(q, d) == [d EXCEPT ![NewId(d)] = [key |-> "k2"]]
=============================================================================
