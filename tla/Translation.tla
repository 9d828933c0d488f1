---------------------------- MODULE Translation ----------------------------
(***************************************************************************)
(* Translate (internal/translation/service.go): cache, daily free quota,   *)
(* charge, call of the language model, refund or store.  Wallet does the   *)
(* charging.                                                               *)
(***************************************************************************)
EXTENDS Wallet

CONSTANTS
  Texts,      \* what is translated: a source text and a target language
  FreeQuota,  \* configured free translations a day
  LastDay     \* bound: days that pass

ASSUME TranslationAssumption == FreeQuota \in Nat /\ IsFiniteSet(Workers)

VARIABLES
  call,   \* where each request is
  cache,  \* translated texts
  paid,   \* history: charged calls that got their translation, by user
  lost    \* history: charged calls a restart cut off, by user

translationVars == <<wallet, ledger, apply, day, restarts, call, cache, paid, lost>>

NoCall == [pc |-> "idle"]

Calling == [pc: {"quota", "charge", "model", "refund", "free"},
            user: Users, text: Texts, charged: BOOLEAN]

TranslationTypeOK ==
  /\ WalletTypeOK
  /\ call \in [Workers -> {NoCall} \cup Calling]
  /\ cache \subseteq Texts
  /\ paid \in [Users -> Nat] /\ lost \in [Users -> Nat]
  /\ \A w \in Workers :
       /\ call[w].pc \in {"idle", "quota", "model"} => apply[w].pc = "idle"
       /\ call[w].pc \in {"charge", "refund"} => call[w].charged
       /\ call[w].pc \in {"quota", "free"} => ~call[w].charged

TranslationInit ==
  /\ WalletInit
  /\ call = [w \in Workers |-> NoCall]
  /\ cache = {}
  /\ paid = [u \in Users |-> 0] /\ lost = [u \in Users |-> 0]

\* Each call writes two ledger rows at most.
Translating == {w \in Workers : call[w] # NoCall} \X {1, 2}

-----------------------------------------------------------------------------
\* A text in the cache is free for everyone; the others go on.
LookUp(w, u, s) ==
  /\ call[w] = NoCall
  /\ u \in Serves[w]
  /\ s \notin cache
  /\ call' = [call EXCEPT ![w] = [pc |-> "quota", user |-> u, text |-> s, charged |-> FALSE]]
  /\ UNCHANGED <<walletVars, cache, paid, lost>>

\* Slip: one more free call than the quota.
GenerousQuota(u) == CountToday(u, "translation") <= FreeQuota

HasFreeQuota(u) == CountToday(u, "translation") < FreeQuota

\* Today's rows of kind translation, refunds among them, against the quota.
CheckQuota(w) ==
  LET u == call[w].user
  IN /\ call[w].pc = "quota"
     /\ IF HasFreeQuota(u) \/ Cost = 0
          THEN call' = [call EXCEPT ![w].pc = "model"] /\ UNCHANGED apply
          ELSE /\ BeginApply(w, ChargeOrder(u))
               /\ call' = [call EXCEPT ![w].pc = "charge", ![w].charged = TRUE]
     /\ UNCHANGED <<wallet, ledger, day, restarts, cache, paid, lost>>

\* Insufficient credits end the call before the model is asked.
Charged(w) ==
  /\ call[w].pc = "charge"
  /\ EndApply(w)
  /\ call' = [call EXCEPT ![w] =
       IF apply[w].pc = "applied" THEN [@ EXCEPT !.pc = "model"] ELSE NoCall]
  /\ UNCHANGED <<wallet, ledger, day, restarts, cache, paid, lost>>

\* The model answers: the translation is cached (a second entry for the same
\* hash is refused by its unique index and ignored).
ModelAnswers(w) ==
  LET q == call[w]
  IN /\ q.pc = "model"
     /\ cache' = cache \cup {q.text}
     /\ IF q.charged
          THEN /\ paid' = [paid EXCEPT ![q.user] = @ + 1]
               /\ call' = [call EXCEPT ![w] = NoCall]
               /\ UNCHANGED apply
          ELSE /\ BeginApply(w, FreeUseOrder(q.user))
               /\ call' = [call EXCEPT ![w].pc = "free"]
               /\ UNCHANGED paid
     /\ UNCHANGED <<wallet, ledger, day, restarts, lost>>

\* Slip: only an error of the model is refunded, not an empty answer.
ModelFailsUnrefunded(w) ==
  LET q == call[w]
  IN /\ q.pc = "model"
     /\ \E empty \in BOOLEAN :
          IF q.charged /\ ~empty
            THEN /\ BeginApply(w, RefundOrder(q.user))
                 /\ call' = [call EXCEPT ![w].pc = "refund"]
            ELSE call' = [call EXCEPT ![w] = NoCall] /\ UNCHANGED apply
     /\ UNCHANGED <<wallet, ledger, day, restarts, cache, paid, lost>>

\* Slip: the refund is prepared and never sent.
ModelFailsSilently(w) ==
  LET q == call[w]
  IN /\ q.pc = "model"
     /\ call' = [call EXCEPT ![w] = IF q.charged THEN [q EXCEPT !.pc = "refund"] ELSE NoCall]
     /\ UNCHANGED <<walletVars, cache, paid, lost>>

\* The model fails, or answers nothing: a charge is given back.
ModelFails(w) ==
  LET q == call[w]
  IN /\ q.pc = "model"
     /\ IF q.charged
          THEN /\ BeginApply(w, RefundOrder(q.user))
               /\ call' = [call EXCEPT ![w].pc = "refund"]
          ELSE call' = [call EXCEPT ![w] = NoCall] /\ UNCHANGED apply
     /\ UNCHANGED <<wallet, ledger, day, restarts, cache, paid, lost>>

\* The end of a call that gave a charge back or recorded a free use.
Settled(w) ==
  /\ call[w].pc \in {"refund", "free"}
  /\ EndApply(w)
  /\ call' = [call EXCEPT ![w] = NoCall]
  /\ UNCHANGED <<wallet, ledger, day, restarts, cache, paid, lost>>

\* A charged call whose row is committed and that is not yet settled.
Owed(w) ==
  /\ call[w].pc \in {"charge", "model", "refund"} /\ call[w].charged
  /\ call[w].pc = "charge" => apply[w].pc = "applied"
  /\ call[w].pc = "refund" => apply[w].pc # "applied"

OwedTo(u) == {w \in Workers : call[w] # NoCall /\ call[w].user = u /\ Owed(w)}

CrashTranslation ==
  /\ CrashWallet
  /\ lost' = [u \in Users |-> lost[u] + Cardinality(OwedTo(u))]
  /\ call' = [w \in Workers |-> NoCall]
  /\ UNCHANGED <<cache, paid>>

CallStep(w) ==
  \/ CheckQuota(w) \/ Charged(w) \/ ModelAnswers(w) \/ ModelFails(w) \/ Settled(w)
  \/ ApplyStep(w) /\ UNCHANGED <<call, cache, paid, lost>>

TranslationNext ==
  \/ \E w \in Workers :
       \/ RoomFor(Translating) /\ \E u \in Users, s \in Texts : LookUp(w, u, s)
       \/ CallStep(w)
  \/ Midnight(LastDay) /\ UNCHANGED <<call, cache, paid, lost>>
  \/ CrashTranslation

TranslationSpec == TranslationInit /\ [][TranslationNext]_translationVars

\* A request keeps running; the call of the model has a timeout.
FairTranslationSpec ==
  TranslationSpec /\ \A w \in Workers : WF_translationVars(CallStep(w))

-----------------------------------------------------------------------------
Rows(u, ref) ==
  {i \in DOMAIN ledger : ledger[i].user = u /\ ledger[i].kind = "translation"
                         /\ ledger[i].ref = ref /\ ledger[i].creditsDelta # 0}

\* Charges less refunds are the translations delivered for money, the calls on
\* their way, and those a restart cut off: nobody pays for a failed translation.
PaidForResults ==
  \A u \in Users :
    Cardinality(Rows(u, "translation")) - Cardinality(Rows(u, "translation_refund"))
      = paid[u] + lost[u] + Cardinality(OwedTo(u))

\* A user gets at most one free translation over the daily quota for each other
\* call that overlaps: RecordFreeUse commits after the model's answer, long
\* after the quota was read.
QuotaNearlyHeld ==
  Cost > 0 => \A u \in Users :
    Cardinality({i \in RowsOf(u) : ledger[i].day = day /\ ledger[i].creditsDelta = 0})
      <= (IF FreeQuota = 0 THEN 0 ELSE FreeQuota - 1 + Cardinality(Workers))

\* A charged call ends, delivered or refunded, unless the server restarts.
ChargeIsSettled ==
  \A w \in Workers, u \in Users :
    w \in OwedTo(u) /\ restarts = MaxCrashes ~> w \notin OwedTo(u)
=============================================================================
