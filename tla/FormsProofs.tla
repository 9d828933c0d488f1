---------------------------- MODULE FormsProofs -----------------------------
(***************************************************************************)
(* A form at rest shows what the server holds, a save of the link policy   *)
(* carries what its boxes show, and no save loses a secret that was not    *)
(* typed over: proved for any number of saves, inputs and failures.        *)
(*                                                                         *)
(* The first invariant, IInv, follows the documents on their way from the  *)
(* server through snapshot, form and save and back: each keeps its fields  *)
(* and, if it holds secrets or boxes, its shape.  The second, JInv, says   *)
(* what captured values and boxes have to do with the page and the server  *)
(* while no two saves overlap.                                             *)
(***************************************************************************)
EXTENDS Forms, TLAPS

Identifiers == {"", "p", "q", "r"}
Secrets == {"", Mask, "typed", "p", "q", "secret"}

ProviderRow == [id: Identifiers, key: Secrets, enabled: BOOLEAN, models: Seq({"m"}), was: Identifiers]
LLMDoc == [providers: Seq(ProviderRow)]
SMTPDoc == [host: Typed, password: Secrets]
BotDoc == [webhook: {"http", "http2", "junk"}, key: Secrets]

\* What the boxes of domains are read as; the server keeps each entry once.
Tidy == <<"a">>
Lists == {Tidy, <<"a", "a">>}
LinksDoc == [warn: BOOLEAN, trusted: Lists]

\* Value v has the fields of section s, and its shape if it holds secrets or boxes.
Fits(s, v) ==
  /\ DOMAIN v = DOMAIN InitialDoc(s)
  /\ s = "llm" => v \in LLMDoc
  /\ s = "smtp" => v \in SMTPDoc
  /\ s = "bot" => v \in BotDoc
  /\ s = "links" => v \in LinksDoc

\* A document the server keeps, or sent.
Kept(s, d) == Fits(s, d) /\ (s = "links" => d.trusted = Tidy)

BoxFits(s, b) == IF s = "links" THEN b \in Boxes \cup Lists ELSE b = <<>>

-----------------------------------------------------------------------------
(* Sequences.                                                              *)

LEMMA IsSeq == ASSUME NEW S, NEW n \in Nat, NEW f \in [1..n -> S] PROVE f \in Seq(S)
OBVIOUS

LEMMA SeqIs ==
  ASSUME NEW S, NEW f \in Seq(S)
  PROVE  f \in [1..Len(f) -> S] /\ Len(f) \in Nat /\ DOMAIN f = 1..Len(f)
OBVIOUS

LEMMA RemoveAtIsSeq ==
  ASSUME NEW S, NEW f \in Seq(S), NEW i \in 1..Len(f) PROVE RemoveAt(f, i) \in Seq(S)
BY DEF RemoveAt

LEMMA MapIsSeq ==
  ASSUME NEW S, NEW T, NEW f \in Seq(S), NEW g, DOMAIN g = DOMAIN f, g = [i \in DOMAIN f |-> g[i]],
         \A i \in DOMAIN f : g[i] \in T
  PROVE  g \in Seq(T)
<1>1. DOMAIN f = 1..Len(f) /\ Len(f) \in Nat
  BY SeqIs
<1>2. g \in [1..Len(f) -> T]
  BY <1>1
<1> QED
  BY <1>1, <1>2, IsSeq

-----------------------------------------------------------------------------
(* Boxes and their lists.                                                  *)

\* What one more entry makes of the lines kept.
Longer(list, entry) == IF entry = "" THEN list ELSE Append(list, entry)

Builds(f, e, n) == f[0] = <<>> /\ \A i \in 1..n : f[i] = Longer(f[i-1], e[i])

\* Lines goes through the entries; g witnesses that a function is defined by it.
LEMMA LinesIs ==
  ASSUME NEW e, NEW n \in Nat, Len(e) = n, NEW g, g = [i \in 0..n |-> g[i]], Builds(g, e, n)
  PROVE  \E f : Builds(f, e, n) /\ Lines(e) = f[n]
<1> DEFINE R(f) == f = [i \in 0..Len(e) |-> IF i = 0 THEN <<>>
                          ELSE IF e[i] = "" THEN f[i-1] ELSE Append(f[i-1], e[i])]
<1>1. Lines(e) = (CHOOSE f : R(f))[Len(e)]
  BY Zenon DEF Lines
<1>2. R(g)
  <2>1. ASSUME NEW i \in 0..n
        PROVE  g[i] = IF i = 0 THEN <<>> ELSE IF e[i] = "" THEN g[i-1] ELSE Append(g[i-1], e[i])
    <3>1. CASE i = 0
      BY <3>1, Zenon DEF Builds
    <3>2. CASE i # 0
      <4>1. i \in 1..n
        BY <3>2
      <4>2. g[i] = Longer(g[i-1], e[i])
        BY <4>1, Zenon DEF Builds
      <4> QED
        BY <3>2, <4>2, Zenon DEF Longer
    <3> QED
      BY <3>1, <3>2, Zenon
  <2> QED
    BY <2>1, Zenon
<1> HIDE DEF R
<1>3. R(CHOOSE f : R(f))
  BY <1>2, Zenon
<1> DEFINE h == CHOOSE f : R(f)
<1>4. h = [i \in 0..n |-> IF i = 0 THEN <<>> ELSE IF e[i] = "" THEN h[i-1] ELSE Append(h[i-1], e[i])]
  BY <1>3, Zenon DEF R
<1>5. Lines(e) = h[n]
  BY <1>1, Zenon
<1> HIDE DEF h
<1>6. 0 \in 0..n /\ \A i \in 1..n : i \in 0..n /\ i # 0
  OBVIOUS
<1>7. h[0] = <<>>
  BY <1>4, <1>6, Zenon
<1>8. \A i \in 1..n : h[i] = Longer(h[i-1], e[i])
  BY <1>4, <1>6, Zenon DEF Longer
<1> QED
  BY <1>5, <1>7, <1>8, Zenon DEF Builds

LEMMA LinesOfOne == ASSUME NEW e, Len(e) = 1 PROVE Lines(e) = Longer(<<>>, e[1])
<1> DEFINE g == [i \in 0..1 |-> IF i = 0 THEN <<>> ELSE Longer(<<>>, e[1])]
<1>1. g = [i \in 0..1 |-> g[i]]
  OBVIOUS
<1>2. g[0] = <<>> /\ g[1] = Longer(<<>>, e[1])
  OBVIOUS
<1> HIDE DEF g
<1>3. Builds(g, e, 1)
  BY <1>2 DEF Builds
<1>4. 1 \in Nat
  OBVIOUS
<1>5. \E f : Builds(f, e, 1) /\ Lines(e) = f[1]
  BY <1>1, <1>3, <1>4, LinesIs, Zenon
<1>6. 1 \in 1..1 /\ 1 - 1 = 0
  OBVIOUS
<1> QED
  BY <1>5, <1>6, Zenon DEF Builds

LEMMA LinesOfTwo == ASSUME NEW e, Len(e) = 2 PROVE Lines(e) = Longer(Longer(<<>>, e[1]), e[2])
<1> DEFINE g == [i \in 0..2 |-> IF i = 0 THEN <<>> ELSE IF i = 1 THEN Longer(<<>>, e[1])
                                ELSE Longer(Longer(<<>>, e[1]), e[2])]
<1>1. g = [i \in 0..2 |-> g[i]]
  OBVIOUS
<1>2. g[0] = <<>> /\ g[1] = Longer(<<>>, e[1]) /\ g[2] = Longer(Longer(<<>>, e[1]), e[2])
  OBVIOUS
<1> HIDE DEF g
<1>3. Builds(g, e, 2)
  BY <1>2 DEF Builds
<1>4. 2 \in Nat
  OBVIOUS
<1>5. \E f : Builds(f, e, 2) /\ Lines(e) = f[2]
  BY <1>1, <1>3, <1>4, LinesIs, Zenon
<1>6. 1 \in 1..2 /\ 1 - 1 = 0 /\ 2 \in 1..2 /\ 2 - 1 = 1
  OBVIOUS
<1> QED
  BY <1>5, <1>6, Zenon DEF Builds

LEMMA AppendIs == ASSUME NEW x, NEW y PROVE Append(<<>>, x) = <<x>> /\ Append(<<x>>, y) = <<x, y>>
<1> DEFINE S == {x, y}
           a == Append(<<x>>, y)
<1>1. <<x>> \in Seq(S) /\ y \in S /\ Len(<<x>>) = 1
  OBVIOUS
<1> HIDE DEF S
<1>2. a \in Seq(S) /\ Len(a) = 2 /\ a[1] = x /\ a[2] = y
  BY <1>1
<1>3. a = <<x, y>>
  <2> HIDE DEF a
  <2>1. a = [i \in 1..2 |-> a[i]]
    BY <1>2
  <2>2. <<x, y>> = [i \in 1..2 |-> <<x, y>>[i]] /\ <<x, y>>[1] = x /\ <<x, y>>[2] = y
    OBVIOUS
  <2>3. \A i \in 1..2 : i = 1 \/ i = 2
    OBVIOUS
  <2> QED
    BY <1>2, <2>1, <2>2, <2>3, Zenon
<1>4. Append(<<>>, x) = <<x>>
  OBVIOUS
<1> QED
  BY <1>3, <1>4

LEMMA LongerIs ==
  /\ \A list : Longer(list, "") = list
  /\ Longer(<<>>, "a") = <<"a">> /\ Longer(<<"a">>, "a") = <<"a", "a">>
BY "a" # "", AppendIs, Zenon DEF Longer

LEMMA PairIs == \A x, y : DOMAIN <<x, y>> = 1..2 /\ <<x, y>>[1] = x /\ <<x, y>>[2] = y
OBVIOUS

LEMMA LenIs == ASSUME NEW e, NEW n \in Nat, e = [i \in 1..n |-> e[i]] PROVE Len(e) = n
OBVIOUS

LEMMA ToTwo == 2 \in Nat /\ 1 \in 1..2 /\ 2 \in 1..2
OBVIOUS

\* A list read from a box is one of two, and a stored one is read as it is.
LEMMA ToListIs == \A b \in Boxes \cup Lists : ToList(b) \in Lists
<1> SUFFICES ASSUME NEW b \in Boxes \cup Lists PROVE ToList(b) \in Lists
  OBVIOUS
<1> DEFINE e == [i \in DOMAIN b |-> IF b[i] = "A" THEN "a" ELSE b[i]]
<1>1. ToList(b) = Lines(e)
  BY DEF ToList
<1>2. CASE b = <<"a">>
  <2>1. Len(e) = 1 /\ e[1] = "a"
    BY <1>2
  <2> HIDE DEF e
  <2> QED
    BY <1>1, <2>1, LinesOfOne, LongerIs, Zenon DEF Lists, Tidy
<1>3. CASE b \in {<<"a", "">>, <<"A", "a">>, <<"a", "a">>}
  <2>1. DOMAIN b = 1..2 /\ b[1] \in {"a", "A"} /\ b[2] \in {"", "a"}
    <3>1. CASE b = <<"a", "">>
      BY <3>1, PairIs, Zenon
    <3>2. CASE b = <<"A", "a">>
      BY <3>2, PairIs, Zenon
    <3>3. CASE b = <<"a", "a">>
      BY <3>3, PairIs, Zenon
    <3> QED
      BY <1>3, <3>1, <3>2, <3>3, Zenon
  <2>2. e = [i \in 1..2 |-> e[i]]
    BY <2>1, Zenon
  <2>3. e[1] = "a" /\ e[2] \in {"", "a"}
    BY <2>1, ToTwo, "a" # "A", "" # "A", Zenon
  <2> HIDE DEF e
  <2>4. Lines(e) = Longer(<<"a">>, e[2])
    BY <2>2, <2>3, ToTwo, LenIs, LinesOfTwo, LongerIs, Zenon
  <2>5. Lines(e) = <<"a">> \/ Lines(e) = <<"a", "a">>
    BY <2>3, <2>4, LongerIs, Zenon
  <2> QED
    BY <1>1, <2>5, Zenon DEF Lists, Tidy
<1>4. b = <<"a">> \/ b \in {<<"a", "">>, <<"A", "a">>, <<"a", "a">>}
  BY Zenon DEF Boxes, Lists, Tidy
<1> QED
  BY <1>2, <1>3, <1>4, Zenon

LEMMA TidyIsRead == ToList(Tidy) = Tidy
<1> DEFINE e == [i \in DOMAIN Tidy |-> IF Tidy[i] = "A" THEN "a" ELSE Tidy[i]]
<1>1. ToList(Tidy) = Lines(e)
  BY DEF ToList
<1>2. Len(e) = 1 /\ e[1] = "a"
  BY DEF Tidy
<1> HIDE DEF e
<1> QED
  BY <1>1, <1>2, LinesOfOne, LongerIs, Zenon DEF Tidy

LEMMA CleanIsTidy == \A list \in Lists : Clean(list) = Tidy
<1> SUFFICES ASSUME NEW list \in Lists PROVE Clean(list) = Tidy
  OBVIOUS
<1> DEFINE e == [i \in DOMAIN list |-> IF \E j \in 1..(i-1) : list[j] = list[i] THEN "" ELSE list[i]]
<1>1. Clean(list) = Lines(e)
  BY DEF Clean
<1>2. CASE list = <<"a">>
  <2>1. Len(e) = 1 /\ e[1] = "a"
    BY <1>2
  <2> HIDE DEF e
  <2> QED
    BY <1>1, <2>1, LinesOfOne, LongerIs, Zenon DEF Tidy
<1>3. CASE list = <<"a", "a">>
  <2>1. DOMAIN list = 1..2 /\ list[1] = "a" /\ list[2] = "a"
    BY <1>3, PairIs, Zenon
  <2>2. e = [i \in 1..2 |-> e[i]]
    BY <2>1, Zenon
  <2>3. (~ \E j \in 1..(1-1) : TRUE) /\ 1 \in 1..(2-1)
    OBVIOUS
  <2>4. e[1] = "a" /\ e[2] = ""
    BY <2>1, <2>3, ToTwo, Zenon
  <2> HIDE DEF e
  <2>5. Len(e) = 2
    BY <2>2, ToTwo, LenIs, Zenon
  <2> QED
    BY <1>1, <2>4, <2>5, LinesOfTwo, LongerIs, Zenon DEF Tidy
<1> QED
  BY <1>2, <1>3 DEF Lists, Tidy

-----------------------------------------------------------------------------
(* The server: documents and their masked copies.                          *)

LEMMA InitialFits == ASSUME NEW s PROVE Kept(s, InitialDoc(s))
<1>1. CASE s = "llm"
  <2>1. InitialDoc(s) = [providers |-> [i \in 1..2 |-> [LLMInit.providers[i] EXCEPT !.key = <<"p", "q">>[i]]]]
    BY <1>1, Zenon DEF InitialDoc
  <2>2. LLMInit.providers[1] \in ProviderRow /\ LLMInit.providers[2] \in ProviderRow
    BY DEF LLMInit, Provider, ProviderRow, Secrets, Identifiers
  <2>3. ASSUME NEW i \in 1..2 PROVE [LLMInit.providers[i] EXCEPT !.key = <<"p", "q">>[i]] \in ProviderRow
    <3>1. LLMInit.providers[i] \in ProviderRow
      BY <2>2
    <3>2. <<"p", "q">>[i] \in Secrets
      <4>1. CASE i = 1
        BY <4>1 DEF Secrets
      <4>2. CASE i = 2
        BY <4>2 DEF Secrets
      <4> QED
        BY <4>1, <4>2
    <3> QED
      BY <3>1, <3>2 DEF ProviderRow
  <2>4. [i \in 1..2 |-> [LLMInit.providers[i] EXCEPT !.key = <<"p", "q">>[i]]] \in [1..2 -> ProviderRow]
    BY <2>3
  <2> DEFINE both == [i \in 1..2 |-> [LLMInit.providers[i] EXCEPT !.key = <<"p", "q">>[i]]]
  <2>5. both \in Seq(ProviderRow)
    BY <2>4, IsSeq
  <2>6. InitialDoc(s) = [providers |-> both]
    BY <2>1
  <2> HIDE DEF both
  <2> QED
    BY <1>1, <2>6, <2>5 DEF Fits, Kept, LLMDoc
<1>2. CASE s = "smtp"
  <2>1. InitialDoc(s) = [SMTPInit EXCEPT !.password = "secret"]
    BY <1>2, Zenon DEF InitialDoc
  <2> QED
    BY <1>2, <2>1 DEF Fits, Kept, SMTPInit, SMTPDoc, Secrets, Typed
<1>3. CASE s = "bot"
  <2>1. InitialDoc(s) = [BotInit EXCEPT !.key = "secret"]
    BY <1>3, Zenon DEF InitialDoc
  <2> QED
    BY <1>3, <2>1 DEF Fits, Kept, BotInit, BotDoc, Secrets
<1>4. CASE s = "links"
  <2>1. InitialDoc(s) = LinksInit
    BY <1>4, Zenon DEF InitialDoc
  <2>2. LinksInit = [warn |-> FALSE, trusted |-> Tidy]
    BY Zenon DEF LinksInit, Tidy
  <2>3. Tidy \in Lists
    BY Zenon DEF Lists
  <2>4. LinksInit \in LinksDoc
    BY <2>2, <2>3, Zenon DEF LinksDoc
  <2>5. LinksInit.trusted = Tidy
    BY <2>2
  <2> QED
    BY <1>4, <2>1, <2>4, <2>5 DEF Fits, Kept
<1> QED
  BY <1>1, <1>2, <1>3, <1>4 DEF Fits, Kept

LEMMA MaskedFits == ASSUME NEW s, NEW d, Kept(s, d) PROVE Kept(s, Masked(s, d))
<1>0. \A x \in Secrets : Hide(x) \in Secrets
  BY DEF Hide, Secrets
<1>1. CASE s = "llm"
  <2> DEFINE copy == [i \in DOMAIN d.providers |->
                        [d.providers[i] EXCEPT !.key = Hide(@), !.was = d.providers[i].id]]
  <2>1. Masked(s, d) = [providers |-> copy]
    BY <1>1, Zenon DEF Masked
  <2>2. d.providers \in Seq(ProviderRow) /\ DOMAIN d = {"providers"} /\ DOMAIN d = DOMAIN InitialDoc(s)
    BY <1>1 DEF Fits, Kept, LLMDoc
  <2>3. ASSUME NEW i \in DOMAIN d.providers PROVE copy[i] \in ProviderRow
    <3>1. d.providers[i] \in ProviderRow
      BY <2>2
    <3> QED
      BY <3>1, <1>0 DEF ProviderRow
  <2>4. copy \in Seq(ProviderRow)
    <3>1. DOMAIN copy = DOMAIN d.providers /\ copy = [i \in DOMAIN d.providers |-> copy[i]]
      OBVIOUS
    <3> HIDE DEF copy
    <3> QED
      BY <2>2, <2>3, <3>1, MapIsSeq
  <2> HIDE DEF copy
  <2> QED
    BY <1>1, <2>1, <2>2, <2>4 DEF Fits, Kept, LLMDoc
<1>2. CASE s = "smtp"
  <2>1. Masked(s, d) = [d EXCEPT !.password = Hide(@)]
    BY <1>2, Zenon DEF Masked
  <2> QED
    BY <1>0, <1>2, <2>1 DEF Fits, Kept, SMTPDoc
<1>3. CASE s = "bot"
  <2>1. Masked(s, d) = [d EXCEPT !.key = ""]
    BY <1>3, Zenon DEF Masked
  <2> QED
    BY <1>3, <2>1 DEF Fits, Kept, BotDoc, Secrets
<1>4. CASE s \notin {"llm", "smtp", "bot"}
  <2>1. Masked(s, d) = d
    BY <1>4, Zenon DEF Masked
  <2> QED
    BY <2>1
<1> QED
  BY <1>1, <1>2, <1>3, <1>4

LEMMA StoredKeyIsSecret ==
  ASSUME NEW d \in LLMDoc, NEW id PROVE StoredKey(d, id) \in Secrets
<1> DEFINE same == {j \in DOMAIN d.providers : d.providers[j].id = id}
<1>1. CASE same = {}
  BY <1>1 DEF StoredKey, Secrets
<1>2. CASE same # {}
  <2>1. (CHOOSE j \in same : TRUE) \in DOMAIN d.providers
    <3>1. (CHOOSE j \in same : TRUE) \in same
      BY <1>2, Zenon
    <3>2. same \subseteq DOMAIN d.providers
      OBVIOUS
    <3> HIDE DEF same
    <3> QED
      BY <3>1, <3>2
  <2>2. d.providers \in Seq(ProviderRow)
    BY DEF LLMDoc
  <2>3. d.providers[CHOOSE j \in same : TRUE] \in ProviderRow
    <3>1. \A j \in DOMAIN d.providers : d.providers[j] \in ProviderRow
      BY <2>2
    <3> HIDE DEF same
    <3> QED
      BY <2>1, <3>1, Zenon
  <2>4. StoredKey(d, id) = d.providers[CHOOSE j \in same : TRUE].key
    BY <1>2, Zenon DEF StoredKey
  <2> HIDE DEF same
  <2> QED
    BY <2>3, <2>4 DEF ProviderRow
<1> QED
  BY <1>1, <1>2

\* The row a save of providers stores.
NewRow(p, d) == [p EXCEPT !.key = IF Untouched(@) THEN StoredKey(d, p.id) ELSE @, !.was = p.id]

LEMMA PutLLMIs ==
  ASSUME NEW v, NEW d
  PROVE  PutLLM(v, d) = [providers |-> [i \in DOMAIN v.providers |-> NewRow(v.providers[i], d)]]
BY Zenon DEF PutLLM, NewRow

LEMMA PutFits == ASSUME NEW s, NEW v, NEW d, Fits(s, v), Kept(s, d) PROVE Kept(s, Put(s, v, d))
<1>1. CASE s = "llm"
  <2> DEFINE new == [i \in DOMAIN v.providers |-> NewRow(v.providers[i], d)]
  <2>1. Put(s, v, d) = [providers |-> new]
    <3>1. Put(s, v, d) = PutLLM(v, d)
      BY <1>1, Zenon DEF Put
    <3> QED
      BY <3>1, PutLLMIs
  <2>2. v.providers \in Seq(ProviderRow) /\ DOMAIN v = {"providers"} /\ DOMAIN v = DOMAIN InitialDoc(s)
    BY <1>1 DEF Fits, LLMDoc
  <2>3. ASSUME NEW i \in DOMAIN v.providers PROVE new[i] \in ProviderRow
    <3>1. v.providers[i] \in ProviderRow
      BY <2>2
    <3>2. StoredKey(d, v.providers[i].id) \in Secrets
      BY <1>1, StoredKeyIsSecret DEF Fits, Kept
    <3> QED
      BY <3>1, <3>2 DEF ProviderRow, NewRow
  <2>4. new \in Seq(ProviderRow)
    <3>1. DOMAIN new = DOMAIN v.providers /\ new = [i \in DOMAIN v.providers |-> new[i]]
      OBVIOUS
    <3> HIDE DEF new
    <3> QED
      BY <2>2, <2>3, <3>1, MapIsSeq
  <2> HIDE DEF new
  <2> QED
    BY <1>1, <2>1, <2>2, <2>4 DEF Fits, Kept, LLMDoc
<1>2. CASE s = "smtp"
  <2>1. Put(s, v, d) = PutSMTP(v, d)
    BY <1>2, Zenon DEF Put
  <2> QED
    BY <1>2, <2>1 DEF Fits, Kept, SMTPDoc, PutSMTP
<1>3. CASE s = "bot"
  <2>1. Put(s, v, d) = UpdateBot(v, d)
    BY <1>3, Zenon DEF Put
  <2> QED
    BY <1>3, <2>1 DEF Fits, Kept, BotDoc, UpdateBot
<1>4. CASE s = "links"
  <2>1. Put(s, v, d) = [v EXCEPT !.trusted = Clean(v.trusted)]
    BY <1>4, Zenon DEF Put, PutLinks
  <2>2. v \in LinksDoc
    BY <1>4 DEF Fits
  <2>3. Clean(v.trusted) = Tidy /\ Tidy \in Lists
    BY <2>2, CleanIsTidy DEF LinksDoc, Lists
  <2> QED
    BY <1>4, <2>1, <2>2, <2>3 DEF Fits, Kept, LinksDoc
<1>5. CASE s \notin {"llm", "smtp", "bot", "links"}
  <2>1. Put(s, v, d) = v
    BY <1>5, Zenon DEF Put
  <2> QED
    BY <1>5, <2>1 DEF Kept
<1> QED
  BY <1>1, <1>2, <1>3, <1>4, <1>5
-----------------------------------------------------------------------------
(* The form.                                                               *)

LEMMA LLMEditsFit ==
  ASSUME NEW v \in LLMDoc, NEW w \in LLMEdits(v) PROVE w \in LLMDoc
<1>1. v.providers \in Seq(ProviderRow) /\ v = [providers |-> v.providers]
  BY DEF LLMDoc
<1>2. CASE w = AddProvider(v)
  <2>1. EmptyProvider \in ProviderRow
    BY DEF EmptyProvider, ProviderRow, Identifiers, Secrets
  <2>2. Append(v.providers, EmptyProvider) \in Seq(ProviderRow)
    BY <1>1, <2>1
  <2> QED
    BY <1>1, <1>2, <2>2 DEF AddProvider, LLMDoc
<1>3. ASSUME NEW i \in DOMAIN v.providers, w = RemoveProvider(v, i) PROVE w \in LLMDoc
  <2>1. i \in 1..Len(v.providers)
    BY <1>1, <1>3, SeqIs
  <2>2. RemoveAt(v.providers, i) \in Seq(ProviderRow)
    BY <1>1, <2>1, RemoveAtIsSeq
  <2> QED
    BY <1>1, <1>3, <2>2 DEF RemoveProvider, LLMDoc
<1>4. ASSUME NEW i \in DOMAIN v.providers, w \in UpdateProvider(v, i) PROVE w \in LLMDoc
  <2> DEFINE p == v.providers[i]
  <2>1. p \in ProviderRow
    BY <1>1, <1>4
  <2>2. PICK q \in Sets(p, "id", {"q", "r"}) \cup Sets(p, "key", {"", "typed"}) \cup Sets(p, "enabled", {FALSE}) :
          w = [v EXCEPT !.providers[i] = q]
    BY <1>4 DEF UpdateProvider
  <2> HIDE DEF p
  <2>3. q \in ProviderRow
    <3>1. CASE q \in Sets(p, "id", {"q", "r"})
      <4>1. PICK x \in {"q", "r"} : q = [p EXCEPT !.id = x]
        BY <3>1 DEF Sets
      <4> QED
        BY <2>1, <4>1 DEF ProviderRow, Identifiers
    <3>2. CASE q \in Sets(p, "key", {"", "typed"})
      <4>1. PICK x \in {"", "typed"} : q = [p EXCEPT !.key = x]
        BY <3>2 DEF Sets
      <4> QED
        BY <2>1, <4>1 DEF ProviderRow, Secrets
    <3>3. CASE q \in Sets(p, "enabled", {FALSE})
      <4>1. PICK x \in {FALSE} : q = [p EXCEPT !.enabled = x]
        BY <3>3 DEF Sets
      <4> QED
        BY <2>1, <4>1 DEF ProviderRow
    <3> QED
      BY <2>2, <3>1, <3>2, <3>3
  <2>4. [v.providers EXCEPT ![i] = q] \in Seq(ProviderRow)
    <3>1. v.providers \in [1..Len(v.providers) -> ProviderRow] /\ Len(v.providers) \in Nat
      BY <1>1, SeqIs
    <3>2. [v.providers EXCEPT ![i] = q] \in [1..Len(v.providers) -> ProviderRow]
      BY <2>3, <3>1
    <3> QED
      BY <3>1, <3>2, IsSeq
  <2> QED
    BY <1>1, <2>2, <2>4 DEF LLMDoc
<1>5. \/ w = AddProvider(v)
      \/ \E i \in DOMAIN v.providers : w \in UpdateProvider(v, i) \/ w = RemoveProvider(v, i)
  BY Zenon DEF LLMEdits
<1> QED
  BY <1>2, <1>3, <1>4, <1>5

\* What an input changes leaves the fields of the document as they are.
LEMMA SetsIs ==
  ASSUME NEW v, NEW field, NEW values, NEW w \in Sets(v, field, values)
  PROVE  DOMAIN w = DOMAIN v
BY DEF Sets

LEMMA PickerDomain ==
  ASSUME NEW providers, NEW v, NEW w \in ProviderPicker(providers, v) PROVE DOMAIN w = DOMAIN v
<1>1. CASE w \in Sets(v, "model", Suggested(providers, v))
  BY <1>1, SetsIs, Zenon
<1>2. ASSUME NEW p, w = PickProvider(v, p) PROVE DOMAIN w = DOMAIN v
  BY <1>2 DEF PickProvider
<1>3. w \in Sets(v, "model", Suggested(providers, v)) \/ \E p : w = PickProvider(v, p)
  BY Zenon DEF ProviderPicker
<1> QED
  BY <1>1, <1>2, <1>3

LEMMA LLMEditsDomain == ASSUME NEW v, NEW w \in LLMEdits(v) PROVE DOMAIN w = DOMAIN v
<1>1. ASSUME w = AddProvider(v) PROVE DOMAIN w = DOMAIN v
  BY <1>1 DEF AddProvider
<1>2. ASSUME NEW i, w = RemoveProvider(v, i) PROVE DOMAIN w = DOMAIN v
  BY <1>2 DEF RemoveProvider
<1>3. ASSUME NEW i, NEW q, w = [v EXCEPT !.providers[i] = q] PROVE DOMAIN w = DOMAIN v
  BY <1>3
<1>4. \/ w = AddProvider(v)
      \/ \E i : w = RemoveProvider(v, i)
      \/ \E i, q : w = [v EXCEPT !.providers[i] = q]
  BY Zenon DEF LLMEdits, UpdateProvider
<1> QED
  BY <1>1, <1>2, <1>3, <1>4

LEMMA EditsDomain ==
  ASSUME active \in SectionsOf(page), page \in {"site", "anon", "profile", "bot"},
         NEW v, NEW w \in Edits(v)
  PROVE  DOMAIN w = DOMAIN v
<1>1. ASSUME NEW field, NEW values, w \in Sets(v, field, values) PROVE DOMAIN w = DOMAIN v
  BY <1>1, SetsIs, Zenon
<1>2. CASE active = "basic"
  BY <1>1, <1>2, Zenon DEF Edits, BasicEdits
<1>3. CASE active = "registration"
  BY <1>1, <1>3, Zenon DEF Edits, RegistrationModes, RegistrationRules
<1>4. CASE active = "seo"
  BY <1>1, <1>4, Zenon DEF Edits, SEOEdits
<1>5. CASE active = "rules"
  BY <1>1, <1>5, Zenon DEF Edits, RulesEdits
<1>6. CASE active = "footer"
  BY <1>1, <1>6, Zenon DEF Edits, FooterEdits
<1>7. CASE active = "credits"
  <2>1. Edits(v) = CreditsEdits(v) \cup CurveEdits(v, snapshot["llm"].value.providers)
    BY <1>7, Zenon DEF Edits
  <2> QED
    BY <1>1, <2>1, PickerDomain, Zenon DEF CreditsEdits, CurveEdits
<1>8. CASE active = "moderation"
  <2>1. Edits(v) = ModerationEdits(v, snapshot["llm"].value.providers)
    BY <1>8, Zenon DEF Edits
  <2> QED
    BY <1>1, <2>1, PickerDomain, Zenon DEF ModerationEdits
<1>9. CASE active = "llm"
  <2>1. Edits(v) = LLMEdits(v)
    BY <1>9, Zenon DEF Edits
  <2> QED
    BY <2>1, LLMEditsDomain, Zenon
<1>10. CASE active = "smtp"
  BY <1>1, <1>10, Zenon DEF Edits, SMTPEdits
<1>11. CASE active = "links"
  BY <1>1, <1>11, Zenon DEF Edits, LinksEdits
<1>12. CASE active = "anon"
  BY <1>1, <1>12, Zenon DEF Edits, AnonEdits
<1>13. CASE active = "profile"
  BY <1>1, <1>13, Zenon DEF Edits, ProfileEdits
<1>14. CASE active = "bot"
  BY <1>1, <1>14, Zenon DEF Edits, BotEdits
<1>15. active \in {"basic", "registration", "seo", "rules", "footer", "credits",
                   "moderation", "llm", "smtp", "links", "anon", "profile", "bot"}
  BY Zenon DEF SectionsOf
<1> QED
  BY <1>2, <1>3, <1>4, <1>5, <1>6, <1>7, <1>8, <1>9, <1>10, <1>11, <1>12, <1>13, <1>14, <1>15, Zenon

\* The input of the link policy that is no box leaves the lists as they are.
LEMMA LinksEditsAre ==
  ASSUME NEW v, v \in LinksDoc, NEW w \in LinksEdits(v)
  PROVE  w \in LinksDoc /\ w.trusted = v.trusted
<1>1. PICK x \in BOOLEAN : w = [v EXCEPT !.warn = x]
  BY DEF LinksEdits, Sets
<1> QED
  BY <1>1 DEF LinksDoc

LEMMA EditsFit ==
  ASSUME active \in SectionsOf(page), page \in {"site", "anon", "profile", "bot"},
         NEW v, Fits(active, v), NEW w \in Edits(v)
  PROVE  /\ Fits(active, w)
         /\ active = "links" => w.trusted = v.trusted
<1>0. DOMAIN w = DOMAIN v
  BY EditsDomain
<1>1. CASE active = "llm"
  <2>1. Edits(v) = LLMEdits(v)
    BY <1>1, Zenon DEF Edits
  <2> QED
    BY <1>0, <1>1, <2>1, LLMEditsFit DEF Fits
<1>2. CASE active = "smtp"
  <2>1. w \in SMTPEdits(v)
    BY <1>2, Zenon DEF Edits
  <2>2. v \in SMTPDoc
    BY <1>2 DEF Fits
  <2>3. w \in SMTPDoc
    <3>1. CASE w \in Sets(v, "host", Typed)
      <4>1. PICK x \in Typed : w = [v EXCEPT !.host = x]
        BY <3>1 DEF Sets
      <4> QED
        BY <2>2, <4>1 DEF SMTPDoc
    <3>2. CASE w \in Sets(v, "password", {"", "typed"})
      <4>1. PICK x \in {"", "typed"} : w = [v EXCEPT !.password = x]
        BY <3>2 DEF Sets
      <4> QED
        BY <2>2, <4>1 DEF SMTPDoc, Secrets
    <3> QED
      BY <2>1, <3>1, <3>2 DEF SMTPEdits
  <2> QED
    BY <1>0, <1>2, <2>3 DEF Fits
<1>3. CASE active = "bot"
  <2>1. w \in BotEdits(v)
    BY <1>3, Zenon DEF Edits
  <2>2. v \in BotDoc
    BY <1>3 DEF Fits
  <2>3. w \in BotDoc
    <3>1. CASE w \in Sets(v, "webhook", {"http2", "junk"})
      <4>1. PICK x \in {"http2", "junk"} : w = [v EXCEPT !.webhook = x]
        BY <3>1 DEF Sets
      <4> QED
        BY <2>2, <4>1 DEF BotDoc
    <3>2. CASE w \in Sets(v, "key", {"typed"})
      <4>1. PICK x \in {"typed"} : w = [v EXCEPT !.key = x]
        BY <3>2 DEF Sets
      <4> QED
        BY <2>2, <4>1 DEF BotDoc, Secrets
    <3> QED
      BY <2>1, <3>1, <3>2 DEF BotEdits
  <2> QED
    BY <1>0, <1>3, <2>3 DEF Fits
<1>4. CASE active = "links"
  <2>1. w \in LinksEdits(v) /\ v \in LinksDoc
    BY <1>4, Zenon DEF Edits, Fits
  <2>2. w \in LinksDoc /\ w.trusted = v.trusted
    BY <2>1, LinksEditsAre
  <2> QED
    BY <1>0, <1>4, <2>2 DEF Fits
<1>5. CASE active \notin {"llm", "smtp", "bot", "links"}
  BY <1>0, <1>5 DEF Fits
<1> QED
  BY <1>1, <1>2, <1>3, <1>4, <1>5
-----------------------------------------------------------------------------
(* The invariant: copies, forms and saves hold documents of their section. *)

IsForm(f) ==
  f = [value |-> f.value, box |-> f.box, typing |-> f.typing, loading |-> f.loading,
       saved |-> f.saved, error |-> f.error, clean |-> f.clean]

FormFits(s, f) == Fits(s, f.value) /\ BoxFits(s, f.box)

IsCopy(x, p) ==
  /\ x = [s \in SectionsOf(p) |-> x[s]]
  /\ \A s \in SectionsOf(p) : Kept(s, x[s].value)

\* A save r of page p while section a is shown.
IsSave(r, p, a) ==
  /\ r = [section |-> r.section, value |-> r.value, box |-> r.box,
          snapshot |-> r.snapshot, mounted |-> r.mounted, reply |-> r.reply]
  /\ r.section \in SectionsOf(p)
  /\ Fits(r.section, r.value)
  /\ IsCopy(r.snapshot, p)
  /\ (r.reply # None /\ r.reply.ok) => Kept(r.section, r.reply.value)
  /\ r.mounted => r.section = a

ServerInv ==
  /\ page \in Pages /\ active \in SectionsOf(page)
  /\ stored = [s \in SectionsOf(page) |-> stored[s]]
  /\ \A s \in SectionsOf(page) : Kept(s, stored[s])

PageInv ==
  /\ Loaded => IsCopy(snapshot, page)
  /\ IsForm(form)
  /\ (Loaded \/ InFlight # {}) => FormFits(active, form)

SavesInv ==
  /\ saves = [k \in Saves |-> saves[k]]
  /\ \A k \in InFlight : IsSave(saves[k], page, active)

IInv == ServerInv /\ PageInv /\ SavesInv

LEMMA InitIInv == Init => IInv
<1> SUFFICES ASSUME Init PROVE IInv
  OBVIOUS
<1>1. ServerInv
  <2>1. page \in Pages /\ active \in SectionsOf(page)
    BY DEF Init, SectionsOf
  <2>2. stored = [s \in SectionsOf(page) |-> InitialDoc(s)]
    BY DEF Init
  <2> QED
    BY <2>1, <2>2, InitialFits DEF ServerInv
<1>2. InFlight = {} /\ saves = [k \in Saves |-> saves[k]]
  BY DEF Init, InFlight
<1>3. ~Loaded
  BY DEF Init, Loaded
<1>4. IsForm(form)
  BY DEF Init, Mounted, IsForm
<1> QED
  BY <1>1, <1>2, <1>3, <1>4 DEF IInv, PageInv, SavesInv

\* The box of a document kept is its tidy list, or there is none.
LEMMA BoxOfFits ==
  ASSUME NEW s, NEW v, Fits(s, v) PROVE BoxFits(s, BoxOf(s, v))
BY DEF Fits, LinksDoc, BoxFits, BoxOf

LEMMA LoadStep == ASSUME IInv, Load PROVE IInv'
<1>1. UNCHANGED <<page, stored, active, saves>>
  BY DEF Load
<1>2. ServerInv' /\ SavesInv'
  BY <1>1 DEF IInv, ServerInv, SavesInv, InFlight
<1>3. PageInv'
  <2>1. ASSUME snapshot' = [s \in SectionsOf(page) |-> [answer |-> 0, value |-> Masked(s, stored[s])]],
               form' = Mounted(active, Masked(active, stored[active]))
        PROVE  PageInv'
    <3>1. \A s \in SectionsOf(page) : Kept(s, Masked(s, stored[s]))
      BY MaskedFits DEF IInv, ServerInv
    <3>2. IsCopy(snapshot', page)
      BY <2>1, <3>1 DEF IsCopy
    <3>3. IsForm(form') /\ form'.value = Masked(active, stored[active])
          /\ form'.box = BoxOf(active, Masked(active, stored[active]))
      BY <2>1 DEF Mounted, IsForm
    <3>4. FormFits(active, form')
      BY <3>1, <3>3, BoxOfFits DEF IInv, ServerInv, FormFits, Kept
    <3> QED
      BY <1>1, <3>2, <3>3, <3>4 DEF PageInv
  <2>2. ASSUME form' = [form EXCEPT !.error = TRUE], UNCHANGED snapshot PROVE PageInv'
    <3>1. IsForm(form') /\ form'.value = form.value /\ form'.box = form.box
      BY <2>2 DEF IInv, PageInv, IsForm
    <3> QED
      BY <1>1, <2>2, <3>1 DEF IInv, PageInv, Loaded, InFlight, FormFits
  <2> QED
    BY <2>1, <2>2 DEF Load
<1> QED
  BY <1>2, <1>3 DEF IInv

\* commitDomains: a form without boxes stays as it is.
LEMMA CommitIs ==
  ASSUME NEW f, IsForm(f), FormFits(active, f)
  PROVE  /\ IsForm(CommitDomains(f)) /\ FormFits(active, CommitDomains(f))
         /\ CommitDomains(f).box = f.box /\ CommitDomains(f).clean = f.clean
         /\ CommitDomains(f).typing = f.typing /\ CommitDomains(f).loading = f.loading
         /\ active = "links" => CommitDomains(f).value = [f.value EXCEPT !.trusted = ToList(f.box)]
         /\ active # "links" => CommitDomains(f) = f
<1>1. CASE active = "links"
  <2>1. CommitDomains(f) = [f EXCEPT !.value.trusted = ToList(f.box)]
    BY <1>1 DEF CommitDomains
  <2>2. f.value \in LinksDoc /\ DOMAIN f.value = DOMAIN InitialDoc(active)
    BY <1>1 DEF FormFits, Fits
  <2>3. f.box \in Boxes \cup Lists
    BY <1>1 DEF FormFits, BoxFits
  <2>4. ToList(f.box) \in Lists
    BY <2>3, ToListIs
  <2> DEFINE v == [f.value EXCEPT !.trusted = ToList(f.box)]
  <2>5. v \in LinksDoc /\ DOMAIN v = DOMAIN InitialDoc(active)
    BY <2>2, <2>4 DEF LinksDoc
  <2>6. CommitDomains(f) = [f EXCEPT !.value = v]
    BY <2>1 DEF IsForm
  <2> HIDE DEF v
  <2>7. IsForm(CommitDomains(f)) /\ CommitDomains(f).value = v
    BY <2>6 DEF IsForm
  <2>8. CommitDomains(f).box = f.box /\ CommitDomains(f).clean = f.clean
        /\ CommitDomains(f).typing = f.typing /\ CommitDomains(f).loading = f.loading
    BY <2>6 DEF IsForm
  <2>9. FormFits(active, CommitDomains(f))
    BY <1>1, <2>3, <2>5, <2>7, <2>8 DEF FormFits, Fits, BoxFits
  <2> QED
    BY <1>1, <2>7, <2>8, <2>9 DEF v
<1>2. CASE active # "links"
  BY <1>2 DEF CommitDomains
<1> QED
  BY <1>1, <1>2

LEMMA BlurredFits ==
  ASSUME NEW f, IsForm(f), FormFits(active, f)
  PROVE  /\ IsForm(Blurred(f)) /\ FormFits(active, Blurred(f))
         /\ Blurred(f).box = f.box /\ Blurred(f).clean = f.clean /\ Blurred(f).loading = f.loading
         /\ (f.typing /\ active = "links") =>
               Blurred(f).value = [f.value EXCEPT !.trusted = ToList(f.box)]
         /\ (~f.typing \/ active # "links") => Blurred(f).value = f.value
<1> DEFINE c == CommitDomains(f)
<1>1. Blurred(f) = IF f.typing THEN [c EXCEPT !.typing = FALSE] ELSE f
  BY DEF Blurred
<1>2. IsForm(c) /\ FormFits(active, c) /\ c.box = f.box /\ c.clean = f.clean
      /\ c.loading = f.loading
      /\ (active = "links" => c.value = [f.value EXCEPT !.trusted = ToList(f.box)])
      /\ (active # "links" => c = f)
  BY CommitIs
<1> HIDE DEF c
<1>3. CASE f.typing
  <2>1. IsForm(Blurred(f)) /\ Blurred(f).value = c.value /\ Blurred(f).box = c.box /\ Blurred(f).clean = c.clean
        /\ Blurred(f).loading = c.loading
    BY <1>1, <1>2, <1>3 DEF IsForm
  <2> QED
    BY <1>2, <1>3, <2>1 DEF FormFits
<1>4. CASE ~f.typing
  BY <1>1, <1>4
<1> QED
  BY <1>3, <1>4

LEMMA InputStep == ASSUME IInv, Input PROVE IInv'
<1>1. UNCHANGED <<page, stored, snapshot, active, saves>> /\ Loaded
  BY DEF Input
<1>2. ServerInv' /\ SavesInv'
  BY <1>1 DEF IInv, ServerInv, SavesInv, InFlight
<1>3. IsForm(form) /\ FormFits(active, form)
  BY <1>1 DEF IInv, PageInv
<1>4. IsForm(form') /\ FormFits(active, form')
  <2>1. CASE \E v \in Edits(Blurred(form).value) :
                form' = [Blurred(form) EXCEPT !.value = v, !.clean = FALSE]
    <3>1. PICK v \in Edits(Blurred(form).value) :
                form' = [Blurred(form) EXCEPT !.value = v, !.clean = FALSE]
      BY <2>1
    <3>2. IsForm(Blurred(form)) /\ FormFits(active, Blurred(form))
      BY <1>3, BlurredFits
    <3>3. Fits(active, v)
      BY <3>1, <3>2, EditsFit, FormsAssumption DEF FormFits, IInv, ServerInv
    <3>4. IsForm(form') /\ form'.value = v /\ form'.box = Blurred(form).box
      BY <3>1, <3>2 DEF IsForm
    <3> QED
      BY <3>2, <3>3, <3>4 DEF FormFits
  <2>2. CASE active = "links" /\ \E b \in Boxes \ {form.box} :
                form' = [form EXCEPT !.box = b, !.typing = TRUE, !.clean = FALSE]
    <3>1. IsForm(form') /\ form'.value = form.value /\ form'.box \in Boxes
      BY <1>3, <2>2 DEF IsForm
    <3> QED
      BY <1>3, <2>2, <3>1 DEF FormFits, BoxFits
  <2> QED
    BY <2>1, <2>2 DEF Input
<1> QED
  BY <1>1, <1>2, <1>4 DEF IInv, PageInv, Loaded

LEMMA ResetStep == ASSUME IInv, Reset PROVE IInv'
<1>1. UNCHANGED <<page, stored, snapshot, active, saves>> /\ Loaded
  BY DEF Reset
<1>2. ServerInv' /\ SavesInv'
  BY <1>1 DEF IInv, ServerInv, SavesInv, InFlight
<1>3. IsForm(form') /\ form'.value = snapshot[active].value
      /\ form'.box = BoxOf(active, snapshot[active].value)
  BY DEF Reset, IInv, PageInv, IsForm
<1>4. Fits(active, snapshot[active].value)
  BY <1>1 DEF IInv, PageInv, ServerInv, IsCopy, Kept
<1>5. FormFits(active, form')
  BY <1>3, <1>4, BoxOfFits DEF FormFits
<1> QED
  BY <1>1, <1>2, <1>3, <1>5 DEF IInv, PageInv, Loaded

LEMMA FadeStep == ASSUME IInv, Fade PROVE IInv'
<1>1. UNCHANGED <<page, stored, snapshot, active, saves>>
  BY DEF Fade
<1>2. ServerInv' /\ SavesInv'
  BY <1>1 DEF IInv, ServerInv, SavesInv, InFlight
<1>3. IsForm(form') /\ form'.value = form.value /\ form'.box = form.box
  BY DEF Fade, IInv, PageInv, IsForm
<1> QED
  BY <1>1, <1>2, <1>3 DEF IInv, PageInv, Loaded, InFlight, FormFits

LEMMA ElsewhereStep == ASSUME IInv, Elsewhere PROVE IInv'
<1>1. UNCHANGED <<page, snapshot, active, form, saves>>
  BY DEF Elsewhere
<1>2. stored' = [stored EXCEPT ![active] = InitialDoc(active)]
  BY DEF Elsewhere
<1>3. ServerInv'
  BY <1>1, <1>2, InitialFits DEF IInv, ServerInv
<1>4. PageInv' /\ SavesInv'
  BY <1>1 DEF IInv, PageInv, SavesInv, Loaded, InFlight
<1> QED
  BY <1>3, <1>4 DEF IInv

LEMMA OpenStep == ASSUME IInv, NEW s \in SectionsOf("site"), Open(s) PROVE IInv'
<1>1. UNCHANGED <<page, stored, snapshot>> /\ Loaded /\ page = "site" /\ active' = s
  BY DEF Open
<1>2. ServerInv'
  BY <1>1 DEF IInv, ServerInv
<1>3. PageInv'
  <2>1. IsForm(form') /\ form'.value = snapshot[s].value /\ form'.box = BoxOf(s, snapshot[s].value)
    BY DEF Open, Mounted, IsForm
  <2>2. IsCopy(snapshot, page) /\ FormFits(s, form')
    BY <1>1, <2>1, BoxOfFits DEF IInv, PageInv, IsCopy, Kept, FormFits
  <2> QED
    BY <1>1, <2>1, <2>2 DEF PageInv
<1>4. saves' = [k \in Saves |-> IF k \in InFlight THEN [saves[k] EXCEPT !.mounted = FALSE] ELSE None]
  BY DEF Open
<1>5. ASSUME NEW k \in InFlight' PROVE IsSave(saves[k]', page', active')
  <2>1. k \in InFlight /\ saves'[k] = [saves[k] EXCEPT !.mounted = FALSE]
    BY <1>4 DEF InFlight
  <2>2. IsSave(saves[k], page, active)
    BY <2>1 DEF IInv, SavesInv
  <2> QED
    BY <1>1, <2>1, <2>2 DEF IsSave
<1> QED
  BY <1>2, <1>3, <1>4, <1>5 DEF IInv, SavesInv

LEMMA SaveStep == ASSUME IInv, NEW k \in Saves, Save(k) PROVE IInv'
<1> DEFINE f == Blurred(form)
           new == [section |-> active, value |-> f.value, box |-> form.box,
                   snapshot |-> snapshot, mounted |-> TRUE, reply |-> None]
<1>1. UNCHANGED <<page, stored, snapshot, active>> /\ Loaded
  BY DEF Save
<1>2. saves' = [saves EXCEPT ![k] = new]
  BY DEF Save
<1>3. form' = [CommitDomains(f) EXCEPT !.loading = TRUE, !.saved = FALSE, !.error = FALSE]
  BY DEF Save
<1>4. IsForm(f) /\ FormFits(active, f)
  BY <1>1, BlurredFits DEF IInv, PageInv
<1>5. IsCopy(snapshot, page)
  BY <1>1 DEF IInv, PageInv
<1>6. IsSave(new, page, active)
  BY <1>4, <1>5 DEF IsSave, IInv, ServerInv, FormFits
<1> HIDE DEF f, new
<1>7. ServerInv'
  BY <1>1 DEF IInv, ServerInv
<1>8. PageInv'
  <2>1. IsForm(CommitDomains(f)) /\ FormFits(active, CommitDomains(f))
    BY <1>4, CommitIs
  <2>2. IsForm(form') /\ form'.value = CommitDomains(f).value /\ form'.box = CommitDomains(f).box
    BY <1>3, <2>1 DEF IsForm
  <2> QED
    BY <1>1, <1>5, <2>1, <2>2 DEF PageInv, FormFits
<1>9. SavesInv'
  <2>1. saves = [j \in Saves |-> saves[j]]
    BY DEF IInv, SavesInv
  <2>2. saves' = [j \in Saves |-> saves'[j]] /\ saves'[k] = new
        /\ \A j \in Saves \ {k} : saves'[j] = saves[j]
    BY <1>2, <2>1
  <2>3. \A j \in InFlight' : IsSave(saves'[j], page, active)
    BY <1>6, <2>2 DEF IInv, SavesInv, InFlight
  <2> QED
    BY <1>1, <2>2, <2>3 DEF SavesInv
<1> QED
  BY <1>7, <1>8, <1>9 DEF IInv

\* An answer r comes for save k.
LEMMA ReplyStep ==
  ASSUME IInv, NEW k \in Saves, Pending(k), NEW r, saves' = [saves EXCEPT ![k].reply = r],
         (r # None /\ r.ok) => Kept(saves[k].section, r.value), UNCHANGED <<page, active>>
  PROVE  SavesInv' /\ InFlight # {}
<1>1. saves = [j \in Saves |-> saves[j]] /\ k \in InFlight
  BY DEF IInv, SavesInv, Pending, InFlight
<1>2. IsSave(saves[k], page, active)
  BY <1>1 DEF IInv, SavesInv
<1> DEFINE answered == [saves[k] EXCEPT !.reply = r]
<1>3. IsSave(answered, page, active)
  <2>1. answered = [section |-> saves[k].section, value |-> saves[k].value, box |-> saves[k].box,
          snapshot |-> saves[k].snapshot, mounted |-> saves[k].mounted, reply |-> r]
    BY <1>2 DEF IsSave
  <2> HIDE DEF answered
  <2>2. answered.section = saves[k].section /\ answered.value = saves[k].value
        /\ answered.snapshot = saves[k].snapshot /\ answered.mounted = saves[k].mounted
        /\ answered.reply = r /\ answered.box = saves[k].box
    BY <2>1
  <2> QED
    BY <1>2, <2>1, <2>2 DEF IsSave
<1>4. saves' = [j \in Saves |-> saves'[j]] /\ saves'[k] = answered
      /\ \A j \in Saves \ {k} : saves'[j] = saves[j]
  BY <1>1
<1> HIDE DEF answered
<1>5. \A j \in InFlight' : IsSave(saves'[j], page, active)
  BY <1>3, <1>4 DEF IInv, SavesInv, InFlight
<1> QED
  BY <1>1, <1>4, <1>5 DEF SavesInv

LEMMA ServeStep == ASSUME IInv, NEW k \in Saves, Serve(k) PROVE IInv'
<1> DEFINE s == saves[k].section
           d == Put(s, saves[k].value, stored[s])
<1>1. Pending(k) /\ stored' = [stored EXCEPT ![s] = d] /\ UNCHANGED <<page, snapshot, active, form>>
  BY DEF Serve
<1>2. \/ saves' = [saves EXCEPT ![k].reply = [ok |-> TRUE, value |-> Masked(s, d)]]
      \/ saves' = [saves EXCEPT ![k].reply = [ok |-> FALSE]]
  BY DEF Serve
<1>3. IsSave(saves[k], page, active)
  BY <1>1 DEF Pending, IInv, SavesInv, InFlight
<1>4. s \in SectionsOf(page) /\ Kept(s, d)
  BY <1>3, PutFits DEF IsSave, IInv, ServerInv
<1>5. Kept(s, Masked(s, d))
  BY <1>4, MaskedFits
<1>6. ServerInv'
  <2> HIDE DEF d, s
  <2> QED
    BY <1>1, <1>4 DEF IInv, ServerInv
<1>7. SavesInv' /\ InFlight # {}
  <2> HIDE DEF d
  <2>1. CASE saves' = [saves EXCEPT ![k].reply = [ok |-> TRUE, value |-> Masked(s, d)]]
    BY <1>1, <1>5, <2>1, ReplyStep
  <2>2. CASE saves' = [saves EXCEPT ![k].reply = [ok |-> FALSE]]
    BY <1>1, <2>2, ReplyStep
  <2> QED
    BY <1>2, <2>1, <2>2
<1>8. PageInv'
  BY <1>1, <1>7 DEF IInv, PageInv, Loaded
<1> QED
  BY <1>6, <1>7, <1>8 DEF IInv

LEMMA RefuseStep == ASSUME IInv, NEW k \in Saves, Refuse(k) PROVE IInv'
<1>1. Pending(k) /\ UNCHANGED <<page, stored, snapshot, active, form>>
      /\ saves' = [saves EXCEPT ![k].reply = [ok |-> FALSE]]
  BY DEF Refuse
<1>2. SavesInv' /\ InFlight # {}
  BY <1>1, ReplyStep
<1>3. ServerInv'
  BY <1>1 DEF IInv, ServerInv
<1>4. PageInv'
  BY <1>1, <1>2 DEF IInv, PageInv, Loaded
<1> QED
  BY <1>2, <1>3, <1>4 DEF IInv

\* A save is over.
LEMMA OverStep ==
  ASSUME IInv, NEW k \in Saves, saves' = [saves EXCEPT ![k] = None], UNCHANGED <<page, active>>
  PROVE  SavesInv'
<1>1. saves = [j \in Saves |-> saves[j]]
  BY DEF IInv, SavesInv
<1>2. saves' = [j \in Saves |-> saves'[j]] /\ saves'[k] = None
      /\ \A j \in Saves \ {k} : saves'[j] = saves[j]
  BY <1>1
<1>3. \A j \in InFlight' : IsSave(saves'[j], page, active)
  BY <1>2 DEF IInv, SavesInv, InFlight
<1> QED
  BY <1>2, <1>3 DEF SavesInv

LEMMA SaveFailedStep == ASSUME IInv, NEW k \in Saves, SaveFailed(k) PROVE IInv'
<1>1. saves' = [saves EXCEPT ![k] = None] /\ UNCHANGED <<page, stored, snapshot, active>>
      /\ k \in InFlight
  BY DEF SaveFailed, InFlight
<1>2. SavesInv' /\ ServerInv'
  BY <1>1, OverStep DEF IInv, ServerInv
<1>3. IsForm(form') /\ form'.value = form.value /\ form'.box = form.box
  BY DEF SaveFailed, IInv, PageInv, IsForm
<1>4. PageInv'
  BY <1>1, <1>3 DEF IInv, PageInv, Loaded, FormFits
<1> QED
  BY <1>2, <1>4 DEF IInv

LEMMA SaveAnsweredStep == ASSUME IInv, NEW k \in Saves, SaveAnswered(k) PROVE IInv'
<1> DEFINE here == saves[k].mounted
           own == IF here THEN [Answered(form, k) EXCEPT !.saved = TRUE, !.loading = FALSE] ELSE form
<1>1. saves' = [saves EXCEPT ![k] = None] /\ UNCHANGED <<page, stored, active>> /\ k \in InFlight
      /\ saves[k].reply # None /\ saves[k].reply.ok
  BY DEF SaveAnswered, InFlight
<1>2. snapshot' = OnSaved(k) /\ form' = IF page = "site" /\ ~here THEN Resynced(own, OnSaved(k)) ELSE own
  BY DEF SaveAnswered
<1>3. SavesInv' /\ ServerInv'
  BY <1>1, OverStep DEF IInv, ServerInv
<1>4. IsSave(saves[k], page, active)
  BY <1>1 DEF IInv, SavesInv
<1>5. IsCopy(OnSaved(k), page)
  <2>1. IsCopy(saves[k].snapshot, page) /\ Kept(saves[k].section, saves[k].reply.value)
        /\ saves[k].section \in SectionsOf(page)
    BY <1>1, <1>4 DEF IsSave
  <2> QED
    BY <2>1 DEF OnSaved, IsCopy
<1>6. IsForm(form) /\ FormFits(active, form)
  BY <1>1 DEF IInv, PageInv
<1>7. IsForm(own) /\ FormFits(active, own)
  <2>1. CASE ~here
    BY <1>6, <2>1
  <2>2. CASE here /\ page = "bot"
    <3>1. active = "bot"
      BY <2>2 DEF IInv, ServerInv, SectionsOf
    <3>2. form.value \in BotDoc /\ DOMAIN form.value = DOMAIN InitialDoc(active)
      BY <1>6, <3>1 DEF Fits, FormFits
    <3>3. [form.value EXCEPT !.key = ""] \in BotDoc
          /\ DOMAIN [form.value EXCEPT !.key = ""] = DOMAIN InitialDoc(active)
      BY <3>2 DEF BotDoc, Secrets
    <3>4. Answered(form, k) = [form EXCEPT !.value.key = "", !.clean = form.value.webhook = saves[k].reply.value.webhook]
      BY <2>2 DEF Answered
    <3>5. IsForm(own) /\ own.value = [form.value EXCEPT !.key = ""] /\ own.box = form.box
      BY <1>6, <2>2, <3>4 DEF IsForm
    <3> QED
      BY <1>6, <3>1, <3>3, <3>5 DEF Fits, FormFits
  <2>3. CASE here /\ page # "bot"
    <3>1. Answered(form, k) = [form EXCEPT !.value = saves[k].reply.value,
                                           !.box = BoxOf(active, saves[k].reply.value), !.clean = TRUE]
      BY <2>3 DEF Answered
    <3>2. IsForm(own) /\ own.value = saves[k].reply.value /\ own.box = BoxOf(active, saves[k].reply.value)
      BY <1>6, <2>3, <3>1 DEF IsForm
    <3>3. Fits(active, saves[k].reply.value)
      BY <1>1, <1>4, <2>3 DEF IsSave, Kept
    <3> QED
      BY <3>2, <3>3, BoxOfFits DEF FormFits
  <2> QED
    BY <2>1, <2>2, <2>3
<1> HIDE DEF own, here
<1>8. IsForm(form') /\ FormFits(active, form')
  <2>1. CASE ~(page = "site" /\ ~here)
    BY <1>2, <1>7, <2>1
  <2>2. CASE page = "site" /\ ~here
    <3>1. form' = Resynced(own, OnSaved(k))
      BY <1>2, <2>2
    <3>2. Fits(active, OnSaved(k)[active].value)
      BY <1>5 DEF IsCopy, IInv, ServerInv, Kept
    <3> DEFINE c == OnSaved(k)
    <3>3. form' = own \/ form' = [own EXCEPT !.value = c[active].value, !.box = BoxOf(active, own.value), !.clean = TRUE]
      BY <3>1 DEF Resynced
    <3> HIDE DEF c
    <3>4. CASE form' = [own EXCEPT !.value = c[active].value, !.box = BoxOf(active, own.value), !.clean = TRUE]
      <4>1. IsForm(form') /\ form'.value = c[active].value /\ form'.box = BoxOf(active, own.value)
        BY <1>7, <3>4 DEF IsForm
      <4>2. BoxFits(active, BoxOf(active, own.value))
        BY <1>7, BoxOfFits DEF FormFits
      <4> QED
        BY <3>2, <4>1, <4>2 DEF c, FormFits
    <3> QED
      BY <1>7, <3>3, <3>4
  <2> QED
    BY <2>1, <2>2
<1>9. PageInv'
  BY <1>1, <1>2, <1>5, <1>8 DEF PageInv
<1> QED
  BY <1>3, <1>9 DEF IInv

LEMMA IInvStep == ASSUME IInv, [Next]_vars PROVE IInv'
<1>1. CASE UNCHANGED vars
  BY <1>1 DEF vars, IInv, ServerInv, PageInv, SavesInv, Loaded, InFlight
<1>2. CASE Next
  BY <1>2, LoadStep, InputStep, ResetStep, FadeStep, ElsewhereStep, OpenStep, SaveStep,
     ServeStep, RefuseStep, SaveAnsweredStep, SaveFailedStep DEF Next
<1> QED
  BY <1>1, <1>2

LEMMA SpecIInv == Spec => []IInv
BY InitIInv, IInvStep, PTL DEF Spec

-----------------------------------------------------------------------------
(* A second invariant: while nothing is spoilt at most one save is in      *)
(* flight, what it captured is still the page's snapshot, and only the     *)
(* section it has saved may differ from the server's.                      *)

Done(k) == saves[k].reply # None /\ saves[k].reply.ok

\* The form of a save in flight waits for it.
LoadingInv ==
  /\ InFlight # {} => Loaded
  /\ form.loading => \E k \in InFlight : saves[k].mounted

SaveCalm(k) ==
  /\ saves[k].snapshot = snapshot
  /\ saves[k].section = active => saves[k].mounted
  /\ Done(k) => saves[k].reply.value = Masked(saves[k].section, stored[saves[k].section])
  /\ saves[k].section = "links" => saves[k].value.trusted = ToList(saves[k].box)

SavesCalm == /\ \A j, k \in InFlight : j = k
             /\ \A k \in InFlight : SaveCalm(k)

CopyCalm ==
  Loaded => \A s \in SectionsOf(page) : \/ snapshot[s].value = Masked(s, stored[s])
                                       \/ \E k \in InFlight : saves[k].section = s /\ Done(k)

FormCalm ==
  Loaded =>
    /\ form.clean => form.value = snapshot[active].value /\ form.box = BoxOf(active, form.value)
    /\ (active = "links" /\ ~form.typing) => form.value.trusted = ToList(form.box)

CalmInv == ~spoilt => SavesCalm /\ CopyCalm /\ FormCalm

JInv == LoadingInv /\ CalmInv

\* A box filled from a document of the server reads as its list.
LEMMA FilledBox ==
  ASSUME NEW s, NEW v, Kept(s, v), s = "links" PROVE v.trusted = ToList(BoxOf(s, v))
BY TidyIsRead DEF Kept, BoxOf

LEMMA InitJInv == Init => JInv
<1> SUFFICES ASSUME Init PROVE JInv
  OBVIOUS
<1>1. InFlight = {} /\ ~Loaded /\ ~form.loading
  BY DEF Init, InFlight, Loaded, Mounted
<1> QED
  BY <1>1 DEF JInv, LoadingInv, CalmInv, SavesCalm, CopyCalm, FormCalm

LEMMA LoadCalm == ASSUME IInv, JInv, Load PROVE JInv'
<1>1. UNCHANGED <<page, stored, active, saves, spoilt>> /\ InFlight = {} /\ InFlight' = {}
  BY DEF Load, JInv, LoadingInv, InFlight
<1>2. ASSUME snapshot' = [s \in SectionsOf(page) |-> [answer |-> 0, value |-> Masked(s, stored[s])]],
             form' = Mounted(active, Masked(active, stored[active]))
      PROVE  JInv'
  <2> DEFINE v == Masked(active, stored[active])
  <2>1. Kept(active, v) /\ active \in SectionsOf(page)
    BY MaskedFits DEF IInv, ServerInv
  <2>2. form'.value = v /\ form'.box = BoxOf(active, v) /\ ~form'.loading
    BY <1>2 DEF Mounted
  <2>3. snapshot'[active].value = v /\ \A s \in SectionsOf(page) : snapshot'[s].value = Masked(s, stored[s])
    BY <1>2, <2>1
  <2> HIDE DEF v
  <2>4. FormCalm'
    BY <1>1, <2>1, <2>2, <2>3, FilledBox DEF FormCalm
  <2>5. LoadingInv' /\ SavesCalm' /\ CopyCalm'
    BY <1>1, <2>2, <2>3 DEF LoadingInv, SavesCalm, CopyCalm
  <2> QED
    BY <2>4, <2>5 DEF JInv, CalmInv
<1>3. ASSUME form' = [form EXCEPT !.error = TRUE], UNCHANGED snapshot PROVE JInv'
  <2>1. form'.loading = form.loading /\ ~Loaded'
    BY <1>3 DEF IInv, PageInv, IsForm, Load, Loaded
  <2> QED
    BY <1>1, <2>1 DEF JInv, LoadingInv, CalmInv, SavesCalm, CopyCalm, FormCalm
<1> QED
  BY <1>2, <1>3 DEF Load

\* Only the form changes, and it is not waiting for a save unless it was.
LEMMA FormOnly ==
  ASSUME JInv, UNCHANGED <<page, stored, snapshot, active, saves, spoilt>>, Loaded,
         form'.loading => form.loading, ~spoilt => FormCalm'
  PROVE  JInv'
<1>1. InFlight' = InFlight /\ Loaded'
  BY DEF InFlight, Loaded
<1>2. LoadingInv'
  BY <1>1 DEF JInv, LoadingInv
<1>3. SavesCalm => SavesCalm'
  BY <1>1 DEF SavesCalm, SaveCalm, Done
<1>4. CopyCalm => CopyCalm'
  BY <1>1 DEF CopyCalm, Done, Loaded
<1> QED
  BY <1>2, <1>3, <1>4 DEF JInv, CalmInv

LEMMA InputCalm == ASSUME IInv, JInv, Input PROVE JInv'
<1>1. UNCHANGED <<page, stored, snapshot, active, saves, spoilt>> /\ Loaded
  BY DEF Input
<1>2. IsForm(form) /\ FormFits(active, form)
  BY <1>1 DEF IInv, PageInv
<1> DEFINE f == Blurred(form)
<1>3. CASE \E v \in Edits(f.value) : form' = [f EXCEPT !.value = v, !.clean = FALSE]
  <2>1. PICK v \in Edits(f.value) : form' = [f EXCEPT !.value = v, !.clean = FALSE]
    BY <1>3
  <2>2. /\ IsForm(f) /\ FormFits(active, f) /\ f.box = form.box /\ f.loading = form.loading
        /\ (form.typing /\ active = "links") => f.value = [form.value EXCEPT !.trusted = ToList(form.box)]
        /\ ~form.typing => f.value = form.value
    BY <1>2, BlurredFits
  <2>3. active = "links" => v.trusted = f.value.trusted
    BY <2>1, <2>2, EditsFit, FormsAssumption DEF FormFits, IInv, ServerInv
  <2> HIDE DEF f
  <2>4. form'.value = v /\ form'.box = form.box /\ ~form'.clean /\ form'.loading = form.loading
    BY <2>1, <2>2 DEF IsForm
  <2>5. active = "links" => form.value \in LinksDoc
    BY <1>2 DEF FormFits, Fits
  <2>6. ASSUME active = "links", FormCalm PROVE v.trusted = ToList(form.box)
    <3>1. CASE form.typing
      BY <2>2, <2>3, <2>5, <2>6, <3>1 DEF LinksDoc
    <3>2. CASE ~form.typing
      BY <1>1, <2>2, <2>3, <2>6, <3>2 DEF FormCalm
    <3> QED
      BY <3>1, <3>2
  <2>7. FormCalm => FormCalm'
    BY <1>1, <2>4, <2>6 DEF FormCalm
  <2> QED
    BY <1>1, <2>4, <2>7, FormOnly DEF JInv, CalmInv
<1>4. CASE \E b \in Boxes \ {form.box} : form' = [form EXCEPT !.box = b, !.typing = TRUE, !.clean = FALSE]
  <2>1. form'.typing /\ ~form'.clean /\ form'.loading = form.loading
    BY <1>2, <1>4 DEF IsForm
  <2> QED
    BY <1>1, <2>1, FormOnly DEF FormCalm
<1> QED
  BY <1>3, <1>4 DEF Input

LEMMA ResetCalm == ASSUME IInv, JInv, Reset PROVE JInv'
<1>1. UNCHANGED <<page, stored, snapshot, active, saves, spoilt>> /\ Loaded
  BY DEF Reset
<1> DEFINE v == snapshot[active].value
<1>2. form'.value = v /\ form'.box = BoxOf(active, v) /\ form'.loading = form.loading
  BY <1>1 DEF Reset, IInv, PageInv, IsForm
<1>3. Kept(active, v)
  BY <1>1 DEF IInv, PageInv, ServerInv, IsCopy
<1> HIDE DEF v
<1>4. FormCalm'
  BY <1>1, <1>2, <1>3, FilledBox DEF FormCalm, v
<1> QED
  BY <1>1, <1>2, <1>4, FormOnly

LEMMA FadeCalm == ASSUME IInv, JInv, Fade PROVE JInv'
<1>1. UNCHANGED <<page, stored, snapshot, active, saves, spoilt>>
  BY DEF Fade
<1>2. form'.value = form.value /\ form'.box = form.box /\ form'.loading = form.loading
      /\ form'.clean = form.clean /\ form'.typing = form.typing
  BY DEF Fade, IInv, PageInv, IsForm
<1>3. InFlight' = InFlight /\ Loaded' = Loaded
  BY <1>1 DEF InFlight, Loaded
<1> QED
  BY <1>1, <1>2, <1>3 DEF JInv, LoadingInv, CalmInv, SavesCalm, SaveCalm, CopyCalm, FormCalm, Done

LEMMA ElsewhereCalm == ASSUME IInv, JInv, Elsewhere PROVE JInv'
<1>1. UNCHANGED <<snapshot, form, saves>> /\ spoilt'
  BY DEF Elsewhere
<1>2. InFlight' = InFlight /\ Loaded' = Loaded
  BY <1>1 DEF InFlight, Loaded
<1> QED
  BY <1>1, <1>2 DEF JInv, LoadingInv, CalmInv

LEMMA NoneIs ==
  /\ \A r : "section" \in DOMAIN r => r # None
  /\ \A r : "ok" \in DOMAIN r => r # None
<1>1. DOMAIN None = {"none"}
  BY DEF None
<1>2. "section" \notin DOMAIN None /\ "ok" \notin DOMAIN None
  BY <1>1
<1> QED
  BY <1>2, Zenon

LEMMA OpenCalm == ASSUME IInv, JInv, NEW s \in SectionsOf("site"), Open(s) PROVE JInv'
<1>1. UNCHANGED <<page, stored, snapshot>> /\ Loaded /\ page = "site" /\ active' = s
  BY DEF Open
<1>2. /\ spoilt' = (spoilt \/ \E k \in InFlight : saves[k].section = s)
      /\ form' = Mounted(s, snapshot[s].value)
      /\ saves' = [k \in Saves |-> IF k \in InFlight THEN [saves[k] EXCEPT !.mounted = FALSE] ELSE None]
  BY DEF Open
<1>3. ASSUME NEW k \in InFlight
      PROVE  /\ saves'[k].snapshot = saves[k].snapshot /\ saves'[k].section = saves[k].section
             /\ saves'[k].reply = saves[k].reply /\ saves'[k].value = saves[k].value
             /\ saves'[k].box = saves[k].box
             /\ k \in InFlight'
  <2>1. saves'[k] = [saves[k] EXCEPT !.mounted = FALSE] /\ k \in Saves
    BY <1>2 DEF InFlight
  <2>2. IsSave(saves[k], page, active)
    BY DEF IInv, SavesInv
  <2>3. "section" \in DOMAIN saves'[k]
    BY <2>1, <2>2 DEF IsSave
  <2>4. k \in InFlight'
    BY <2>1, <2>3, NoneIs, Zenon DEF InFlight
  <2> QED
    BY <2>1, <2>2, <2>4 DEF IsSave
<1>4. InFlight' = InFlight
  <2>1. InFlight' \subseteq InFlight
    BY <1>2 DEF InFlight
  <2> QED
    BY <1>3, <2>1
<1>5. LoadingInv'
  BY <1>1, <1>2 DEF LoadingInv, Loaded, Mounted
<1>6. ASSUME ~spoilt' PROVE SavesCalm' /\ CopyCalm' /\ FormCalm'
  <2>1. SavesCalm /\ CopyCalm /\ \A k \in InFlight : saves[k].section # s
    BY <1>2, <1>6 DEF JInv, CalmInv
  <2>2. SavesCalm'
    BY <1>1, <1>3, <1>4, <2>1 DEF SavesCalm, SaveCalm, Done
  <2>3. CopyCalm'
    BY <1>1, <1>3, <1>4, <2>1 DEF CopyCalm, Done
  <2> DEFINE v == snapshot[s].value
  <2>4. Kept(s, v)
    BY <1>1 DEF IInv, PageInv, IsCopy
  <2>5. form'.value = v /\ form'.box = BoxOf(s, v)
    BY <1>2 DEF Mounted
  <2> HIDE DEF v
  <2>6. FormCalm'
    BY <1>1, <2>4, <2>5, FilledBox DEF FormCalm, v
  <2> QED
    BY <2>2, <2>3, <2>6
<1> QED
  BY <1>5, <1>6 DEF JInv, CalmInv

LEMMA SaveCalmStep == ASSUME IInv, JInv, NEW k \in Saves, Save(k) PROVE JInv'
<1> DEFINE f == Blurred(form)
           c == CommitDomains(f)
           new == [section |-> active, value |-> f.value, box |-> form.box,
                   snapshot |-> snapshot, mounted |-> TRUE, reply |-> None]
<1>1. UNCHANGED <<page, stored, snapshot, active>> /\ Loaded
  BY DEF Save
<1>2. /\ saves' = [saves EXCEPT ![k] = new]
      /\ form' = [c EXCEPT !.loading = TRUE, !.saved = FALSE, !.error = FALSE]
      /\ spoilt' = (spoilt \/ InFlight # {})
  BY DEF Save
<1>3. saves = [j \in Saves |-> saves[j]] /\ IsForm(form) /\ FormFits(active, form)
  BY <1>1 DEF IInv, SavesInv, PageInv
<1>4. /\ IsForm(f) /\ FormFits(active, f) /\ f.box = form.box /\ f.clean = form.clean
      /\ (form.typing /\ active = "links") => f.value = [form.value EXCEPT !.trusted = ToList(form.box)]
      /\ (~form.typing \/ active # "links") => f.value = form.value
  BY <1>3, BlurredFits
<1>5. /\ IsForm(c) /\ FormFits(active, c) /\ c.box = f.box /\ c.clean = f.clean
      /\ active = "links" => c.value = [f.value EXCEPT !.trusted = ToList(f.box)]
      /\ active # "links" => c.value = f.value
  BY <1>4, CommitIs
<1>6. new.section = active /\ new.value = f.value /\ new.box = form.box /\ new.snapshot = snapshot
      /\ new.mounted /\ new.reply = None /\ new # None
  <2>1. "section" \in DOMAIN new
    OBVIOUS
  <2>2. new # None
    BY <2>1, NoneIs, Zenon
  <2> QED
    BY <2>2
<1> HIDE DEF f, c, new
<1>7. saves'[k] = new /\ (\A j \in Saves \ {k} : saves'[j] = saves[j]) /\ k \in InFlight'
  <2>1. saves'[k] = new /\ \A j \in Saves \ {k} : saves'[j] = saves[j]
    BY <1>2, <1>3
  <2> QED
    BY <1>6, <2>1 DEF InFlight
<1>8. LoadingInv'
  BY <1>1, <1>6, <1>7 DEF LoadingInv, Loaded
<1>9. form'.value = c.value /\ form'.box = c.box /\ form'.clean = c.clean
  BY <1>2, <1>5 DEF IsForm
<1>10. ASSUME ~spoilt' PROVE SavesCalm' /\ CopyCalm' /\ FormCalm'
  <2>1. CopyCalm /\ FormCalm /\ InFlight = {}
    BY <1>2, <1>10 DEF JInv, CalmInv
  <2>2. InFlight' = {k}
    BY <1>7, <2>1 DEF InFlight
  <2>3. CopyCalm'
    BY <1>1, <2>1 DEF CopyCalm
  <2>4. active = "links" => form.value \in LinksDoc
    BY <1>3 DEF FormFits, Fits
  <2>5. active = "links" => f.value.trusted = ToList(form.box)
    <3>1. CASE form.typing
      BY <1>4, <2>4, <3>1 DEF LinksDoc
    <3>2. CASE ~form.typing
      BY <1>1, <1>4, <2>1, <3>2 DEF FormCalm
    <3> QED
      BY <3>1, <3>2
  <2>6. SavesCalm'
    BY <1>1, <1>6, <1>7, <2>2, <2>5 DEF SavesCalm, SaveCalm, Done
  <2>7. active = "links" => f.value \in LinksDoc
    BY <1>4 DEF FormFits, Fits
  <2>8. c.value = f.value
    BY <1>4, <1>5, <2>5, <2>7 DEF LinksDoc
  <2>9. ASSUME form.clean PROVE f.value = form.value
    <3>1. CASE active = "links" /\ form.typing
      <4>1. form.value = snapshot[active].value /\ form.box = BoxOf(active, form.value)
        BY <1>1, <2>1, <2>9 DEF FormCalm
      <4>2. Kept(active, form.value)
        BY <1>1, <4>1 DEF IInv, PageInv, ServerInv, IsCopy
      <4>3. form.value.trusted = ToList(form.box)
        BY <3>1, <4>1, <4>2, FilledBox
      <4> QED
        BY <1>4, <2>4, <3>1, <4>3 DEF LinksDoc
    <3> QED
      BY <1>4, <3>1
  <2>10. FormCalm'
    <3>1. form'.clean => form'.value = snapshot[active].value /\ form'.box = BoxOf(active, form'.value)
      BY <1>1, <1>4, <1>5, <1>9, <2>1, <2>8, <2>9 DEF FormCalm
    <3>2. active = "links" => form'.value.trusted = ToList(form'.box)
      BY <1>4, <1>5, <1>9, <2>5, <2>8
    <3> QED
      BY <1>1, <3>1, <3>2 DEF FormCalm
  <2> QED
    BY <2>3, <2>6, <2>10
<1> QED
  BY <1>8, <1>10 DEF JInv, CalmInv

\* An answer changes nothing else of its save, and nothing of another.
LEMMA ReplyIs ==
  ASSUME IInv, NEW k \in Saves, Pending(k), NEW r, saves' = [saves EXCEPT ![k].reply = r]
  PROVE  /\ k \in InFlight /\ InFlight' = InFlight
         /\ saves'[k].reply = r
         /\ \A j \in InFlight : /\ saves'[j].section = saves[j].section /\ saves'[j].value = saves[j].value
                                /\ saves'[j].box = saves[j].box /\ saves'[j].snapshot = saves[j].snapshot
                                /\ saves'[j].mounted = saves[j].mounted
                                /\ j # k => saves'[j].reply = saves[j].reply
<1>1. saves = [j \in Saves |-> saves[j]] /\ k \in InFlight
  BY DEF IInv, SavesInv, Pending, InFlight
<1>2. IsSave(saves[k], page, active)
  BY <1>1 DEF IInv, SavesInv
<1> DEFINE answered == [saves[k] EXCEPT !.reply = r]
<1>3. saves'[k] = answered /\ (\A j \in Saves \ {k} : saves'[j] = saves[j])
  BY <1>1
<1>4. /\ answered.section = saves[k].section /\ answered.value = saves[k].value
      /\ answered.snapshot = saves[k].snapshot /\ answered.mounted = saves[k].mounted
      /\ answered.reply = r /\ answered.box = saves[k].box
      /\ "section" \in DOMAIN answered
  BY <1>2 DEF IsSave
<1> HIDE DEF answered
<1>5. answered # None
  BY <1>4, NoneIs, Zenon
<1> QED
  BY <1>1, <1>3, <1>4, <1>5 DEF InFlight

LEMMA ServeCalm == ASSUME IInv, JInv, NEW k \in Saves, Serve(k) PROVE JInv'
<1> DEFINE s == saves[k].section
           d == Put(s, saves[k].value, stored[s])
           ok == [ok |-> TRUE, value |-> Masked(s, d)]
<1>1. Pending(k) /\ stored' = [stored EXCEPT ![s] = d] /\ UNCHANGED <<page, snapshot, active, form>>
  BY DEF Serve
<1>2. \/ saves' = [saves EXCEPT ![k].reply = ok] /\ spoilt' = spoilt
      \/ saves' = [saves EXCEPT ![k].reply = [ok |-> FALSE]] /\ spoilt'
  BY DEF Serve
<1>3. s \in SectionsOf(page) /\ stored = [x \in SectionsOf(page) |-> stored[x]]
  BY <1>1 DEF Pending, IInv, SavesInv, InFlight, IsSave, ServerInv
<1> DEFINE v == Masked(s, d)
<1>4. ok.ok /\ ok.value = v /\ ok # None
  <2>1. "ok" \in DOMAIN ok
    OBVIOUS
  <2>2. ok # None
    BY <2>1, NoneIs, Zenon
  <2> QED
    BY <2>2
<1>5. stored'[s] = d /\ \A x \in SectionsOf(page) : x # s => stored'[x] = stored[x]
  <2> HIDE DEF d, s
  <2> QED
    BY <1>1, <1>3
<1>6. LoadingInv'
  <2>1. PICK r : saves' = [saves EXCEPT ![k].reply = r]
    BY <1>2
  <2>2. InFlight' = InFlight /\ \A j \in InFlight : saves'[j].mounted = saves[j].mounted
    BY <1>1, <2>1, ReplyIs
  <2> QED
    BY <1>1, <2>2 DEF JInv, LoadingInv, Loaded
<1>7. ASSUME ~spoilt' PROVE SavesCalm' /\ CopyCalm' /\ FormCalm'
  <2>1. saves' = [saves EXCEPT ![k].reply = ok] /\ ~spoilt
    BY <1>2, <1>7
  <2>2. SavesCalm /\ CopyCalm /\ FormCalm
    BY <2>1 DEF JInv, CalmInv
  <2> HIDE DEF ok
  <2>3. /\ k \in InFlight /\ InFlight' = InFlight
        /\ saves'[k].reply = ok
        /\ \A j \in InFlight : /\ saves'[j].section = saves[j].section /\ saves'[j].value = saves[j].value
                               /\ saves'[j].box = saves[j].box /\ saves'[j].snapshot = saves[j].snapshot
                               /\ saves'[j].mounted = saves[j].mounted
    BY <1>1, <2>1, ReplyIs
  <2>4. InFlight = {k} /\ saves'[k].section = s
    BY <2>2, <2>3 DEF SavesCalm
  <2>5. saves'[k].reply.value = Masked(s, stored'[s])
    BY <1>4, <1>5, <2>3
  <2> HIDE DEF v, d, s
  <2>6. SavesCalm'
    BY <1>1, <2>2, <2>3, <2>4, <2>5 DEF SavesCalm, SaveCalm, Done
  <2>7. Done(k)' /\ ~Done(k)
    BY <1>1, <1>4, <2>3 DEF Done, Pending
  <2>8. CopyCalm'
    BY <1>1, <1>5, <2>2, <2>3, <2>4, <2>7 DEF CopyCalm, Loaded
  <2>9. FormCalm'
    BY <1>1, <2>2 DEF FormCalm, Loaded
  <2> QED
    BY <2>6, <2>8, <2>9
<1> QED
  BY <1>6, <1>7 DEF JInv, CalmInv

LEMMA RefuseCalm == ASSUME IInv, JInv, NEW k \in Saves, Refuse(k) PROVE JInv'
<1> DEFINE r == [ok |-> FALSE]
<1>1. Pending(k) /\ UNCHANGED <<page, stored, snapshot, active, form, spoilt>>
      /\ saves' = [saves EXCEPT ![k].reply = r] /\ ~r.ok
  BY DEF Refuse
<1> HIDE DEF r
<1>2. /\ k \in InFlight /\ InFlight' = InFlight
      /\ saves'[k].reply = r
      /\ \A j \in InFlight : /\ saves'[j].section = saves[j].section /\ saves'[j].value = saves[j].value
                             /\ saves'[j].box = saves[j].box /\ saves'[j].snapshot = saves[j].snapshot
                             /\ saves'[j].mounted = saves[j].mounted
                             /\ j # k => saves'[j].reply = saves[j].reply
  BY <1>1, ReplyIs
<1>3. LoadingInv' /\ Loaded' = Loaded
  BY <1>1, <1>2 DEF JInv, LoadingInv, Loaded
<1>4. ~Done(k) /\ ~Done(k)' /\ \A j \in InFlight : j # k => (Done(j)' <=> Done(j))
  BY <1>1, <1>2 DEF Done, Pending
<1>5. ASSUME SavesCalm PROVE SavesCalm'
  <2>1. (\A i, j \in InFlight' : i = j) /\ InFlight = {k}
    BY <1>2, <1>5 DEF SavesCalm
  <2>2. SaveCalm(k)'
    BY <1>1, <1>2, <1>4, <1>5 DEF SavesCalm, SaveCalm
  <2> QED
    BY <1>2, <2>1, <2>2 DEF SavesCalm
<1>6. CopyCalm => CopyCalm'
  BY <1>1, <1>2, <1>3, <1>4 DEF CopyCalm
<1>7. FormCalm => FormCalm'
  BY <1>1, <1>3 DEF FormCalm
<1> QED
  BY <1>1, <1>3, <1>5, <1>6, <1>7 DEF JInv, CalmInv

\* A save that is over is not in flight, the others are as they were.
LEMMA OverIs ==
  ASSUME IInv, NEW k \in Saves, saves' = [saves EXCEPT ![k] = None]
  PROVE  InFlight' = InFlight \ {k} /\ \A j \in InFlight' : saves'[j] = saves[j]
<1>1. saves = [j \in Saves |-> saves[j]]
  BY DEF IInv, SavesInv
<1> QED
  BY <1>1 DEF InFlight

LEMMA SaveFailedCalm == ASSUME IInv, JInv, NEW k \in Saves, SaveFailed(k) PROVE JInv'
<1>1. /\ UNCHANGED <<page, stored, snapshot, active, spoilt>>
      /\ saves' = [saves EXCEPT ![k] = None] /\ ~Done(k)
      /\ form' = IF saves[k].mounted THEN [form EXCEPT !.error = TRUE, !.loading = FALSE] ELSE form
  BY DEF SaveFailed, Done
<1>2. InFlight' = InFlight \ {k} /\ \A j \in InFlight' : saves'[j] = saves[j]
  BY <1>1, OverIs
<1>3. /\ form'.value = form.value /\ form'.box = form.box /\ form'.clean = form.clean
      /\ form'.typing = form.typing
      /\ form'.loading => form.loading /\ ~saves[k].mounted
  BY <1>1 DEF IInv, PageInv, IsForm
<1>4. LoadingInv' /\ Loaded' = Loaded
  BY <1>1, <1>2, <1>3 DEF JInv, LoadingInv, Loaded
<1>5. SavesCalm => SavesCalm'
  BY <1>1, <1>2 DEF SavesCalm, SaveCalm, Done
<1>6. CopyCalm => CopyCalm'
  BY <1>1, <1>2, <1>4 DEF CopyCalm, Done
<1>7. FormCalm => FormCalm'
  BY <1>1, <1>3, <1>4 DEF FormCalm
<1> QED
  BY <1>1, <1>4, <1>5, <1>6, <1>7 DEF JInv, CalmInv

\* onSaved leaves a copy of every section behind, so the page stays loaded.
LEMMA CopyIsSome ==
  ASSUME IInv, NEW x, IsCopy(x, page) PROVE x # None
<1>1. page \in {"site", "anon", "profile", "bot"}
  BY FormsAssumption DEF IInv, ServerInv
<1>2. SectionsOf(page) # {"none"}
  BY <1>1 DEF SectionsOf
<1>3. DOMAIN x = SectionsOf(page)
  BY DEF IsCopy
<1>4. DOMAIN None = {"none"}
  BY DEF None
<1> QED
  BY <1>2, <1>3, <1>4, Zenon

\* Bots that differ in their key only are the same without it.
WithKey(b, key) == [b EXCEPT !.key = key]

LEMMA SameBot ==
  \A b, c \in BotDoc : \A key : b.webhook = WithKey(c, key).webhook => WithKey(b, key) = WithKey(c, key)
<1> SUFFICES ASSUME NEW b \in BotDoc, NEW c \in BotDoc, NEW key, b.webhook = WithKey(c, key).webhook
             PROVE  WithKey(b, key) = WithKey(c, key)
  BY Zenon
<1>1. WithKey(b, key) = [webhook |-> b.webhook, key |-> key]
      /\ WithKey(c, key) = [webhook |-> c.webhook, key |-> key]
  BY DEF BotDoc, WithKey
<1>2. WithKey(c, key).webhook = c.webhook
  BY <1>1
<1> QED
  BY <1>1, <1>2

LEMMA SaveAnsweredCalm == ASSUME IInv, JInv, NEW k \in Saves, SaveAnswered(k) PROVE JInv'
<1> DEFINE here == saves[k].mounted
           own == IF here THEN [Answered(form, k) EXCEPT !.saved = TRUE, !.loading = FALSE] ELSE form
           s == saves[k].section
           v == saves[k].reply.value
<1>1. saves' = [saves EXCEPT ![k] = None] /\ UNCHANGED <<page, stored, active, spoilt>> /\ k \in InFlight /\ Done(k)
  BY DEF SaveAnswered, InFlight, Done
<1>2. snapshot' = OnSaved(k) /\ form' = IF page = "site" /\ ~here THEN Resynced(own, OnSaved(k)) ELSE own
  BY DEF SaveAnswered
<1>3. InFlight' = InFlight \ {k} /\ \A j \in InFlight' : saves'[j] = saves[j]
  BY <1>1, OverIs
<1>4. IsSave(saves[k], page, active) /\ IsForm(form) /\ FormFits(active, form) /\ Loaded
  BY <1>1 DEF IInv, SavesInv, PageInv, JInv, LoadingInv
<1>5. s \in SectionsOf(page) /\ Kept(s, v) /\ IsCopy(saves[k].snapshot, page)
  BY <1>1, <1>4 DEF IsSave, Done
<1>6. /\ snapshot'[s].value = v
      /\ \A x \in SectionsOf(page) : x # s => snapshot'[x] = saves[k].snapshot[x]
  BY <1>2, <1>5 DEF OnSaved, IsCopy
<1>7. Loaded'
  <2>1. IsCopy(OnSaved(k), page)
    BY <1>5 DEF OnSaved, IsCopy
  <2> QED
    BY <1>2, <2>1, CopyIsSome DEF Loaded
<1>8. CASE here
  <2>1. form' = [Answered(form, k) EXCEPT !.saved = TRUE, !.loading = FALSE] /\ s = active
    BY <1>2, <1>4, <1>8 DEF IsSave
  <2>2. /\ page = "bot" => /\ form'.value = [form.value EXCEPT !.key = ""] /\ form'.box = form.box
                           /\ form'.clean = (form.value.webhook = v.webhook)
        /\ page # "bot" => /\ form'.value = v /\ form'.box = BoxOf(active, v)
        /\ ~form'.loading
    <3>1. CASE page = "bot"
      <4>1. Answered(form, k) = [form EXCEPT !.value.key = "", !.clean = form.value.webhook = v.webhook]
        BY <3>1 DEF Answered
      <4> QED
        BY <1>4, <2>1, <3>1, <4>1 DEF IsForm
    <3>2. CASE page # "bot"
      <4>1. Answered(form, k) = [form EXCEPT !.value = v, !.box = BoxOf(active, v), !.clean = TRUE]
        BY <3>2 DEF Answered
      <4> QED
        BY <1>4, <2>1, <3>2, <4>1 DEF IsForm
    <3> QED
      BY <3>1, <3>2
  <2>3. LoadingInv'
    BY <1>7, <2>2 DEF LoadingInv
  <2>4. ASSUME ~spoilt PROVE FormCalm'
    <3>1. CASE page # "bot"
      <4>1. form'.value = v /\ form'.box = BoxOf(active, v)
        BY <2>2, <3>1, Zenon
      <4> QED
        BY <1>1, <1>5, <1>6, <2>1, <4>1, FilledBox DEF FormCalm
    <3>2. CASE page = "bot"
      <4>1. active = "bot"
        BY <3>2 DEF IInv, ServerInv, SectionsOf
      <4>2. v = Masked("bot", stored["bot"])
        BY <1>1, <2>1, <2>4, <4>1 DEF JInv, CalmInv, SavesCalm, SaveCalm
      <4>3. v = [stored["bot"] EXCEPT !.key = ""]
        BY <4>2, Zenon DEF Masked
      <4>4. stored["bot"] \in BotDoc /\ form.value \in BotDoc
        BY <1>4, <4>1 DEF IInv, ServerInv, Kept, Fits, FormFits
      <4>5. form.value.webhook = v.webhook => [form.value EXCEPT !.key = ""] = v
        <5>1. v = WithKey(stored["bot"], "")
          BY <4>3, Zenon DEF WithKey
        <5>2. form.value.webhook = v.webhook => WithKey(form.value, "") = v
          BY <4>4, <5>1, SameBot, Zenon
        <5> QED
          BY <5>2, Zenon DEF WithKey
      <4>6. form.box = <<>> /\ \A x : BoxOf(active, x) = <<>>
        BY <1>4, <4>1 DEF FormFits, BoxFits, BoxOf
      <4>7. form'.clean => form'.value = snapshot'[active].value /\ form'.box = BoxOf(active, form'.value)
        BY <1>6, <2>1, <2>2, <3>2, <4>5, <4>6
      <4> QED
        BY <1>1, <4>1, <4>7 DEF FormCalm
    <3> QED
      BY <3>1, <3>2
  <2>5. ASSUME ~spoilt PROVE SavesCalm' /\ CopyCalm'
    <3>1. InFlight = {k} /\ SaveCalm(k) /\ CopyCalm
      BY <1>1, <2>5 DEF JInv, CalmInv, SavesCalm
    <3> QED
      BY <1>1, <1>3, <1>4, <1>6, <3>1 DEF SavesCalm, CopyCalm, SaveCalm
  <2> QED
    BY <1>1, <2>3, <2>4, <2>5 DEF JInv, CalmInv
<1>9. CASE ~here
  <2>1. form' = form \/ form' = Resynced(form, OnSaved(k))
    BY <1>2, <1>9
  <2>2. form'.loading = form.loading
    <3> DEFINE c == OnSaved(k)
    <3>1. Resynced(form, c) = form
          \/ Resynced(form, c) = [form EXCEPT !.value = c[active].value, !.box = BoxOf(active, form.value), !.clean = TRUE]
      BY DEF Resynced
    <3> HIDE DEF c
    <3>2. Resynced(form, c).loading = form.loading
      BY <1>4, <3>1 DEF IsForm
    <3> QED
      BY <2>1, <3>2 DEF c
  <2>3. LoadingInv'
    BY <1>3, <1>7, <1>9, <2>2 DEF JInv, LoadingInv
  <2>4. ASSUME ~spoilt PROVE SavesCalm' /\ CopyCalm' /\ FormCalm'
    <3>1. InFlight = {k} /\ SaveCalm(k) /\ CopyCalm /\ FormCalm
      BY <1>1, <2>4 DEF JInv, CalmInv, SavesCalm
    <3>2. s # active /\ active \in SectionsOf(page)
      BY <1>9, <3>1 DEF SaveCalm, IInv, ServerInv
    <3>3. snapshot'[active] = snapshot[active]
      BY <1>6, <3>1, <3>2 DEF SaveCalm
    <3>4. form' = form
      BY <1>2, <2>1, <3>3 DEF Resynced
    <3>5. FormCalm'
      BY <1>1, <1>4, <3>1, <3>3, <3>4 DEF FormCalm
    <3>6. SavesCalm' /\ CopyCalm'
      BY <1>1, <1>3, <1>4, <1>6, <3>1 DEF SavesCalm, CopyCalm, SaveCalm
    <3> QED
      BY <3>5, <3>6
  <2> QED
    BY <1>1, <2>3, <2>4 DEF JInv, CalmInv
<1> QED
  BY <1>8, <1>9

LEMMA JInvStep == ASSUME IInv, JInv, [Next]_vars PROVE JInv'
<1>1. CASE UNCHANGED vars
  BY <1>1 DEF vars, JInv, LoadingInv, CalmInv, SavesCalm, SaveCalm, CopyCalm, FormCalm, Done, Loaded, InFlight
<1>2. CASE Next
  BY <1>2, LoadCalm, InputCalm, ResetCalm, FadeCalm, ElsewhereCalm, OpenCalm, SaveCalmStep,
     ServeCalm, RefuseCalm, SaveAnsweredCalm, SaveFailedCalm DEF Next
<1> QED
  BY <1>1, <1>2

LEMMA SpecJInv == Spec => []JInv
BY InitJInv, JInvStep, SpecIInv, PTL DEF Spec

LEMMA TypesHold == ASSUME IInv, JInv PROVE TypeOK
<1>1. page \in Pages /\ active \in SectionsOf(page) /\ (Loaded => DOMAIN snapshot = SectionsOf(page))
  BY DEF IInv, ServerInv, PageInv, IsCopy
<1>2. Loaded => DOMAIN form.value = DOMAIN stored[active]
  BY DEF IInv, ServerInv, PageInv, FormFits, Kept, Fits
<1>3. form.loading => InFlight # {}
  BY DEF JInv, LoadingInv
<1> QED
  BY <1>1, <1>2, <1>3 DEF TypeOK

\* A page at rest shows what the server holds, in every section and in the form,
\* unless saves overlapped, were returned to or lost, or another administrator
\* saved (onSaved's captured snapshot, useEffect([initial]), the answers of saves).
THEOREM FormsSoundSafe == Spec => []FormsSound
<1>1. IInv /\ JInv => FormsSound
  <2> SUFFICES ASSUME IInv, JInv PROVE SettledPageIsStored
    BY TypesHold DEF FormsSound
  <2> SUFFICES ASSUME Settled
               PROVE  /\ \A s \in SectionsOf(page) : snapshot[s].value = Masked(s, stored[s])
                      /\ form.clean => /\ form.value = snapshot[active].value
                                       /\ form.box = BoxOf(active, form.value)
    BY DEF SettledPageIsStored
  <2>1. CopyCalm /\ FormCalm /\ Loaded /\ InFlight = {}
    BY DEF JInv, CalmInv, Settled
  <2> QED
    BY <2>1 DEF CopyCalm, FormCalm
<1> QED
  BY <1>1, SpecIInv, SpecJInv, PTL

\* A save of the link policy carries the domains its boxes showed when it was
\* pressed, although a box is only read when it is left (onBlur, commitDomains).
THEOREM BoxesCarried == Spec => []SaveCarriesBoxes
<1>1. JInv => SaveCarriesBoxes
  BY DEF JInv, CalmInv, SavesCalm, SaveCalm, SaveCarriesBoxes
<1> QED
  BY <1>1, SpecJInv, PTL

-----------------------------------------------------------------------------
(* What a save that is served makes of the secrets.                        *)

LEMMA OnlyServed ==
  ASSUME IInv, [Next]_vars, NEW k \in Saves, TakesEffect(k)
  PROVE  Serve(k)
<1>1. saves = [j \in Saves |-> saves[j]]
  BY DEF IInv, SavesInv
<1>2. stored' # stored /\ saves'[k] # saves[k]
  BY DEF TakesEffect
<1>3. CASE Elsewhere
  BY <1>2, <1>3 DEF Elsewhere
<1>4. ASSUME NEW j \in Saves, Serve(j) PROVE Serve(k)
  <2>1. \E r : saves' = [saves EXCEPT ![j].reply = r]
    BY <1>4 DEF Serve
  <2>2. j = k
    BY <1>1, <1>2, <2>1
  <2> QED
    BY <1>4, <2>2
<1>5. Elsewhere \/ \E j \in Saves : Serve(j)
  <2>1. stored' # stored
    BY <1>2
  <2>2. [Next]_vars
    OBVIOUS
  <2> QED
    BY <2>1, <2>2 DEF Next, vars, Load, Input, Reset, Fade, Open, Save, Refuse, SaveAnswered, SaveFailed
<1> QED
  BY <1>3, <1>4, <1>5

\* Identifiers of the rows are unique, so each row's key is found again.
LEMMA KeyFound ==
  ASSUME NEW d, NEW i \in DOMAIN d.providers,
         \A j \in DOMAIN d.providers : d.providers[j].id = d.providers[i].id => j = i
  PROVE  StoredKey(d, d.providers[i].id) = d.providers[i].key
<1> DEFINE same == {j \in DOMAIN d.providers : d.providers[j].id = d.providers[i].id}
<1>1. same = {i}
  OBVIOUS
<1>2. StoredKey(d, d.providers[i].id) = IF same = {} THEN "" ELSE d.providers[CHOOSE j \in same : TRUE].key
  BY Zenon DEF StoredKey
<1> HIDE DEF same
<1>3. (CHOOSE j \in same : TRUE) = i
  BY <1>1
<1> QED
  BY <1>1, <1>2, <1>3

LEMMA KeysKept ==
  ASSUME NEW v \in LLMDoc, NEW d \in LLMDoc, ~Refused("llm", v),
         NEW i \in DOMAIN v.providers, Untouched(v.providers[i].key)
  PROVE  StoredKey(PutLLM(v, d), v.providers[i].id) = StoredKey(d, v.providers[i].id)
<1> DEFINE new == PutLLM(v, d)
<1>1. new.providers = [j \in DOMAIN v.providers |-> NewRow(v.providers[j], d)]
  BY PutLLMIs
<1>2. v.providers \in Seq(ProviderRow)
  BY DEF LLMDoc
<1>3. \A j \in DOMAIN v.providers :
        /\ NewRow(v.providers[j], d).id = v.providers[j].id
        /\ Untouched(v.providers[j].key) =>
             NewRow(v.providers[j], d).key = StoredKey(d, v.providers[j].id)
  <2> SUFFICES ASSUME NEW j \in DOMAIN v.providers
      PROVE /\ NewRow(v.providers[j], d).id = v.providers[j].id
            /\ Untouched(v.providers[j].key) =>
                 NewRow(v.providers[j], d).key = StoredKey(d, v.providers[j].id)
    OBVIOUS
  <2>1. v.providers[j] \in ProviderRow
    BY <1>2
  <2> QED
    BY <2>1 DEF NewRow, ProviderRow
<1>4. ~ \E j, l \in DOMAIN v.providers : j # l /\ v.providers[j].id = v.providers[l].id
  BY Zenon DEF Refused
<1> HIDE DEF new
<1>5. DOMAIN new.providers = DOMAIN v.providers
      /\ \A j \in DOMAIN v.providers : new.providers[j] = NewRow(v.providers[j], d)
  BY <1>1
<1>6. StoredKey(new, new.providers[i].id) = new.providers[i].key
  <2>1. \A j \in DOMAIN new.providers : new.providers[j].id = new.providers[i].id => j = i
    BY <1>3, <1>4, <1>5
  <2> QED
    BY <1>5, <2>1, KeyFound
<1>7. new.providers[i].id = v.providers[i].id /\ new.providers[i].key = StoredKey(d, v.providers[i].id)
  BY <1>3, <1>5
<1> QED
  BY <1>6, <1>7 DEF new

LEMMA SecretsStep == ASSUME IInv, [Next]_vars PROVE KeptSecrets
<1> SUFFICES ASSUME NEW k \in Saves, TakesEffect(k)
    PROVE  /\ (saves[k].section = "llm" /\ ~Renamed(saves[k].value)) =>
                \A i \in DOMAIN saves[k].value.providers :
                   (saves[k].value.providers[i].was # "" /\ Untouched(saves[k].value.providers[i].key)) =>
                      StoredKey(stored'[saves[k].section], saves[k].value.providers[i].id)
                        = StoredKey(stored[saves[k].section], saves[k].value.providers[i].was)
           /\ (saves[k].section = "smtp" /\ Untouched(saves[k].value.password)) =>
                stored'[saves[k].section].password = stored[saves[k].section].password
           /\ (saves[k].section = "bot" /\ saves[k].value.key = "") =>
                stored'[saves[k].section].key = stored[saves[k].section].key
  BY Zenon DEF KeptSecrets
<1> DEFINE s == saves[k].section
           v == saves[k].value
           d == stored[s]
<1>1. Serve(k)
  BY OnlyServed
<1>2. ~Refused(s, v) /\ stored' = [stored EXCEPT ![s] = Put(s, v, d)] /\ k \in InFlight
  BY <1>1 DEF Serve, Pending, InFlight
<1>3. IsSave(saves[k], page, active)
  BY <1>2 DEF IInv, SavesInv
<1>4. s \in SectionsOf(page) /\ Fits(s, v) /\ Fits(s, d)
  BY <1>3 DEF IsSave, IInv, ServerInv, Kept
<1> HIDE DEF v, d, s
<1>5. stored'[s] = Put(s, v, d)
  BY <1>2, <1>4 DEF IInv, ServerInv
<1>6. ASSUME s = "llm", ~Renamed(v), NEW i \in DOMAIN v.providers,
             v.providers[i].was # "", Untouched(v.providers[i].key)
      PROVE  StoredKey(stored'[s], v.providers[i].id) = StoredKey(d, v.providers[i].was)
  <2>1. v \in LLMDoc /\ d \in LLMDoc
    BY <1>4, <1>6 DEF Fits
  <2>2. Put(s, v, d) = PutLLM(v, d)
    BY <1>6, Zenon DEF Put
  <2>3. ~Refused("llm", v)
    BY <1>2, <1>6
  <2>4. StoredKey(PutLLM(v, d), v.providers[i].id) = StoredKey(d, v.providers[i].id)
    BY <1>6, <2>1, <2>3, KeysKept
  <2>5. v.providers[i].was = v.providers[i].id
    BY <1>6 DEF Renamed
  <2> QED
    BY <1>5, <2>2, <2>4, <2>5
<1>7. ASSUME s = "smtp", Untouched(v.password) PROVE stored'[s].password = d.password
  <2>1. Put(s, v, d) = PutSMTP(v, d)
    BY <1>7, Zenon DEF Put
  <2>2. v \in SMTPDoc
    BY <1>4, <1>7 DEF Fits
  <2> QED
    BY <1>5, <1>7, <2>1, <2>2 DEF PutSMTP, SMTPDoc
<1>8. ASSUME s = "bot", v.key = "" PROVE stored'[s].key = d.key
  <2>1. Put(s, v, d) = UpdateBot(v, d)
    BY <1>8, Zenon DEF Put
  <2>2. v \in BotDoc
    BY <1>4, <1>8 DEF Fits
  <2> QED
    BY <1>5, <1>8, <2>1, <2>2 DEF UpdateBot, BotDoc
<1> QED
  BY <1>6, <1>7, <1>8 DEF v, d, s

\* Whatever is edited, saved and lost in between: a save leaves the key of each
\* provider that was not renamed, the password of the mail settings and the key
\* of a bot as they are, unless they were typed over (putLLM, putSMTP, Update).
THEOREM SecretsKeptSafe == Spec => SecretsKept
<1>1. IInv /\ [Next]_vars => KeptSecrets
  BY SecretsStep
<1> QED
  BY <1>1, SpecIInv, PTL DEF Spec, SecretsKept
=============================================================================
