------------------------------ MODULE FormDocs ------------------------------
(***************************************************************************)
(* The documents edited in forms: the sections of the site settings        *)
(* (app/admin/site), the prefix of anonymous posts (app/admin/             *)
(* anon-settings), a member's profile and a bot's connection.  For each,   *)
(* what the server holds at first and what one event of an input control   *)
(* makes of a value.  Inputs that only store what was typed are one field  *)
(* (`text`); a control that converts or moves several fields has its own.  *)
(***************************************************************************)
EXTENDS Integers, Sequences, FiniteSets, SequencesExt

Mask == "mask"   \* the bullets shown in place of a stored secret

\* set({ field: x }): one field of v takes another value.
Sets(v, field, values) == {[v EXCEPT ![field] = x] : x \in values \ {v[field]}}

Typed == {"old", "new"}

-----------------------------------------------------------------------------
BasicInit == [text |-> "old", window |-> 1]

\* Math.max(0, Number(text) || 0)
Minutes(n) == IF n < 0 THEN 0 ELSE n

BasicEdits(v) == Sets(v, "text", Typed) \cup Sets(v, "window", {Minutes(n) : n \in {-1, 2}})

\* A list typed one entry a line: blank lines are dropped.
Lines(entries) ==
    LET kept[i \in 0..Len(entries)] ==
            IF i = 0 THEN <<>>
            ELSE IF entries[i] = "" THEN kept[i-1] ELSE Append(kept[i-1], entries[i])
    IN  kept[Len(entries)]

RegistrationInit == [mode |-> "open", restricted |-> TRUE, domains |-> <<"a">>,
                     anonEntry |-> TRUE, minLevel |-> 0]

RegistrationModes(v) ==
    Sets(v, "mode", {"open", "closed"}) \cup Sets(v, "restricted", BOOLEAN)

\* The inputs below a switch are there only while it is on (or off).
RegistrationRules(v) ==
    (IF v.restricted THEN Sets(v, "domains", {Lines(<<"a", "">>), Lines(<<"a", "b">>)}) ELSE {})
    \cup Sets(v, "anonEntry", BOOLEAN)
    \cup (IF v.anonEntry THEN {} ELSE Sets(v, "minLevel", {0, 1}))

SEOInit == [indexable |-> TRUE, text |-> "old"]
SEOEdits(v) == Sets(v, "indexable", BOOLEAN) \cup Sets(v, "text", Typed)

RulesInit == [content |-> "old"]
RulesEdits(v) == Sets(v, "content", Typed)

\* line.split("|"): what follows a second bar is lost, what is missing is empty.
LinkOf(parts) == [label |-> parts[1], url |-> IF Len(parts) > 1 THEN parts[2] ELSE ""]

FooterInit == [text |-> "old", links |-> <<>>]
FooterEdits(v) ==
    Sets(v, "text", Typed)
    \cup Sets(v, "links", {<<>>, <<LinkOf(<<"a">>)>>, <<LinkOf(<<"a", "b", "c">>)>>})

-----------------------------------------------------------------------------
(* Pickers of a language model offer the providers of the LLM section.     *)

Provider(id, models) == [id |-> id, key |-> Mask, enabled |-> TRUE, models |-> models, was |-> id]

Enabled(providers) == {i \in DOMAIN providers : providers[i].enabled}

\* Choosing a provider takes its first model along, if it suggests any.
PickProvider(v, p) ==
    [v EXCEPT !.provider = p.id, !.model = IF p.models = <<>> THEN @ ELSE p.models[1]]

\* The models of the provider chosen, or free text.
Suggested(providers, v) ==
    LET current == {i \in Enabled(providers) : providers[i].id = v.provider}
        models == UNION {ToSet(providers[i].models) : i \in current}
    IN  IF models = {} THEN {"free"} ELSE models

ProviderPicker(providers, v) ==
    IF Enabled(providers) = {} THEN {}
    ELSE {PickProvider(v, providers[i]) : i \in {j \in Enabled(providers) : providers[j].id # v.provider}}
         \cup Sets(v, "model", Suggested(providers, v))

CreditsInit == [reward |-> [xp |-> 1, credits |-> 1], curve |-> <<0, 1>>, provider |-> "p", model |-> "m"]

\* RewardRow: onChangeXP, onChangeCredits.
RewardRow(r) == Sets(r, "xp", {2}) \cup Sets(r, "credits", {2})

CreditsEdits(v) == Sets(v, "reward", RewardRow(v.reward))

\* split(",").map(Number).filter(not NaN): an empty piece counts as 0.
Numbers(pieces) == [i \in DOMAIN pieces |-> IF pieces[i] = "" THEN 0 ELSE 1]

CurveEdits(v, providers) ==
    Sets(v, "curve", {Numbers(<<"">>), Numbers(<<"1", "">>)}) \cup ProviderPicker(providers, v)

ModerationInit == [enabled |-> FALSE, provider |-> "q", model |-> "m"]
ModerationEdits(v, providers) == Sets(v, "enabled", BOOLEAN) \cup ProviderPicker(providers, v)

-----------------------------------------------------------------------------
\* Two providers; the server's copy has the keys themselves.
LLMInit == [providers |-> <<Provider("p", <<"m">>), Provider("q", <<>>)>>]

EmptyProvider == [id |-> "", key |-> "", enabled |-> TRUE, models |-> <<>>, was |-> ""]

\* update(i, { field: x })
UpdateProvider(v, i) ==
    LET p == v.providers[i]
    IN  {[v EXCEPT !.providers[i] = q] :
            q \in Sets(p, "id", {"q", "r"}) \cup Sets(p, "key", {"", "typed"}) \cup Sets(p, "enabled", {FALSE})}

AddProvider(v) == [v EXCEPT !.providers = Append(@, EmptyProvider)]

RemoveProvider(v, i) == [v EXCEPT !.providers = RemoveAt(@, i)]

\* The rows of the section, each with its inputs and its remove button.
LLMEdits(v) ==
    {AddProvider(v)}
    \cup UNION {UpdateProvider(v, i) \cup {RemoveProvider(v, i)} : i \in DOMAIN v.providers}

SMTPInit == [host |-> "old", password |-> Mask]
SMTPEdits(v) == Sets(v, "host", Typed) \cup Sets(v, "password", {"", "typed"})

LinksInit == [warn |-> FALSE, trusted |-> <<"a">>]
LinksEdits(v) == Sets(v, "warn", BOOLEAN)

\* What the box of domains can hold, entry by entry; "A" is "a" in capitals.
Boxes == {<<"a">>, <<"a", "">>, <<"A", "a">>}

\* raw.split("\n").map(trim, toLowerCase).filter(Boolean)
ToList(box) == Lines([i \in DOMAIN box |-> IF box[i] = "A" THEN "a" ELSE box[i]])

AnonInit == [prefix |-> "old"]
AnonEdits(v) == Sets(v, "prefix", Typed)

ProfileInit == [text |-> "old", website |-> ""]
ProfileEdits(v) == Sets(v, "text", Typed) \cup Sets(v, "website", {"http", "junk"})

\* A bot's webhook and its API key, which is never sent back.
BotInit == [webhook |-> "http", key |-> ""]
BotEdits(v) == Sets(v, "webhook", {"http2", "junk"}) \cup Sets(v, "key", {"typed"})
=============================================================================
