------------------------------- MODULE Forms --------------------------------
(***************************************************************************)
(* Pages that load a document, edit a copy of a section of it in a form    *)
(* and save the whole section: the site settings with their ten sections,  *)
(* the anonymous prefix, a member's profile, a bot's connection.           *)
(*                                                                         *)
(* A save captures, when its button is pressed, the value of the form and  *)
(* the page's snapshot; its answer puts that snapshot back with the saved  *)
(* section replaced (onSaved).  Leaving a section unmounts its form but    *)
(* not the save it started.                                                *)
(***************************************************************************)
EXTENDS FormDocs, TLC

CONSTANTS
    Pages,      \* the pages looked at: a subset of {"site", "anon", "profile", "bot"}
    Saves,      \* slots for saves in flight
    MaxInputs,  \* bound on inputs changed
    MaxSaves,   \* bound on saves
    MaxFaults   \* bound on requests that fail

ASSUME FormsAssumption == /\ Pages \subseteq {"site", "anon", "profile", "bot"}
                          /\ MaxInputs \in Nat /\ MaxSaves \in Nat /\ MaxFaults \in Nat

None == [none |-> TRUE]   \* no snapshot, no save, no reply

VARIABLES
    page,      \* the page that is open
    stored,    \* the server's sections
    snapshot,  \* the page's copy of them, each with the answer it came with
    active,    \* the section shown
    form,      \* the form of the active section
    saves,     \* saves in flight
    inputs, presses, faults,  \* bounds
    spoilt     \* history: saves overlapped, were returned to or lost, or others saved

vars == <<page, stored, snapshot, active, form, saves, inputs, presses, faults, spoilt>>
bounds == <<inputs, presses, faults>>

SectionsOf(p) ==
    IF p = "site" THEN {"basic", "registration", "seo", "rules", "footer", "credits",
                        "moderation", "llm", "smtp", "links"}
    ELSE {p}

InitialDoc(s) ==
    CASE s = "basic" -> BasicInit [] s = "registration" -> RegistrationInit
      [] s = "seo" -> SEOInit [] s = "rules" -> RulesInit [] s = "footer" -> FooterInit
      [] s = "credits" -> CreditsInit [] s = "moderation" -> ModerationInit
      [] s = "llm" -> [providers |-> [i \in 1..2 |-> [LLMInit.providers[i] EXCEPT !.key = <<"p", "q">>[i]]]]
      [] s = "smtp" -> [SMTPInit EXCEPT !.password = "secret"]
      [] s = "links" -> LinksInit [] s = "anon" -> AnonInit
      [] s = "profile" -> ProfileInit [] s = "bot" -> [BotInit EXCEPT !.key = "secret"]

\* What one event of an input of the section makes of its value.
Edits(v) ==
    CASE active = "basic" -> BasicEdits(v)
      [] active = "registration" -> RegistrationModes(v) \cup RegistrationRules(v)
      [] active = "seo" -> SEOEdits(v) [] active = "rules" -> RulesEdits(v)
      [] active = "footer" -> FooterEdits(v)
      [] active = "credits" -> CreditsEdits(v) \cup CurveEdits(v, snapshot["llm"].value.providers)
      [] active = "moderation" -> ModerationEdits(v, snapshot["llm"].value.providers)
      [] active = "llm" -> LLMEdits(v) [] active = "smtp" -> SMTPEdits(v)
      [] active = "links" -> LinksEdits(v) [] active = "anon" -> AnonEdits(v)
      [] active = "profile" -> ProfileEdits(v) [] active = "bot" -> BotEdits(v)

-----------------------------------------------------------------------------
(* The server.                                                             *)

Hide(secret) == IF secret = "" THEN "" ELSE Mask

\* Secrets are not sent out: masked, or for a bot left out.
Masked(s, d) ==
    CASE s = "llm" -> [providers |-> [i \in DOMAIN d.providers |->
                          [d.providers[i] EXCEPT !.key = Hide(@), !.was = d.providers[i].id]]]
      [] s = "smtp" -> [d EXCEPT !.password = Hide(@)]
      [] s = "bot" -> [d EXCEPT !.key = ""]
      [] OTHER -> d

\* Blank or still masked: the secret stored is kept.
Untouched(secret) == secret \in {"", Mask}

StoredKey(d, id) ==
    LET same == {j \in DOMAIN d.providers : d.providers[j].id = id}
    IN  IF same = {} THEN "" ELSE d.providers[CHOOSE j \in same : TRUE].key

PutLLM(v, d) ==
    [providers |-> [i \in DOMAIN v.providers |->
        LET p == v.providers[i]
        IN  [p EXCEPT !.key = IF Untouched(@) THEN StoredKey(d, p.id) ELSE @, !.was = p.id]]]

\* Slip: a blank password is taken for a new one.
PutSMTPBlank(v, d) == [v EXCEPT !.password = IF @ = Mask THEN d.password ELSE @]

PutSMTP(v, d) == [v EXCEPT !.password = IF Untouched(@) THEN d.password ELSE @]

\* cleanDomainList: the first of equal entries stays.
Clean(list) == Lines([i \in DOMAIN list |-> IF \E j \in 1..(i-1) : list[j] = list[i] THEN "" ELSE list[i]])

PutLinks(v) == [v EXCEPT !.trusted = Clean(@)]

UpdateBot(v, d) == [v EXCEPT !.key = IF @ = "" THEN d.key ELSE @]

Put(s, v, d) ==
    CASE s = "llm" -> PutLLM(v, d) [] s = "smtp" -> PutSMTP(v, d)
      [] s = "links" -> PutLinks(v) [] s = "bot" -> UpdateBot(v, d) [] OTHER -> v

Refused(s, v) ==
    CASE s = "llm" -> \/ \E i \in DOMAIN v.providers : v.providers[i].id = ""
                      \/ \E i, j \in DOMAIN v.providers : i # j /\ v.providers[i].id = v.providers[j].id
      [] s = "profile" -> v.website = "junk"
      [] s = "bot" -> v.webhook = "junk"
      [] OTHER -> FALSE

-----------------------------------------------------------------------------
(* The form.                                                               *)

\* The box of the links section: the list, one entry a line.
BoxOf(s, v) == IF s = "links" THEN v.trusted ELSE <<>>

Mounted(s, v) == [value |-> v, box |-> BoxOf(s, v), typing |-> FALSE, loading |-> FALSE,
                  saved |-> FALSE, error |-> FALSE, clean |-> TRUE]

\* commitDomains: the lists of the value become those of the boxes.
CommitDomains(f) == IF active = "links" THEN [f EXCEPT !.value.trusted = ToList(f.box)] ELSE f

\* Slip: leaving the box does not commit it.
BlurredOnly(f) == [f EXCEPT !.typing = FALSE]

\* onBlur: a press elsewhere takes the focus off the box that is typed in.
Blurred(f) == IF f.typing THEN [CommitDomains(f) EXCEPT !.typing = FALSE] ELSE f

Loaded == snapshot # None
InFlight == {k \in Saves : saves[k] # None}

Init ==
    /\ page \in Pages
    /\ stored = [s \in SectionsOf(page) |-> InitialDoc(s)]
    /\ snapshot = None
    /\ active \in IF page = "site" THEN {"basic"} ELSE SectionsOf(page)
    /\ form = Mounted("none", None)
    /\ saves = [k \in Saves |-> None]
    /\ inputs = 0 /\ presses = 0 /\ faults = 0
    /\ spoilt = FALSE

\* The snapshot arrives; a request that fails leaves the page with its error.
Load ==
    /\ ~Loaded /\ ~form.error
    /\ \/ /\ snapshot' = [s \in SectionsOf(page) |-> [answer |-> 0, value |-> Masked(s, stored[s])]]
          /\ form' = Mounted(active, Masked(active, stored[active]))
          /\ UNCHANGED faults
       \/ /\ faults < MaxFaults /\ faults' = faults + 1
          /\ form' = [form EXCEPT !.error = TRUE]
          /\ UNCHANGED snapshot
    /\ UNCHANGED <<page, stored, active, saves, inputs, presses, spoilt>>

\* An input changes: the box of domains only its text, any other the value.
Input ==
    /\ Loaded /\ inputs < MaxInputs /\ inputs' = inputs + 1
    /\ \/ \E v \in Edits(Blurred(form).value) :
             form' = [Blurred(form) EXCEPT !.value = v, !.clean = FALSE]
       \/ /\ active = "links"
          /\ \E b \in Boxes \ {form.box} :
                form' = [form EXCEPT !.box = b, !.typing = TRUE, !.clean = FALSE]
    /\ UNCHANGED <<page, stored, snapshot, active, saves, presses, faults, spoilt>>

Reset ==
    /\ Loaded /\ page = "site"
    /\ form' = [form EXCEPT !.value = snapshot[active].value, !.typing = FALSE, !.clean = TRUE,
                            !.box = BoxOf(active, snapshot[active].value),
                            !.error = IF active = "llm" THEN @ ELSE FALSE]
    /\ UNCHANGED <<page, stored, snapshot, active, saves, bounds, spoilt>>

\* setActive: the form of the section left is unmounted.
Open(s) ==
    /\ Loaded /\ page = "site" /\ s # active
    /\ presses < MaxSaves   \* nothing is looked at after the last save
    /\ active' = s
    /\ saves' = [k \in Saves |-> IF k \in InFlight THEN [saves[k] EXCEPT !.mounted = FALSE] ELSE None]
    /\ form' = Mounted(s, snapshot[s].value)
    /\ spoilt' = (spoilt \/ \E k \in InFlight : saves[k].section = s)
    /\ UNCHANGED <<page, stored, snapshot, bounds>>

\* Which forms can be saved: not while saving; a bot's only once it was changed.
Saveable(f) ==
    /\ ~f.loading
    /\ page = "bot" => f.value.key # "" \/ f.value.webhook # snapshot["bot"].value.webhook

Save(k) ==
    LET f == Blurred(form)
    IN  /\ Loaded /\ Saveable(f)
        /\ saves[k] = None /\ presses < MaxSaves /\ presses' = presses + 1
        /\ saves' = [saves EXCEPT ![k] = [section |-> active, value |-> f.value, box |-> form.box,
                                          snapshot |-> snapshot, mounted |-> TRUE, reply |-> None]]
        /\ form' = [CommitDomains(f) EXCEPT !.loading = TRUE, !.saved = FALSE, !.error = FALSE]
        /\ spoilt' = (spoilt \/ InFlight # {})
        /\ UNCHANGED <<page, stored, snapshot, active, inputs, faults>>

Pending(k) == saves[k] # None /\ saves[k].reply = None

Serve(k) ==
    /\ Pending(k) /\ ~Refused(saves[k].section, saves[k].value)
    /\ LET s == saves[k].section
           d == Put(s, saves[k].value, stored[s])
       IN  /\ stored' = [stored EXCEPT ![s] = d]
           /\ \/ /\ saves' = [saves EXCEPT ![k].reply = [ok |-> TRUE, value |-> Masked(s, d)]]
                 /\ UNCHANGED <<faults, spoilt>>
              \/ /\ faults < MaxFaults /\ faults' = faults + 1
                 /\ saves' = [saves EXCEPT ![k].reply = [ok |-> FALSE]]
                 /\ spoilt' = TRUE
    /\ UNCHANGED <<page, snapshot, active, form, inputs, presses>>

Refuse(k) ==
    /\ Pending(k)
    /\ \/ Refused(saves[k].section, saves[k].value) /\ UNCHANGED faults
       \/ faults < MaxFaults /\ faults' = faults + 1
    /\ saves' = [saves EXCEPT ![k].reply = [ok |-> FALSE]]
    /\ UNCHANGED <<page, stored, snapshot, active, form, inputs, presses, spoilt>>

\* onSaved: the snapshot the save captured, with the saved section replaced.
OnSaved(k) ==
    [saves[k].snapshot EXCEPT ![saves[k].section] =
        [answer |-> presses + snapshot[saves[k].section].answer, value |-> saves[k].reply.value]]

\* useEffect([initial]): another object for the active section resets its form.
\* The boxes are filled from the value of the render before.
Resynced(f, new) ==
    IF new[active].answer = snapshot[active].answer THEN f
    ELSE [f EXCEPT !.value = new[active].value, !.box = BoxOf(active, f.value), !.clean = TRUE]

\* Slip: what was typed stays, not what the server made of it.
AnsweredAsTyped(f, k) == [f EXCEPT !.clean = TRUE]

\* A bot's form keeps its webhook and clears the key.
Answered(f, k) ==
    LET v == saves[k].reply.value
    IN  IF page = "bot" THEN [f EXCEPT !.value.key = "", !.clean = f.value.webhook = v.webhook]
        ELSE [f EXCEPT !.value = v, !.box = BoxOf(active, v), !.clean = TRUE]

SaveAnswered(k) ==
    /\ saves[k] # None /\ saves[k].reply # None /\ saves[k].reply.ok
    /\ LET here == saves[k].mounted
           own == IF here THEN [Answered(form, k) EXCEPT !.saved = TRUE, !.loading = FALSE] ELSE form
       IN  /\ snapshot' = OnSaved(k)
           /\ form' = IF page = "site" /\ ~here THEN Resynced(own, OnSaved(k)) ELSE own
    /\ saves' = [saves EXCEPT ![k] = None]
    /\ UNCHANGED <<page, stored, active, bounds, spoilt>>

SaveFailed(k) ==
    /\ saves[k] # None /\ saves[k].reply # None /\ ~saves[k].reply.ok
    /\ form' = IF saves[k].mounted THEN [form EXCEPT !.error = TRUE, !.loading = FALSE] ELSE form
    /\ saves' = [saves EXCEPT ![k] = None]
    /\ UNCHANGED <<page, stored, snapshot, active, bounds, spoilt>>

\* "Saved" is shown for two seconds; the LLM section shows it for good.
Fade ==
    /\ form.saved /\ active \notin {"llm", "profile"}
    /\ form' = [form EXCEPT !.saved = FALSE]
    /\ UNCHANGED <<page, stored, snapshot, active, saves, bounds, spoilt>>

\* Another administrator saves the whole section from her copy.
Elsewhere ==
    /\ page \in {"site", "anon"} /\ ~spoilt
    /\ stored' = [stored EXCEPT ![active] = InitialDoc(active)]
    /\ spoilt' = TRUE
    /\ UNCHANGED <<page, snapshot, active, form, saves, bounds>>

Next ==
    \/ Load \/ Input \/ Reset \/ Fade \/ Elsewhere
    \/ \E s \in SectionsOf("site") : Open(s)
    \/ \E k \in Saves : Save(k) \/ Serve(k) \/ Refuse(k) \/ SaveAnswered(k) \/ SaveFailed(k)

Spec == Init /\ [][Next]_vars
-----------------------------------------------------------------------------
(* Properties.                                                             *)

\* Forms hold values of the section they show; a form that is loading has a save.
TypeOK ==
    /\ page \in Pages /\ active \in SectionsOf(page)
    /\ Loaded => DOMAIN snapshot = SectionsOf(page)
    /\ Loaded => DOMAIN form.value = DOMAIN stored[active]
    /\ form.loading => InFlight # {}

\* Nothing is in flight, and no two saves overlapped, no section was returned to
\* while it was being saved, no answer was lost, nobody else saved.
Settled == Loaded /\ InFlight = {} /\ ~spoilt

\* Then the page shows what the server holds: its snapshot in every section,
\* and its form and boxes wherever the administrator has not typed since.
SettledPageIsStored ==
    Settled => /\ \A s \in SectionsOf(page) : snapshot[s].value = Masked(s, stored[s])
               /\ form.clean => /\ form.value = snapshot[active].value
                                /\ form.box = BoxOf(active, form.value)

\* Pages, saves and stored settings are well typed, and a page without pending
\* input or request shows what is stored.
FormsSound == TypeOK /\ SettledPageIsStored

\* "We only clean them when saving": a save of the link policy carries the
\* domains the boxes showed when its button was pressed.
SaveCarriesBoxes ==
    \A k \in InFlight : (~spoilt /\ saves[k].section = "links") =>
        saves[k].value.trusted = ToList(saves[k].box)

\* The save in slot k takes effect.
TakesEffect(k) == /\ saves[k] # None /\ saves[k].reply = None
                  /\ saves'[k] # None /\ saves'[k].reply # None
                  /\ stored' # stored

Renamed(v) == \E i \in DOMAIN v.providers : v.providers[i].was \notin {"", v.providers[i].id}

\* Saving the providers keeps the key of each one whose key was not typed, and
\* saving the mail settings the password: "we must not wipe a real key when the
\* user never typed a new one".  (Not for a provider whose identifier was edited.)
KeptSecrets ==
    \A k \in Saves :
        TakesEffect(k) =>
            LET s == saves[k].section
                v == saves[k].value
            IN  /\ (s = "llm" /\ ~Renamed(v)) =>
                      \A i \in DOMAIN v.providers :
                          (v.providers[i].was # "" /\ Untouched(v.providers[i].key)) =>
                              StoredKey(stored'[s], v.providers[i].id) = StoredKey(stored[s], v.providers[i].was)
                /\ (s = "smtp" /\ Untouched(v.password)) => stored'[s].password = stored[s].password
                /\ (s = "bot" /\ v.key = "") => stored'[s].key = stored[s].key

SecretsKept == [][KeptSecrets]_vars

\* The same without the exception: "blank or still bullets means the key is kept;
\* only typing a new value replaces it".
KeptKeys ==
    \A k \in Saves :
        (TakesEffect(k) /\ saves[k].section = "llm") =>
            \A i \in DOMAIN saves[k].value.providers :
                LET p == saves[k].value.providers[i]
                IN  (p.was # "" /\ Untouched(p.key)) =>
                        StoredKey(stored'["llm"], p.id) = StoredKey(stored["llm"], p.was)

KeysOnlyTyped == [][KeptKeys]_vars
=============================================================================
