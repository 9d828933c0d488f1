---------------------------- MODULE ContentPages ----------------------------
(***************************************************************************)
(* The console's pages about what the site publishes: topics, categories,  *)
(* filter words and announcements.                                         *)
(***************************************************************************)
EXTENDS Screen

-----------------------------------------------------------------------------
(* Topics: pin level and weight, the two marks, deletion.                  *)

TopicsInit == [i \in Ids |-> [cat |-> IF i = 1 THEN "c1" ELSE "c2", level |-> 1, weight |-> 1,
                              featured |-> FALSE, locked |-> FALSE]]

TopicsFilters == {"all", "c1"}

TopicsListed(d, f) == Where(d, {i \in Present(d) : f \in {"all", d[i].cat}})

RunOnTopic(t, op, val) == Handler(t, <<Ask(op, t, val), Reload>>)

\* Slip: the weight is left out.
SetPinLevelAlone(t, r, level) == RunOnTopic(t, "level", <<level, 0>>)

\* One request writes level and weight: the other half is the row's, as shown.
SetPinLevel(t, r, level) == RunOnTopic(t, "level", <<level, r.weight>>)
SetPinWeight(t, r, weight) == RunOnTopic(t, "weight", <<r.level, weight>>)

ToggleFeature(t, r) == RunOnTopic(t, IF r.featured THEN "unfeature" ELSE "feature", None)
ToggleLock(t, r) == RunOnTopic(t, IF r.locked THEN "unlock" ELSE "lock", None)
RemoveTopic(t) == RunOnTopic(t, "delete", None)

\* The weight can be entered for pinned topics only, and is sent if it changed.
TopicButtons(t, r) ==
    {SetPinLevel(t, r, l) : l \in {0, 1} \ {r.level}}
    \cup (IF r.level > 0 THEN {SetPinWeight(t, r, w) : w \in {0, 1} \ {r.weight}} ELSE {})
    \cup {ToggleFeature(t, r), ToggleLock(t, r), RemoveTopic(t)}

TopicsHandlers(v) ==
    UNION {TopicButtons(t, v.rows[t]) : t \in Present(v.rows) \ {v.busy}}

TopicsEffect(q, d) ==
    CASE q.op \in {"level", "weight"} ->
            [d EXCEPT ![q.id].level = q.val[1], ![q.id].weight = q.val[2]]
      [] q.op \in {"feature", "unfeature"} -> [d EXCEPT ![q.id].featured = q.op = "feature"]
      [] q.op \in {"lock", "unlock"} -> [d EXCEPT ![q.id].locked = q.op = "lock"]
      [] q.op = "delete" -> [d EXCEPT ![q.id] = None]

-----------------------------------------------------------------------------
(* Categories: ordered within a type; moves and removals hold no busy slot.*)

CategoriesInit == [i \in Ids |-> [place |-> i, name |-> "old", free |-> i = 1]]

CategoriesListed(d, f) == d

First(rows, c) == \A i \in Present(rows) : rows[c].place <= rows[i].place
Last(rows, c) == \A i \in Present(rows) : rows[c].place >= rows[i].place

MoveCategory(c, direction) == Handler(None, <<Ask(direction, c, None), Reload>>)
RemoveCategory(c) == Handler(None, <<Ask("delete", c, None), Reload>>)

\* Categories are saved as a whole; the editor closes after the reload.
SaveCategory(e) ==
    Handler(WholePage, <<Ask(IF e.id = None THEN "create" ELSE "update", e.id, e.name),
                         Reload, CloseEditor>>)

CategoriesHandlers(v) ==
    IF v.draft # None
    THEN IF v.busy = None THEN {SaveCategory(v.draft)} ELSE {}
    ELSE {MoveCategory(c, "up") : c \in {i \in Present(v.rows) : ~First(v.rows, i)}}
         \cup {MoveCategory(c, "down") : c \in {i \in Present(v.rows) : ~Last(v.rows, i)}}
         \cup {RemoveCategory(c) : c \in Present(v.rows)}

\* startCreate, startEdit, typing, closeEditor.
CategoriesDrafts(v) ==
    IF v.draft = None
    THEN {[id |-> None, name |-> "new"]}
         \cup {[id |-> c, name |-> v.rows[c].name] : c \in Present(v.rows)}
    ELSE {[v.draft EXCEPT !.name = "new"]} \cup IF v.busy = None THEN {None} ELSE {}

\* A category goes only without topics, a move stops at the end of its type.
CategoriesRefuse(q, d) ==
    \/ q.op = "create" /\ Unused(d) = {}
    \/ q.op = "delete" /\ ~d[q.id].free
    \/ q.op = "up" /\ First(d, q.id)
    \/ q.op = "down" /\ Last(d, q.id)

Neighbour(d, c, before) ==
    CHOOSE i \in Present(d) :
        /\ IF before THEN d[i].place < d[c].place ELSE d[i].place > d[c].place
        /\ ~\E j \in Present(d) : IF before THEN d[i].place < d[j].place /\ d[j].place < d[c].place
                                  ELSE d[c].place < d[j].place /\ d[j].place < d[i].place

CategoriesEffect(q, d) ==
    CASE q.op = "create" ->
            [d EXCEPT ![NewId(d)] = [place |-> 1 + Cardinality(Ids) + NewId(d),
                                     name |-> q.val, free |-> TRUE]]
      [] q.op = "update" -> [d EXCEPT ![q.id].name = q.val]
      [] q.op = "delete" -> [d EXCEPT ![q.id] = None]
      [] q.op \in {"up", "down"} ->
            LET n == Neighbour(d, q.id, q.op = "up")
            IN  [d EXCEPT ![q.id].place = d[n].place, ![n].place = d[q.id].place]

-----------------------------------------------------------------------------
(* Filter words.  `busy` blocks every button but the editor's opening.     *)

WordsInit == [i \in Ids |-> IF i = 1 THEN [word |-> "old", on |-> TRUE] ELSE None]

WordsListed(d, f) == d

\* The editor closes before the reload.
SaveWord(e) ==
    Handler(WholePage, <<Ask(IF e.id = None THEN "create" ELSE "update", e.id, <<e.word, e.on>>),
                         CloseEditor, Reload>>)
RemoveWord(w) == Handler(WholePage, <<Ask("delete", w, None), Reload>>)

\* The whole row goes back, with one field turned.
ToggleEnabled(w, r) == Handler(WholePage, <<Ask("toggle", w, <<r.word, ~r.on>>), Reload>>)

WordsHandlers(v) ==
    IF v.busy # None THEN {}
    ELSE IF v.draft # None THEN {SaveWord(v.draft)}
    ELSE UNION {{RemoveWord(w), ToggleEnabled(w, v.rows[w])} : w \in Present(v.rows)}

\* startCreate, startEdit, typing, the modal's cancel button.
WordsDrafts(v) ==
    IF v.draft = None
    THEN {[id |-> None, word |-> "new", on |-> TRUE]}
         \cup {[id |-> w, word |-> v.rows[w].word, on |-> v.rows[w].on] : w \in Present(v.rows)}
    ELSE {[v.draft EXCEPT !.word = "new"], [v.draft EXCEPT !.on = ~@]}
         \cup IF v.busy = None THEN {None} ELSE {}

WordsRefuse(q, d) == q.op = "create" /\ Unused(d) = {}

WordsEffect(q, d) ==
    CASE q.op = "create" -> [d EXCEPT ![NewId(d)] = [word |-> q.val[1], on |-> q.val[2]]]
      [] q.op \in {"update", "toggle"} -> [d EXCEPT ![q.id] = [word |-> q.val[1], on |-> q.val[2]]]
      [] q.op = "delete" -> [d EXCEPT ![q.id] = None]

-----------------------------------------------------------------------------
(* Announcements.  Publishing is a request of its own and sends a state,   *)
(* not a toggle; saving sends the whole announcement.                      *)

AnnouncementsInit == [i \in Ids |-> IF i = 1 THEN [text |-> "old", published |-> FALSE] ELSE None]

AnnouncementsListed(d, f) == d

SaveAnnouncement(e) ==
    Handler(WholePage, <<Ask(IF e.id = None THEN "create" ELSE "update", e.id,
                             <<e.text, e.published>>),
                         CloseEditor, Reload>>)
TogglePublish(a, r) ==
    Handler(WholePage, <<Ask(IF r.published THEN "unpublish" ELSE "publish", a, None), Reload>>)
RemoveAnnouncement(a) == Handler(WholePage, <<Ask("delete", a, None), Reload>>)

AnnouncementsHandlers(v) ==
    IF v.busy # None THEN {}
    ELSE IF v.draft # None THEN {SaveAnnouncement(v.draft)}
    ELSE UNION {{TogglePublish(a, v.rows[a]), RemoveAnnouncement(a)} : a \in Present(v.rows)}

\* startCreate (never off), startEdit (off while busy), typing, cancel.
AnnouncementsDrafts(v) ==
    IF v.draft = None
    THEN {[id |-> None, text |-> "new", published |-> FALSE]}
         \cup IF v.busy = None
              THEN {[id |-> a, text |-> v.rows[a].text, published |-> v.rows[a].published]
                        : a \in Present(v.rows)}
              ELSE {}
    ELSE {[v.draft EXCEPT !.text = "new"], [v.draft EXCEPT !.published = ~@]}
         \cup IF v.busy = None THEN {None} ELSE {}

AnnouncementsRefuse(q, d) == q.op = "create" /\ Unused(d) = {}

AnnouncementsEffect(q, d) ==
    CASE q.op = "create" -> [d EXCEPT ![NewId(d)] = [text |-> q.val[1], published |-> q.val[2]]]
      [] q.op = "update" -> [d EXCEPT ![q.id] = [text |-> q.val[1], published |-> q.val[2]]]
      [] q.op \in {"publish", "unpublish"} -> [d EXCEPT ![q.id].published = q.op = "publish"]
      [] q.op = "delete" -> [d EXCEPT ![q.id] = None]
=============================================================================
