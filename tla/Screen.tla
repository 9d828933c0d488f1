------------------------------- MODULE Screen -------------------------------
(***************************************************************************)
(* What the pages of the administrators' console have in common: the shape *)
(* of a table of rows, of a request and of an event handler.               *)
(*                                                                         *)
(* A page is a React component.  It shows `rows`, a copy of the server's   *)
(* rows read under a `filter`, and its buttons start asynchronous handlers *)
(* which await one request after the other.  A handler is described by the *)
(* requests it makes, in order, and by the busy slot it holds meanwhile.   *)
(***************************************************************************)
EXTENDS Integers, FiniteSets, Sequences, TLC

CONSTANTS
    Ids,   \* the identifiers rows can have
    None   \* no row, no identifier, no draft

ASSUME IdsAssumption == Ids \subseteq Nat \ {0} /\ IsFiniteSet(Ids) /\ None \notin Ids \cup {0}

\* A button that blocks the whole page (busy, saving) rather than one row (busyId).
WholePage == 0

NoRows == [i \in Ids |-> None]
Present(rows) == {i \in Ids : rows[i] # None}

\* The rows of table d that are hits, as a list request returns them.
Where(d, hits) == [i \in Ids |-> IF i \in hits THEN d[i] ELSE None]

\* The n-th page of one row each, newest row first.
Paged(d, hits, n) == Where(d, {i \in hits : Cardinality({j \in hits : j > i}) = n})

-----------------------------------------------------------------------------
Ask(op, id, val) == [op |-> op, id |-> id, val |-> val]

Reload == Ask("list", None, None)        \* await reload()
CloseEditor == Ask("close", None, None)  \* setEditor(null): local, no request

\* A handler which holds the busy slot while it awaits the requests of `steps`.
Handler(slot, steps) == [slot |-> slot, steps |-> steps]

\* The identifier a new row gets.
Unused(d) == Ids \ Present(d)
NewId(d) == CHOOSE i \in Unused(d) : \A j \in Unused(d) : i <= j
=============================================================================
