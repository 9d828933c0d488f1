-------------------------------- MODULE Site --------------------------------
(***************************************************************************)
(* What the components of the forum share: its accounts and the goroutines *)
(* that serve requests.                                                    *)
(***************************************************************************)

CONSTANTS
  Users,    \* accounts
  Workers   \* slots for concurrent requests
=============================================================================
