--------------------------- MODULE PublishPromise ---------------------------
(***************************************************************************)
(* What a publish promises of the portal item it makes, whatever fails and *)
(* whoever cancels: once the portal has named the item, the publish ends   *)
(* with the item complete, or taken back, or with its user told that       *)
(* something went wrong with it.  Two ends are worse, and each has one     *)
(* cause.  An item is orphaned, known to nobody, only when its name never  *)
(* reached the client.  An item is left, unfinished and with nothing said, *)
(* only when the user went away: they closed the dialog or removed the     *)
(* connection.  An end is final, and every publish comes to one.           *)
(***************************************************************************)
CONSTANT Publishes

VARIABLES
    fate,   \* [Publishes -> Fates]
    away    \* the user has gone away

Underway == {"begun", "holding", "importing"}
Ends == {"complete", "withdrawn", "reported", "orphaned", "left"}
Fates == {"none"} \cup Underway \cup Ends

\* Where a publish may go.  It holds the item from the portal's answer with the
\* item's id; before that it can only fail, with no item or with one it never
\* hears of.  It hands the item to the portal's import, or, with nothing to
\* import, completes it.
After(f) ==
    CASE f = "none"      -> {"begun"}
      [] f = "begun"     -> {"holding", "withdrawn", "orphaned"}
      [] f = "holding"   -> {"importing", "complete", "withdrawn", "reported", "left"}
      [] f = "importing" -> {"complete", "reported", "left"}
      [] f \in Ends      -> {}

Move(a) ==
    \/ fate'[a] = fate[a]
    \/ fate'[a] \in After(fate[a]) /\ (fate'[a] = "left" => away')

Init == fate = [a \in Publishes |-> "none"] /\ away = FALSE

Next ==
    /\ fate' \in [Publishes -> Fates]
    /\ \A a \in Publishes : Move(a)
    /\ away => away'

Safety == Init /\ [][Next]_<<fate, away>>

Spec == Safety /\ \A a \in Publishes : fate[a] \in Underway ~> fate[a] \in Ends
=============================================================================
