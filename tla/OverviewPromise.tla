--------------------------- MODULE OverviewPromise ---------------------------
(***************************************************************************)
(* What the overview promises the parts of the shell that listen to it:    *)
(* the signals showing, shown, hiding and hidden in that order, hiding     *)
(* without a shown to see or showing without a rest in between, and, once  *)
(* the requests stop, an overview that is as it was last asked to be.      *)
(***************************************************************************)
VARIABLES
  wanted,   \* what show() and hide() last asked for
  phase     \* the last signal emitted

vars == <<wanted, phase>>

Phases == {"showing", "shown", "hiding", "hidden"}

Init == wanted = FALSE /\ phase = "hidden"

\* A request takes effect at once when the overview is at rest.
AskToShow ==
  /\ wanted' = TRUE
  /\ phase' = IF phase = "hidden" THEN "showing" ELSE phase

AskToHide ==
  /\ wanted' = FALSE
  /\ phase' = IF phase = "shown" THEN "hiding" ELSE phase

\* The animation in ends; without a grab to be had, the overview goes again.
EnterDone ==
  /\ phase = "showing"
  /\ wanted' \in {wanted, FALSE}
  /\ phase' = IF wanted' THEN "shown" ELSE "hiding"

\* The animation out ends; a request made meanwhile starts the next one.
LeaveDone ==
  /\ phase = "hiding"
  /\ phase' = IF wanted THEN "showing" ELSE "hidden"
  /\ UNCHANGED wanted

Next == AskToShow \/ AskToHide \/ EnterDone \/ LeaveDone

Spec == Init /\ [][Next]_vars /\ WF_vars(EnterDone) /\ WF_vars(LeaveDone)
==============================================================================
