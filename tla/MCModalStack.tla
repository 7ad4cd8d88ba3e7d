--------------------------- MODULE MCModalStack ---------------------------
(* Three modal actors and one plain widget, each actor with a mode of its own. *)
EXTENDS ModalStack

CONSTANTS dialog, popup, padOsd, button

MCModals  == {dialog, popup, padOsd}
MCWidgets == {button}
MCModeOf  == [a \in {dialog, popup, padOsd} |->
                CASE a = dialog -> "SYSTEM_MODAL"
                  [] a = popup  -> "POPUP"
                  [] a = padOsd -> "NONE"]
============================================================================
