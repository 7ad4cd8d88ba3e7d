---------------------------- MODULE NetworkAgent ----------------------------
(***************************************************************************)
(* Secrets for NetworkManager: the table of requests that                  *)
(* shell-network-agent.c keeps, and what js/ui/components/networkAgent.js   *)
(* puts on screen for them - a notification, a dialog, or the helper of a   *)
(* VPN plugin.                                                             *)
(*                                                                         *)
(* A request is known by its connection and setting. The module follows    *)
(* the requests of one such id: NetworkManager asks, cancels and asks      *)
(* again, and what an earlier request left on screen meets the next one.   *)
(* Requests of different ids meet in disable() alone.                      *)
(***************************************************************************)
EXTENDS Integers, FiniteSets

CONSTANT MaxAsks       \* bound: requests with this id

VARIABLE na   \* the agent, and everything it shows for this id

naVars == <<na>>

Asks == 1..MaxAsks

State == [vpn       : BOOLEAN,                  \* setting_name is 'vpn'
          external  : BOOLEAN,                  \* its helper has external-ui-mode
          enabled   : BOOLEAN,
          asked     : 0..MaxAsks,
          live      : 0..MaxAsks,               \* the request in the table; 0: none
          searching : BOOLEAN,                  \* its keyring search is pending
          note      : [Asks -> {"none", "shown", "gone"}],
          dialog    : [Asks -> {"none", "refused", "open", "closing", "gone"}],
          helper    : [Asks -> {"none", "running", "cancelled", "ended"}],
          noteKey   : 0..MaxAsks,               \* _notifications[id]
          dialogKey : 0..MaxAsks,               \* _dialogs[id]
          vpnKey    : 0..MaxAsks,               \* _vpnRequests[id]
          answer    : [Asks -> {"none", "secrets", "userCanceled", "failed", "canceled"}],
          stray     : BOOLEAN]                  \* history, see Acts

Init == \E vpn, external \in BOOLEAN :
  /\ external => vpn
  /\ na = [vpn |-> vpn, external |-> external, enabled |-> TRUE, asked |-> 0, live |-> 0,
           searching |-> FALSE, note |-> [g \in Asks |-> "none"],
           dialog |-> [g \in Asks |-> "none"], helper |-> [g \in Asks |-> "none"],
           noteKey |-> 0, dialogKey |-> 0, vpnKey |-> 0,
           answer |-> [g \in Asks |-> "none"], stray |-> FALSE]
-----------------------------------------------------------------------------
\* History: something that was put on screen for g acts. It is a stray if g is not
\* the request in the table any more.
Acts(u, g) == [u EXCEPT !.stray = @ \/ u.live # g]

\* The end of the request in the table: its callback gets the answer.
Return(u, a) == [u EXCEPT !.answer[u.live] = a, !.live = 0, !.searching = FALSE]

\* shell_network_agent_respond(): nothing if no request has the id.
Respond(u, a) == IF u.live = 0 THEN u ELSE Return(u, a)

\* VPNRequestHandler.destroy(), and the agent's handler of 'destroy'.
DestroyHelper(u, g) == [u EXCEPT !.vpnKey = 0,
                                 !.helper[g] = IF @ = "running" THEN "cancelled" ELSE @]

\* VPNRequestHandler.cancel(): the helper's own dialog goes at once, or the helper
\* is told to quit; what it still writes is read all the same.
CancelHelper(u, g) ==
  DestroyHelper([u EXCEPT !.dialog[g] = IF @ = "none" THEN @ ELSE "gone"], g)

\* Mutant of CancelUI: the dialog only fades out of the table.
CancelUIKeyOnly(u) ==
  IF u.dialogKey # 0 THEN [u EXCEPT !.dialogKey = 0]
  ELSE IF u.vpnKey # 0 THEN CancelHelper(u, u.vpnKey) ELSE u

\* _cancelRequest(): a notification stays.
CancelUI(u) ==
  CASE u.dialogKey # 0 -> [u EXCEPT !.dialog[u.dialogKey] = "gone", !.dialogKey = 0]
    [] u.dialogKey = 0 /\ u.vpnKey # 0 -> CancelHelper(u, u.vpnKey)
    [] OTHER -> u

\* shell_agent_request_cancel()
CancelRequest(u) == IF u.live = 0 THEN u ELSE Return(CancelUI(u), "canceled")

\* NetworkSecretDialog: whether it opens is nobody's concern.
OpenDialog(u, g) == {[u EXCEPT !.dialog[g] = "open"], [u EXCEPT !.dialog[g] = "refused"]}

\* VPNRequestHandler's constructor and destroy() in it. The helper runs, does not start,
\* or is dropped when the connection cannot be written to it, its output still read;
\* the table gets the handler in all three cases.
StartHelper(u, g) ==
  {[u EXCEPT !.helper[g] = "running", !.vpnKey = g],
   [Respond(u, "failed") EXCEPT !.vpnKey = g],
   [Respond(u, "failed") EXCEPT !.helper[g] = "cancelled", !.vpnKey = g]}

\* _handleRequest() and _vpnRequest(): a dialog, or the helper, which may be missing.
HandleRequest(u, g) ==
  IF u.vpn THEN {Respond(u, "failed")} \cup StartHelper(u, g)
  ELSE {[v EXCEPT !.dialogKey = g] : v \in OpenDialog(u, g)}

\* _newRequest(): what the user did not ask for is announced by a notification first,
\* if the connection is of a type that has one; a VPN is not.
NewRequest(u) ==
  {Respond(u, "failed")} \cup HandleRequest(u, u.live)
    \cup (IF u.vpn THEN {} ELSE {[u EXCEPT !.note[u.live] = "shown", !.noteKey = u.live]})
-----------------------------------------------------------------------------
\* NetworkManager asks: shell_network_agent_get_secrets(). A request with the same
\* id is cancelled first.
GetSecrets ==
  /\ na.enabled /\ na.asked < MaxAsks
  /\ LET u == [CancelRequest(na) EXCEPT !.asked = @ + 1, !.live = na.asked + 1]
     IN na' \in {[u EXCEPT !.searching = TRUE]} \cup NewRequest(u)

\* The keyring answers: get_secrets_keyring_cb(). A search that was cancelled finds
\* that out here.
Searched ==
  /\ na.searching
  /\ LET u == [na EXCEPT !.searching = FALSE]
     IN na' \in NewRequest(u) \cup
                (IF u.vpn THEN {Return(u, "failed")}
                          ELSE {Return(u, "failed"), Return(u, "secrets")})

\* NetworkManager gives up: shell_network_agent_cancel_get_secrets().
CancelGetSecrets == na.live # 0 /\ na' = CancelRequest(na)

\* The notification is activated, or destroyed by the user or with its source.
Activate(g) ==
  /\ na.note[g] = "shown"
  /\ na' \in HandleRequest([Acts(na, g) EXCEPT !.note[g] = "gone", !.noteKey = 0], g)

Dismiss(g) ==
  /\ na.note[g] = "shown"
  /\ na' = Respond([Acts(na, g) EXCEPT !.note[g] = "gone", !.noteKey = 0], "userCanceled")

\* Mutant of Press: a confirmed dialog does not close.
PressOnly(g, a) == na.dialog[g] = "open" /\ na' = Respond(Acts(na, g), a)

\* The dialog's buttons, once what was typed is valid: _onOk() and cancel().
Press(g, a) ==
  /\ na.dialog[g] = "open"
  /\ na' = [Respond(Acts(na, g), a) EXCEPT !.dialog[g] = "closing"]

\* The fade ends and the dialog destroys itself. Whatever dialog the table has for
\* the id is forgotten; the helper's dialog is not in the table.
Closed(g) ==
  /\ na.dialog[g] = "closing"
  /\ LET u == [na EXCEPT !.dialog[g] = "gone"]
     IN na' = IF na.vpn THEN u
              ELSE [u EXCEPT !.dialogKey = 0, !.stray = @ \/ na.dialogKey \notin {0, g}]

\* A helper with its own window ends: _vpnChildFinished(), with its exit status.
Exited(g) ==
  /\ ~na.external /\ na.helper[g] = "running"
  /\ \E a \in {"secrets", "userCanceled", "failed"} :
       na' = DestroyHelper([Respond(Acts(na, g), a) EXCEPT !.helper[g] = "ended"], g)

\* All that a helper with external-ui-mode wrote has been read: a dialog, nothing
\* to ask, or an error - for a helper that was cancelled as well.
ShowNewStyle(g) ==
  /\ na.external /\ na.helper[g] \in {"running", "cancelled"}
  /\ LET u == [Acts(na, g) EXCEPT !.helper[g] = "ended"]
         out == {Respond(u, "secrets"), Respond(u, "failed")}
     IN na' \in OpenDialog(u, g)
                \cup (IF na.helper[g] = "cancelled" THEN out
                      ELSE {DestroyHelper(v, g) : v \in out})

\* The three loops of disable(): what is in each table is cancelled, with an answer.
EndDialog(u) ==
  IF u.dialogKey = 0 THEN u
  ELSE [Respond(u, "userCanceled") EXCEPT
          !.dialogKey = 0, !.dialog[u.dialogKey] = IF @ = "open" THEN "closing" ELSE @]
EndHelper(u) ==
  IF u.vpnKey = 0 THEN u ELSE CancelHelper(Respond(u, "userCanceled"), u.vpnKey)
EndNote(u) ==
  IF u.noteKey = 0 THEN u
  ELSE [Respond(Acts(u, u.noteKey), "userCanceled") EXCEPT
          !.note[u.noteKey] = "gone", !.noteKey = 0]

\* disable(). A helper that did not start has no pipe that destroy() could close: at
\* the first of them, of this id or of another, it throws, and the notifications stay
\* and the agent stays on, until the session mode changes again.
Disable ==
  LET u == EndDialog(na)
      v == EndHelper(u)
      throws == u.vpnKey # 0 /\ u.helper[u.vpnKey] = "none"
  IN /\ na.enabled
     /\ \/ na' \in {u, v}
        \/ ~throws /\ na' = EndNote([v EXCEPT !.enabled = FALSE])

Enable == ~na.enabled /\ na' = [na EXCEPT !.enabled = TRUE]

Next == \/ GetSecrets \/ Searched \/ CancelGetSecrets \/ Disable \/ Enable
        \/ \E g \in Asks : \/ Activate(g) \/ Dismiss(g) \/ Closed(g) \/ Exited(g)
                           \/ ShowNewStyle(g)
        \/ \E g \in Asks, a \in {"secrets", "userCanceled"} : Press(g, a)

Spec == Init /\ [][Next]_naVars
-----------------------------------------------------------------------------
TypeOK == na \in State

\* NetworkManager never waits for a question that is not put: for the request in
\* the table there is the keyring's answer to come, a notification, a helper that
\* runs or a dialog, and the dialog is open unless the grab was refused to it.
LiveIsAsked == na.live # 0 =>
  \/ na.searching \/ na.note[na.live] = "shown" \/ na.helper[na.live] = "running"
  \/ na.dialog[na.live] \in {"open", "refused"}

\* A dialog on screen is for the request in the table: one that is cancelled or
\* answered otherwise takes its dialog along. Not so once a stray has acted - a
\* notification whose request was cancelled, a cancelled helper whose output is
\* read, or a dialog whose fade ends when the table has the next one.
DialogIsLive == ~na.stray => \A g \in Asks : na.dialog[g] = "open" => na.live = g
=============================================================================
