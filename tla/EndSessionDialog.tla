--------------------------- MODULE EndSessionDialog ---------------------------
(***************************************************************************)
(* The dialog that asks before the session ends: js/ui/endSessionDialog.js *)
(* on top of js/ui/modalDialog.js. The session manager opens and closes it *)
(* over D-Bus; the user's buttons, a countdown and PackageKit's answers    *)
(* decide which of Confirmed... and Canceled the session manager gets.     *)
(*                                                                         *)
(* The dialog is a singleton that is opened again and again; what one      *)
(* request leaves behind - the countdown's source, handlers of 'closed',   *)
(* calls to PackageKit - meets the next one.                               *)
(***************************************************************************)
EXTENDS Integers, FiniteSets

CONSTANTS
  Requested,     \* the types of dialog the instance asks for
  MaxRequests    \* bound: requests that are accepted

\* DialogType; RESTART and UPDATE_RESTART differ in their texts only.
Types == {"LOGOUT", "SHUTDOWN", "RESTART", "UPGRADE_RESTART"}

ASSUME EndSessionAssumption == Requested \subseteq Types /\ MaxRequests \in Nat

VARIABLE d   \* the dialog

vars == <<d>>

\* DialogContent: the buttons besides Cancel, the one the countdown presses,
\* and which types count down.
Buttons(t) == CASE t = "LOGOUT"   -> {"ConfirmedLogout"}
                [] t = "SHUTDOWN" -> {"ConfirmedReboot", "ConfirmedShutdown"}
                [] OTHER          -> {"ConfirmedReboot"}

LastButton(t) == CASE t = "LOGOUT"   -> "ConfirmedLogout"
                   [] t = "SHUTDOWN" -> "ConfirmedShutdown"
                   [] OTHER          -> "ConfirmedReboot"

CountsDown(t) == t # "UPGRADE_RESTART"

Requests == 1..MaxRequests

\* A confirmation on its way: the request it was decided in, and by whom.
Answers == [req : Requests, by : {"button", "countdown"},
            signal : {"ConfirmedLogout", "ConfirmedReboot", "ConfirmedShutdown"}]

Dialog == [state    : {"CLOSED", "OPENING", "OPENED", "CLOSING"},
           modal    : BOOLEAN,                 \* _hasModal
           faded    : BOOLEAN,                 \* dialogLayout fades out or is transparent
           type     : Types \cup {"unknown"},  \* _type
           buttons  : Types,                   \* whose buttons setButtons() put there
           offered  : BOOLEAN,                 \* _checkBox.visible
           checked  : BOOLEAN,                 \* _checkBox.checked, if it is visible
           timer    : {0} \cup Requests,       \* _timerId: the request that started it
           running  : SUBSET Requests,         \* countdown sources of the main loop
           waiting  : SUBSET Requests,         \* invocations to answer at 'opened'
           handlers : SUBSET Answers,          \* the buttons' handlers of 'closed'
           calls    : SUBSET Answers,          \* PackageKit calls not answered yet
           req      : {0} \cup Requests,       \* history: requests accepted,
           asked    : Types,                   \* the type of the last one,
           canceled : BOOLEAN,                 \* Canceled was sent since it,
           confirmed : SUBSET Answers,         \* what was confirmed since it;
           overlapped : BOOLEAN,               \* see Finished,
           awaited  : BOOLEAN,                 \* Pressed
           raced    : BOOLEAN]                 \* and Countdown

Init == d = [state |-> "CLOSED", modal |-> FALSE, faded |-> FALSE, type |-> "LOGOUT",
             buttons |-> "LOGOUT", offered |-> FALSE, checked |-> FALSE, timer |-> 0,
             running |-> {}, waiting |-> {}, handlers |-> {}, calls |-> {}, req |-> 0,
             asked |-> "LOGOUT", canceled |-> FALSE, confirmed |-> {},
             overlapped |-> FALSE, awaited |-> FALSE, raced |-> FALSE]
-----------------------------------------------------------------------------
\* ModalDialog: open() and close() do nothing in one half of the states each.
IsOpen(u) == u.state \in {"OPENING", "OPENED"}

\* Mutant of CloseDialog: the modal status is not dropped.
CloseDialogModal(u) == IF IsOpen(u) THEN [u EXCEPT !.state = "CLOSING"] ELSE u

\* close(): the dialog drops its modal status and fades out.
CloseDialog(u) ==
  IF IsOpen(u) THEN [u EXCEPT !.state = "CLOSING", !.modal = FALSE] ELSE u

\* Mutant of FadeOut: the end of the fade reaches State.FADED_OUT.
FadeOutReached(u) ==
  IF IsOpen(u) THEN [u EXCEPT !.modal = FALSE, !.faded = TRUE, !.state = "FADED_OUT"] ELSE u

\* _fadeOutDialog(): the end of its fade assigns to 'state', which has no setter,
\* so the dialog stays open.
FadeOut(u) == IF IsOpen(u) THEN [u EXCEPT !.modal = FALSE, !.faded = TRUE] ELSE u

\* _stopTimer()
StopTimer(u) == [u EXCEPT !.timer = 0, !.running = @ \ {u.timer}]

\* Mutant of StartTimer: the source is gone after its first tick.
StartTimerOnce(u) == IF CountsDown(u.type) THEN [u EXCEPT !.timer = u.req] ELSE u

\* _startTimer(): the id of a countdown that still runs is overwritten.
StartTimer(u) ==
  IF CountsDown(u.type)
    THEN [u EXCEPT !.timer = u.req, !.running = @ \cup {u.req}] ELSE u

\* Mutant of Emit: the countdown goes on.
EmitOnly(u, answers) == [FadeOut(u) EXCEPT !.confirmed = @ \cup answers]

\* The callback of _confirm(), for each of the answers.
Emit(u, answers) == [StopTimer(FadeOut(u)) EXCEPT !.confirmed = @ \cup answers]

\* Whether PackageKit has to schedule or cancel an offline update first.
Deferred(u, a) == u.offered /\ ~(u.checked /\ a.signal = "ConfirmedLogout")

\* Updates are installed after a restart, whatever comes after them.
Restarting(u, a) ==
  IF u.checked /\ a.signal = "ConfirmedShutdown"
    THEN [a EXCEPT !.signal = "ConfirmedReboot"] ELSE a

\* _confirm(), for each of the answers.
Confirm(u, answers) ==
  LET now == {a \in answers : ~Deferred(u, a)}
      v == [u EXCEPT !.calls = @ \cup {Restarting(u, a) : a \in answers \ now}]
  IN IF now = {} THEN v ELSE Emit(v, now)
-----------------------------------------------------------------------------
\* Nothing is left of the requests before. History: 'overlapped' says that the
\* session manager called Open() before that, in this request or since it.
Finished(u) == u.state = "CLOSED" /\ u.running = {} /\ u.handlers = {} /\ u.calls = {}

\* Mutant of Prepared: the type is set when the dialog has none.
PreparedOnce(t, offered, checked) ==
  [d EXCEPT !.type = IF d.req = 0 THEN t ELSE @, !.buttons = t, !.offered = offered,
            !.checked = offered /\ checked, !.overlapped = @ \/ ~Finished(d)]

\* What OpenAsync() changes before it asks for the grab. Only the shutdown dialog
\* offers to install updates, if some are prepared.
Prepared(t, offered, checked) ==
  [d EXCEPT !.type = t, !.buttons = t, !.offered = offered,
            !.checked = offered /\ checked, !.overlapped = @ \/ ~Finished(d)]

\* The new request is accepted: it has a countdown and a reply to wait for.
Accepted(u) ==
  LET ghost == IF Finished(d)
                 THEN [u EXCEPT !.overlapped = FALSE, !.awaited = FALSE, !.raced = FALSE]
                 ELSE u
      v == [ghost EXCEPT !.req = @ + 1, !.asked = u.type, !.canceled = FALSE,
                         !.confirmed = {}]
  IN [StartTimer(v) EXCEPT !.waiting = @ \cup {v.req}]

\* OpenAsync(): a dialog that is open is not opened again; another one opens if
\* pushModal() grants the grab, and answers with an error if not.
Open(t, offered, checked) ==
  LET u == Prepared(t, offered, checked) IN
  /\ offered => t = "SHUTDOWN"
  /\ \/ /\ d.req < MaxRequests
        /\ d' = IF IsOpen(u) THEN Accepted(u)
                ELSE Accepted([u EXCEPT !.state = "OPENING", !.modal = TRUE,
                                        !.faded = FALSE])
     \/ ~IsOpen(u) /\ d' = u

\* OpenAsync() with a type it does not know sets the type all the same.
OpenUnknown == d' = [d EXCEPT !.type = "unknown", !.overlapped = @ \/ ~Finished(d)]

\* Close(), from the session manager: the countdown goes on.
Close == d' = CloseDialog(d)

\* Mutant of Opened: only the last request is answered.
OpenedAnswersLast == d.state = "OPENING"
                     /\ d' = [d EXCEPT !.state = "OPENED", !.waiting = @ \ {d.req}]

\* The end of the fades; 'opened' answers the invocations that wait for it, and
\* 'closed' runs what the buttons left there.
Opened == /\ d.state = "OPENING"
          /\ d' = [d EXCEPT !.state = "OPENED", !.waiting = {}]

Closed == /\ d.state = "CLOSING"
          /\ d' = Confirm([d EXCEPT !.state = "CLOSED", !.handlers = {}], d.handlers)

\* The user reaches a dialog that has the grab. History: 'awaited' says that
\* this was done while the answer was with PackageKit already.
Pressed == [d EXCEPT !.awaited = @ \/ d.calls # {}]

\* A button confirms once the dialog is closed.
Button(signal) ==
  /\ d.modal /\ signal \in Buttons(d.buttons)
  /\ d' = [CloseDialog(Pressed) EXCEPT
             !.handlers = @ \cup {[req |-> d.req, by |-> "button", signal |-> signal]}]

\* Mutant of Cancel: the countdown goes on.
CancelOnly == d.modal /\ d' = CloseDialog([Pressed EXCEPT !.canceled = TRUE])

Cancel == d.modal /\ d' = CloseDialog(StopTimer([Pressed EXCEPT !.canceled = TRUE]))

CheckBox == d.modal /\ d.offered /\ d' = [d EXCEPT !.checked = ~@]

\* The last second of a countdown. A callback that finds an unknown type throws
\* and is gone. History: 'raced' says that the dialog was closed, or about to be,
\* and nothing confirmed yet.
Countdown(r) ==
  LET u == [d EXCEPT !.running = @ \ {r}, !.raced = @ \/ (~IsOpen(d) /\ d.confirmed = {})]
      answer == [req |-> r, by |-> "countdown", signal |-> LastButton(d.type)]
  IN /\ r \in d.running
     /\ d' = IF d.type = "unknown" THEN [d EXCEPT !.running = @ \ {r}]
             ELSE [Confirm(u, {answer}) EXCEPT !.timer = 0]

\* PackageKit answers, in any order.
Updated(a) == a \in d.calls /\ d' = Emit([d EXCEPT !.calls = @ \ {a}], {a})

Next == \/ \E t \in Requested, offered, checked \in BOOLEAN : Open(t, offered, checked)
        \/ OpenUnknown \/ Close \/ Opened \/ Closed
        \/ \E signal \in Buttons(d.buttons) : Button(signal)
        \/ Cancel \/ CheckBox
        \/ \E r \in Requests : Countdown(r)
        \/ \E a \in d.calls : Updated(a)

\* The main loop ends the fades and the countdowns, and PackageKit answers. The
\* user and the session manager owe nothing.
Fairness == /\ WF_vars(Opened) /\ WF_vars(Closed)
            /\ WF_vars(\E r \in Requests : Countdown(r))
            /\ WF_vars(\E a \in d.calls : Updated(a))

Spec == Init /\ [][Next]_vars /\ Fairness
-----------------------------------------------------------------------------
TypeOK == d \in Dialog

\* The grab is the dialog's exactly while the user can see and press it: no
\* order of requests, fades and confirmations leaves the input with a dialog
\* that is gone or takes it from one that waits for an answer.
GrabFollowsDialog == d.modal = (IsOpen(d) /\ ~d.faded)

\* A request is confirmed once at most, by a button or by the countdown, as long
\* as the next one waits for its end, the user does not press while PackageKit
\* has the answer, and the countdown does not end behind a closed dialog.
OneConfirmation ==
  (~d.overlapped /\ ~d.awaited /\ ~d.raced) => \A a, b \in d.confirmed : a = b

\* Cancel stops the countdown for good: nothing is confirmed after it, but what
\* PackageKit had already or requests that overlap.
CanceledMeansCanceled ==
  (d.canceled /\ ~d.overlapped /\ ~d.awaited) => d.confirmed = {}

\* What is confirmed is one of the buttons of the dialog that was asked for.
ConfirmedAsAsked ==
  ~d.overlapped => \A a \in d.confirmed : a.signal \in Buttons(d.asked)

\* Once the dialog is open the session manager has the answer to every Open(),
\* those of dialogs it closed before they were open included.
OpenIsAnswered == (d.state = "OPENED" /\ ~d.overlapped) => d.waiting = {}

\* A dialog that counts down does not wait for a user who is not there.
CountdownEnds ==
  (IsOpen(d) /\ d.modal /\ CountsDown(d.asked) /\ ~d.overlapped)
    ~> (~IsOpen(d) \/ d.confirmed # {} \/ d.overlapped)

\* "Once in the faded out state, the dialog can be brought back by an open call":
\* an accepted Open() leaves a dialog that has the grab.
OpenBringsBack == [][d'.req # d.req => d'.modal]_vars
=============================================================================
