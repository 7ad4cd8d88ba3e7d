---------------------------- MODULE KeyringPrompt ----------------------------
(***************************************************************************)
(* The prompt of the keyring: shell-keyring-prompt.c, which gcr calls, and *)
(* the dialog of js/ui/components/keyring.js. gcr shows one prompt at a    *)
(* time; on it the client asks for a password or a confirmation, again and *)
(* again, and closes it when it has what it wants or goes away.            *)
(***************************************************************************)
EXTENDS Integers

CONSTANT MaxCalls      \* bound: questions asked

VARIABLE kp   \* the prompt, its dialog and the component

kpVars == <<kp>>

Replies == {"none", "continue", "cancel"}

Prompt == [exists    : {"no", "dialog", "dummy"},            \* new-prompt
           enabled   : BOOLEAN,                              \* KeyringPrompter._enabled
           mode      : {"NONE", "CONFIRM", "PASSWORD"},
           fresh     : BOOLEAN,                              \* password_new
           entries   : {"none", "one", "two"},               \* what _buildControlTable() made
           task      : 0..MaxCalls,                          \* the call that waits; 0: none
           shown     : BOOLEAN,
           state     : {"CLOSED", "OPENED", "CLOSING"},
           sensitive : BOOLEAN,
           calls     : 0..MaxCalls,
           reply     : [1..MaxCalls -> Replies],
           closed    : BOOLEAN,    \* gcr closed the prompt and will drop it
           mismatch  : BOOLEAN]    \* history: the two passwords differed

NoPrompt(enabled, calls, reply) ==
  [exists |-> "no", enabled |-> enabled, mode |-> "NONE", fresh |-> FALSE,
   entries |-> "none", task |-> 0, shown |-> FALSE, state |-> "CLOSED",
   sensitive |-> TRUE, calls |-> calls, reply |-> reply, closed |-> FALSE,
   mismatch |-> FALSE]

Init == kp = NoPrompt(TRUE, 0, [c \in 1..MaxCalls |-> "none"])
-----------------------------------------------------------------------------
\* The end of a question: complete() and cancel() return the task.
Return(u, reply) ==
  [u EXCEPT !.reply[u.task] = reply, !.task = 0, !.mode = "NONE", !.mismatch = FALSE]

\* shell_keyring_prompt_close(), and the dialog's handler of 'prompt-close'.
ClosePrompt(u) ==
  [u EXCEPT !.shown = FALSE, !.state = IF @ = "OPENED" THEN "CLOSING" ELSE @]

\* shell_keyring_prompt_cancel()
CancelPrompt(u) ==
  CASE u.mode # "NONE" -> Return(u, "cancel")
    [] u.mode = "NONE" /\ u.shown -> ClosePrompt(u)
    [] OTHER -> u

\* What _buildControlTable() makes of the prompt's properties.
Entries(mode, fresh) ==
  CASE mode = "CONFIRM" -> "none" [] fresh -> "two" [] OTHER -> "one"

\* Mutant of Show: a refused grab is not noticed.
ShowAnyway(u) ==
  LET v == [u EXCEPT !.entries = Entries(u.mode, u.fresh), !.sensitive = TRUE]
  IN {[v EXCEPT !.state = "OPENED"], v}

\* _onShowPassword(), _onShowConfirm(): a refused grab cancels the question.
Show(u) ==
  LET v == [u EXCEPT !.entries = Entries(u.mode, u.fresh), !.sensitive = TRUE]
  IN {[v EXCEPT !.state = "OPENED"]}
     \cup (IF u.state = "OPENED" THEN {} ELSE {CancelPrompt(v)})
-----------------------------------------------------------------------------
\* gcr wants a prompt: a dialog, or while the component is disabled a dummy.
NewPrompt == /\ kp.exists = "no"
             /\ kp' = [kp EXCEPT !.exists = IF kp.enabled THEN "dialog" ELSE "dummy"]

\* gcr asks: prompt_password_async(), prompt_confirm_async(). A question before
\* the last one is answered is refused with a warning.
Question(mode, fresh) ==
  /\ kp.exists # "no" /\ ~kp.closed /\ kp.task = 0 /\ kp.calls < MaxCalls
  /\ LET u == [kp EXCEPT !.calls = @ + 1, !.task = kp.calls + 1, !.mode = mode,
                         !.fresh = fresh, !.shown = TRUE]
     IN kp' \in IF kp.exists = "dummy" THEN {CancelPrompt(u)} ELSE Show(u)

\* The user continues: _onContinueButton() makes the dialog insensitive first, then
\* complete() may find that the two passwords are not the same.
Continue(match) ==
  /\ kp.state = "OPENED" /\ kp.sensitive
  /\ LET u == [kp EXCEPT !.sensitive = FALSE]
     IN kp' = CASE u.task = 0 -> u
                [] u.task # 0 /\ u.entries = "two" /\ ~match -> [u EXCEPT !.mismatch = TRUE]
                [] OTHER -> Return(u, "continue")

\* The user cancels.
Cancel == kp.state = "OPENED" /\ kp' = CancelPrompt(kp)

\* gcr closes the prompt, between questions or because the client has gone.
Close == /\ kp.exists # "no" /\ ~kp.closed
         /\ kp' = [ClosePrompt(kp) EXCEPT !.closed = TRUE]

Faded == kp.state = "CLOSING" /\ kp' = [kp EXCEPT !.state = "CLOSED"]

\* Mutant of Dispose: what is left of a question is forgotten.
DisposeQuietly == /\ kp.closed /\ kp.state = "CLOSED"
                  /\ kp' = NoPrompt(kp.enabled, kp.calls, kp.reply)

\* The prompt is disposed of after its dialog has faded out; what is left of a question is cancelled.
Dispose ==
  /\ kp.closed /\ kp.state = "CLOSED"
  /\ LET u == IF kp.task = 0 THEN kp ELSE CancelPrompt(kp)
     IN kp' = NoPrompt(u.enabled, u.calls, u.reply)

\* The component is disabled, as when the session is locked.
Disable == /\ kp.enabled
           /\ LET u == [kp EXCEPT !.enabled = FALSE]
              IN kp' = IF kp.exists = "no" THEN u ELSE CancelPrompt(u)

Enable == ~kp.enabled /\ kp' = [kp EXCEPT !.enabled = TRUE]

Next == \/ NewPrompt \/ Cancel \/ Close \/ Faded \/ Dispose \/ Disable \/ Enable
        \/ \E mode \in {"CONFIRM", "PASSWORD"}, fresh \in BOOLEAN : Question(mode, fresh)
        \/ \E match \in BOOLEAN : Continue(match)

\* The main loop ends the fades, and gcr drops what it closed.
Fairness == WF_kpVars(Faded) /\ WF_kpVars(Dispose)

Spec == Init /\ [][Next]_kpVars /\ Fairness
-----------------------------------------------------------------------------
TypeOK == kp \in Prompt

\* A question that waits has an open dialog whose entries are those it needs, on
\* which the user can at least cancel, and continue unless the passwords differed;
\* the one exception is a prompt that gcr closes under the question.
QuestionIsOnScreen ==
  (kp.task # 0 /\ ~kp.closed) =>
    /\ kp.exists = "dialog" /\ kp.state = "OPENED" /\ kp.shown
    /\ kp.mode # "NONE" /\ kp.entries = Entries(kp.mode, kp.fresh)
    /\ kp.sensitive \/ kp.mismatch

\* No question waits but the last one of a prompt that gcr has not closed.
ClosedAnswered == \A c \in 1..kp.calls : kp.reply[c] = "none" => c = kp.task /\ ~kp.closed

\* That comes true again and again: a question under which gcr closed the prompt is
\* answered all the same.
ClosedIsAnswered == []<>ClosedAnswered
=============================================================================
