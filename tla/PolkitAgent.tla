----------------------------- MODULE PolkitAgent -----------------------------
(***************************************************************************)
(* Authentication for polkit: the queue of requests that                   *)
(* shell-polkit-authentication-agent.c keeps, and the dialog that          *)
(* js/ui/components/polkitAgent.js shows for the current one. polkit asks  *)
(* and withdraws, its helper talks to PAM on behalf of a dialog, the user  *)
(* answers, the session locks; each of them at any time.                   *)
(*                                                                         *)
(* The component stays enabled: every session mode of the shell has it.    *)
(***************************************************************************)
EXTENDS Integers, Sequences, FiniteSets

CONSTANT MaxRequests   \* bound: requests polkit makes

VARIABLE pk   \* the agent and its dialogs

pkVars == <<pk>>

Requests == 1..MaxRequests
None == 0

Agent == [asked     : 0..MaxRequests,
          queue     : Seq(Requests),                 \* scheduled_requests
          current   : {None} \cup Requests,          \* current_request
          idles     : SUBSET Requests,               \* handle_cancelled_in_idle pending
          locked    : BOOLEAN,                       \* sessionMode.isLocked
          waiting   : {None} \cup Requests,          \* _sessionUpdatedId: asked while locked
          dialog    : {None} \cup Requests,          \* _currentDialog
          state     : [Requests -> {"CLOSED", "OPENED", "CLOSING"}],
          helper    : [Requests -> {"none", "busy", "asking", "ended"}], \* _session
          done      : SUBSET Requests,               \* _doneEmitted
          answer    : [Requests -> {"none", "completed", "dismissed"}],
          by        : [Requests -> {None} \cup Requests],  \* history: whose dialog answered,
          withdrawn : SUBSET Requests,               \* requests polkit withdrew,
          severed   : BOOLEAN]                       \* see CompleteRequest

Init == pk = [asked |-> 0, queue |-> <<>>, current |-> None, idles |-> {}, locked |-> FALSE,
              waiting |-> None, dialog |-> None, state |-> [r \in Requests |-> "CLOSED"],
              helper |-> [r \in Requests |-> "none"], done |-> {},
              answer |-> [r \in Requests |-> "none"], by |-> [r \in Requests |-> None],
              withdrawn |-> {}, severed |-> FALSE]
-----------------------------------------------------------------------------
\* performAuthentication(), for a dialog that is new or whose helper has ended.
Authenticate(u, r) == [u EXCEPT !.helper[r] = "busy"]

\* _onInitiate(): no dialog while the session is locked. There is none on screen
\* either before the helper wants to talk to the user.
Initiate(u, r) ==
  IF u.locked THEN [u EXCEPT !.waiting = r] ELSE Authenticate([u EXCEPT !.dialog = r], r)

\* maybe_process_next_request()
ProcessNext(u) ==
  IF u.current = None /\ u.queue # <<>>
    THEN Initiate([u EXCEPT !.current = Head(u.queue), !.queue = Tail(u.queue)],
                  Head(u.queue))
    ELSE u

\* g_list_remove(): the first occurrence goes.
Without(q, r) ==
  IF \A i \in DOMAIN q : q[i] # r THEN q
  ELSE LET k == CHOOSE i \in DOMAIN q : q[i] = r /\ \A j \in 1..(i - 1) : q[j] # r
       IN [j \in 1..(Len(q) - 1) |-> q[IF j < k THEN j ELSE j + 1]]

\* auth_request_complete()
Answer(u, r, a, d) ==
  LET v == [u EXCEPT !.answer[r] = a, !.by[r] = d]
  IN IF u.current = r THEN ProcessNext([v EXCEPT !.current = None])
     ELSE [v EXCEPT !.queue = Without(@, r)]

\* ModalDialog.close(): without effect on a dialog that never opened.
CloseDialog(u, d) == IF u.state[d] = "OPENED" THEN [u EXCEPT !.state[d] = "CLOSING"] ELSE u

\* _completeRequest(), for the dialog d or for polkit (None): it throws when there
\* is no dialog, as for a request that waits for the session's unlocking. History:
\* 'severed' says that polkit withdrew a request while its helper was running, so
\* that a dialog is left which has not emitted 'done'.
CompleteRequest(u, a, d) ==
  IF u.dialog = None THEN u
  ELSE LET v == [CloseDialog(u, u.dialog) EXCEPT !.dialog = None, !.waiting = None,
                                                 !.severed = @ \/ d = None]
       IN IF v.current = None THEN v ELSE Answer(v, v.current, a, d)

\* Mutant of EmitDone: 'done' is emitted again.
EmitDoneAgain(u, d, a) == CompleteRequest([u EXCEPT !.done = @ \cup {d}], a, d)

\* _emitDone()
EmitDone(u, d, a) ==
  IF d \in u.done THEN u ELSE CompleteRequest([u EXCEPT !.done = @ \cup {d}], a, d)
-----------------------------------------------------------------------------
\* polkit asks: initiate_authentication().
Ask == /\ pk.asked < MaxRequests
       /\ pk' = ProcessNext([pk EXCEPT !.asked = @ + 1,
                                       !.queue = Append(@, pk.asked + 1)])

\* polkit withdraws a request: on_request_cancelled().
Withdraw(r) == /\ r <= pk.asked /\ pk.answer[r] = "none" /\ r \notin pk.withdrawn
               /\ pk' = [pk EXCEPT !.idles = @ \cup {r}, !.withdrawn = @ \cup {r}]

\* Mutant of HandleCancelled: a request in the queue is forgotten.
HandleCancelledCurrent(r) ==
  /\ r \in pk.idles /\ pk.answer[r] = "none"
  /\ LET u == [pk EXCEPT !.idles = @ \ {r}]
     IN pk' = IF r = pk.current THEN CompleteRequest(u, "completed", None) ELSE u

\* handle_cancelled_in_idle(). The idle of a request that was answered before it
\* reads freed memory; see Dangling.
HandleCancelled(r) ==
  /\ r \in pk.idles /\ pk.answer[r] = "none"
  /\ LET u == [pk EXCEPT !.idles = @ \ {r}]
     IN pk' = IF r = pk.current THEN CompleteRequest(u, "completed", None)
              ELSE Answer(u, r, "completed", None)

\* The same for a freed request: if the shell survives it, the pointer is neither
\* the current request nor in the queue.
Dangling(r) == /\ r \in pk.idles /\ pk.answer[r] # "none"
               /\ pk' = [pk EXCEPT !.idles = @ \ {r}]

\* The helper has a question, or an error or info to show: _onSessionRequest(),
\* _onSessionShowError() and _onSessionShowInfo() all end in _ensureOpen(), which
\* dismisses the request when pushModal() refuses the grab.
Prompt(d) ==
  /\ pk.helper[d] = "busy"
  /\ \E h \in {"asking", "busy"} :
       LET u == [pk EXCEPT !.helper[d] = h]
       IN \/ pk' = [u EXCEPT !.state[d] = "OPENED"]
          \/ pk.state[d] # "OPENED" /\ pk' = EmitDone(u, d, "dismissed")

\* The user answers the helper's question: _onEntryActivate().
Respond(d) == /\ pk.state[d] = "OPENED" /\ pk.helper[d] = "asking"
              /\ pk' = [pk EXCEPT !.helper[d] = "busy"]

\* The helper ends: _onSessionCompleted().
Completed(d, gained) ==
  /\ pk.helper[d] \in {"busy", "asking"}
  /\ LET u == [pk EXCEPT !.helper[d] = "ended"]
     IN pk' = CASE d \in pk.done -> u
                [] gained        -> EmitDone(u, d, "completed")
                [] OTHER         -> Authenticate(u, d)

\* The user cancels a dialog that has the grab: cancel().
Dismiss(d) == /\ pk.state[d] = "OPENED"
              /\ pk' = EmitDone(CloseDialog(pk, d), d, "dismissed")

\* The fade ends and 'closed' is emitted: _onDialogClosed() ends the helper too.
Closed(d) == /\ pk.state[d] = "CLOSING"
             /\ pk' = [pk EXCEPT !.state[d] = "CLOSED", !.helper[d] = "none"]

\* Mutant of SetLocked: the initiation does not come back.
SetLockedForgets == pk' = [pk EXCEPT !.locked = ~@, !.waiting = None]

\* The session mode changes. An initiation that waited starts over.
SetLocked ==
  LET u == [pk EXCEPT !.locked = ~@, !.waiting = None]
  IN pk' = IF pk.waiting = None THEN u ELSE Initiate(u, pk.waiting)

Next == \/ Ask \/ SetLocked
        \/ \E r \in Requests : Withdraw(r) \/ HandleCancelled(r) \/ Dangling(r)
        \/ \E d \in Requests : Prompt(d) \/ Respond(d) \/ Dismiss(d) \/ Closed(d)
        \/ \E d \in Requests, gained \in BOOLEAN : Completed(d, gained)

\* The main loop runs its idles; polkit, its helper and the user owe nothing.
Fairness == WF_pkVars(\E r \in Requests : HandleCancelled(r))

Spec == Init /\ [][Next]_pkVars /\ Fairness
-----------------------------------------------------------------------------
TypeOK == pk \in Agent

\* The queue never stands still: a request that is not answered is current or
\* waits behind the current one, and for the current one somebody has yet to
\* answer - the unlocking of the session, the helper, or the user in front of an
\* open dialog that asks. No order of answers, withdrawals, refused grabs and
\* locking leaves polkit waiting for a dialog that nobody can see.
NeverStalls ==
  /\ \A r \in 1..pk.asked : pk.answer[r] = "none" =>
       r = pk.current \/ \E i \in DOMAIN pk.queue : pk.queue[i] = r
  /\ pk.queue # <<>> => pk.current # None
  /\ pk.current # None =>
       \/ pk.waiting = pk.current /\ pk.dialog = None
       \/ /\ pk.dialog = pk.current
          /\ \/ pk.helper[pk.current] = "busy"
             \/ pk.helper[pk.current] = "asking" /\ pk.state[pk.current] = "OPENED"

\* A request is answered by its own dialog, or because polkit withdrew it, as long
\* as no request is withdrawn while its helper runs: that helper's end, or a grab
\* refused to it, would complete the request that came after.
AnsweredByItsDialog ==
  ~pk.severed => \A r \in Requests :
    pk.answer[r] # "none" => pk.by[r] = r \/ (pk.by[r] = None /\ r \in pk.withdrawn)

\* Every request that polkit withdrew is answered, unless its cancellation found the
\* session locked and no dialog to close: it waits for the unlocking then, and is put to
\* the user all the same.
WithdrawnAnswered == \A r \in pk.withdrawn :
  pk.answer[r] # "none" \/ pk.waiting = r \/ (pk.current = r /\ r \notin pk.idles)

\* That comes true again and again: the idle that ends a withdrawn request is not lost.
WithdrawnIsAnswered == []<>WithdrawnAnswered
=============================================================================
