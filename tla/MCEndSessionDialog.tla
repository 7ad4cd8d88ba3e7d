------------------------ MODULE MCEndSessionDialog ------------------------
(* The three system dialogs whose state is driven by a caller that may give up at any  *)
(* time: the end session dialog, polkit's and the keyring's prompt.  They share no     *)
(* state, so a behaviour is about one of them, the subject.  The configurations name   *)
(* the types that the session manager asks for.                                        *)
EXTENDS EndSessionDialog

CONSTANTS MaxAsked,   \* bound: requests polkit makes
          MaxCalls    \* bound: questions the keyring's client asks

ASSUME PromptsAssumption == MaxAsked \in Nat /\ MaxCalls \in Nat

VARIABLES subject, pk, kp

Polkit  == INSTANCE PolkitAgent WITH MaxRequests <- MaxAsked
Keyring == INSTANCE KeyringPrompt

MCInit == /\ subject \in {"end session", "polkit", "keyring"}
          /\ Init /\ Polkit!Init /\ Keyring!Init

E(A) == subject = "end session" /\ A /\ UNCHANGED <<subject, pk, kp>>
P(A) == subject = "polkit" /\ A /\ UNCHANGED <<subject, d, kp>>
K(A) == subject = "keyring" /\ A /\ UNCHANGED <<subject, d, pk>>

EndSessionNext ==
  \/ \E t \in Requested, offered, checked \in BOOLEAN : E(Open(t, offered, checked))
  \/ E(OpenUnknown) \/ E(Close) \/ E(Opened) \/ E(Closed)
  \/ \E signal \in Buttons(d.buttons) : E(Button(signal))
  \/ E(Cancel) \/ E(CheckBox)
  \/ \E r \in Requests : E(Countdown(r))
  \/ \E a \in d.calls : E(Updated(a))

PolkitNext ==
  \/ P(Polkit!Ask) \/ P(Polkit!SetLocked)
  \/ \E r \in Polkit!Requests :
       \/ P(Polkit!Withdraw(r)) \/ P(Polkit!HandleCancelled(r)) \/ P(Polkit!Dangling(r))
       \/ P(Polkit!Prompt(r)) \/ P(Polkit!Respond(r)) \/ P(Polkit!Dismiss(r))
       \/ P(Polkit!Closed(r))
       \/ \E gained \in BOOLEAN : P(Polkit!Completed(r, gained))

KeyringNext ==
  \/ K(Keyring!NewPrompt) \/ K(Keyring!Cancel) \/ K(Keyring!Close) \/ K(Keyring!Faded)
  \/ K(Keyring!Dispose) \/ K(Keyring!Disable) \/ K(Keyring!Enable)
  \/ \E mode \in {"CONFIRM", "PASSWORD"}, fresh \in BOOLEAN : K(Keyring!Question(mode, fresh))
  \/ \E match \in BOOLEAN : K(Keyring!Continue(match))

MCNext == EndSessionNext \/ PolkitNext \/ KeyringNext

\* Nothing of a component whose turn it is not is enabled: its fairness asks nothing.
MCSpec == /\ MCInit /\ [][MCNext]_<<subject, d, pk, kp>>
          /\ Fairness /\ Polkit!Fairness /\ Keyring!Fairness

\* The agents' dialogs keep their types, and no order of answers, withdrawals, refused
\* grabs, locking and fades leaves a caller waiting for a dialog that nobody can see, or
\* answered by a dialog that was not its own.
PromptsAnswer ==
  /\ Polkit!TypeOK /\ Polkit!NeverStalls /\ Polkit!AnsweredByItsDialog
  /\ Keyring!TypeOK /\ Keyring!QuestionIsOnScreen

\* Every request that polkit withdraws and every question under which gcr closes its
\* prompt is answered in the end: again and again none of them waits.
WithdrawnAreAnswered == []<>(Polkit!WithdrawnAnswered /\ Keyring!ClosedAnswered)
============================================================================
