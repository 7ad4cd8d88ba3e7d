---------------------------- MODULE UserVerifier ----------------------------
(***************************************************************************)
(* The verification of a user by GDM (gdm/util.js) with the prompt that    *)
(* shows it (gdm/authPrompt.js), in the unlock dialog and in the greeter.  *)
(* Every begin() is an attempt with a cancellable of its own; what has to  *)
(* wait for the messages on the screen is a handler of 'no-more-messages'. *)
(***************************************************************************)
EXTENDS Integers, SequencesExt

CONSTANTS MaxAttempts,    \* bounds begin(), which is called at the start
          Allowed         \* allowed-failures of the greeter

VARIABLE uv   \* the verifier, its prompt and the calls to GDM

uvVars == <<uv>>

Attempts == 0..MaxAttempts   \* 0: none
Calls    == [k : {"channel", "get", "start"}, n : Attempts]
Waiters  == [k : {"answer", "retry", "giveup", "finish"}, n : Attempts]

State == [mode : {"unlock", "login"},
          status : {"idle", "verifying", "failed", "succeeded"},
          begun : Attempts, cancel : Attempts,     \* the cancellable of the last begin()
          cancelled : SUBSET (1..MaxAttempts),
          verifier : Attempts,                     \* whose channel _userVerifier is
          talk : {"off", "on", "asked"},           \* the conversation in it
          calls : Seq(Calls), waiters : Seq(Waiters),
          pending : BOOLEAN, more : 0..1,          \* messages to be read, and behind the first
          timer : BOOLEAN,
          querying : Attempts, preempt : BOOLEAN, sensitive : BOOLEAN,
          card : BOOLEAN, user : BOOLEAN, fails : Nat,
          list : BOOLEAN,                          \* the greeter's list of users
          done : BOOLEAN,                          \* finish() has called back
          twice : BOOLEAN, stray : BOOLEAN]        \* history

Live(u, n) == n # 0 /\ n \notin u.cancelled

\* begin() of the verifier. The cancellable of the attempt before is not cancelled.
Begin(u) ==
  LET n == u.begun + 1
  IN [u EXCEPT !.begun = n, !.cancel = n, !.twice = @ \/ \E c \in Range(u.calls) : Live(u, c.n),
               !.calls = Append(@, [k |-> IF u.user THEN "channel" ELSE "get", n |-> n])]

\* begin() of the prompt.
PromptBegin(u, known) ==
  [Begin([u EXCEPT !.user = known, !.list = FALSE]) EXCEPT
     !.status = "verifying", !.sensitive = FALSE]

\* The dialog on 'reset': the unlock dialog knows its user, the greeter asks who it is.
OnReset(u) == IF u.mode = "unlock" THEN PromptBegin(u, TRUE)
              ELSE IF u.card THEN PromptBegin(u, FALSE)
              ELSE [u EXCEPT !.list = TRUE]

Idle == [mode |-> "unlock", status |-> "idle", begun |-> 0, cancel |-> 0, cancelled |-> {},
         verifier |-> 0, talk |-> "off", calls |-> <<>>, waiters |-> <<>>, pending |-> FALSE,
         more |-> 0, timer |-> FALSE, querying |-> 0, preempt |-> FALSE, sensitive |-> TRUE,
         card |-> FALSE, user |-> FALSE, fails |-> 0, list |-> FALSE, done |-> FALSE,
         twice |-> FALSE, stray |-> FALSE]

Init == \E m \in {"unlock", "login"} :
          uv = [OnReset([Idle EXCEPT !.mode = m]) EXCEPT !.sensitive = TRUE]
-----------------------------------------------------------------------------
\* call_answer_query() on the verifier there is now; without one the call throws.
Deliver(u, n) == IF u.verifier = 0 THEN u
                 ELSE IF u.verifier = n
                 THEN [u EXCEPT !.talk = IF @ = "asked" THEN "on" ELSE @]
                 ELSE [u EXCEPT !.stray = TRUE]

\* answerQuery()
AnswerQuery(u) == IF u.pending
                  THEN [u EXCEPT !.waiters = Append(@, [k |-> "answer", n |-> u.querying])]
                  ELSE Deliver(u, u.querying)

\* The first half of clear(): cancellable and verifier go.
Dropped(u) == [u EXCEPT !.cancelled = @ \cup ({u.cancel} \ {0}), !.cancel = 0,
                        !.verifier = 0, !.talk = "off"]

\* What a handler of 'no-more-messages' does when clear() has emptied the verifier already:
\* nothing can be answered or retried; giving up resets the prompt, which begins anew.
RunCleared(u, w) ==
  CASE w.k = "giveup" -> OnReset([u EXCEPT !.fails = 0, !.status = "idle", !.querying = 0,
                                           !.preempt = FALSE])
    [] w.k = "finish" -> [Dropped(u) EXCEPT !.done = TRUE]
    [] OTHER -> u

\* An operator applied for the elements of a sequence one after the other.
RunEach(Op(_, _), u, s) ==
  LET run[i \in 0..Len(s)] == IF i = 0 THEN u ELSE Op(run[i - 1], s[i])
  IN run[Len(s)]
RunAllCleared(u, s) == RunEach(RunCleared, u, s)

\* The messages are no longer read: pending is reset, then the handlers run in their order.
NoMore(u) == [u EXCEPT !.pending = FALSE, !.more = 0, !.waiters = <<>>]

\* clear(), with finishMessageQueue() in it
Clear(u) == [RunAllCleared(NoMore(Dropped(u)), IF u.pending THEN u.waiters ELSE <<>>)
             EXCEPT !.timer = FALSE]

\* cancel() of the verifier: without a verifier only the cancellable is cancelled.
Cancel(u) == IF u.verifier = 0 THEN [u EXCEPT !.cancelled = @ \cup ({u.cancel} \ {0})]
             ELSE Clear(u)

\* Mutant of Reset: the prompt is shown again without the verifier being cancelled.
ResetKeeping(u) == OnReset([u EXCEPT !.status = "idle", !.preempt = FALSE, !.querying = 0])

\* reset() of the prompt, with the dialog's handler
Reset(u) == OnReset([Cancel([u EXCEPT !.status = "idle", !.preempt = FALSE])
                     EXCEPT !.querying = 0])

\* _cancelAndReset()
CancelAndReset(u) == Reset([Cancel(u) EXCEPT !.fails = 0, !.status = "idle"])

\* A handler of 'no-more-messages' when the last message has been read.
RunWaiter(u, w) ==
  CASE w.k = "answer" -> Deliver(u, w.n)
    [] w.k = "retry"  -> IF Live(u, u.cancel) THEN Begin(u) ELSE u
    [] w.k = "giveup" -> CancelAndReset(u)
    [] w.k = "finish" -> [Clear(u) EXCEPT !.done = TRUE]
RunAllWaiters(u, s) == RunEach(RunWaiter, u, s)

\* _queueMessage()
QueueMessage(u) == IF u.timer THEN [u EXCEPT !.pending = TRUE, !.more = 1]
                   ELSE [u EXCEPT !.pending = TRUE, !.timer = TRUE]

\* Mutant of VerificationFailed: who may not try again is not sent back to the start.
FailedForGood(u, retry) ==
  [u EXCEPT !.fails = @ + 1, !.querying = 0, !.status = "failed", !.sensitive = retry]

\* _verificationFailed(): retry or give up, at once or after the messages; then the prompt
\* hears that it failed.
VerificationFailed(u, retry) ==
  LET can == retry /\ u.user /\ (u.mode = "unlock" \/ u.fails + 1 < Allowed)
      f   == [u EXCEPT !.fails = @ + 1]
      v   == IF u.pending
             THEN [f EXCEPT !.waiters =
                     Append(@, [k |-> IF can THEN "retry" ELSE "giveup", n |-> u.cancel])]
             ELSE IF can THEN Begin(f) ELSE CancelAndReset(f)
  IN [v EXCEPT !.querying = 0, !.status = "failed", !.sensitive = can]

\* _reportInitError()
InitError(u) == VerificationFailed(QueueMessage(u), FALSE)

\* The calls are answered in their order: one that was cancelled before those made later.
Head1 == IF uv.calls = <<>> THEN [k |-> "none", n |-> 0] ELSE Head(uv.calls)
Answered == [uv EXCEPT !.calls = Tail(@)]
Answers(k) == Head1.k = k /\ Head1.n \notin uv.cancelled
On == ~uv.done
Room == uv.begun + Len(uv.waiters) + 2 <= MaxAttempts

\* A cancelled call returns; of opening a channel the verifier is cleared first.
CallCancelled == /\ On /\ uv.calls # <<>> /\ Head1.n \in uv.cancelled
                 /\ uv' = IF Head1.k = "start" THEN Answered
                          ELSE [Answered EXCEPT !.verifier = 0, !.talk = "off"]

\* _reauthenticationChannelOpened(), _userVerifierGot(): verification is begun, with the
\* cancellable of now.
Opened(k) == /\ On /\ Answers(k)
             /\ uv' = [Answered EXCEPT !.verifier = Head1.n, !.talk = "off",
                         !.calls = Append(@, [k |-> "start", n |-> uv.cancel])]

\* No session to authenticate again: the greeter verifies by itself.
AccessDenied == /\ On /\ Answers("channel") /\ uv.mode = "login"
                /\ uv' = [Answered EXCEPT !.calls = Append(@, [k |-> "get", n |-> uv.cancel]),
                                          !.verifier = 0, !.talk = "off"]

OpenFailed(k) == /\ On /\ Room /\ Answers(k)
                 /\ uv' = InitError([Answered EXCEPT !.verifier = 0, !.talk = "off"])

\* _startService() returns.
Started == /\ On /\ Answers("start")
           /\ uv' = [Answered EXCEPT !.talk = IF uv.verifier = 0 THEN "off" ELSE "on"]
StartFailed == On /\ Room /\ Answers("start") /\ uv' = InitError(Answered)

Talking == On /\ uv.talk \in {"on", "asked"}

\* 'info', 'problem'
Message == /\ Talking /\ uv.more = 0 /\ uv.status # "succeeded"
           /\ uv' = QueueMessage(uv)

MessageTimeout ==
  /\ On /\ Room /\ uv.timer
  /\ uv' = IF uv.more = 1 THEN [uv EXCEPT !.more = 0]
           ELSE LET u == [uv EXCEPT !.timer = FALSE]
                IN IF u.pending THEN RunAllWaiters(NoMore(u), u.waiters) ELSE u

\* 'info-query' and 'secret-info-query': what was typed before is the answer.
AskQuestion ==
  /\ Talking /\ uv.talk = "on" /\ uv.status # "succeeded"
  /\ LET u == [uv EXCEPT !.talk = "asked", !.querying = uv.verifier]
     IN uv' = IF uv.preempt THEN AnswerQuery([u EXCEPT !.preempt = FALSE])
              ELSE [u EXCEPT !.sensitive = TRUE]

\* 'next': the user has typed.
NextPressed == /\ On /\ uv.sensitive /\ ~uv.list
               /\ LET u == [uv EXCEPT !.sensitive = FALSE]
                  IN uv' = IF uv.querying # 0 THEN AnswerQuery(u) ELSE [u EXCEPT !.preempt = TRUE]

ConversationStopped == /\ Talking /\ Room /\ uv.status # "succeeded"
                       /\ uv' = VerificationFailed([uv EXCEPT !.talk = "off"], TRUE)

VerificationComplete == /\ Talking /\ uv.talk = "on"
                        /\ uv' = [uv EXCEPT !.talk = "off", !.status = "succeeded"]

\* 'reset' of GDM
RemoteReset == /\ On /\ Room /\ uv.verifier # 0
               /\ uv' = Reset([uv EXCEPT !.fails = 0, !.status = "idle"])

\* cancel() of the prompt: Escape, the button, nobody there.
Escape == On /\ Room /\ uv.status # "succeeded" /\ ~uv.list /\ uv' = Reset(uv)

\* _checkForSmartcard(), the password being the default service
Smartcard == /\ On /\ Room
             /\ LET u == [uv EXCEPT !.card = ~@]
                IN uv' = IF uv.status = "succeeded" THEN u ELSE Reset(u)

\* The user is chosen in the list, or named.
PickUser == On /\ Room /\ uv.list /\ uv' = PromptBegin(uv, TRUE)

\* finish(): the session is unlocked or opened.
Finish ==
  /\ On /\ (uv.mode = "login" => uv.status = "succeeded")
  /\ ~\E w \in Range(uv.waiters) : w.k = "finish"
  /\ uv' = IF uv.pending THEN [uv EXCEPT !.waiters = Append(@, [k |-> "finish", n |-> 0])]
           ELSE [Clear(uv) EXCEPT !.done = TRUE]

Next == \/ CallCancelled \/ AccessDenied \/ Started \/ StartFailed \/ Message \/ MessageTimeout
        \/ \E k \in {"channel", "get"} : Opened(k) \/ OpenFailed(k)
        \/ AskQuestion \/ NextPressed \/ ConversationStopped \/ VerificationComplete
        \/ RemoteReset \/ Escape \/ Smartcard \/ PickUser \/ Finish

Spec == Init /\ [][Next]_uvVars
-----------------------------------------------------------------------------
TypeOK == uv \in State

\* A prompt that has neither succeeded nor been left is never dead: GDM has a call of it to
\* answer or a conversation going on, or a message is being read after which it tries again.
PromptGoesOn ==
  uv.status = "succeeded" \/ uv.list \/ uv.done
  \/ (\E c \in Range(uv.calls) : Live(uv, c.n))
  \/ (uv.verifier # 0 /\ uv.talk # "off")
  \/ (uv.pending /\ uv.timer /\ \E w \in Range(uv.waiters) : w.k \in {"retry", "giveup"})

\* As long as no attempt was begun beside one under way, the question on the screen is the
\* one of the verifier that would get the answer, and no answer has gone to another.
AnswerGoesToAsker ==
  ~uv.twice => ~uv.stray /\ (uv.querying # 0 /\ ~uv.done => uv.querying = uv.verifier)
=============================================================================
