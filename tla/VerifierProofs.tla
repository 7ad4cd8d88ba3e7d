---------------------------- MODULE VerifierProofs ----------------------------
(* Proofs about GDM's verifier and its prompt: a prompt goes on until it has succeeded or *)
(* has been left, and an answer goes to the verifier that asked, for every number of      *)
(* attempts, calls, messages and handlers that wait for them. The inductive invariant is  *)
(* VerifierGood; a lemma for each operation, fold rules for what runs the handlers, and   *)
(* the three groups of actions at the end.                                                *)
EXTENDS ExtensionProofs
-----------------------------------------------------------------------------

\* The number of an attempt is at most that of the last one; waiters wait for messages.
Numbered(u) ==
  /\ u.cancel <= u.begun
  /\ \A n \in u.cancelled : n <= u.begun
  /\ \A i \in 1..Len(u.calls) : u.calls[i].n <= u.begun
Messages(u) ==
  /\ ~u.pending => u.waiters = <<>>
  /\ u.pending => u.timer
  /\ u.verifier = 0 => u.talk = "off"
VerifierBase(u) == u \in UserVerifier!State /\ Numbered(u) /\ Messages(u)

\* The calls that will be answered, and those of them that open a channel.
Opens == {"channel", "get"}
LiveAt(u, i) == UserVerifier!Live(u, u.calls[i].n)
LiveCall(u) == \E i \in 1..Len(u.calls) : LiveAt(u, i)
OpenCall(u) == \E i \in 1..Len(u.calls) : u.calls[i].k \in Opens /\ LiveAt(u, i)
Waits(u, K) == \E i \in 1..Len(u.waiters) : u.waiters[i].k \in K

\* A prompt that is on the screen has a cancellable of its own; a channel that was cancelled
\* has a later one behind it, so the verifier that its answer clears is not the last.
Renewed(u) == \A i \in 1..Len(u.calls) : u.calls[i].k \in Opens /\ ~LiveAt(u, i) =>
  \E j \in 1..Len(u.calls) : j > i /\ u.calls[j].k \in Opens /\ LiveAt(u, j)
Attending(u) == ~u.list /\ ~u.done => UserVerifier!Live(u, u.cancel) /\ Renewed(u)
\* What goes on at once, and what goes on when the messages have been read.
Underway(u) ==
  \/ u.status = "succeeded" \/ u.list \/ u.done \/ OpenCall(u)
  \/ u.verifier # 0 /\ (u.talk # "off" \/ LiveCall(u))
Awaited(u) == u.pending /\ Waits(u, {"retry", "giveup"})

\* As long as no attempt was begun beside another, at most the last call will be answered,
\* and nothing is asked and no answer is kept while it is under way.
LastLive(u) == \A i \in 1..Len(u.calls) :
  u.calls[i].n # 0 /\ (LiveAt(u, i) => u.calls[i].n = u.cancel /\ i = Len(u.calls))
OneTalk(u) ==
  /\ LastLive(u)
  /\ u.verifier # 0 => \A i \in 1..Len(u.calls) : u.calls[i].k \in Opens => LiveAt(u, i)
  /\ LiveCall(u) => u.talk = "off" /\ u.querying = 0 /\ ~Waits(u, {"answer"})
  /\ u.list => u.verifier = 0 /\ ~LiveCall(u) /\ ~UserVerifier!Live(u, u.cancel)
  /\ u.querying # 0 => u.querying = u.verifier
  /\ \A i \in 1..Len(u.waiters) : u.waiters[i].k = "answer" =>
       u.verifier # 0 /\ u.waiters[i].n = u.verifier
  /\ Waits(u, {"retry"}) =>
       u.verifier # 0 /\ u.talk = "off" /\ u.querying = 0 /\ ~LiveCall(u)
AskedAlone(u) == ~u.twice => ~u.stray /\ (~u.done => OneTalk(u))

VerifierKept(u) == VerifierBase(u) /\ Attending(u) /\ AskedAlone(u)
VerifierGood(u) == VerifierKept(u) /\ (Underway(u) \/ Awaited(u))

\* What is so before a cancellation, and after it until the prompt begins again.
Cancellable(u) == VerifierBase(u) /\ (~u.twice => ~u.stray /\ (~u.done =>
  LastLive(u) /\ (u.verifier = 0 => ~Waits(u, {"answer", "retry"}))))
Gone(u) == VerifierBase(u) /\ u.verifier = 0 /\ (~u.twice => ~u.stray /\ (~u.done =>
  /\ LastLive(u) /\ ~Waits(u, {"answer", "retry"})
  /\ UserVerifier!Live(u, u.cancel) \/ LiveCall(u) => u.mode = "unlock" \/ u.card))

LEMMA VerifierFields ==
  ASSUME NEW u \in UserVerifier!State
  PROVE  /\ u.mode \in {"unlock", "login"}
         /\ u.status \in {"idle", "verifying", "failed", "succeeded"}
         /\ u.begun \in 0..LoginTries /\ u.cancel \in 0..LoginTries
         /\ u.cancelled \in SUBSET (1..LoginTries) /\ u.verifier \in 0..LoginTries
         /\ u.talk \in {"off", "on", "asked"}
         /\ u.calls \in Seq(UserVerifier!Calls) /\ u.waiters \in Seq(UserVerifier!Waiters)
         /\ u.pending \in BOOLEAN /\ u.more \in 0..1 /\ u.timer \in BOOLEAN
         /\ u.querying \in 0..LoginTries /\ u.fails \in Nat
         /\ u.list \in BOOLEAN /\ u.done \in BOOLEAN /\ u.card \in BOOLEAN
         /\ u.user \in BOOLEAN /\ u.twice \in BOOLEAN /\ u.stray \in BOOLEAN
         /\ u.sensitive \in BOOLEAN /\ u.preempt \in BOOLEAN
         /\ \A i \in 1..Len(u.calls) : /\ u.calls[i].k \in {"channel", "get", "start"}
                                       /\ u.calls[i].n \in 0..LoginTries
<1>1. /\ u.calls \in Seq(UserVerifier!Calls) /\ u.begun \in 0..LoginTries
      /\ u.cancel \in 0..LoginTries /\ u.verifier \in 0..LoginTries
      /\ u.querying \in 0..LoginTries /\ u.cancelled \in SUBSET (1..LoginTries)
  BY DEF UserVerifier!State, UserVerifier!Attempts
<1>2. \A i \in 1..Len(u.calls) : u.calls[i] \in UserVerifier!Calls
  BY <1>1
<1>3. \A i \in 1..Len(u.calls) : /\ u.calls[i].k \in {"channel", "get", "start"}
                                 /\ u.calls[i].n \in 0..LoginTries
  BY <1>2 DEF UserVerifier!Calls, UserVerifier!Attempts
<1> QED
  BY <1>1, <1>3 DEF UserVerifier!State

\* What a new attempt changes.
NewAttempt(u, v) ==
  /\ v.begun = u.begun + 1 /\ v.cancel = u.begun + 1 /\ v.cancelled = u.cancelled
  /\ \E k \in Opens : v.calls = Append(u.calls, [k |-> k, n |-> u.begun + 1])
  /\ v.twice <=> u.twice \/ LiveCall(u)
  /\ v.mode = u.mode /\ v.verifier = u.verifier /\ v.talk = u.talk /\ v.waiters = u.waiters
  /\ v.pending = u.pending /\ v.timer = u.timer /\ v.querying = u.querying
  /\ v.card = u.card /\ v.done = u.done /\ v.stray = u.stray

LEMMA BeginFields ==
  ASSUME NEW u \in UserVerifier!State, u.begun < LoginTries
  PROVE  LET v == UserVerifier!Begin(u)
         IN v \in UserVerifier!State /\ NewAttempt(u, v) /\ v.list = u.list /\ v.status = u.status
            /\ v.more = u.more
<1> DEFINE c == [k |-> IF u.user THEN "channel" ELSE "get", n |-> u.begun + 1]
           t == u.twice \/ \E d \in UserVerifier!Range(u.calls) : UserVerifier!Live(u, d.n)
           v == [u EXCEPT !.begun = u.begun + 1, !.cancel = u.begun + 1, !.twice = t,
                          !.calls = Append(u.calls, c)]
<1>1. /\ u.begun + 1 \in 0..LoginTries /\ u.calls \in Seq(UserVerifier!Calls)
      /\ u.user \in BOOLEAN /\ u.twice \in BOOLEAN
  BY VerifierFields, AgentsAssumption
<1>2. c \in UserVerifier!Calls /\ c.k \in Opens
  BY <1>1 DEF UserVerifier!Calls, UserVerifier!Attempts, Opens
<1>3. t \in BOOLEAN /\ (t <=> u.twice \/ LiveCall(u))
  BY <1>1 DEF LiveCall, LiveAt, UserVerifier!Range
<1>4. UserVerifier!Begin(u) = v
  BY DEF UserVerifier!Begin
<1> HIDE DEF t
<1>5. Append(u.calls, c) \in Seq(UserVerifier!Calls)
  BY <1>1, <1>2
<1>6. v \in UserVerifier!State
  BY <1>1, <1>3, <1>5 DEF UserVerifier!State, UserVerifier!Attempts
<1>7. /\ v.begun = u.begun + 1 /\ v.cancel = u.begun + 1 /\ v.cancelled = u.cancelled
      /\ v.calls = Append(u.calls, c) /\ v.twice = t
      /\ v.mode = u.mode /\ v.verifier = u.verifier /\ v.talk = u.talk /\ v.waiters = u.waiters
      /\ v.pending = u.pending /\ v.timer = u.timer /\ v.querying = u.querying
      /\ v.card = u.card /\ v.done = u.done /\ v.stray = u.stray
      /\ v.list = u.list /\ v.status = u.status /\ v.more = u.more
  BY DEF UserVerifier!State
<1> QED
  BY <1>2, <1>3, <1>4, <1>6, <1>7 DEF NewAttempt

\* Its call is the last, and will be answered; those before it are what they were.
LEMMA BegunCalls ==
  ASSUME NEW u, VerifierBase(u), NEW v \in UserVerifier!State, NewAttempt(u, v)
  PROVE  /\ VerifierBase(v) /\ Len(v.calls) = Len(u.calls) + 1
         /\ v.calls[Len(v.calls)].k \in Opens /\ v.calls[Len(v.calls)].n = v.cancel
         /\ LiveAt(v, Len(v.calls)) /\ UserVerifier!Live(v, v.cancel)
         /\ \A i \in 1..Len(u.calls) : /\ v.calls[i] = u.calls[i]
                                       /\ LiveAt(v, i) <=> LiveAt(u, i)
         /\ OpenCall(v) /\ Renewed(v)
<1>1. PICK k \in Opens : v.calls = Append(u.calls, [k |-> k, n |-> u.begun + 1])
  BY DEF NewAttempt
<1>2. u \in UserVerifier!State
  BY DEF VerifierBase
<1>3. u.calls \in Seq(UserVerifier!Calls) /\ u.begun \in Nat /\ u.cancelled \subseteq Int
      /\ Len(u.calls) \in Nat
      /\ \A i \in 1..Len(u.calls) : u.calls[i].n \in Nat
  BY <1>2, VerifierFields, AgentsAssumption
<1>4. /\ Len(v.calls) = Len(u.calls) + 1
      /\ v.calls[Len(u.calls) + 1] = [k |-> k, n |-> u.begun + 1]
      /\ \A i \in 1..Len(u.calls) : v.calls[i] = u.calls[i]
  BY <1>1, <1>3
<1>5. u.begun + 1 # 0 /\ u.begun + 1 \notin v.cancelled
  BY <1>3 DEF VerifierBase, Numbered, NewAttempt
<1>6. LiveAt(v, Len(v.calls)) /\ UserVerifier!Live(v, v.cancel)
      /\ v.calls[Len(v.calls)].k = k /\ v.calls[Len(v.calls)].n = v.cancel
  BY <1>4, <1>5 DEF LiveAt, UserVerifier!Live, NewAttempt
<1>7. \A i \in 1..Len(u.calls) : LiveAt(v, i) <=> LiveAt(u, i)
  BY <1>4 DEF LiveAt, UserVerifier!Live, NewAttempt
<1>8. Numbered(v)
  <2>1. \A i \in 1..Len(v.calls) : i \in 1..Len(u.calls) \/ i = Len(u.calls) + 1
    BY <1>3, <1>4
  <2>2. \A i \in 1..Len(v.calls) : v.calls[i].n <= v.begun
    BY <2>1, <1>3, <1>4 DEF VerifierBase, Numbered, NewAttempt
  <2> QED
    BY <2>2, <1>3 DEF VerifierBase, Numbered, NewAttempt
<1>9. Messages(v)
  BY DEF VerifierBase, Messages, NewAttempt
<1>10. OpenCall(v) /\ Renewed(v)
  <2>1. Len(v.calls) \in 1..Len(v.calls) /\ \A i \in 1..Len(v.calls) :
          i = Len(v.calls) \/ Len(v.calls) > i
    BY <1>3, <1>4
  <2> QED
    BY <2>1, <1>6 DEF OpenCall, Renewed
<1> QED
  BY <1>4, <1>6, <1>7, <1>8, <1>9, <1>10 DEF VerifierBase

LEMMA BegunLast ==
  ASSUME NEW u, VerifierBase(u), LastLive(u), NEW v \in UserVerifier!State,
         NewAttempt(u, v), ~v.twice
  PROVE  LastLive(v) /\ ~u.twice /\ ~LiveCall(u)
<1>1. ~u.twice /\ ~LiveCall(u)
  BY DEF NewAttempt
<1>2. u.begun \in Nat /\ Len(u.calls) \in Nat
  BY VerifierFields DEF VerifierBase
<1>3. \A i \in 1..Len(v.calls) : i \in 1..Len(u.calls) \/ i = Len(v.calls)
  BY <1>2, BegunCalls
<1>4. ASSUME NEW i \in 1..Len(u.calls) PROVE v.calls[i].n # 0 /\ ~LiveAt(v, i)
  BY <1>1, BegunCalls DEF LastLive, LiveCall
<1>5. v.calls[Len(v.calls)].n # 0 /\ v.calls[Len(v.calls)].n = v.cancel
  BY <1>2, BegunCalls DEF UserVerifier!Live
<1> QED
  BY <1>1, <1>3, <1>4, <1>5 DEF LastLive

\* Which calls are live is a matter of the calls and of what was cancelled.
LEMMA LiveSame ==
  ASSUME NEW u, NEW v, v.calls = u.calls, v.cancelled = u.cancelled
  PROVE  /\ \A n : UserVerifier!Live(v, n) <=> UserVerifier!Live(u, n)
         /\ \A i : LiveAt(v, i) <=> LiveAt(u, i)
         /\ LiveCall(v) <=> LiveCall(u)
         /\ OpenCall(v) <=> OpenCall(u)
         /\ Renewed(v) <=> Renewed(u)
<1>1. \A n : UserVerifier!Live(v, n) <=> UserVerifier!Live(u, n)
  BY DEF UserVerifier!Live
<1>2. \A i : LiveAt(v, i) <=> LiveAt(u, i)
  BY <1>1 DEF LiveAt
<1> QED
  BY <1>1, <1>2 DEF LiveCall, OpenCall, Renewed

LEMMA PromptBeginFields ==
  ASSUME NEW u \in UserVerifier!State, u.begun < LoginTries, NEW known \in BOOLEAN
  PROVE  LET v == UserVerifier!PromptBegin(u, known)
         IN v \in UserVerifier!State /\ NewAttempt(u, v) /\ ~v.list /\ v.status = "verifying"
            /\ v.more = u.more
<1> DEFINE w == [u EXCEPT !.user = known, !.list = FALSE]
           x == UserVerifier!Begin(w)
           v == [x EXCEPT !.status = "verifying", !.sensitive = FALSE]
<1>1. /\ w \in UserVerifier!State /\ w.begun = u.begun /\ w.calls = u.calls
      /\ w.cancelled = u.cancelled /\ w.twice = u.twice /\ ~w.list /\ w.more = u.more
      /\ w.mode = u.mode /\ w.verifier = u.verifier /\ w.talk = u.talk /\ w.waiters = u.waiters
      /\ w.pending = u.pending /\ w.timer = u.timer /\ w.querying = u.querying
      /\ w.card = u.card /\ w.done = u.done /\ w.stray = u.stray
  BY DEF UserVerifier!State
<1> HIDE DEF w
<1>2. x \in UserVerifier!State /\ NewAttempt(w, x) /\ x.list = w.list /\ x.more = w.more
  BY <1>1, BeginFields
<1> HIDE DEF x
<1>3. /\ v \in UserVerifier!State /\ v.begun = x.begun /\ v.cancel = x.cancel
      /\ v.calls = x.calls /\ v.list = x.list /\ v.status = "verifying" /\ v.more = x.more
      /\ v.cancelled = x.cancelled /\ v.twice = x.twice
      /\ v.mode = x.mode /\ v.verifier = x.verifier /\ v.talk = x.talk /\ v.waiters = x.waiters
      /\ v.pending = x.pending /\ v.timer = x.timer /\ v.querying = x.querying
      /\ v.card = x.card /\ v.done = x.done /\ v.stray = x.stray
  BY <1>2 DEF UserVerifier!State
<1>4. UserVerifier!PromptBegin(u, known) = v
  BY DEF UserVerifier!PromptBegin, w, x
<1>5. LiveCall(w) <=> LiveCall(u)
  BY <1>1, LiveSame
<1> HIDE DEF v
<1>6. NewAttempt(u, v)
  BY <1>1, <1>2, <1>3, <1>5 DEF NewAttempt
<1> QED
  BY <1>1, <1>2, <1>3, <1>4, <1>6

\* The prompt begins anew: by an attempt, or by letting the user choose.
Restarted(u, v) ==
  /\ VerifierKept(v) /\ Gone(v) /\ (v.list \/ OpenCall(v))
  /\ v.begun <= u.begun + 1 /\ v.done = u.done /\ (u.twice => v.twice)
  /\ v.pending = u.pending /\ v.waiters = u.waiters /\ v.timer = u.timer
  /\ v.talk = "off" /\ v.querying = 0

LEMMA OnResetGood ==
  ASSUME NEW u, Gone(u), u.querying = 0, u.begun < LoginTries
  PROVE  Restarted(u, UserVerifier!OnReset(u))
<1>0. /\ u \in UserVerifier!State /\ VerifierBase(u) /\ u.verifier = 0 /\ u.talk = "off"
      /\ u.begun \in Nat /\ Len(u.calls) \in Nat
  BY VerifierFields DEF Gone, VerifierBase, Messages
<1>1. ASSUME NEW v \in UserVerifier!State, NewAttempt(u, v), ~v.list,
             u.mode = "unlock" \/ u.card
      PROVE  Restarted(u, v)
  <2>1. /\ VerifierBase(v) /\ OpenCall(v) /\ Renewed(v) /\ UserVerifier!Live(v, v.cancel)
        /\ Len(v.calls) = Len(u.calls) + 1 /\ LiveAt(v, Len(v.calls))
    BY <1>0, <1>1, BegunCalls
  <2>2. /\ v.begun = u.begun + 1 /\ v.verifier = 0 /\ v.talk = "off" /\ v.waiters = u.waiters
        /\ v.pending = u.pending /\ v.timer = u.timer /\ v.querying = 0 /\ v.mode = u.mode
        /\ v.card = u.card /\ v.done = u.done /\ v.stray = u.stray /\ (u.twice => v.twice)
    BY <1>0, <1>1 DEF NewAttempt
  <2>3. ASSUME ~v.twice, ~v.done
        PROVE  ~v.stray /\ LastLive(v) /\ ~Waits(v, {"answer", "retry"})
    <3>1. ~u.stray /\ LastLive(u) /\ ~Waits(u, {"answer", "retry"})
      BY <2>2, <2>3 DEF Gone
    <3>2. LastLive(v)
      BY <3>1, <1>0, <1>1, <2>3, BegunLast
    <3> QED
      BY <3>1, <3>2, <2>2 DEF Waits
  <2>4. ~v.twice => ~v.stray
    BY <2>2 DEF Gone
  <2>5. AskedAlone(v)
    <3>1. ASSUME ~v.twice, ~v.done PROVE OneTalk(v)
      <4>1. LastLive(v) /\ ~Waits(v, {"answer"}) /\ ~Waits(v, {"retry"})
            /\ \A i \in 1..Len(v.waiters) : v.waiters[i].k # "answer"
        BY <3>1, <2>3 DEF Waits
      <4> QED
        BY <4>1, <1>1, <2>2 DEF OneTalk
    <3> QED
      BY <3>1, <2>4 DEF AskedAlone
  <2>6. Gone(v)
    BY <2>1, <2>2, <2>3, <2>4, <1>1 DEF Gone
  <2> QED
    BY <2>1, <2>2, <2>5, <2>6, <1>0 DEF Restarted, VerifierKept, Attending
<1>2. ASSUME u.mode # "unlock", ~u.card PROVE Restarted(u, [u EXCEPT !.list = TRUE])
  <2> DEFINE v == [u EXCEPT !.list = TRUE]
  <2>1. /\ v \in UserVerifier!State /\ v.begun = u.begun /\ v.cancel = u.cancel
        /\ v.calls = u.calls /\ v.cancelled = u.cancelled /\ v.twice = u.twice /\ v.list
        /\ v.mode = u.mode /\ v.verifier = u.verifier /\ v.talk = u.talk /\ v.waiters = u.waiters
        /\ v.pending = u.pending /\ v.timer = u.timer /\ v.querying = u.querying
        /\ v.card = u.card /\ v.done = u.done /\ v.stray = u.stray
    BY <1>0 DEF UserVerifier!State
  <2> HIDE DEF v
  <2>2. VerifierBase(v)
    BY <1>0, <2>1 DEF VerifierBase, Numbered, Messages
  <2>3. /\ \A n : UserVerifier!Live(v, n) <=> UserVerifier!Live(u, n)
        /\ \A i : LiveAt(v, i) <=> LiveAt(u, i)
        /\ LiveCall(v) <=> LiveCall(u)
    BY <2>1, LiveSame
  <2>4. ASSUME ~v.twice, ~v.done PROVE OneTalk(v)
    <3>1. LastLive(u) /\ ~Waits(u, {"answer", "retry"}) /\ ~UserVerifier!Live(u, u.cancel)
          /\ ~LiveCall(u)
      BY <1>2, <2>1, <2>4 DEF Gone
    <3>2. LastLive(v)
      BY <3>1, <2>1, <2>3 DEF LastLive
    <3>3. ~Waits(v, {"answer"}) /\ ~Waits(v, {"retry"})
          /\ \A i \in 1..Len(v.waiters) : v.waiters[i].k # "answer"
      BY <3>1, <2>1 DEF Waits
    <3> QED
      BY <3>1, <3>2, <3>3, <2>1, <2>3, <1>0 DEF OneTalk
  <2>5. ~v.twice => ~v.stray
    BY <2>1 DEF Gone
  <2>6. Gone(v)
    <3>1. ASSUME ~v.twice, ~v.done
          PROVE  LastLive(v) /\ ~Waits(v, {"answer", "retry"})
                 /\ ~UserVerifier!Live(v, v.cancel) /\ ~LiveCall(v)
      <4>1. LastLive(v) /\ ~LiveCall(v) /\ ~UserVerifier!Live(v, v.cancel)
        BY <3>1, <2>1, <2>4 DEF OneTalk
      <4>2. ~Waits(u, {"answer", "retry"})
        BY <3>1, <2>1 DEF Gone
      <4> QED
        BY <4>1, <4>2, <2>1 DEF Waits
    <3> QED
      BY <3>1, <2>1, <2>2, <2>5, <1>0 DEF Gone
  <2>7. Restarted(u, v)
    BY <2>1, <2>2, <2>4, <2>5, <2>6, <1>0 DEF Restarted, VerifierKept, Attending, AskedAlone
  <2> QED
    BY <2>7 DEF v
<1>3. CASE u.mode = "unlock"
  BY <1>0, <1>1, <1>3, PromptBeginFields DEF UserVerifier!OnReset
<1>4. CASE u.mode # "unlock" /\ u.card
  BY <1>0, <1>1, <1>4, PromptBeginFields DEF UserVerifier!OnReset
<1>5. CASE u.mode # "unlock" /\ ~u.card
  BY <1>2, <1>5 DEF UserVerifier!OnReset
<1> QED
  BY <1>3, <1>4, <1>5

\* The fold rules of what runs the handlers of 'no-more-messages'.
LEMMA ClearedFold ==
  ASSUME NEW S, NEW s \in Seq(S), NEW a, NEW G, a \in G[0],
         \A i \in 1..Len(s) : \A x \in G[i - 1] : UserVerifier!RunCleared(x, s[i]) \in G[i]
  PROVE  UserVerifier!RunAllCleared(a, s) \in G[Len(s)]
<1> DEFINE n == Len(s)
           Is(f) == f = [i \in 0..n |->
                           IF i = 0 THEN a ELSE UserVerifier!RunCleared(f[i - 1], s[i])]
           h == [i \in 1..n |-> [x \in G[i - 1] |-> UserVerifier!RunCleared(x, s[i])]]
<1>1. n \in Nat
  OBVIOUS
<1>2. \A i \in 1..n : \A x \in G[i - 1] :
        h[i][x] = UserVerifier!RunCleared(x, s[i]) /\ h[i][x] \in G[i]
  OBVIOUS
<1> HIDE DEF h
<1>3. PICK f : Steps(f, n, a, h) /\ \A i \in 0..n : f[i] \in G[i]
  <2>1. Family(G, n, a, h)
    BY <1>2 DEF Family
  <2> HIDE DEF n
  <2> QED
    BY <1>1, <2>1, StepsExist
<1>4. ASSUME NEW i \in 0..n
      PROVE  f[i] = IF i = 0 THEN a ELSE UserVerifier!RunCleared(f[i - 1], s[i])
  <2>1. f[i] = IF i = 0 THEN a ELSE h[i][f[i - 1]]
    BY <1>3, Zenon DEF Steps
  <2>2. i # 0 => i \in 1..n /\ i - 1 \in 0..n
    BY SMT
  <2> QED
    BY <2>1, <2>2, <1>2, <1>3
<1>5. Is(f)
  <2>1. f = [i \in 0..n |-> f[i]]
    BY <1>3, Zenon DEF Steps
  <2> HIDE DEF n
  <2> QED
    BY <2>1, <1>4, Zenon
<1> DEFINE g == CHOOSE g : Is(g)
<1>6. Is(g)
  BY <1>5
<1>7. UserVerifier!RunAllCleared(a, s) = g[n]
  BY DEF UserVerifier!RunAllCleared, UserVerifier!RunEach
<1> HIDE DEF g, n
<1>8. \A i \in 0..n : g[i] = f[i]
  <2> DEFINE T == {i \in 0..n : g[i] = f[i]}
  <2>1. 0 \in T
    <3>1. 0 \in 0..n
      BY <1>1, SMT
    <3>2. g[0] = a
      BY <3>1, <1>6, Zenon
    <3> QED
      BY <3>1, <3>2, <1>4
  <2>2. ASSUME NEW i \in 0..(n - 1), i \in T PROVE i + 1 \in T
    <3>1. i + 1 \in 0..n /\ i + 1 # 0 /\ (i + 1) - 1 = i
      BY <1>1, SMT
    <3>2. g[i + 1] = UserVerifier!RunCleared(g[i], s[i + 1])
      BY <3>1, <1>6, Zenon
    <3>3. f[i + 1] = UserVerifier!RunCleared(f[i], s[i + 1])
      BY <3>1, <1>4, Zenon
    <3> QED
      BY <3>1, <3>2, <3>3, <2>2
  <2> HIDE DEF T
  <2>3. \A i \in 0..n : i \in T
    BY <1>1, <2>1, <2>2, UpTo
  <2> QED
    BY <2>3 DEF T
<1> QED
  <2>1. n \in 0..n
    BY <1>1, SMT
  <2> QED
    BY <2>1, <1>3, <1>7, <1>8 DEF n

LEMMA WaitersFold ==
  ASSUME NEW S, NEW s \in Seq(S), NEW a, NEW G, a \in G[0],
         \A i \in 1..Len(s) : \A x \in G[i - 1] : UserVerifier!RunWaiter(x, s[i]) \in G[i]
  PROVE  UserVerifier!RunAllWaiters(a, s) \in G[Len(s)]
<1> DEFINE n == Len(s)
           Is(f) == f = [i \in 0..n |->
                           IF i = 0 THEN a ELSE UserVerifier!RunWaiter(f[i - 1], s[i])]
           h == [i \in 1..n |-> [x \in G[i - 1] |-> UserVerifier!RunWaiter(x, s[i])]]
<1>1. n \in Nat
  OBVIOUS
<1>2. \A i \in 1..n : \A x \in G[i - 1] :
        h[i][x] = UserVerifier!RunWaiter(x, s[i]) /\ h[i][x] \in G[i]
  OBVIOUS
<1> HIDE DEF h
<1>3. PICK f : Steps(f, n, a, h) /\ \A i \in 0..n : f[i] \in G[i]
  <2>1. Family(G, n, a, h)
    BY <1>2 DEF Family
  <2> HIDE DEF n
  <2> QED
    BY <1>1, <2>1, StepsExist
<1>4. ASSUME NEW i \in 0..n
      PROVE  f[i] = IF i = 0 THEN a ELSE UserVerifier!RunWaiter(f[i - 1], s[i])
  <2>1. f[i] = IF i = 0 THEN a ELSE h[i][f[i - 1]]
    BY <1>3, Zenon DEF Steps
  <2>2. i # 0 => i \in 1..n /\ i - 1 \in 0..n
    BY SMT
  <2> QED
    BY <2>1, <2>2, <1>2, <1>3
<1>5. Is(f)
  <2>1. f = [i \in 0..n |-> f[i]]
    BY <1>3, Zenon DEF Steps
  <2> HIDE DEF n
  <2> QED
    BY <2>1, <1>4, Zenon
<1> DEFINE g == CHOOSE g : Is(g)
<1>6. Is(g)
  BY <1>5
<1>7. UserVerifier!RunAllWaiters(a, s) = g[n]
  BY DEF UserVerifier!RunAllWaiters, UserVerifier!RunEach
<1> HIDE DEF g, n
<1>8. \A i \in 0..n : g[i] = f[i]
  <2> DEFINE T == {i \in 0..n : g[i] = f[i]}
  <2>1. 0 \in T
    <3>1. 0 \in 0..n
      BY <1>1, SMT
    <3>2. g[0] = a
      BY <3>1, <1>6, Zenon
    <3> QED
      BY <3>1, <3>2, <1>4
  <2>2. ASSUME NEW i \in 0..(n - 1), i \in T PROVE i + 1 \in T
    <3>1. i + 1 \in 0..n /\ i + 1 # 0 /\ (i + 1) - 1 = i
      BY <1>1, SMT
    <3>2. g[i + 1] = UserVerifier!RunWaiter(g[i], s[i + 1])
      BY <3>1, <1>6, Zenon
    <3>3. f[i + 1] = UserVerifier!RunWaiter(f[i], s[i + 1])
      BY <3>1, <1>4, Zenon
    <3> QED
      BY <3>1, <3>2, <3>3, <2>2
  <2> HIDE DEF T
  <2>3. \A i \in 0..n : i \in T
    BY <1>1, <2>1, <2>2, UpTo
  <2> QED
    BY <2>3 DEF T
<1> QED
  <2>1. n \in 0..n
    BY <1>1, SMT
  <2> QED
    BY <2>1, <1>3, <1>7, <1>8 DEF n

LEMMA NoAttempt ==
  0 \in UserVerifier!Attempts /\ <<>> \in Seq(UserVerifier!Waiters) /\ 0 \in 0..1 /\ 0 \in Nat
BY AgentsAssumption DEF UserVerifier!Attempts

LEMMA Refused ==
  ASSUME NEW u \in UserVerifier!State, NEW b \in BOOLEAN
  PROVE  [u EXCEPT !.querying = 0, !.status = "failed", !.sensitive = b] \in UserVerifier!State
BY NoAttempt DEF UserVerifier!State

LEMMA GoneIsCancellable == ASSUME NEW u, Gone(u) PROVE Cancellable(u)
BY DEF Gone, Cancellable

\* Fields that neither of the two looks at.
LEMMA GoneStays ==
  ASSUME NEW u, NEW v \in UserVerifier!State, v.begun = u.begun, v.cancel = u.cancel,
         v.cancelled = u.cancelled, v.calls = u.calls, v.waiters = u.waiters,
         v.pending = u.pending, v.timer = u.timer, v.verifier = u.verifier, v.talk = u.talk,
         v.mode = u.mode, v.card = u.card, v.list = u.list,
         v.done = u.done, v.twice = u.twice, v.stray = u.stray
  PROVE  (Gone(u) => Gone(v)) /\ (Cancellable(u) => Cancellable(v))
         /\ (VerifierBase(u) => VerifierBase(v))
<1>1. /\ \A n : UserVerifier!Live(v, n) <=> UserVerifier!Live(u, n)
      /\ \A i : LiveAt(v, i) <=> LiveAt(u, i)
      /\ LiveCall(v) <=> LiveCall(u)
  BY LiveSame
<1>2. (LastLive(u) => LastLive(v)) /\ \A K : Waits(v, K) <=> Waits(u, K)
  BY <1>1 DEF LastLive, Waits
<1>3. VerifierBase(u) => VerifierBase(v)
  BY DEF VerifierBase, Numbered, Messages
<1> QED
  BY <1>1, <1>2, <1>3 DEF Gone, Cancellable

\* After the cancellable is cancelled no call of it is live.
LEMMA NoneLive ==
  ASSUME NEW u, LastLive(u), NEW v, v.calls = u.calls,
         v.cancelled = u.cancelled \cup ({u.cancel} \ {0})
  PROVE  LastLive(v) /\ ~LiveCall(v) /\ ~UserVerifier!Live(v, u.cancel)
BY DEF LastLive, LiveCall, LiveAt, UserVerifier!Live

\* clear(): its handlers run when the verifier has gone.
Silent(u) == ~u.pending /\ u.waiters = <<>>

LEMMA DroppedGone ==
  ASSUME NEW u, Cancellable(u)
  PROVE  LET v == UserVerifier!NoMore(UserVerifier!Dropped(u))
         IN /\ Gone(v) /\ Silent(v) /\ v.begun = u.begun /\ v.twice = u.twice
            /\ v.done = u.done /\ v.querying = u.querying /\ v.stray = u.stray
<1> DEFINE v == UserVerifier!NoMore(UserVerifier!Dropped(u))
<1>1. u \in UserVerifier!State /\ Numbered(u) /\ u.cancel \in 0..LoginTries /\ u.begun \in Nat
  BY VerifierFields DEF Cancellable, VerifierBase
<1>2. /\ v = [u EXCEPT !.cancelled = u.cancelled \cup ({u.cancel} \ {0}), !.cancel = 0,
                       !.verifier = 0, !.talk = "off", !.pending = FALSE, !.more = 0,
                       !.waiters = <<>>]
  BY <1>1 DEF UserVerifier!NoMore, UserVerifier!Dropped, UserVerifier!State
<1> HIDE DEF v
<1>3. /\ v.begun = u.begun /\ v.twice = u.twice /\ v.done = u.done /\ v.stray = u.stray
      /\ v.cancelled = u.cancelled \cup ({u.cancel} \ {0}) /\ v.calls = u.calls
      /\ v.cancel = 0 /\ v.verifier = 0 /\ v.talk = "off" /\ Silent(v)
      /\ v.querying = u.querying
  BY <1>1, <1>2 DEF UserVerifier!State, Silent
<1>4. v \in UserVerifier!State
  <2>1. u.cancelled \cup ({u.cancel} \ {0}) \in SUBSET (1..LoginTries)
    BY <1>1, VerifierFields
  <2> QED
    BY <1>1, <1>2, <2>1, NoAttempt DEF UserVerifier!State
<1>5. VerifierBase(v)
  BY <1>1, <1>3, <1>4 DEF VerifierBase, Numbered, Messages, Silent
<1>6. ASSUME ~v.twice, ~v.done
      PROVE  LastLive(v) /\ ~Waits(v, {"answer", "retry"})
             /\ ~UserVerifier!Live(v, v.cancel) /\ ~LiveCall(v)
  <2>1. LastLive(u)
    BY <1>3, <1>6 DEF Cancellable
  <2>2. LastLive(v) /\ ~LiveCall(v)
    BY <1>3, <2>1, NoneLive
  <2> QED
    BY <2>2, <1>3 DEF UserVerifier!Live, Waits, Silent
<1> QED
  BY <1>3, <1>5, <1>6 DEF Gone, Cancellable, v

LEMMA RunClearedStep ==
  ASSUME NEW u, Gone(u), Silent(u), u.begun < LoginTries, NEW w
  PROVE  LET v == UserVerifier!RunCleared(u, w)
         IN Gone(v) /\ Silent(v) /\ v.begun <= u.begun + 1 /\ (u.twice => v.twice)
<1>1. u \in UserVerifier!State /\ u.begun \in Nat
  BY VerifierFields DEF Gone, VerifierBase
<1>2. CASE w.k = "giveup"
  <2> DEFINE x == [u EXCEPT !.fails = 0, !.status = "idle", !.querying = 0, !.preempt = FALSE]
  <2>1. /\ x \in UserVerifier!State /\ x.querying = 0 /\ x.begun = u.begun
        /\ x.twice = u.twice /\ x.pending = u.pending /\ x.waiters = u.waiters
        /\ Gone(x)
    <3>1. x \in UserVerifier!State
      BY <1>1, NoAttempt DEF UserVerifier!State
    <3>2. /\ x.begun = u.begun /\ x.cancel = u.cancel
          /\ x.cancelled = u.cancelled /\ x.calls = u.calls /\ x.waiters = u.waiters
          /\ x.pending = u.pending /\ x.timer = u.timer /\ x.verifier = u.verifier
          /\ x.talk = u.talk /\ x.querying = 0
          /\ x.mode = u.mode /\ x.card = u.card /\ x.list = u.list
          /\ x.done = u.done /\ x.twice = u.twice /\ x.stray = u.stray
      BY <1>1 DEF UserVerifier!State
    <3> HIDE DEF x
    <3>3. Gone(x)
      BY <3>1, <3>2, GoneStays
    <3> QED
      BY <3>1, <3>2, <3>3
  <2> HIDE DEF x
  <2>2. Restarted(x, UserVerifier!OnReset(x))
    BY <2>1, OnResetGood
  <2>3. UserVerifier!RunCleared(u, w) = UserVerifier!OnReset(x)
    BY <1>2 DEF UserVerifier!RunCleared, x
  <2> QED
    BY <2>1, <2>2, <2>3 DEF Restarted, Silent
<1>3. CASE w.k = "finish"
  <2> DEFINE v == [UserVerifier!Dropped(u) EXCEPT !.done = TRUE]
  <2>1. v = [u EXCEPT !.cancelled = u.cancelled \cup ({u.cancel} \ {0}), !.cancel = 0,
                      !.verifier = 0, !.talk = "off", !.done = TRUE]
    BY <1>1 DEF UserVerifier!Dropped, UserVerifier!State
  <2> HIDE DEF v
  <2>2. v \in UserVerifier!State
    <3>1. u.cancelled \cup ({u.cancel} \ {0}) \in SUBSET (1..LoginTries)
      BY <1>1, VerifierFields
    <3> QED
      BY <1>1, <2>1, <3>1, NoAttempt DEF UserVerifier!State
  <2>3. /\ v.begun = u.begun /\ v.twice = u.twice /\ v.done /\ v.stray = u.stray
        /\ v.cancelled = u.cancelled \cup ({u.cancel} \ {0}) /\ v.calls = u.calls
        /\ v.cancel = 0 /\ v.verifier = 0 /\ v.talk = "off"
        /\ v.pending = u.pending /\ v.waiters = u.waiters /\ v.timer = u.timer
    BY <1>1, <2>1 DEF UserVerifier!State
  <2>4. VerifierBase(v)
    BY <1>1, <2>2, <2>3 DEF Gone, VerifierBase, Numbered, Messages
  <2>5. Gone(v)
    BY <2>3, <2>4 DEF Gone
  <2>6. UserVerifier!RunCleared(u, w) = v
    BY <1>3 DEF UserVerifier!RunCleared, v
  <2> QED
    BY <1>1, <2>3, <2>5, <2>6 DEF Silent
<1>4. CASE w.k \notin {"giveup", "finish"}
  <2>1. UserVerifier!RunCleared(u, w) = u
    BY <1>4 DEF UserVerifier!RunCleared
  <2> QED
    BY <2>1, <1>1
<1> QED
  BY <1>2, <1>3, <1>4

LEMMA ClearGone ==
  ASSUME NEW u, Cancellable(u), u.begun + Len(u.waiters) <= LoginTries
  PROVE  LET v == UserVerifier!Clear(u)
         IN Gone(v) /\ Silent(v) /\ v.begun <= u.begun + Len(u.waiters) /\ (u.twice => v.twice)
<1> DEFINE a == UserVerifier!NoMore(UserVerifier!Dropped(u))
           s == IF u.pending THEN u.waiters ELSE <<>>
           G == [i \in 0..Len(s) |-> {x : x \in {x \in UserVerifier!State :
                   Gone(x) /\ Silent(x) /\ x.begun <= u.begun + i /\ (u.twice => x.twice)}}]
           w == UserVerifier!RunAllCleared(a, s)
           v == [w EXCEPT !.timer = FALSE]
<1>1. /\ Gone(a) /\ Silent(a) /\ a.begun = u.begun /\ a.twice = u.twice
      /\ a \in UserVerifier!State
  BY DroppedGone DEF Gone, VerifierBase
<1>2. /\ u.begun \in Nat /\ s \in Seq(UserVerifier!Waiters) /\ Len(s) \in Nat /\ s = u.waiters
  BY VerifierFields DEF Cancellable, VerifierBase, Messages
<1> HIDE DEF a, s
<1>3. \A i \in 0..Len(s) : \A x : x \in G[i] <=>
        /\ x \in UserVerifier!State /\ Gone(x) /\ Silent(x)
        /\ x.begun <= u.begun + i /\ (u.twice => x.twice)
  OBVIOUS
<1> HIDE DEF G
<1>4. a \in G[0]
  BY <1>1, <1>2, <1>3
<1>5. ASSUME NEW i \in 1..Len(s), NEW x \in G[i - 1]
      PROVE  UserVerifier!RunCleared(x, s[i]) \in G[i]
  <2>1. i \in 0..Len(s) /\ i - 1 \in 0..Len(s)
    BY <1>2
  <2>2. /\ x \in UserVerifier!State /\ Gone(x) /\ Silent(x)
        /\ x.begun <= u.begun + (i - 1) /\ (u.twice => x.twice) /\ x.begun \in Nat
    BY <2>1, <1>3, <1>5, VerifierFields
  <2>3. x.begun < LoginTries
    BY <2>2, <1>2, AgentsAssumption
  <2> DEFINE y == UserVerifier!RunCleared(x, s[i])
  <2>4. Gone(y) /\ Silent(y) /\ y.begun <= x.begun + 1 /\ (x.twice => y.twice)
    BY <2>2, <2>3, RunClearedStep
  <2>5. y \in UserVerifier!State /\ y.begun \in Nat
    BY <2>4, VerifierFields DEF Gone, VerifierBase
  <2> HIDE DEF y
  <2>6. y.begun <= u.begun + i
    BY <2>2, <2>4, <2>5, <1>2
  <2>7. y \in G[i]
    BY <2>1, <2>2, <2>4, <2>5, <2>6, <1>3
  <2> QED
    BY <2>7 DEF y
<1>6. w \in G[Len(s)]
  BY <1>2, <1>4, <1>5, ClearedFold
<1> HIDE DEF w
<1>7. /\ w \in UserVerifier!State /\ Gone(w) /\ Silent(w)
      /\ w.begun <= u.begun + Len(s) /\ (u.twice => w.twice)
  BY <1>2, <1>3, <1>6
<1>8. /\ v \in UserVerifier!State /\ v.begun = w.begun /\ v.cancel = w.cancel
      /\ v.cancelled = w.cancelled /\ v.calls = w.calls /\ v.waiters = w.waiters
      /\ v.pending = w.pending /\ v.verifier = w.verifier
      /\ v.talk = w.talk /\ v.mode = w.mode /\ v.card = w.card /\ v.list = w.list
      /\ v.done = w.done /\ v.twice = w.twice /\ v.stray = w.stray
  BY <1>7 DEF UserVerifier!State
<1>9. UserVerifier!Clear(u) = v
  BY DEF UserVerifier!Clear, v, w, a, s
<1> HIDE DEF v
<1>10. Gone(v)
  <2>1. VerifierBase(v)
    BY <1>7, <1>8 DEF Gone, VerifierBase, Numbered, Messages, Silent
  <2>2. LastLive(w) => LastLive(v)
    BY <1>8, LiveSame DEF LastLive
  <2> QED
    BY <2>1, <2>2, <1>7, <1>8, LiveSame DEF Gone, Waits
<1> QED
  BY <1>2, <1>7, <1>8, <1>9, <1>10 DEF Silent

\* cancel() of the verifier.
LEMMA CancelGone ==
  ASSUME NEW u, Cancellable(u), u.begun + Len(u.waiters) <= LoginTries
  PROVE  LET v == UserVerifier!Cancel(u)
         IN /\ Gone(v) /\ v.begun + Len(v.waiters) <= u.begun + Len(u.waiters)
            /\ (u.twice => v.twice) /\ (Silent(u) => Silent(v))
<1>1. u \in UserVerifier!State /\ u.begun \in Nat /\ Len(u.waiters) \in Nat
  BY VerifierFields DEF Cancellable, VerifierBase
<1>2. CASE u.verifier # 0
  <2> DEFINE v == UserVerifier!Clear(u)
  <2>1. Gone(v) /\ Silent(v) /\ v.begun <= u.begun + Len(u.waiters) /\ (u.twice => v.twice)
    BY ClearGone
  <2>2. UserVerifier!Cancel(u) = v
    BY <1>2 DEF UserVerifier!Cancel
  <2>3. v.begun \in Nat /\ Len(v.waiters) = 0
    BY <2>1, VerifierFields DEF Gone, VerifierBase, Silent
  <2> HIDE DEF v
  <2> QED
    BY <2>1, <2>2, <2>3, <1>1
<1>3. CASE u.verifier = 0
  <2> DEFINE v == [u EXCEPT !.cancelled = u.cancelled \cup ({u.cancel} \ {0})]
  <2>1. UserVerifier!Cancel(u) = v
    BY <1>3, <1>1 DEF UserVerifier!Cancel, UserVerifier!State
  <2>2. v \in UserVerifier!State
    <3>1. u.cancelled \cup ({u.cancel} \ {0}) \in SUBSET (1..LoginTries)
      BY <1>1, VerifierFields
    <3> QED
      BY <1>1, <3>1, NoAttempt DEF UserVerifier!State
  <2>3. /\ v.begun = u.begun /\ v.cancel = u.cancel
        /\ v.cancelled = u.cancelled \cup ({u.cancel} \ {0})
        /\ v.calls = u.calls /\ v.waiters = u.waiters /\ v.timer = u.timer
        /\ v.pending = u.pending /\ v.verifier = u.verifier
        /\ v.talk = u.talk /\ v.mode = u.mode /\ v.card = u.card /\ v.list = u.list
        /\ v.done = u.done /\ v.twice = u.twice /\ v.stray = u.stray
    BY <1>1 DEF UserVerifier!State
  <2> HIDE DEF v
  <2>4. VerifierBase(v)
    BY <2>2, <2>3, <1>1, VerifierFields DEF Cancellable, VerifierBase, Numbered, Messages
  <2>5. ASSUME ~v.twice, ~v.done
        PROVE  LastLive(v) /\ ~LiveCall(v) /\ ~UserVerifier!Live(v, v.cancel)
               /\ ~Waits(v, {"answer", "retry"})
    <3>1. LastLive(u) /\ ~Waits(u, {"answer", "retry"})
      BY <1>3, <2>3, <2>5 DEF Cancellable
    <3> QED
      BY <3>1, <2>3, NoneLive DEF Waits
  <2>6. Gone(v)
    BY <2>3, <2>4, <2>5, <1>3 DEF Gone, Cancellable
  <2> QED
    BY <2>1, <2>3, <2>6, <1>1 DEF Silent
<1> QED
  BY <1>2, <1>3

\* reset() of the prompt.
Anew(u, v) ==
  /\ VerifierKept(v) /\ Gone(v) /\ (v.list \/ OpenCall(v))
  /\ v.begun + Len(v.waiters) <= u.begun + Len(u.waiters) + 1
  /\ (u.twice => v.twice) /\ (Silent(u) => Silent(v))
  /\ v.talk = "off" /\ v.querying = 0

LEMMA ResetGood ==
  ASSUME NEW u, Cancellable(u), u.begun + Len(u.waiters) < LoginTries
  PROVE  Anew(u, UserVerifier!Reset(u))
<1> DEFINE a == [u EXCEPT !.status = "idle", !.preempt = FALSE]
           b == UserVerifier!Cancel(a)
           c == [b EXCEPT !.querying = 0]
           v == UserVerifier!OnReset(c)
<1>1. UserVerifier!Reset(u) = v
  BY DEF UserVerifier!Reset
<1>2. /\ u \in UserVerifier!State /\ u.begun \in Nat /\ Len(u.waiters) \in Nat
      /\ LoginTries \in Nat
  BY VerifierFields, AgentsAssumption DEF Cancellable, VerifierBase
<1>3. /\ a \in UserVerifier!State /\ a.begun = u.begun /\ a.cancel = u.cancel
      /\ a.cancelled = u.cancelled /\ a.calls = u.calls /\ a.waiters = u.waiters
      /\ a.pending = u.pending /\ a.verifier = u.verifier /\ a.timer = u.timer
      /\ a.talk = u.talk /\ a.mode = u.mode /\ a.card = u.card /\ a.list = u.list
      /\ a.done = u.done /\ a.twice = u.twice /\ a.stray = u.stray
  BY <1>2 DEF UserVerifier!State
<1> HIDE DEF a
<1>4. Cancellable(a)
  BY <1>3, GoneStays
<1>5. /\ Gone(b) /\ b.begun + Len(b.waiters) <= u.begun + Len(u.waiters)
      /\ (u.twice => b.twice) /\ (Silent(u) => Silent(b))
  BY <1>2, <1>3, <1>4, CancelGone DEF Silent
<1>6. b \in UserVerifier!State /\ b.begun \in Nat /\ Len(b.waiters) \in Nat
  BY <1>5, VerifierFields DEF Gone, VerifierBase
<1> HIDE DEF b
<1>7. /\ c \in UserVerifier!State /\ c.begun = b.begun /\ c.cancel = b.cancel
      /\ c.cancelled = b.cancelled /\ c.calls = b.calls /\ c.waiters = b.waiters
      /\ c.pending = b.pending /\ c.verifier = b.verifier /\ c.timer = b.timer
      /\ c.talk = b.talk /\ c.mode = b.mode /\ c.card = b.card /\ c.list = b.list
      /\ c.done = b.done /\ c.twice = b.twice /\ c.stray = b.stray /\ c.querying = 0
  BY <1>6, NoAttempt DEF UserVerifier!State
<1> HIDE DEF c
<1>8. Gone(c) /\ c.begun < LoginTries
  BY <1>2, <1>5, <1>6, <1>7, GoneStays
<1>9. Restarted(c, v)
  BY <1>7, <1>8, OnResetGood
<1> HIDE DEF v
<1>10. v.begun \in Nat /\ Len(v.waiters) \in Nat /\ v.waiters = b.waiters
  BY <1>7, <1>9, VerifierFields DEF Restarted, Gone, VerifierBase
<1>11. v.begun + Len(v.waiters) <= u.begun + Len(u.waiters) + 1
  <2> DEFINE m == Len(v.waiters)
  <2>1. m \in Nat /\ m = Len(b.waiters) /\ v.begun <= b.begun + 1
    BY <1>7, <1>9, <1>10 DEF Restarted
  <2>2. b.begun + m <= u.begun + Len(u.waiters)
    BY <1>5, <2>1
  <2> DEFINE n == u.begun + Len(u.waiters)
  <2>3. n \in Nat
    BY <1>2
  <2> HIDE DEF m, n
  <2>4. v.begun + m <= n + 1
    BY <1>6, <1>10, <2>1, <2>2, <2>3 DEF n
  <2> QED
    BY <2>4 DEF m, n
<1> QED
  BY <1>1, <1>5, <1>7, <1>9, <1>11 DEF Restarted, Anew, Silent

LEMMA CancelAndResetGood ==
  ASSUME NEW u, Cancellable(u), u.begun + Len(u.waiters) < LoginTries
  PROVE  Anew(u, UserVerifier!CancelAndReset(u))
<1> DEFINE b == UserVerifier!Cancel(u)
           c == [b EXCEPT !.fails = 0, !.status = "idle"]
           v == UserVerifier!Reset(c)
<1>1. UserVerifier!CancelAndReset(u) = v
  BY DEF UserVerifier!CancelAndReset
<1>2. /\ u.begun \in Nat /\ Len(u.waiters) \in Nat /\ LoginTries \in Nat
  BY VerifierFields, AgentsAssumption DEF Cancellable, VerifierBase
<1>3. /\ Gone(b) /\ b.begun + Len(b.waiters) <= u.begun + Len(u.waiters)
      /\ (u.twice => b.twice) /\ (Silent(u) => Silent(b))
  BY <1>2, CancelGone
<1>4. b \in UserVerifier!State /\ b.begun \in Nat /\ Len(b.waiters) \in Nat
  BY <1>3, VerifierFields DEF Gone, VerifierBase
<1> HIDE DEF b
<1>5. /\ c \in UserVerifier!State /\ c.begun = b.begun /\ c.cancel = b.cancel
      /\ c.cancelled = b.cancelled /\ c.calls = b.calls /\ c.waiters = b.waiters
      /\ c.pending = b.pending /\ c.verifier = b.verifier /\ c.timer = b.timer
      /\ c.talk = b.talk /\ c.mode = b.mode /\ c.card = b.card /\ c.list = b.list
      /\ c.done = b.done /\ c.twice = b.twice /\ c.stray = b.stray
  BY <1>4, NoAttempt DEF UserVerifier!State
<1> HIDE DEF c
<1>6. Cancellable(c) /\ c.begun + Len(c.waiters) < LoginTries
  BY <1>2, <1>3, <1>4, <1>5, GoneStays, GoneIsCancellable
<1>7. Anew(c, v)
  BY <1>6, ResetGood
<1> HIDE DEF v
<1>8. v.begun \in Nat /\ Len(v.waiters) \in Nat
  BY <1>7, VerifierFields DEF Anew, Gone, VerifierBase
<1>9. v.begun + Len(v.waiters) <= u.begun + Len(u.waiters) + 1
  <2>1. v.begun + Len(v.waiters) <= b.begun + Len(b.waiters) + 1
    BY <1>5, <1>7 DEF Anew
  <2> DEFINE l == v.begun + Len(v.waiters)
             m == b.begun + Len(b.waiters)
             n == u.begun + Len(u.waiters)
  <2>2. l \in Nat
    BY <1>8
  <2>3. m \in Nat
    BY <1>4
  <2>4. n \in Nat
    BY <1>2
  <2>5. l <= m + 1 /\ m <= n
    BY <1>3, <2>1
  <2> HIDE DEF l, m, n
  <2>6. l <= n + 1
    BY <2>2, <2>3, <2>4, <2>5
  <2> QED
    BY <2>6 DEF l, n
<1> QED
  BY <1>1, <1>3, <1>5, <1>7, <1>9 DEF Anew, Silent

\* What most steps leave as it is.
Steady(u, v) ==
  /\ v \in UserVerifier!State /\ v.begun = u.begun /\ v.cancel = u.cancel
  /\ v.cancelled = u.cancelled /\ v.list = u.list /\ v.done = u.done /\ v.twice = u.twice
  /\ v.stray = u.stray

LEMMA KeptIsCancellable == ASSUME NEW u, VerifierKept(u) PROVE Cancellable(u)
<1>1. ASSUME ~u.twice, ~u.done
      PROVE  ~u.stray /\ LastLive(u) /\ (u.verifier = 0 => ~Waits(u, {"answer", "retry"}))
  <2>1. ~u.stray /\ OneTalk(u)
    BY <1>1 DEF VerifierKept, AskedAlone
  <2> QED
    BY <2>1 DEF OneTalk, Waits
<1> QED
  BY <1>1 DEF Cancellable, VerifierKept, AskedAlone

\* A step that neither makes a call nor answers one has only to keep the talk in order.
LEMMA SameCalls ==
  ASSUME NEW u, VerifierKept(u), NEW v, Steady(u, v), v.calls = u.calls, Messages(v),
         ~u.twice /\ ~u.done /\ OneTalk(u) => OneTalk(v)
  PROVE  VerifierKept(v)
<1>1. VerifierBase(v)
  BY DEF VerifierKept, VerifierBase, Numbered, Steady
<1>2. Attending(v)
  BY LiveSame DEF VerifierKept, Attending, Steady
<1>3. AskedAlone(v)
  BY DEF VerifierKept, AskedAlone, Steady
<1> QED
  BY <1>1, <1>2, <1>3 DEF VerifierKept

LEMMA KeptStays ==
  ASSUME NEW u, VerifierKept(u), NEW v, Steady(u, v), v.calls = u.calls, v.waiters = u.waiters,
         Messages(v), v.verifier = u.verifier, v.talk = u.talk, v.querying = u.querying
  PROVE  VerifierKept(v)
<1>1. /\ \A n : UserVerifier!Live(v, n) <=> UserVerifier!Live(u, n)
      /\ \A i : LiveAt(v, i) <=> LiveAt(u, i)
      /\ LiveCall(v) <=> LiveCall(u)
  BY LiveSame DEF Steady
<1>2. \A K : Waits(v, K) <=> Waits(u, K)
  BY DEF Waits
<1>3. LastLive(u) => LastLive(v)
  BY <1>1 DEF LastLive, Steady
<1>4. OneTalk(u) => OneTalk(v)
  BY <1>1, <1>2, <1>3 DEF OneTalk, Steady
<1> QED
  BY <1>4, SameCalls

LEMMA UnderwayStays ==
  ASSUME NEW u, Underway(u), NEW v, v.calls = u.calls, v.cancelled = u.cancelled,
         v.verifier = u.verifier, u.list => v.list, u.done => v.done,
         u.talk # "off" => v.talk # "off", u.status = "succeeded" => v.status = "succeeded"
  PROVE  Underway(v)
BY LiveSame DEF Underway

\* A handler is added to those that wait.
LEMMA AppendedWaiter ==
  ASSUME NEW u \in UserVerifier!State, NEW k \in {"answer", "retry", "giveup", "finish"},
         NEW n \in 0..LoginTries, NEW v, v.waiters = Append(u.waiters, [k |-> k, n |-> n])
  PROVE  /\ v.waiters \in Seq(UserVerifier!Waiters) /\ Len(v.waiters) = Len(u.waiters) + 1
         /\ \A K : Waits(v, K) <=> Waits(u, K) \/ k \in K
         /\ \A i \in 1..Len(v.waiters) :
              \/ i \in 1..Len(u.waiters) /\ v.waiters[i] = u.waiters[i]
              \/ v.waiters[i] = [k |-> k, n |-> n]
<1> DEFINE w == [k |-> k, n |-> n]
<1>1. u.waiters \in Seq(UserVerifier!Waiters) /\ w \in UserVerifier!Waiters
  BY VerifierFields DEF UserVerifier!Waiters, UserVerifier!Attempts
<1>2. w.k = k /\ v.waiters = Append(u.waiters, w)
  OBVIOUS
<1> HIDE DEF w
<1>3. /\ v.waiters \in Seq(UserVerifier!Waiters) /\ Len(v.waiters) = Len(u.waiters) + 1
      /\ Len(u.waiters) \in Nat /\ v.waiters[Len(u.waiters) + 1] = w
      /\ \A i \in 1..Len(u.waiters) : v.waiters[i] = u.waiters[i]
  BY <1>1, <1>2
<1>4. \A i \in 1..Len(v.waiters) :
        (i \in 1..Len(u.waiters) /\ v.waiters[i] = u.waiters[i]) \/ v.waiters[i] = w
  BY <1>3
<1>5. /\ Len(u.waiters) + 1 \in 1..Len(v.waiters)
      /\ \A i \in 1..Len(u.waiters) : i \in 1..Len(v.waiters)
  BY <1>3
<1>6. \A K : Waits(v, K) <=> Waits(u, K) \/ k \in K
  BY <1>2, <1>3, <1>4, <1>5 DEF Waits
<1> QED
  BY <1>3, <1>4, <1>6 DEF w

\* The first call is answered: the others keep their order.
FirstAnswered(u, v) == u.calls # <<>> /\ v.calls = Tail(u.calls) /\ v.cancelled = u.cancelled

LEMMA AnsweredCalls ==
  ASSUME NEW u, VerifierBase(u), NEW v, FirstAnswered(u, v)
  PROVE  /\ v.calls \in Seq(UserVerifier!Calls)
         /\ 1 \in 1..Len(u.calls) /\ Len(v.calls) + 1 = Len(u.calls)
         /\ \A i \in 1..Len(v.calls) : /\ i + 1 \in 1..Len(u.calls)
                                       /\ v.calls[i] = u.calls[i + 1]
                                       /\ LiveAt(v, i) <=> LiveAt(u, i + 1)
         /\ Renewed(u) => Renewed(v)
         /\ LiveCall(v) => LiveCall(u)
         /\ ~LiveAt(u, 1) /\ LiveCall(u) => LiveCall(v)
         /\ ~(u.calls[1].k \in Opens /\ LiveAt(u, 1)) /\ OpenCall(u) => OpenCall(v)
         /\ u.calls[1].k \in Opens /\ ~LiveAt(u, 1) /\ Renewed(u) => OpenCall(v)
         /\ LastLive(u) /\ LiveAt(u, 1) => Len(v.calls) = 0
         /\ LastLive(u) /\ v.cancel = u.cancel => LastLive(v)
<1>1. /\ u.calls \in Seq(UserVerifier!Calls) /\ u.calls # <<>> /\ v.calls = Tail(u.calls)
      /\ v.cancelled = u.cancelled
  BY VerifierFields DEF VerifierBase, FirstAnswered
<1> DEFINE n == Len(u.calls)
<1>2. /\ v.calls \in Seq(UserVerifier!Calls) /\ n \in Nat /\ n # 0 /\ Len(v.calls) = n - 1
      /\ \A i \in 1..(n - 1) : v.calls[i] = u.calls[i + 1]
  BY <1>1
<1> HIDE DEF n
<1>3. n = 1 => Len(v.calls) = 0
  BY <1>2
<1>4. 1 \in 1..n /\ Len(v.calls) + 1 = n /\ (\A i \in 1..Len(v.calls) : i + 1 \in 1..n)
  BY <1>2
<1>5. ASSUME NEW i \in 1..Len(v.calls)
      PROVE  v.calls[i] = u.calls[i + 1] /\ (LiveAt(v, i) <=> LiveAt(u, i + 1))
  <2>1. v.calls[i] = u.calls[i + 1]
    BY <1>2
  <2> QED
    BY <1>1, <2>1 DEF LiveAt, UserVerifier!Live
<1>6. ASSUME NEW j \in 1..n, j # 1
      PROVE  j - 1 \in 1..Len(v.calls) /\ v.calls[j - 1] = u.calls[j]
             /\ (LiveAt(v, j - 1) <=> LiveAt(u, j))
  <2>1. j - 1 \in 1..Len(v.calls) /\ (j - 1) + 1 = j
    BY <1>2, <1>6
  <2> QED
    BY <2>1, <1>5
<1>7. Renewed(u) => Renewed(v)
  <2> SUFFICES ASSUME Renewed(u), NEW i \in 1..Len(v.calls), v.calls[i].k \in Opens,
                      ~LiveAt(v, i)
               PROVE  \E j \in 1..Len(v.calls) : j > i /\ v.calls[j].k \in Opens /\ LiveAt(v, j)
    BY DEF Renewed
  <2>1. PICK j \in 1..n : j > i + 1 /\ u.calls[j].k \in Opens /\ LiveAt(u, j)
    BY <1>4, <1>5 DEF Renewed, n
  <2>2. j - 1 > i /\ j # 1
    BY <2>1, <1>2
  <2> QED
    BY <2>1, <2>2, <1>6
<1>8. LiveCall(v) => LiveCall(u)
  BY <1>4, <1>5 DEF LiveCall, n
<1>9. ~LiveAt(u, 1) /\ LiveCall(u) => LiveCall(v)
  BY <1>6 DEF LiveCall, n
<1>10. ~(u.calls[1].k \in Opens /\ LiveAt(u, 1)) /\ OpenCall(u) => OpenCall(v)
  BY <1>6 DEF OpenCall, n
<1>11. u.calls[1].k \in Opens /\ ~LiveAt(u, 1) /\ Renewed(u) => OpenCall(v)
  <2> SUFFICES ASSUME u.calls[1].k \in Opens, ~LiveAt(u, 1), Renewed(u) PROVE OpenCall(v)
    OBVIOUS
  <2>1. PICK j \in 1..n : j > 1 /\ u.calls[j].k \in Opens /\ LiveAt(u, j)
    BY <1>4 DEF Renewed, n
  <2> QED
    BY <2>1, <1>6 DEF OpenCall
<1>12. LastLive(u) /\ LiveAt(u, 1) => Len(v.calls) = 0
  BY <1>3, <1>4 DEF LastLive, n
<1>13. LastLive(u) /\ v.cancel = u.cancel => LastLive(v)
  <2> SUFFICES ASSUME LastLive(u), v.cancel = u.cancel, NEW i \in 1..Len(v.calls)
               PROVE  v.calls[i].n # 0
                      /\ (LiveAt(v, i) => v.calls[i].n = v.cancel /\ i = Len(v.calls))
    BY DEF LastLive
  <2>1. /\ u.calls[i + 1].n # 0
        /\ LiveAt(u, i + 1) => u.calls[i + 1].n = u.cancel /\ i + 1 = n
    BY <1>4 DEF LastLive, n
  <2> QED
    BY <2>1, <1>2, <1>5
<1> QED
  BY <1>2, <1>4, <1>5, <1>7, <1>8, <1>9, <1>10, <1>11, <1>12, <1>13 DEF n

\* A cancelled call returns. Of the verifier only an opening call is to be waited for.
LEMMA CancelledGood ==
  ASSUME NEW u, VerifierGood(u), ~LiveAt(u, 1), NEW v, Steady(u, v),
         FirstAnswered(u, v), v.waiters = u.waiters, v.pending = u.pending,
         v.timer = u.timer, v.querying = u.querying, v.status = u.status,
         IF u.calls[1].k = "start" THEN v.verifier = u.verifier /\ v.talk = u.talk
                                   ELSE v.verifier = 0 /\ v.talk = "off"
  PROVE  VerifierGood(v)
<1>1. VerifierBase(u) /\ Attending(u) /\ AskedAlone(u)
  BY DEF VerifierGood, VerifierKept
<1>2. /\ 1 \in 1..Len(u.calls)
      /\ \A i \in 1..Len(v.calls) : /\ i + 1 \in 1..Len(u.calls)
                                    /\ v.calls[i] = u.calls[i + 1]
                                    /\ LiveAt(v, i) <=> LiveAt(u, i + 1)
      /\ Renewed(u) => Renewed(v)
      /\ LiveCall(v) => LiveCall(u)
      /\ LiveCall(u) => LiveCall(v)
      /\ OpenCall(u) => OpenCall(v)
      /\ u.calls[1].k \in Opens /\ Renewed(u) => OpenCall(v)
      /\ LastLive(u) => LastLive(v)
  BY <1>1, AnsweredCalls DEF Steady
<1>3. u.calls[1].k = "start" \/ u.calls[1].k \in Opens
  BY <1>1, <1>2, VerifierFields DEF VerifierBase, Opens
<1>4. VerifierBase(v)
  BY <1>1, <1>2 DEF VerifierBase, Numbered, Messages, Steady
<1>5. Attending(v)
  BY <1>1, <1>2 DEF Attending, UserVerifier!Live, Steady
<1>6. \A K : Waits(v, K) <=> Waits(u, K)
  BY DEF Waits
<1>7. ASSUME OneTalk(u) PROVE OneTalk(v) /\ v.verifier = u.verifier
  <2>1. v.verifier = u.verifier /\ v.talk = u.talk
    BY <1>1, <1>2, <1>3, <1>7 DEF OneTalk, VerifierBase, Messages
  <2>2. UserVerifier!Live(v, v.cancel) <=> UserVerifier!Live(u, u.cancel)
    BY DEF UserVerifier!Live, Steady
  <2>3. v.verifier # 0 => \A i \in 1..Len(v.calls) : v.calls[i].k \in Opens => LiveAt(v, i)
    BY <1>2, <1>7, <2>1 DEF OneTalk
  <2> QED
    BY <1>2, <1>6, <1>7, <2>1, <2>2, <2>3 DEF OneTalk, Steady
<1>8. AskedAlone(v)
  BY <1>1, <1>7 DEF AskedAlone, Steady
<1>9. Underway(v) \/ Awaited(v)
  <2>1. CASE Awaited(u)
    BY <1>6, <2>1 DEF Awaited
  <2>2. CASE Underway(u) /\ u.calls[1].k = "start"
    BY <1>2, <2>2 DEF Underway, Steady
  <2>3. CASE u.calls[1].k \in Opens
    BY <1>1, <1>2, <2>3 DEF Underway, Attending, Steady
  <2> QED
    BY <1>3, <2>1, <2>2, <2>3 DEF VerifierGood
<1> QED
  BY <1>4, <1>5, <1>8, <1>9 DEF VerifierGood, VerifierKept

\* An opening call has been answered: the next is made, with the cancellable of now.
LEMMA ForwardedGood ==
  ASSUME NEW u, VerifierGood(u), ~u.done, u.calls # <<>>,
         LiveAt(u, 1) \/ (u.twice /\ u.calls[1].n = 0),
         u.calls[1].k \in Opens, NEW k \in {"start", "get"}, NEW v, Steady(u, v),
         v.calls = Append(Tail(u.calls), [k |-> k, n |-> u.cancel]), v.waiters = u.waiters,
         v.pending = u.pending, v.timer = u.timer, v.querying = u.querying,
         v.talk = "off", v.verifier = IF k = "start" THEN u.calls[1].n ELSE 0
  PROVE  VerifierGood(v)
<1> DEFINE t == [u EXCEPT !.calls = Tail(u.calls)]
           c == [k |-> k, n |-> u.cancel]
           n == Len(v.calls)
<1>1. /\ VerifierBase(u) /\ Attending(u) /\ AskedAlone(u) /\ u \in UserVerifier!State
      /\ u.cancel \in 0..LoginTries /\ u.cancel <= u.begun
      /\ (LiveAt(u, 1) <=> u.calls[1].n # 0)
  BY VerifierFields DEF VerifierGood, VerifierKept, VerifierBase, Numbered, LiveAt,
     UserVerifier!Live
<1>2. t.calls = Tail(u.calls) /\ t.cancelled = u.cancelled /\ t.cancel = u.cancel
  BY <1>1 DEF UserVerifier!State
<1> HIDE DEF t
<1>3. /\ t.calls \in Seq(UserVerifier!Calls) /\ 1 \in 1..Len(u.calls)
      /\ \A i \in 1..Len(t.calls) : /\ i + 1 \in 1..Len(u.calls)
                                    /\ t.calls[i] = u.calls[i + 1]
                                    /\ LiveAt(t, i) <=> LiveAt(u, i + 1)
      /\ Renewed(u) => Renewed(t)
      /\ LastLive(u) /\ LiveAt(u, 1) => Len(t.calls) = 0
      /\ ~LiveAt(u, 1) /\ Renewed(u) => OpenCall(t)
  BY <1>1, <1>2, AnsweredCalls DEF FirstAnswered
<1>4. c \in UserVerifier!Calls /\ c.k = k /\ c.n = u.cancel
  BY <1>1 DEF UserVerifier!Calls, UserVerifier!Attempts
<1>5. v.calls = Append(t.calls, c)
  BY <1>2
<1> HIDE DEF c
<1>6. /\ n = Len(t.calls) + 1 /\ Len(t.calls) \in Nat /\ v.calls[n] = c
      /\ \A i \in 1..Len(t.calls) : v.calls[i] = t.calls[i]
  BY <1>3, <1>4, <1>5
<1>7. n \in 1..n /\ \A i \in 1..n : i \in 1..Len(t.calls) \/ i = n
  BY <1>6
<1> HIDE DEF n
<1>8. /\ \A i \in 1..Len(t.calls) : i \in 1..n /\ (LiveAt(v, i) <=> LiveAt(t, i))
      /\ LiveAt(v, n) <=> UserVerifier!Live(u, u.cancel)
      /\ UserVerifier!Live(v, v.cancel) <=> UserVerifier!Live(u, u.cancel)
  BY <1>2, <1>4, <1>6 DEF LiveAt, UserVerifier!Live, Steady
<1>9. VerifierBase(v)
  <2>1. \A i \in 1..n : v.calls[i].n <= v.begun
    BY <1>1, <1>3, <1>4, <1>6, <1>7 DEF VerifierBase, Numbered, Steady
  <2>2. Numbered(v)
    BY <1>1, <2>1 DEF VerifierBase, Numbered, Steady, n
  <2> QED
    BY <1>1, <2>2 DEF VerifierBase, Messages, Steady
<1>10. Attending(v)
  <2> SUFFICES ASSUME ~u.list PROVE UserVerifier!Live(v, v.cancel) /\ Renewed(v)
    BY DEF Attending, Steady
  <2>1. UserVerifier!Live(u, u.cancel) /\ Renewed(t)
    BY <1>1, <1>3 DEF Attending
  <2>2. ASSUME NEW i \in 1..n, v.calls[i].k \in Opens, ~LiveAt(v, i)
        PROVE  \E j \in 1..n : j > i /\ v.calls[j].k \in Opens /\ LiveAt(v, j)
    <3>1. i \in 1..Len(t.calls) /\ t.calls[i].k \in Opens /\ ~LiveAt(t, i)
      BY <2>1, <2>2, <1>6, <1>7, <1>8
    <3>2. PICK j \in 1..Len(t.calls) : j > i /\ t.calls[j].k \in Opens /\ LiveAt(t, j)
      BY <2>1, <3>1 DEF Renewed
    <3> QED
      BY <3>2, <1>6, <1>8
  <2> QED
    BY <2>1, <2>2, <1>8 DEF Renewed, n
<1>11. \A K : Waits(v, K) <=> Waits(u, K)
  BY DEF Waits
<1>12. ASSUME ~u.twice PROVE OneTalk(v) /\ ~u.stray
  <2>1. OneTalk(u) /\ LastLive(u) /\ LiveAt(u, 1) /\ LiveCall(u) /\ ~u.stray
    BY <1>1, <1>3, <1>12 DEF AskedAlone, OneTalk, LiveCall
  <2>2. /\ Len(t.calls) = 0 /\ u.calls[1].n = u.cancel /\ ~u.list /\ u.querying = 0
        /\ ~Waits(u, {"answer"}) /\ ~Waits(u, {"retry"})
    BY <2>1, <1>3 DEF OneTalk, LastLive
  <2>3. n = 1 /\ UserVerifier!Live(u, u.cancel) /\ u.cancel # 0
    BY <2>1, <2>2, <1>6 DEF LiveAt, UserVerifier!Live
  <2>4. LastLive(v)
    BY <2>3, <1>4, <1>6 DEF LastLive, n, Steady
  <2>5. v.verifier # 0 => v.calls[1].k \notin Opens
    <3>1. v.calls[1].k = k
      BY <2>3, <1>4, <1>6
    <3>2. v.verifier # 0 => k = "start"
      OBVIOUS
    <3> QED
      BY <3>1, <3>2 DEF Opens
  <2>6. v.verifier # 0 => \A i \in 1..n : v.calls[i].k \in Opens => LiveAt(v, i)
    <3>1. \A i \in 1..n : i = 1
      BY <2>3
    <3> QED
      BY <3>1, <2>5
  <2>7. \A i \in 1..Len(v.waiters) : v.waiters[i].k # "answer"
    BY <2>2 DEF Waits
  <2>8. ~v.list /\ v.querying = 0 /\ ~Waits(v, {"answer"}) /\ ~Waits(v, {"retry"})
    BY <2>2, <1>11 DEF Steady
  <2> QED
    BY <2>1, <2>4, <2>6, <2>7, <2>8 DEF OneTalk, n
<1>13. AskedAlone(v)
  BY <1>12 DEF AskedAlone, Steady
<1>14. Underway(v)
  <2> SUFFICES ASSUME ~u.list PROVE Underway(v)
    BY DEF Underway, Steady
  <2>1. LiveAt(v, n)
    BY <1>1, <1>8 DEF Attending
  <2>2. CASE k = "start" /\ LiveAt(u, 1)
    BY <2>1, <2>2, <1>1, <1>7 DEF Underway, LiveCall, n
  <2>4. CASE ~LiveAt(u, 1)
    <3>1. OpenCall(t)
      BY <1>1, <1>3, <2>4 DEF Attending
    <3>2. OpenCall(v)
      BY <3>1, <1>6, <1>8 DEF OpenCall, n
    <3> QED
      BY <3>2 DEF Underway
  <2>3. CASE k = "get"
    BY <2>1, <2>3, <1>4, <1>6, <1>7 DEF Underway, OpenCall, Opens, n
  <2> QED
    BY <2>2, <2>3, <2>4
<1> QED
  BY <1>9, <1>10, <1>13, <1>14 DEF VerifierGood, VerifierKept

\* A call has failed, which is told: the prompt gives up when it has been read.
LEMMA CallFailedGood ==
  ASSUME NEW u, VerifierGood(u), ~u.done, LiveAt(u, 1) \/ u.twice, NEW v, Steady(u, v),
         FirstAnswered(u, v), v.waiters = Append(u.waiters, [k |-> "giveup", n |-> u.cancel]),
         v.pending, v.timer, v.querying = 0,
         v.verifier \in {0, u.verifier}, v.talk = IF v.verifier = 0 THEN "off" ELSE u.talk
  PROVE  VerifierGood(v)
<1>1. /\ VerifierBase(u) /\ Attending(u) /\ AskedAlone(u) /\ u \in UserVerifier!State
      /\ u.cancel \in 0..LoginTries
  BY VerifierFields DEF VerifierGood, VerifierKept, VerifierBase
<1>2. /\ 1 \in 1..Len(u.calls)
      /\ \A i \in 1..Len(v.calls) : i + 1 \in 1..Len(u.calls) /\ v.calls[i] = u.calls[i + 1]
      /\ Renewed(u) => Renewed(v)
      /\ LastLive(u) /\ LiveAt(u, 1) => Len(v.calls) = 0
  BY <1>1, AnsweredCalls DEF Steady
<1>3. \A K : Waits(v, K) <=> Waits(u, K) \/ "giveup" \in K
  BY <1>1, AppendedWaiter
<1>4. VerifierBase(v)
  BY <1>1, <1>2 DEF VerifierBase, Numbered, Messages, Steady
<1>5. Attending(v)
  BY <1>1, <1>2 DEF Attending, UserVerifier!Live, Steady
<1>6. ASSUME ~u.twice PROVE OneTalk(v) /\ ~u.stray
  <2>1. OneTalk(u) /\ LastLive(u) /\ LiveAt(u, 1) /\ LiveCall(u) /\ ~u.stray
    BY <1>1, <1>2, <1>6 DEF AskedAlone, OneTalk, LiveCall
  <2>2. /\ Len(v.calls) = 0 /\ ~u.list /\ ~Waits(u, {"answer"}) /\ ~Waits(u, {"retry"})
    BY <2>1, <1>2 DEF OneTalk
  <2>3. LastLive(v) /\ ~LiveCall(v) /\ \A i \in 1..Len(v.calls) : FALSE
    <3>1. \A i \in 1..Len(v.calls) : FALSE
      BY <2>2
    <3> QED
      BY <3>1 DEF LastLive, LiveCall
  <2>4. ~Waits(v, {"answer"}) /\ ~Waits(v, {"retry"})
    BY <2>2, <1>3
  <2>5. \A i \in 1..Len(v.waiters) : v.waiters[i].k # "answer"
    BY <2>4 DEF Waits
  <2> QED
    BY <2>1, <2>2, <2>3, <2>4, <2>5 DEF OneTalk, Steady
<1>7. AskedAlone(v)
  BY <1>6 DEF AskedAlone, Steady
<1>8. Awaited(v)
  BY <1>3 DEF Awaited
<1> QED
  BY <1>4, <1>5, <1>7, <1>8 DEF VerifierGood, VerifierKept

\* The service of GDM has been started: the conversation is on, if there is a verifier.
LEMMA StartedGood ==
  ASSUME NEW u, VerifierGood(u), ~u.done, LiveAt(u, 1) \/ u.twice,
         u.calls[1].k = "start", NEW v, Steady(u, v), FirstAnswered(u, v),
         v.waiters = u.waiters, v.pending = u.pending, v.timer = u.timer,
         v.querying = u.querying, v.verifier = u.verifier, v.status = u.status,
         v.talk = IF u.verifier = 0 THEN "off" ELSE "on"
  PROVE  VerifierGood(v)
<1>1. VerifierBase(u) /\ Attending(u) /\ AskedAlone(u)
  BY DEF VerifierGood, VerifierKept
<1>2. /\ 1 \in 1..Len(u.calls)
      /\ \A i \in 1..Len(v.calls) : i + 1 \in 1..Len(u.calls) /\ v.calls[i] = u.calls[i + 1]
      /\ Renewed(u) => Renewed(v)
      /\ OpenCall(u) => OpenCall(v)
      /\ LastLive(u) /\ LiveAt(u, 1) => Len(v.calls) = 0
  BY <1>1, AnsweredCalls DEF Steady, Opens
<1>3. \A K : Waits(v, K) <=> Waits(u, K)
  BY DEF Waits
<1>4. VerifierBase(v)
  BY <1>1, <1>2 DEF VerifierBase, Numbered, Messages, Steady
<1>5. Attending(v)
  BY <1>1, <1>2 DEF Attending, UserVerifier!Live, Steady
<1>6. ASSUME ~u.twice PROVE OneTalk(v) /\ ~u.stray
  <2>1. OneTalk(u) /\ LastLive(u) /\ LiveAt(u, 1) /\ LiveCall(u) /\ ~u.stray
    BY <1>1, <1>2, <1>6 DEF AskedAlone, OneTalk, LiveCall
  <2>2. /\ Len(v.calls) = 0 /\ ~u.list /\ ~Waits(u, {"answer"}) /\ ~Waits(u, {"retry"})
        /\ u.querying = 0
    BY <2>1, <1>2 DEF OneTalk
  <2>3. LastLive(v) /\ ~LiveCall(v) /\ \A i \in 1..Len(v.calls) : FALSE
    <3>1. \A i \in 1..Len(v.calls) : FALSE
      BY <2>2
    <3> QED
      BY <3>1 DEF LastLive, LiveCall
  <2>4. \A i \in 1..Len(v.waiters) : v.waiters[i].k # "answer"
    BY <2>2 DEF Waits
  <2> QED
    BY <2>1, <2>2, <2>3, <2>4, <1>3 DEF OneTalk, Steady
<1>7. AskedAlone(v)
  BY <1>6 DEF AskedAlone, Steady
<1>8. Underway(v) \/ Awaited(v)
  <2>1. CASE Awaited(u)
    BY <1>3, <2>1 DEF Awaited
  <2>2. CASE Underway(u)
    BY <1>2, <2>2 DEF Underway, Steady
  <2> QED
    BY <2>1, <2>2 DEF VerifierGood
<1> QED
  BY <1>4, <1>5, <1>7, <1>8 DEF VerifierGood, VerifierKept

LEMMA QueueMessageFields ==
  ASSUME NEW u \in UserVerifier!State
  PROVE  LET v == UserVerifier!QueueMessage(u)
         IN /\ Steady(u, v) /\ v.calls = u.calls /\ v.waiters = u.waiters
            /\ v.verifier = u.verifier /\ v.talk = u.talk /\ v.querying = u.querying
            /\ v.status = u.status /\ v.pending /\ v.timer /\ v.fails = u.fails
            /\ v.user = u.user /\ v.mode = u.mode
<1>1. CASE u.timer
  <2> DEFINE v == [u EXCEPT !.pending = TRUE, !.more = 1]
  <2>1. v = UserVerifier!QueueMessage(u)
    BY <1>1 DEF UserVerifier!QueueMessage
  <2>2. /\ Steady(u, v) /\ v.calls = u.calls /\ v.waiters = u.waiters
        /\ v.verifier = u.verifier /\ v.talk = u.talk /\ v.querying = u.querying
        /\ v.status = u.status /\ v.pending /\ v.timer = u.timer /\ v.fails = u.fails
        /\ v.user = u.user /\ v.mode = u.mode
    <3>1. 1 \in 0..1
      OBVIOUS
    <3> QED
      BY <3>1 DEF UserVerifier!State, Steady
  <2> HIDE DEF v
  <2> QED
    BY <1>1, <2>1, <2>2
<1>2. CASE ~u.timer
  <2> DEFINE v == [u EXCEPT !.pending = TRUE, !.timer = TRUE]
  <2>1. v = UserVerifier!QueueMessage(u)
    BY <1>2 DEF UserVerifier!QueueMessage
  <2>2. /\ Steady(u, v) /\ v.calls = u.calls /\ v.waiters = u.waiters
        /\ v.verifier = u.verifier /\ v.talk = u.talk /\ v.querying = u.querying
        /\ v.status = u.status /\ v.pending /\ v.timer /\ v.fails = u.fails
        /\ v.user = u.user /\ v.mode = u.mode
    BY DEF UserVerifier!State, Steady
  <2> HIDE DEF v
  <2> QED
    BY <2>1, <2>2
<1> QED
  BY <1>1, <1>2

\* What is delivered goes to the verifier of now; where that is another, there are two attempts.
LEMMA DeliverKept ==
  ASSUME NEW u, VerifierKept(u), NEW n, ~u.twice => u.verifier \in {0, n}
  PROVE  LET v == UserVerifier!Deliver(u, n)
         IN /\ VerifierKept(v) /\ (Underway(u) => Underway(v)) /\ (Awaited(u) => Awaited(v))
            /\ v.begun = u.begun /\ v.verifier = u.verifier /\ v.waiters = u.waiters
            /\ v.pending = u.pending /\ v.timer = u.timer /\ v.querying = u.querying
            /\ v.done = u.done /\ v.twice = u.twice /\ v.list = u.list
            /\ (u.talk = "off" => v.talk = "off")
<1> DEFINE v == UserVerifier!Deliver(u, n)
<1>1. VerifierBase(u) /\ u \in UserVerifier!State /\ Attending(u) /\ AskedAlone(u)
  BY DEF VerifierKept, VerifierBase
<1>2. CASE u.verifier = 0
  BY <1>2 DEF UserVerifier!Deliver
<1>3. CASE u.verifier # 0 /\ u.verifier = n
  <2>1. v = [u EXCEPT !.talk = IF u.talk = "asked" THEN "on" ELSE u.talk]
    BY <1>1, <1>3 DEF UserVerifier!Deliver, UserVerifier!State
  <2> HIDE DEF v
  <2>2. /\ Steady(u, v) /\ v.calls = u.calls /\ v.waiters = u.waiters
        /\ v.verifier = u.verifier /\ v.pending = u.pending /\ v.timer = u.timer
        /\ v.querying = u.querying /\ v.status = u.status
        /\ (u.talk = "off" <=> v.talk = "off")
    BY <1>1, <2>1 DEF UserVerifier!State, Steady
  <2>3. Messages(v)
    BY <1>1, <2>2 DEF VerifierBase, Messages
  <2>4. /\ \A i : UserVerifier!Live(v, i) <=> UserVerifier!Live(u, i)
        /\ \A i : LiveAt(v, i) <=> LiveAt(u, i)
        /\ LiveCall(v) <=> LiveCall(u)
    BY <2>2, LiveSame DEF Steady
  <2>5. \A K : Waits(v, K) <=> Waits(u, K)
    BY <2>2 DEF Waits
  <2>6. OneTalk(u) => OneTalk(v)
    BY <2>2, <2>4, <2>5 DEF OneTalk, LastLive, Steady
  <2>7. VerifierKept(v)
    BY <2>2, <2>3, <2>6, SameCalls
  <2>8. Underway(u) => Underway(v)
    BY <2>2, UnderwayStays DEF Steady
  <2> QED
    BY <2>2, <2>5, <2>7, <2>8 DEF v, Steady, Awaited
<1>4. CASE u.verifier # 0 /\ u.verifier # n
  <2>1. v = [u EXCEPT !.stray = TRUE] /\ u.twice
    BY <1>1, <1>4 DEF UserVerifier!Deliver, UserVerifier!State
  <2> HIDE DEF v
  <2>2. /\ v \in UserVerifier!State /\ v.begun = u.begun /\ v.cancel = u.cancel
        /\ v.cancelled = u.cancelled /\ v.list = u.list /\ v.done = u.done /\ v.twice
        /\ v.calls = u.calls /\ v.waiters = u.waiters
        /\ v.verifier = u.verifier /\ v.pending = u.pending /\ v.timer = u.timer
        /\ v.querying = u.querying /\ v.status = u.status /\ v.talk = u.talk
    BY <1>1, <2>1 DEF UserVerifier!State
  <2>3. VerifierBase(v)
    BY <1>1, <2>2 DEF VerifierBase, Numbered, Messages
  <2>4. Attending(v)
    BY <1>1, <2>2, LiveSame DEF Attending
  <2>5. VerifierKept(v)
    BY <2>2, <2>3, <2>4 DEF VerifierKept, AskedAlone
  <2>6. Underway(u) => Underway(v)
    BY <2>2, UnderwayStays
  <2> QED
    BY <2>1, <2>2, <2>5, <2>6 DEF v, Awaited, Waits
<1> QED
  BY <1>2, <1>3, <1>4

\* A handler that waits: an answer is one to the verifier of now, and retrying is for one
\* that neither talks nor is being called.
LEMMA WaiterKept ==
  ASSUME NEW u, VerifierKept(u), NEW k \in {"answer", "retry", "giveup", "finish"},
         NEW n \in 0..LoginTries, NEW v, Steady(u, v), v.calls = u.calls,
         v.waiters = Append(u.waiters, [k |-> k, n |-> n]), v.pending, v.timer,
         v.verifier = u.verifier, v.talk = u.talk, v.querying \in {0, u.querying},
         ~u.twice /\ ~u.done /\ OneTalk(u) =>
           /\ k = "answer" => u.verifier # 0 /\ n = u.verifier /\ ~LiveCall(u)
                              /\ ~Waits(u, {"retry"})
           /\ k = "retry" => u.verifier # 0 /\ u.talk = "off" /\ v.querying = 0 /\ ~LiveCall(u)
  PROVE  VerifierKept(v)
<1>1. VerifierBase(u) /\ u \in UserVerifier!State
  BY DEF VerifierKept, VerifierBase
<1>2. /\ \A K : Waits(v, K) <=> Waits(u, K) \/ k \in K
      /\ \A i \in 1..Len(v.waiters) :
           \/ i \in 1..Len(u.waiters) /\ v.waiters[i] = u.waiters[i]
           \/ v.waiters[i].k = k /\ v.waiters[i].n = n
  BY <1>1, AppendedWaiter
<1>3. Messages(v)
  BY <1>1 DEF VerifierBase, Messages
<1>4. ASSUME ~u.twice, ~u.done, OneTalk(u) PROVE OneTalk(v)
  <2>1. /\ \A i : UserVerifier!Live(v, i) <=> UserVerifier!Live(u, i)
        /\ \A i : LiveAt(v, i) <=> LiveAt(u, i)
        /\ LiveCall(v) <=> LiveCall(u)
    BY LiveSame DEF Steady
  <2>2. /\ LastLive(v)
        /\ v.verifier # 0 => \A i \in 1..Len(v.calls) : v.calls[i].k \in Opens => LiveAt(v, i)
    BY <1>4, <2>1 DEF OneTalk, LastLive, Steady
  <2>3. LiveCall(v) => v.talk = "off" /\ v.querying = 0 /\ ~Waits(v, {"answer"})
    BY <1>2, <1>4, <2>1 DEF OneTalk
  <2>4. /\ v.list => v.verifier = 0 /\ ~LiveCall(v) /\ ~UserVerifier!Live(v, v.cancel)
        /\ v.querying # 0 => v.querying = v.verifier
    BY <1>4, <2>1 DEF OneTalk, Steady
  <2>5. \A i \in 1..Len(v.waiters) : v.waiters[i].k = "answer" =>
          v.verifier # 0 /\ v.waiters[i].n = v.verifier
    BY <1>2, <1>4 DEF OneTalk
  <2>6. Waits(v, {"retry"}) => v.verifier # 0 /\ v.talk = "off" /\ v.querying = 0 /\ ~LiveCall(v)
    BY <1>2, <1>4, <2>1 DEF OneTalk
  <2> QED
    BY <2>2, <2>3, <2>4, <2>5, <2>6 DEF OneTalk
<1> QED
  BY <1>3, <1>4, SameCalls

\* answerQuery(), somebody having asked.
LEMMA AnswerQueryGood ==
  ASSUME NEW u, VerifierGood(u), ~u.done, u.querying # 0
  PROVE  VerifierGood(UserVerifier!AnswerQuery(u))
<1>1. /\ VerifierKept(u) /\ u \in UserVerifier!State /\ AskedAlone(u)
      /\ u.querying \in 0..LoginTries /\ (Underway(u) \/ Awaited(u))
  BY VerifierFields DEF VerifierGood, VerifierKept, VerifierBase
<1>2. CASE u.pending
  <2> DEFINE w == [k |-> "answer", n |-> u.querying]
             v == [u EXCEPT !.waiters = Append(u.waiters, w)]
  <2>1. UserVerifier!AnswerQuery(u) = v
    BY <1>1, <1>2 DEF UserVerifier!AnswerQuery, UserVerifier!State
  <2>2. v.waiters = Append(u.waiters, w)
    BY <1>1 DEF UserVerifier!State
  <2> HIDE DEF v
  <2>3. v.waiters \in Seq(UserVerifier!Waiters) /\ \A K : Waits(u, K) => Waits(v, K)
    <3>1. \A K : Waits(v, K) <=> Waits(u, K) \/ "answer" \in K
      BY <1>1, <2>2, AppendedWaiter
    <3>2. v.waiters \in Seq(UserVerifier!Waiters)
      BY <1>1, <2>2, AppendedWaiter
    <3> QED
      BY <3>1, <3>2
  <2>4. /\ Steady(u, v) /\ v.calls = u.calls /\ v.pending = u.pending /\ v.timer = u.timer
        /\ v.verifier = u.verifier /\ v.talk = u.talk /\ v.querying = u.querying
        /\ v.status = u.status
    BY <1>1, <2>2, <2>3 DEF UserVerifier!State, Steady, v
  <2>5. ASSUME ~u.twice, ~u.done, OneTalk(u)
        PROVE  u.verifier # 0 /\ u.querying = u.verifier /\ ~LiveCall(u) /\ ~Waits(u, {"retry"})
    BY <2>5 DEF OneTalk
  <2>6. v.pending /\ v.timer
    BY <1>1, <1>2, <2>4 DEF VerifierKept, VerifierBase, Messages
  <2>7. VerifierKept(v)
    BY <1>1, <2>2, <2>4, <2>5, <2>6, WaiterKept
  <2>8. Underway(u) => Underway(v)
    BY <2>4, UnderwayStays DEF Steady
  <2>9. Awaited(u) => Awaited(v)
    BY <2>3, <2>4 DEF Awaited
  <2> QED
    BY <1>1, <2>1, <2>7, <2>8, <2>9 DEF VerifierGood
<1>3. CASE ~u.pending
  <2>1. ~u.twice => u.verifier \in {0, u.querying}
    BY <1>1 DEF AskedAlone, OneTalk
  <2>2. UserVerifier!AnswerQuery(u) = UserVerifier!Deliver(u, u.querying)
    BY <1>3 DEF UserVerifier!AnswerQuery
  <2> QED
    BY <1>1, <2>1, <2>2, DeliverKept DEF VerifierGood
<1> QED
  BY <1>2, <1>3

\* An attempt is begun in silence.
LEMMA BegunGood ==
  ASSUME NEW u, VerifierKept(u), u.waiters = <<>>, NEW v \in UserVerifier!State, NewAttempt(u, v),
         ~u.twice /\ ~u.done /\ OneTalk(u) /\ ~LiveCall(u) =>
           ~v.list /\ u.talk = "off" /\ u.querying = 0
  PROVE  VerifierKept(v) /\ Underway(v)
<1>1. VerifierBase(u) /\ AskedAlone(u)
  BY DEF VerifierKept
<1>2. /\ VerifierBase(v) /\ Len(v.calls) = Len(u.calls) + 1 /\ Len(u.calls) \in Nat
      /\ LiveAt(v, Len(v.calls)) /\ UserVerifier!Live(v, v.cancel)
      /\ \A i \in 1..Len(u.calls) : v.calls[i] = u.calls[i] /\ (LiveAt(v, i) <=> LiveAt(u, i))
      /\ OpenCall(v) /\ Renewed(v)
  BY <1>1, BegunCalls, VerifierFields DEF VerifierBase
<1>3. /\ v.verifier = u.verifier /\ v.talk = u.talk /\ v.waiters = <<>> /\ v.done = u.done
      /\ v.querying = u.querying /\ v.stray = u.stray /\ (~v.twice => ~u.twice /\ ~LiveCall(u))
  BY DEF NewAttempt
<1>4. ASSUME ~v.twice, ~v.done PROVE OneTalk(v)
  <2>1. OneTalk(u) /\ ~v.list /\ u.talk = "off" /\ u.querying = 0
    BY <1>1, <1>3, <1>4 DEF AskedAlone
  <2>2. LastLive(v)
    BY <1>1, <1>4, <2>1, BegunLast DEF OneTalk
  <2>3. \A i \in 1..Len(v.calls) : i \in 1..Len(u.calls) \/ i = Len(v.calls)
    BY <1>2
  <2>4. v.verifier # 0 => \A i \in 1..Len(v.calls) : v.calls[i].k \in Opens => LiveAt(v, i)
    BY <1>2, <1>3, <2>1, <2>3 DEF OneTalk
  <2>5. ~Waits(v, {"answer"}) /\ ~Waits(v, {"retry"})
        /\ \A i \in 1..Len(v.waiters) : v.waiters[i].k # "answer"
    BY <1>3 DEF Waits
  <2> QED
    BY <1>3, <2>1, <2>2, <2>4, <2>5 DEF OneTalk
<1>5. AskedAlone(v)
  BY <1>1, <1>3, <1>4 DEF AskedAlone
<1> QED
  BY <1>2, <1>5 DEF VerifierKept, Attending, Underway

LEMMA AnewGood ==
  ASSUME NEW u, NEW v, Anew(u, v) \/ Restarted(u, v)
  PROVE  VerifierKept(v) /\ Underway(v)
BY DEF Anew, Restarted, Underway

\* finish(): the verifier is cleared, and nothing more is asked of it.
LEMMA FinishedGood ==
  ASSUME NEW u, Cancellable(u), u.begun + Len(u.waiters) <= LoginTries
  PROVE  LET v == [UserVerifier!Clear(u) EXCEPT !.done = TRUE]
         IN /\ VerifierKept(v) /\ Underway(v) /\ Silent(v) /\ v.done /\ v.verifier = 0
            /\ v.begun <= u.begun + Len(u.waiters) /\ (u.twice => v.twice)
<1> DEFINE y == UserVerifier!Clear(u)
           v == [y EXCEPT !.done = TRUE]
<1>1. Gone(y) /\ Silent(y) /\ y.begun <= u.begun + Len(u.waiters) /\ (u.twice => y.twice)
  BY ClearGone
<1> HIDE DEF y
<1>2. y \in UserVerifier!State /\ y.verifier = 0
  BY <1>1 DEF Gone, VerifierBase
<1>3. /\ v \in UserVerifier!State /\ v.begun = y.begun /\ v.cancel = y.cancel
      /\ v.cancelled = y.cancelled /\ v.calls = y.calls /\ v.waiters = y.waiters
      /\ v.pending = y.pending /\ v.timer = y.timer /\ v.verifier = y.verifier
      /\ v.talk = y.talk /\ v.done /\ v.twice = y.twice /\ v.stray = y.stray
  BY <1>2 DEF UserVerifier!State
<1> HIDE DEF v
<1>4. VerifierBase(v)
  BY <1>1, <1>3 DEF Gone, VerifierBase, Numbered, Messages
<1>5. ~v.twice => ~v.stray
  BY <1>1, <1>3 DEF Gone
<1>6. VerifierKept(v) /\ Underway(v)
  BY <1>3, <1>4, <1>5 DEF VerifierKept, Attending, AskedAlone, Underway
<1>7. Silent(v)
  BY <1>1, <1>3 DEF Silent
<1> QED
  BY <1>1, <1>2, <1>3, <1>6, <1>7 DEF v, y

\* The messages have been read: of the handlers that waited the first i have run.
Read(u, i, v) ==
  /\ VerifierKept(v) /\ Silent(v) /\ v.begun <= u.begun + i
  /\ (u.twice => v.twice) /\ v.verifier \in {0, u.verifier}
  /\ ~v.twice /\ ~v.done /\ Waits(u, {"retry"}) => v.talk = "off" /\ v.querying = 0
  /\ Underway(u) \/ (\E j \in 1..i : u.waiters[j].k \in {"retry", "giveup"}) => Underway(v)

LEMMA RunWaiterStep ==
  ASSUME NEW u, VerifierKept(u), ~u.done, u.begun + Len(u.waiters) <= LoginTries,
         NEW i \in 1..Len(u.waiters), NEW x, Read(u, i - 1, x)
  PROVE  Read(u, i, UserVerifier!RunWaiter(x, u.waiters[i]))
<1> DEFINE w == u.waiters[i]
           Some(n) == \E j \in 1..n : u.waiters[j].k \in {"retry", "giveup"}
<1>1. /\ u \in UserVerifier!State /\ u.begun \in Nat /\ LoginTries \in Nat
      /\ Len(u.waiters) \in Nat /\ w \in UserVerifier!Waiters /\ AskedAlone(u)
  <2>1. u.waiters \in Seq(UserVerifier!Waiters) /\ u.begun \in 0..LoginTries
        /\ u \in UserVerifier!State
    BY VerifierFields DEF VerifierKept, VerifierBase
  <2> QED
    BY <2>1, AgentsAssumption DEF VerifierKept
<1>2. w.k \in {"answer", "retry", "giveup", "finish"}
  BY <1>1 DEF UserVerifier!Waiters
<1>3. /\ VerifierKept(x) /\ Silent(x) /\ x.begun <= u.begun + (i - 1)
      /\ (u.twice => x.twice) /\ x.verifier \in {0, u.verifier}
      /\ ~x.twice /\ ~x.done /\ Waits(u, {"retry"}) => x.talk = "off" /\ x.querying = 0
      /\ Underway(u) \/ Some(i - 1) => Underway(x)
  BY DEF Read
<1>4. /\ x \in UserVerifier!State /\ x.begun \in Nat /\ x.waiters = <<>> /\ ~x.pending
      /\ Len(x.waiters) = 0 /\ AskedAlone(x) /\ Attending(x)
  BY <1>3, VerifierFields DEF VerifierKept, VerifierBase, Silent
<1>5. x.begun < LoginTries /\ x.begun + 1 <= u.begun + i /\ x.begun <= u.begun + i
  BY <1>1, <1>3, <1>4
<1>6. Some(i) => Some(i - 1) \/ w.k \in {"retry", "giveup"}
  <2>1. \A j \in 1..i : j = i \/ j \in 1..(i - 1)
    OBVIOUS
  <2> QED
    BY <2>1
<1>7. ASSUME NEW v, VerifierKept(v), Silent(v), v.begun <= x.begun + 1, v.begun \in Nat,
             x.twice => v.twice, v.verifier \in {0, u.verifier},
             ~v.twice /\ ~v.done /\ Waits(u, {"retry"}) => v.talk = "off" /\ v.querying = 0,
             Underway(x) \/ w.k \in {"retry", "giveup"} => Underway(v)
      PROVE  Read(u, i, v)
  <2>1. v.begun <= u.begun + i
    BY <1>1, <1>4, <1>5, <1>7
  <2>2. Underway(u) \/ Some(i) => Underway(v)
    BY <1>3, <1>6, <1>7
  <2> QED
    BY <1>3, <1>7, <2>1, <2>2 DEF Read
<1> HIDE DEF Some
<1>8. CASE w.k = "answer"
  <2> DEFINE v == UserVerifier!Deliver(x, w.n)
  <2>1. ~x.twice => x.verifier \in {0, w.n}
    <3>1. ~u.twice => w.n = u.verifier
      BY <1>1, <1>8 DEF AskedAlone, OneTalk
    <3> QED
      BY <3>1, <1>3
  <2>2. /\ VerifierKept(v) /\ (Underway(x) => Underway(v)) /\ v.begun = x.begun
        /\ v.verifier = x.verifier /\ v.waiters = x.waiters /\ v.pending = x.pending
        /\ v.querying = x.querying /\ v.done = x.done /\ v.twice = x.twice
        /\ (x.talk = "off" => v.talk = "off")
    BY <1>3, <2>1, DeliverKept
  <2>3. UserVerifier!RunWaiter(x, w) = v
    BY <1>8 DEF UserVerifier!RunWaiter
  <2> HIDE DEF v, w
  <2>4. v.begun <= x.begun + 1 /\ v.begun \in Nat
    BY <1>4, <2>2
  <2>5. Silent(v)
    BY <1>3, <2>2 DEF Silent
  <2>6. Read(u, i, v)
    BY <1>3, <1>7, <1>8, <2>2, <2>4, <2>5
  <2> QED
    BY <2>3, <2>6 DEF w
<1>9. CASE w.k = "retry" /\ UserVerifier!Live(x, x.cancel)
  <2> DEFINE v == UserVerifier!Begin(x)
  <2>1. v \in UserVerifier!State /\ NewAttempt(x, v) /\ v.list = x.list
    BY <1>4, <1>5, BeginFields
  <2>2. UserVerifier!RunWaiter(x, w) = v
    BY <1>9 DEF UserVerifier!RunWaiter
  <2>3. Waits(u, {"retry"})
    BY <1>9 DEF Waits
  <2> HIDE DEF v, w
  <2>4. ASSUME ~x.twice, ~x.done, OneTalk(x) PROVE ~v.list /\ x.talk = "off" /\ x.querying = 0
    BY <1>3, <1>9, <2>1, <2>3, <2>4 DEF OneTalk
  <2>5. VerifierKept(v) /\ Underway(v)
    BY <1>3, <1>4, <2>1, <2>4, BegunGood
  <2>6. /\ v.begun = x.begun + 1 /\ v.verifier = x.verifier /\ v.talk = x.talk /\ Silent(v)
        /\ v.querying = x.querying /\ v.done = x.done /\ (x.twice => v.twice)
    BY <1>3, <2>1 DEF NewAttempt, Silent
  <2>7. v.begun <= x.begun + 1 /\ v.begun \in Nat
    BY <1>4, <2>6
  <2>8. Read(u, i, v)
    BY <1>3, <1>7, <2>5, <2>6, <2>7
  <2> QED
    BY <2>2, <2>8 DEF w
<1>10. CASE w.k = "retry" /\ ~UserVerifier!Live(x, x.cancel)
  <2>1. UserVerifier!RunWaiter(x, w) = x
    BY <1>10 DEF UserVerifier!RunWaiter
  <2>2. Underway(x)
    BY <1>4, <1>10 DEF Attending, Underway
  <2> HIDE DEF w
  <2>3. x.begun <= x.begun + 1
    BY <1>4
  <2>4. Read(u, i, x)
    BY <1>3, <1>4, <1>7, <2>2, <2>3
  <2> QED
    BY <2>1, <2>4 DEF w
<1>11. CASE w.k = "giveup"
  <2> DEFINE v == UserVerifier!CancelAndReset(x)
  <2>1. Anew(x, v)
    <3>1. Cancellable(x) /\ x.begun + Len(x.waiters) < LoginTries
      BY <1>3, <1>4, <1>5, KeptIsCancellable
    <3> QED
      BY <3>1, CancelAndResetGood
  <2>2. UserVerifier!RunWaiter(x, w) = v
    BY <1>11 DEF UserVerifier!RunWaiter
  <2> HIDE DEF v, w
  <2>3. /\ VerifierKept(v) /\ Underway(v) /\ Silent(v) /\ (x.twice => v.twice)
        /\ v.talk = "off" /\ v.querying = 0 /\ v.verifier = 0
    BY <1>3, <2>1, AnewGood DEF Anew, Gone
  <2>4. v.begun <= x.begun + 1 /\ v.begun \in Nat
    <3>1. v.begun \in Nat /\ Len(v.waiters) = 0
      BY <2>3, VerifierFields DEF VerifierKept, VerifierBase, Silent
    <3>2. v.begun + Len(v.waiters) <= x.begun + Len(x.waiters) + 1
      BY <2>1 DEF Anew
    <3> QED
      BY <3>1, <3>2, <1>4
  <2>5. Read(u, i, v)
    BY <1>7, <2>3, <2>4
  <2> QED
    BY <2>2, <2>5 DEF w
<1>12. CASE w.k = "finish"
  <2> DEFINE v == [UserVerifier!Clear(x) EXCEPT !.done = TRUE]
  <2>1. Cancellable(x) /\ x.begun + Len(x.waiters) <= LoginTries
    <3>1. x.begun + Len(x.waiters) <= LoginTries
      BY <1>1, <1>4, <1>5
    <3> QED
      BY <3>1, <1>3, KeptIsCancellable
  <2>2. /\ VerifierKept(v) /\ Underway(v) /\ Silent(v) /\ v.done /\ v.verifier = 0
        /\ v.begun <= x.begun + Len(x.waiters) /\ (x.twice => v.twice)
    BY <2>1, FinishedGood
  <2>3. UserVerifier!RunWaiter(x, w) = v
    BY <1>12 DEF UserVerifier!RunWaiter
  <2> HIDE DEF v, w
  <2>4. v.begun <= x.begun + 1 /\ v.begun \in Nat
    <3>1. v.begun \in Nat
      BY <2>2, VerifierFields DEF VerifierKept, VerifierBase
    <3> QED
      BY <3>1, <2>2, <1>4
  <2>5. Read(u, i, v)
    BY <1>7, <2>2, <2>4
  <2> QED
    BY <2>3, <2>5 DEF w
<1> QED
  BY <1>2, <1>8, <1>9, <1>10, <1>11, <1>12

\* The last message has been read.
LEMMA AllReadGood ==
  ASSUME NEW u, VerifierGood(u), ~u.done, u.begun + Len(u.waiters) <= LoginTries,
         NEW a, Steady(u, a), a.calls = u.calls, a.waiters = <<>>, ~a.pending,
         a.verifier = u.verifier, a.talk = u.talk, a.querying = u.querying, a.status = u.status
  PROVE  VerifierGood(UserVerifier!RunAllWaiters(a, u.waiters))
<1> DEFINE s == u.waiters
           G == [i \in 0..Len(s) |-> {x \in UserVerifier!State : Read(u, i, x)}]
<1>1. /\ u \in UserVerifier!State /\ s \in Seq(UserVerifier!Waiters) /\ Len(s) \in Nat
      /\ VerifierKept(u) /\ AskedAlone(u) /\ u.begun \in Nat
  BY VerifierFields DEF VerifierGood, VerifierKept, VerifierBase
<1>2. VerifierKept(a)
  <2>1. Messages(a)
    BY <1>1 DEF VerifierKept, VerifierBase, Messages
  <2>2. ASSUME OneTalk(u) PROVE OneTalk(a)
    <3>1. /\ \A n : UserVerifier!Live(a, n) <=> UserVerifier!Live(u, n)
          /\ \A i : LiveAt(a, i) <=> LiveAt(u, i)
          /\ LiveCall(a) <=> LiveCall(u)
      BY LiveSame DEF Steady
    <3>2. ~Waits(a, {"answer"}) /\ ~Waits(a, {"retry"})
          /\ \A i \in 1..Len(a.waiters) : a.waiters[i].k # "answer"
      BY DEF Waits
    <3>3. LastLive(a)
      BY <2>2, <3>1 DEF OneTalk, LastLive, Steady
    <3> QED
      BY <2>2, <3>1, <3>2, <3>3 DEF OneTalk, Steady
  <2> QED
    BY <1>1, <2>1, <2>2, SameCalls
<1>3. Read(u, 0, a)
  <2>1. ~a.twice /\ ~a.done /\ Waits(u, {"retry"}) => a.talk = "off" /\ a.querying = 0
    BY <1>1 DEF Steady, AskedAlone, OneTalk
  <2>2. Underway(u) => Underway(a)
    BY UnderwayStays DEF Steady
  <2>3. a.begun <= u.begun + 0 /\ ~\E j \in 1..0 : u.waiters[j].k \in {"retry", "giveup"}
    BY <1>1 DEF Steady
  <2> QED
    BY <1>2, <2>1, <2>2, <2>3 DEF Read, Silent, Steady
<1> HIDE DEF s
<1>4. \A i \in 0..Len(s) : \A x : x \in G[i] <=> x \in UserVerifier!State /\ Read(u, i, x)
  OBVIOUS
<1> HIDE DEF G
<1>5. a \in G[0]
  BY <1>1, <1>3, <1>4 DEF Steady
<1>6. ASSUME NEW i \in 1..Len(s), NEW x \in G[i - 1]
      PROVE  UserVerifier!RunWaiter(x, s[i]) \in G[i]
  <2> DEFINE y == UserVerifier!RunWaiter(x, s[i])
  <2>1. i \in 0..Len(s) /\ i - 1 \in 0..Len(s)
    BY <1>1
  <2>2. Read(u, i - 1, x)
    BY <2>1, <1>4
  <2>3. Read(u, i, y)
    BY <1>1, <2>2, RunWaiterStep DEF s
  <2>4. y \in UserVerifier!State
    BY <2>3 DEF Read, VerifierKept, VerifierBase
  <2> HIDE DEF y
  <2>5. y \in G[i]
    BY <1>4, <2>1, <2>3, <2>4
  <2> QED
    BY <2>5 DEF y
<1> DEFINE w == UserVerifier!RunAllWaiters(a, s)
<1>7. w \in G[Len(s)]
  BY <1>1, <1>5, <1>6, WaitersFold
<1> HIDE DEF w
<1>8. Read(u, Len(s), w)
  BY <1>1, <1>4, <1>7
<1>9. Underway(w)
  <2>1. Underway(u) \/ \E j \in 1..Len(s) : u.waiters[j].k \in {"retry", "giveup"}
    BY DEF VerifierGood, Awaited, Waits, s
  <2> QED
    BY <1>8, <2>1 DEF Read
<1> QED
  BY <1>8, <1>9 DEF Read, VerifierGood, w, s

\* _verificationFailed() for somebody who waits for the messages.
LEMMA FailedPendingFields ==
  ASSUME NEW u \in UserVerifier!State, u.pending, NEW retry \in BOOLEAN
  PROVE  LET v == UserVerifier!VerificationFailed(u, retry)
         IN /\ Steady(u, v) /\ v.calls = u.calls /\ v.pending = u.pending /\ v.timer = u.timer
            /\ v.verifier = u.verifier /\ v.talk = u.talk /\ v.querying = 0
            /\ \E k \in {"retry", "giveup"} :
                 /\ v.waiters = Append(u.waiters, [k |-> k, n |-> u.cancel])
                 /\ retry \/ k = "giveup"
<1> DEFINE can == retry /\ u.user /\ (u.mode = "unlock" \/ u.fails + 1 < LoginFailures)
           k == IF can THEN "retry" ELSE "giveup"
           s == Append(u.waiters, [k |-> k, n |-> u.cancel])
           v == [u EXCEPT !.fails = u.fails + 1, !.waiters = s, !.querying = 0,
                          !.status = "failed", !.sensitive = can]
<1>1. /\ u.cancel \in 0..LoginTries /\ u.fails + 1 \in Nat /\ can \in BOOLEAN
      /\ k \in {"retry", "giveup"} /\ (retry \/ k = "giveup")
  BY VerifierFields
<1>2. UserVerifier!VerificationFailed(u, retry) = v
  BY DEF UserVerifier!VerificationFailed, UserVerifier!State
<1> HIDE DEF can, k
<1>3. s \in Seq(UserVerifier!Waiters)
  <2>1. u.waiters \in Seq(UserVerifier!Waiters)
    BY VerifierFields
  <2>2. [k |-> k, n |-> u.cancel] \in UserVerifier!Waiters
    BY <1>1 DEF UserVerifier!Waiters, UserVerifier!Attempts
  <2> QED
    BY <2>1, <2>2
<1> HIDE DEF s
<1>4. /\ Steady(u, v) /\ v.calls = u.calls /\ v.pending = u.pending /\ v.timer = u.timer
      /\ v.verifier = u.verifier /\ v.talk = u.talk /\ v.querying = 0 /\ v.waiters = s
  BY <1>1, <1>3, NoAttempt DEF UserVerifier!State, Steady
<1> HIDE DEF v
<1> QED
  BY <1>1, <1>2, <1>4 DEF s

\* _reportInitError()
LEMMA InitErrorFields ==
  ASSUME NEW u \in UserVerifier!State
  PROVE  LET v == UserVerifier!InitError(u)
         IN /\ Steady(u, v) /\ v.calls = u.calls /\ v.pending /\ v.timer
            /\ v.verifier = u.verifier /\ v.talk = u.talk /\ v.querying = 0
            /\ v.waiters = Append(u.waiters, [k |-> "giveup", n |-> u.cancel])
<1> DEFINE q == UserVerifier!QueueMessage(u)
           v == UserVerifier!VerificationFailed(q, FALSE)
<1>1. UserVerifier!InitError(u) = v
  BY DEF UserVerifier!InitError
<1>2. /\ Steady(u, q) /\ q.calls = u.calls /\ q.waiters = u.waiters /\ q.verifier = u.verifier
      /\ q.talk = u.talk /\ q.pending /\ q.timer /\ q \in UserVerifier!State
  BY QueueMessageFields DEF Steady
<1> HIDE DEF q
<1>3. /\ Steady(q, v) /\ v.calls = q.calls /\ v.pending = q.pending /\ v.timer = q.timer
      /\ v.verifier = q.verifier /\ v.talk = q.talk /\ v.querying = 0
      /\ v.waiters = Append(q.waiters, [k |-> "giveup", n |-> q.cancel])
  BY <1>2, FailedPendingFields
<1> HIDE DEF v
<1> QED
  BY <1>1, <1>2, <1>3 DEF Steady

\* The conversation has stopped: the verifier that talked is tried again or given up.
LEMMA FailedGood ==
  ASSUME NEW u, VerifierGood(u), ~u.done, u.talk # "off",
         u.begun + Len(u.waiters) + 2 <= LoginTries
  PROVE  VerifierGood(UserVerifier!VerificationFailed([u EXCEPT !.talk = "off"], TRUE))
<1> DEFINE t == [u EXCEPT !.talk = "off"]
           v == UserVerifier!VerificationFailed(t, TRUE)
<1>1. /\ u \in UserVerifier!State /\ VerifierKept(u) /\ VerifierBase(u) /\ u.verifier # 0
      /\ u.begun \in Nat /\ Len(u.waiters) \in Nat /\ LoginTries \in Nat
      /\ u.cancel \in 0..LoginTries
  BY VerifierFields, AgentsAssumption DEF VerifierGood, VerifierKept, VerifierBase, Messages
<1>2. /\ Steady(u, t) /\ t.calls = u.calls /\ t.waiters = u.waiters /\ t.pending = u.pending
      /\ t.timer = u.timer /\ t.verifier = u.verifier /\ t.talk = "off"
      /\ t.querying = u.querying /\ t \in UserVerifier!State
  BY <1>1 DEF UserVerifier!State, Steady
<1> HIDE DEF t
<1>3. /\ \A n : UserVerifier!Live(t, n) <=> UserVerifier!Live(u, n)
      /\ \A i : LiveAt(t, i) <=> LiveAt(u, i)
      /\ LiveCall(t) <=> LiveCall(u)
      /\ \A K : Waits(t, K) <=> Waits(u, K)
  BY <1>2, LiveSame DEF Steady, Waits
<1>4. ASSUME OneTalk(u) PROVE OneTalk(t) /\ ~LiveCall(t) /\ ~t.list
  <2>1. ~LiveCall(t) /\ ~t.list /\ LastLive(t)
    BY <1>1, <1>2, <1>3, <1>4 DEF OneTalk, LastLive, Steady
  <2> QED
    BY <2>1, <1>2, <1>3, <1>4 DEF OneTalk
<1>5. VerifierKept(t)
  <2>1. Messages(t)
    BY <1>1, <1>2 DEF VerifierBase, Messages
  <2> QED
    BY <1>1, <1>2, <1>4, <2>1, SameCalls
<1>6. ~u.twice => OneTalk(u)
  BY <1>1 DEF VerifierKept, AskedAlone
<1>7. CASE t.pending
  <2>1. PICK k \in {"retry", "giveup"} :
          v.waiters = Append(t.waiters, [k |-> k, n |-> t.cancel])
    BY <1>2, <1>7, FailedPendingFields
  <2>2. /\ Steady(t, v) /\ v.calls = t.calls /\ v.pending = t.pending /\ v.timer = t.timer
        /\ v.verifier = t.verifier /\ v.talk = t.talk /\ v.querying = 0
    BY <1>2, <1>7, FailedPendingFields
  <2> HIDE DEF v
  <2>3. v.pending /\ v.timer /\ k \in {"answer", "retry", "giveup", "finish"}
        /\ t.cancel \in 0..LoginTries
    BY <1>1, <1>2, <1>7, <2>2 DEF VerifierBase, Messages, Steady
  <2>4. ~t.twice => t.verifier # 0 /\ t.talk = "off" /\ v.querying = 0 /\ ~LiveCall(t)
    BY <1>1, <1>2, <1>4, <1>6, <2>2 DEF Steady
  <2>5. VerifierKept(v)
    BY <1>5, <2>1, <2>2, <2>3, <2>4, WaiterKept
  <2>6. Awaited(v)
    <3>1. \A K : Waits(v, K) <=> Waits(t, K) \/ k \in K
      BY <1>2, <2>1, <2>3, AppendedWaiter
    <3> QED
      BY <2>1, <2>3, <3>1 DEF Awaited
  <2> QED
    BY <2>5, <2>6 DEF VerifierGood, v, t
<1> DEFINE can == t.user /\ (t.mode = "unlock" \/ t.fails + 1 < LoginFailures)
           f == [t EXCEPT !.fails = t.fails + 1]
<1>8. can \in BOOLEAN
  BY <1>2, VerifierFields
<1>9. /\ f \in UserVerifier!State /\ Steady(t, f) /\ f.calls = t.calls
      /\ f.waiters = t.waiters /\ f.pending = t.pending
      /\ f.timer = t.timer /\ f.verifier = t.verifier /\ f.talk = "off"
  <2>1. t.fails + 1 \in Nat
    BY <1>2, VerifierFields
  <2> QED
    BY <1>2, <2>1 DEF UserVerifier!State, Steady
<1>10. CASE ~t.pending /\ can
  <2> DEFINE g == [f EXCEPT !.querying = 0]
             b == UserVerifier!Begin(f)
             r == [b EXCEPT !.querying = 0, !.status = "failed", !.sensitive = can]
  <2>1. v = r
    BY <1>10 DEF UserVerifier!VerificationFailed
  <2> HIDE DEF v, can, f
  <2>2. /\ b \in UserVerifier!State /\ NewAttempt(f, b) /\ b.list = f.list
    <3>1. f.begun < LoginTries
      BY <1>1, <1>2, <1>9 DEF Steady
    <3> QED
      BY <1>9, <3>1, BeginFields
  <2> HIDE DEF b
  <2>3. /\ g \in UserVerifier!State /\ Steady(t, g) /\ g.calls = t.calls
        /\ g.waiters = t.waiters /\ g.pending = t.pending /\ g.timer = t.timer
        /\ g.verifier = t.verifier /\ g.talk = "off" /\ g.querying = 0
        /\ g.mode = f.mode /\ g.card = f.card
    BY <1>9, NoAttempt DEF UserVerifier!State, Steady
  <2>4. /\ r \in UserVerifier!State /\ r.begun = b.begun /\ r.cancel = b.cancel
        /\ r.cancelled = b.cancelled /\ r.calls = b.calls /\ r.twice = b.twice
        /\ r.mode = b.mode /\ r.verifier = b.verifier /\ r.talk = b.talk
        /\ r.waiters = b.waiters /\ r.pending = b.pending /\ r.timer = b.timer
        /\ r.card = b.card /\ r.done = b.done /\ r.stray = b.stray /\ r.list = b.list
        /\ r.querying = 0
    BY <1>8, <2>2, NoAttempt DEF UserVerifier!State
  <2> HIDE DEF g, r
  <2>5. LiveCall(g) <=> LiveCall(f)
    BY <1>9, <2>3, LiveSame DEF Steady
  <2>6. NewAttempt(g, r)
    BY <1>9, <2>2, <2>3, <2>4, <2>5 DEF NewAttempt, Steady
  <2>7. VerifierKept(g)
    <3>1. Messages(g)
      BY <1>5, <1>2, <2>3 DEF VerifierKept, VerifierBase, Messages
    <3>2. /\ \A n : UserVerifier!Live(g, n) <=> UserVerifier!Live(t, n)
          /\ \A i : LiveAt(g, i) <=> LiveAt(t, i)
          /\ LiveCall(g) <=> LiveCall(t)
          /\ \A K : Waits(g, K) <=> Waits(t, K)
      BY <2>3, LiveSame DEF Steady, Waits
    <3>3. ASSUME OneTalk(t) PROVE OneTalk(g)
      <4>1. LastLive(g)
        BY <2>3, <3>2, <3>3 DEF OneTalk, LastLive, Steady
      <4> QED
        BY <4>1, <1>2, <2>3, <3>2, <3>3 DEF OneTalk, Steady
    <3> QED
      BY <1>5, <2>3, <3>1, <3>3, SameCalls
  <2>8. g.waiters = <<>>
    BY <1>1, <1>2, <1>10, <2>3 DEF VerifierBase, Messages
  <2>9. ~g.twice => ~r.list
    BY <1>2, <1>4, <1>6, <1>9, <2>2, <2>3, <2>4 DEF Steady
  <2>10. VerifierKept(r) /\ Underway(r)
    BY <2>3, <2>4, <2>6, <2>7, <2>8, <2>9, BegunGood
  <2> QED
    BY <2>1, <2>10 DEF VerifierGood, v, t
<1>11. CASE ~t.pending /\ ~can
  <2> DEFINE b == UserVerifier!CancelAndReset(f)
             r == [b EXCEPT !.querying = 0, !.status = "failed", !.sensitive = can]
  <2>1. v = r
    BY <1>11 DEF UserVerifier!VerificationFailed
  <2> HIDE DEF v, can, f
  <2>2. Anew(f, b)
    <3>1. VerifierKept(f)
      <4>1. Messages(f)
        BY <1>1, <1>2, <1>9 DEF VerifierBase, Messages
      <4>2. f.querying = t.querying
        BY <1>2 DEF f, UserVerifier!State
      <4> QED
        BY <1>2, <1>5, <1>9, <4>1, <4>2, KeptStays
    <3>2. f.begun + Len(f.waiters) < LoginTries
      BY <1>1, <1>2, <1>9 DEF Steady
    <3> QED
      BY <3>1, <3>2, KeptIsCancellable, CancelAndResetGood
  <2> HIDE DEF b
  <2>3. VerifierKept(b) /\ b \in UserVerifier!State /\ b.querying = 0 /\ VerifierBase(b)
    BY <2>2 DEF Anew, VerifierKept, VerifierBase
  <2>4. /\ Steady(b, r) /\ r.calls = b.calls /\ r.verifier = b.verifier /\ r.talk = b.talk
        /\ r.waiters = b.waiters /\ r.pending = b.pending /\ r.timer = b.timer
        /\ r.querying = b.querying
    <3>1. r \in UserVerifier!State
      BY <1>8, <2>3, Refused
    <3>2. /\ r.begun = b.begun /\ r.cancel = b.cancel /\ r.cancelled = b.cancelled
          /\ r.list = b.list /\ r.done = b.done /\ r.twice = b.twice /\ r.stray = b.stray
      BY <2>3 DEF UserVerifier!State
    <3>3. /\ r.calls = b.calls /\ r.verifier = b.verifier /\ r.talk = b.talk
          /\ r.waiters = b.waiters /\ r.pending = b.pending /\ r.timer = b.timer
          /\ r.querying = b.querying
      BY <2>3 DEF UserVerifier!State
    <3> QED
      BY <3>1, <3>2, <3>3 DEF Steady
  <2> HIDE DEF r
  <2>5. VerifierKept(r)
    <3>1. Messages(r)
      BY <2>3, <2>4 DEF VerifierBase, Messages
    <3> QED
      BY <2>3, <2>4, <3>1, KeptStays
  <2>6. Underway(r)
    BY <2>2, <2>4, LiveSame DEF Anew, Underway, Steady
  <2> QED
    BY <2>1, <2>5, <2>6 DEF VerifierGood, v, t
<1> QED
  BY <1>7, <1>10, <1>11

\* Who is answered: a call that is live, or one without a cancellable, which nobody makes
\* beside whom no other was begun.
LEMMA FirstCall ==
  ASSUME VerifierKept(state), ~state.done, state.calls # <<>>
  PROVE  /\ UserVerifier!Head1 = state.calls[1]
         /\ state.calls[1].k \in {"channel", "get", "start"} /\ state.calls[1].n \in 0..LoginTries
         /\ state.calls[1].n <= state.begun
         /\ Steady(state, UserVerifier!Answered) /\ FirstAnswered(state, UserVerifier!Answered)
         /\ LET v == UserVerifier!Answered
            IN /\ v.waiters = state.waiters /\ v.pending = state.pending
               /\ v.timer = state.timer /\ v.querying = state.querying
               /\ v.status = state.status /\ v.verifier = state.verifier
               /\ v.talk = state.talk
         /\ state.calls[1].n \in state.cancelled => ~LiveAt(state, 1)
         /\ state.calls[1].n \notin state.cancelled =>
              LiveAt(state, 1) \/ (state.twice /\ state.calls[1].n = 0)
<1> DEFINE u == state
           v == UserVerifier!Answered
<1>1. /\ u \in UserVerifier!State /\ VerifierBase(u) /\ AskedAlone(u)
      /\ u.calls \in Seq(UserVerifier!Calls)
  BY VerifierFields DEF VerifierKept, VerifierBase
<1>2. UserVerifier!Head1 = u.calls[1] /\ 1 \in 1..Len(u.calls)
  BY <1>1 DEF UserVerifier!Head1
<1>3. /\ u.calls[1].k \in {"channel", "get", "start"} /\ u.calls[1].n \in 0..LoginTries
      /\ u.calls[1].n <= u.begun
  BY <1>1, <1>2, VerifierFields DEF VerifierBase, Numbered
<1>4. v = [u EXCEPT !.calls = Tail(u.calls)]
  BY <1>1 DEF UserVerifier!Answered, UserVerifier!State
<1>5. /\ v.calls = Tail(u.calls) /\ v.cancelled = u.cancelled /\ v.begun = u.begun
      /\ v.cancel = u.cancel /\ v.list = u.list /\ v.done = u.done /\ v.twice = u.twice
      /\ v.stray = u.stray /\ v.waiters = u.waiters /\ v.pending = u.pending
      /\ v.timer = u.timer /\ v.querying = u.querying /\ v.status = u.status
      /\ v.verifier = u.verifier /\ v.talk = u.talk
  BY <1>1, <1>4 DEF UserVerifier!State
<1>6. FirstAnswered(u, v)
  BY <1>5 DEF FirstAnswered
<1>7. Steady(u, v)
  <2>1. v.calls \in Seq(UserVerifier!Calls)
    BY <1>1, <1>6, AnsweredCalls
  <2>2. v \in UserVerifier!State
    BY <1>1, <1>4, <1>5, <2>1 DEF UserVerifier!State
  <2> QED
    BY <1>5, <2>2 DEF Steady
<1>8. u.calls[1].n \notin u.cancelled => LiveAt(u, 1) \/ (u.twice /\ u.calls[1].n = 0)
  BY <1>1, <1>2 DEF AskedAlone, OneTalk, LastLive, LiveAt, UserVerifier!Live
<1>9. u.calls[1].n \in u.cancelled => ~LiveAt(u, 1)
  BY DEF LiveAt, UserVerifier!Live
<1> QED
  BY <1>2, <1>3, <1>5, <1>6, <1>7, <1>8, <1>9

LEMMA CallReturns ==
  ASSUME VerifierGood(state),
         \/ UserVerifier!CallCancelled \/ UserVerifier!AccessDenied \/ UserVerifier!Started
         \/ UserVerifier!StartFailed
         \/ \E k \in {"channel", "get"} : UserVerifier!Opened(k) \/ UserVerifier!OpenFailed(k)
  PROVE  VerifierGood(state')
<1> DEFINE u == state
           w == UserVerifier!Answered
           z == [w EXCEPT !.verifier = 0, !.talk = "off"]
<1>0. u \in UserVerifier!State /\ VerifierKept(u) /\ u.cancel \in 0..LoginTries
  BY VerifierFields DEF VerifierGood, VerifierKept, VerifierBase
<1>1. ~u.done /\ u.calls # <<>>
  BY DEF UserVerifier!CallCancelled, UserVerifier!AccessDenied, UserVerifier!Started,
     UserVerifier!StartFailed, UserVerifier!Opened, UserVerifier!OpenFailed, UserVerifier!On,
     UserVerifier!Answers, UserVerifier!Head1
<1>2. /\ UserVerifier!Head1 = u.calls[1]
      /\ u.calls[1].k \in {"channel", "get", "start"} /\ u.calls[1].n \in 0..LoginTries
      /\ Steady(u, w) /\ FirstAnswered(u, w) /\ w.waiters = u.waiters
      /\ w.pending = u.pending /\ w.timer = u.timer /\ w.querying = u.querying
      /\ w.status = u.status /\ w.verifier = u.verifier /\ w.talk = u.talk
  BY <1>0, <1>1, FirstCall
<1>3. /\ u.calls[1].n \in u.cancelled => ~LiveAt(u, 1)
      /\ u.calls[1].n \notin u.cancelled => LiveAt(u, 1) \/ (u.twice /\ u.calls[1].n = 0)
  BY <1>0, <1>1, FirstCall
<1> HIDE DEF w
<1>4. w \in UserVerifier!State /\ w.calls = Tail(u.calls) /\ w.cancelled = u.cancelled
  BY <1>2 DEF Steady, FirstAnswered
<1>5. /\ Steady(u, z) /\ FirstAnswered(u, z) /\ z.waiters = u.waiters
      /\ z.pending = u.pending /\ z.timer = u.timer /\ z.querying = u.querying
      /\ z.status = u.status /\ z.verifier = 0 /\ z.talk = "off"
  BY <1>2, <1>4, NoAttempt DEF UserVerifier!State, Steady, FirstAnswered
<1> HIDE DEF z
<1>6. CASE UserVerifier!CallCancelled
  <2>1. ~LiveAt(u, 1)
    BY <1>2, <1>3, <1>6 DEF UserVerifier!CallCancelled
  <2>2. state' = IF u.calls[1].k = "start" THEN w ELSE z
    BY <1>2, <1>6 DEF UserVerifier!CallCancelled, w, z
  <2>3. CASE u.calls[1].k = "start"
    BY <1>2, <2>1, <2>2, <2>3, CancelledGood
  <2>4. CASE u.calls[1].k # "start"
    BY <1>5, <2>1, <2>2, <2>4, CancelledGood
  <2> QED
    BY <2>3, <2>4
<1>7. ASSUME NEW a \in {"channel", "get", "start"}, UserVerifier!Answers(a)
      PROVE  u.calls[1].k = a /\ (LiveAt(u, 1) \/ (u.twice /\ u.calls[1].n = 0))
  BY <1>2, <1>3, <1>7 DEF UserVerifier!Answers
<1>8. ASSUME NEW k \in {"start", "get"}, NEW n \in 0..LoginTries
      PROVE  LET v == [w EXCEPT !.verifier = n, !.talk = "off",
                                !.calls = Append(w.calls, [k |-> k, n |-> u.cancel])]
             IN /\ Steady(u, v) /\ v.waiters = u.waiters
                /\ v.pending = u.pending /\ v.timer = u.timer /\ v.querying = u.querying
                /\ v.verifier = n /\ v.talk = "off"
                /\ v.calls = Append(Tail(u.calls), [k |-> k, n |-> u.cancel])
  <2> DEFINE c == [k |-> k, n |-> u.cancel]
             s == Append(w.calls, c)
             v == [w EXCEPT !.verifier = n, !.talk = "off", !.calls = s]
  <2>1. w.calls \in Seq(UserVerifier!Calls) /\ c \in UserVerifier!Calls
    BY <1>0, <1>4, VerifierFields DEF UserVerifier!Calls, UserVerifier!Attempts
  <2> HIDE DEF c
  <2>2. s \in Seq(UserVerifier!Calls)
    BY <2>1
  <2>3. n \in UserVerifier!Attempts
    BY DEF UserVerifier!Attempts
  <2> HIDE DEF s
  <2>4. /\ v \in UserVerifier!State /\ v.calls = s /\ v.waiters = w.waiters
        /\ v.pending = w.pending /\ v.timer = w.timer /\ v.querying = w.querying
        /\ v.verifier = n /\ v.talk = "off"
        /\ v.begun = w.begun /\ v.cancel = w.cancel /\ v.cancelled = w.cancelled
        /\ v.list = w.list /\ v.done = w.done /\ v.twice = w.twice /\ v.stray = w.stray
    BY <1>4, <2>2, <2>3 DEF UserVerifier!State
  <2> HIDE DEF v
  <2>5. Steady(u, v)
    BY <1>2, <2>4 DEF Steady
  <2>6. v.calls = Append(Tail(u.calls), [k |-> k, n |-> u.cancel])
    BY <1>4, <2>4 DEF s, c
  <2> QED
    BY <1>2, <2>4, <2>5, <2>6 DEF v, s, c
<1>9. ASSUME NEW k \in {"channel", "get"}, UserVerifier!Opened(k) PROVE VerifierGood(state')
  <2>1. u.calls[1].k = k /\ (LiveAt(u, 1) \/ (u.twice /\ u.calls[1].n = 0))
    BY <1>7, <1>9 DEF UserVerifier!Opened
  <2> DEFINE v == [w EXCEPT !.verifier = u.calls[1].n, !.talk = "off",
                            !.calls = Append(w.calls, [k |-> "start", n |-> u.cancel])]
  <2>2. state' = v
    BY <1>2, <1>4, <1>9 DEF UserVerifier!Opened, UserVerifier!State, w
  <2>3. /\ Steady(u, v) /\ v.waiters = u.waiters
        /\ v.pending = u.pending /\ v.timer = u.timer /\ v.querying = u.querying
        /\ v.verifier = u.calls[1].n /\ v.talk = "off"
        /\ v.calls = Append(Tail(u.calls), [k |-> "start", n |-> u.cancel])
    BY <1>2, <1>8
  <2> HIDE DEF v
  <2>4. u.calls[1].k \in Opens
    BY <2>1 DEF Opens
  <2>5. VerifierGood(v)
    BY <1>1, <2>1, <2>3, <2>4, ForwardedGood
  <2> QED
    BY <2>2, <2>5
<1>10. CASE UserVerifier!AccessDenied
  <2>1. u.calls[1].k = "channel" /\ (LiveAt(u, 1) \/ (u.twice /\ u.calls[1].n = 0))
    BY <1>7, <1>10 DEF UserVerifier!AccessDenied
  <2> DEFINE v == [w EXCEPT !.verifier = 0, !.talk = "off",
                            !.calls = Append(w.calls, [k |-> "get", n |-> u.cancel])]
  <2>2. state' = v
    BY <1>2, <1>4, <1>10 DEF UserVerifier!AccessDenied, UserVerifier!State, w
  <2>3. 0 \in 0..LoginTries
    BY AgentsAssumption
  <2>4. /\ Steady(u, v) /\ v.waiters = u.waiters
        /\ v.pending = u.pending /\ v.timer = u.timer /\ v.querying = u.querying
        /\ v.verifier = 0 /\ v.talk = "off"
        /\ v.calls = Append(Tail(u.calls), [k |-> "get", n |-> u.cancel])
    BY <2>3, <1>8
  <2> HIDE DEF v
  <2>5. u.calls[1].k \in Opens
    BY <2>1 DEF Opens
  <2>6. VerifierGood(v)
    BY <1>1, <2>1, <2>4, <2>5, ForwardedGood
  <2> QED
    BY <2>2, <2>6
<1>11. ASSUME NEW x \in UserVerifier!State, Steady(u, x), FirstAnswered(u, x),
              x.waiters = u.waiters, LiveAt(u, 1) \/ u.twice, x.verifier \in {0, u.verifier},
              x.talk = IF x.verifier = 0 THEN "off" ELSE u.talk
       PROVE  VerifierGood(UserVerifier!InitError(x))
  <2> DEFINE v == UserVerifier!InitError(x)
  <2>1. /\ Steady(x, v) /\ v.calls = x.calls /\ v.pending /\ v.timer
        /\ v.verifier = x.verifier /\ v.talk = x.talk /\ v.querying = 0
        /\ v.waiters = Append(x.waiters, [k |-> "giveup", n |-> x.cancel])
    BY InitErrorFields
  <2> HIDE DEF v
  <2>2. Steady(u, v) /\ FirstAnswered(u, v)
    BY <1>11, <2>1 DEF Steady, FirstAnswered
  <2>3. /\ v.waiters = Append(u.waiters, [k |-> "giveup", n |-> u.cancel])
        /\ v.verifier \in {0, u.verifier} /\ v.talk = IF v.verifier = 0 THEN "off" ELSE u.talk
    BY <1>11, <2>1 DEF Steady
  <2>4. VerifierGood(v)
    BY <1>1, <1>11, <2>1, <2>2, <2>3, CallFailedGood
  <2> QED
    BY <2>4 DEF v
<1>12. ASSUME NEW k \in {"channel", "get"}, UserVerifier!OpenFailed(k)
       PROVE  VerifierGood(state')
  <2>1. LiveAt(u, 1) \/ u.twice
    BY <1>7, <1>12 DEF UserVerifier!OpenFailed
  <2>2. state' = UserVerifier!InitError(z)
    BY <1>12 DEF UserVerifier!OpenFailed, z, w
  <2>3. z \in UserVerifier!State
    BY <1>5 DEF Steady
  <2> QED
    BY <1>5, <1>11, <2>1, <2>2, <2>3
<1>13. CASE UserVerifier!StartFailed
  <2>1. LiveAt(u, 1) \/ u.twice
    BY <1>7, <1>13 DEF UserVerifier!StartFailed
  <2>2. state' = UserVerifier!InitError(w)
    BY <1>13 DEF UserVerifier!StartFailed, w
  <2>3. w.talk = IF w.verifier = 0 THEN "off" ELSE u.talk
    BY <1>0, <1>2 DEF VerifierKept, VerifierBase, Messages
  <2> QED
    BY <1>2, <1>4, <1>11, <2>1, <2>2, <2>3
<1>14. CASE UserVerifier!Started
  <2>1. u.calls[1].k = "start" /\ (LiveAt(u, 1) \/ u.twice)
    BY <1>7, <1>14 DEF UserVerifier!Started
  <2> DEFINE v == [w EXCEPT !.talk = IF u.verifier = 0 THEN "off" ELSE "on"]
  <2>2. state' = v
    BY <1>14 DEF UserVerifier!Started, w
  <2>3. /\ Steady(u, v) /\ FirstAnswered(u, v) /\ v.waiters = u.waiters
        /\ v.pending = u.pending /\ v.timer = u.timer /\ v.querying = u.querying
        /\ v.status = u.status /\ v.verifier = u.verifier
        /\ v.talk = IF u.verifier = 0 THEN "off" ELSE "on"
    BY <1>2, <1>4 DEF UserVerifier!State, Steady, FirstAnswered
  <2> HIDE DEF v
  <2>4. VerifierGood(v)
    BY <1>1, <2>1, <2>3, StartedGood
  <2> QED
    BY <2>2, <2>4
<1> QED
  BY <1>6, <1>9, <1>10, <1>12, <1>13, <1>14

\* The talk with GDM and with the user.
LEMMA TalkGoesOn ==
  ASSUME VerifierGood(state),
         \/ UserVerifier!Message \/ UserVerifier!MessageTimeout \/ UserVerifier!AskQuestion
         \/ UserVerifier!NextPressed \/ UserVerifier!ConversationStopped
         \/ UserVerifier!VerificationComplete
  PROVE  VerifierGood(state')
<1> DEFINE u == state
<1>1. /\ u \in UserVerifier!State /\ VerifierKept(u) /\ VerifierBase(u) /\ ~u.done
      /\ (Underway(u) \/ Awaited(u)) /\ u.begun \in Nat /\ Len(u.waiters) \in Nat
      /\ u.talk \in {"off", "on", "asked"} /\ u.verifier \in 0..LoginTries
      /\ LoginTries \in Nat /\ u.querying \in 0..LoginTries
  <2>1. ~u.done
    BY DEF UserVerifier!Message, UserVerifier!MessageTimeout, UserVerifier!AskQuestion,
       UserVerifier!NextPressed, UserVerifier!ConversationStopped,
       UserVerifier!VerificationComplete, UserVerifier!On, UserVerifier!Talking
  <2> QED
    BY <2>1, VerifierFields, AgentsAssumption DEF VerifierGood, VerifierKept, VerifierBase
<1>2. ~u.twice => OneTalk(u)
  BY <1>1 DEF VerifierKept, AskedAlone
<1>3. ASSUME NEW v, Steady(u, v), v.calls = u.calls, v.waiters = u.waiters, Messages(v),
             v.verifier = u.verifier, v.talk = u.talk, v.querying = u.querying,
             v.status = u.status, u.pending => v.pending
      PROVE  VerifierGood(v)
  <2>1. VerifierKept(v)
    BY <1>1, <1>3, KeptStays
  <2>2. Underway(u) => Underway(v)
    BY <1>3, UnderwayStays DEF Steady
  <2>3. Awaited(u) => Awaited(v)
    BY <1>3 DEF Awaited, Waits
  <2> QED
    BY <1>1, <2>1, <2>2, <2>3 DEF VerifierGood
<1>4. CASE UserVerifier!Message
  <2> DEFINE v == UserVerifier!QueueMessage(u)
  <2>1. state' = v
    BY <1>4 DEF UserVerifier!Message
  <2>2. /\ Steady(u, v) /\ v.calls = u.calls /\ v.waiters = u.waiters
        /\ v.verifier = u.verifier /\ v.talk = u.talk /\ v.querying = u.querying
        /\ v.status = u.status /\ v.pending /\ v.timer
    BY <1>1, QueueMessageFields
  <2> HIDE DEF v
  <2>3. Messages(v)
    BY <1>1, <2>2 DEF VerifierBase, Messages
  <2> QED
    BY <1>3, <2>1, <2>2, <2>3
<1>5. CASE UserVerifier!MessageTimeout
  <2>1. u.begun + Len(u.waiters) + 2 <= LoginTries /\ u.timer
    BY <1>5 DEF UserVerifier!MessageTimeout, UserVerifier!Room
  <2>2. CASE u.more = 1
    <3> DEFINE v == [u EXCEPT !.more = 0]
    <3>1. state' = v
      BY <1>5, <2>2 DEF UserVerifier!MessageTimeout
    <3>2. /\ Steady(u, v) /\ v.calls = u.calls /\ v.waiters = u.waiters
          /\ v.verifier = u.verifier /\ v.talk = u.talk /\ v.querying = u.querying
          /\ v.status = u.status /\ v.pending = u.pending /\ v.timer = u.timer
      BY <1>1, NoAttempt DEF UserVerifier!State, Steady
    <3> HIDE DEF v
    <3>3. Messages(v)
      BY <1>1, <3>2 DEF VerifierBase, Messages
    <3> QED
      BY <1>3, <3>1, <3>2, <3>3
  <2>3. CASE u.more # 1 /\ ~u.pending
    <3> DEFINE v == [u EXCEPT !.timer = FALSE]
    <3>1. state' = v
      <4>1. v.pending = u.pending
        BY <1>1 DEF UserVerifier!State
      <4> QED
        BY <1>5, <2>3, <4>1 DEF UserVerifier!MessageTimeout
    <3>2. /\ Steady(u, v) /\ v.calls = u.calls /\ v.waiters = u.waiters
          /\ v.verifier = u.verifier /\ v.talk = u.talk /\ v.querying = u.querying
          /\ v.status = u.status /\ v.pending = u.pending
      BY <1>1 DEF UserVerifier!State, Steady
    <3> HIDE DEF v
    <3>3. Messages(v)
      BY <1>1, <2>3, <3>2 DEF VerifierBase, Messages
    <3> QED
      BY <1>3, <3>1, <3>2, <3>3
  <2>4. CASE u.more # 1 /\ u.pending
    <3> DEFINE t == [u EXCEPT !.timer = FALSE]
               a == [t EXCEPT !.pending = FALSE, !.more = 0, !.waiters = <<>>]
    <3>1. /\ t \in UserVerifier!State /\ Steady(u, t) /\ t.calls = u.calls
          /\ t.waiters = u.waiters /\ t.pending = u.pending /\ t.verifier = u.verifier
          /\ t.talk = u.talk /\ t.querying = u.querying /\ t.status = u.status
      BY <1>1 DEF UserVerifier!State, Steady
    <3>2. state' = UserVerifier!RunAllWaiters(a, u.waiters)
      BY <1>5, <2>4, <3>1 DEF UserVerifier!MessageTimeout, UserVerifier!NoMore
    <3> HIDE DEF t
    <3>3. /\ Steady(t, a) /\ a.calls = t.calls /\ a.waiters = <<>> /\ a.pending = FALSE
          /\ a.verifier = t.verifier /\ a.talk = t.talk /\ a.querying = t.querying
          /\ a.status = t.status
      BY <3>1, NoAttempt DEF UserVerifier!State, Steady
    <3> HIDE DEF a
    <3>4. Steady(u, a)
      BY <3>1, <3>3 DEF Steady
    <3>5. u.begun + Len(u.waiters) <= LoginTries
      BY <1>1, <2>1
    <3> QED
      BY <1>1, <3>1, <3>2, <3>3, <3>4, <3>5, AllReadGood
  <2> QED
    BY <2>2, <2>3, <2>4
<1>6. ASSUME u.talk # "off"
      PROVE  /\ u.verifier # 0
             /\ OneTalk(u) => ~LiveCall(u) /\ ~Waits(u, {"retry"}) /\ ~u.list
  BY <1>1, <1>6 DEF VerifierBase, Messages, OneTalk
<1>7. CASE UserVerifier!AskQuestion
  <2> DEFINE t == [u EXCEPT !.talk = "asked", !.querying = u.verifier]
  <2>1. u.talk = "on"
    BY <1>7 DEF UserVerifier!AskQuestion
  <2>2. /\ t \in UserVerifier!State /\ Steady(u, t) /\ t.calls = u.calls
        /\ t.waiters = u.waiters /\ t.pending = u.pending /\ t.verifier = u.verifier
        /\ t.talk = "asked" /\ t.querying = u.verifier /\ t.status = u.status
        /\ t.timer = u.timer
    <3>1. u.verifier \in UserVerifier!Attempts
      BY <1>1 DEF UserVerifier!Attempts
    <3> QED
      BY <1>1, <3>1 DEF UserVerifier!State, Steady
  <2>3. state' = IF u.preempt THEN UserVerifier!AnswerQuery([t EXCEPT !.preempt = FALSE])
                 ELSE [t EXCEPT !.sensitive = TRUE]
    BY <1>7 DEF UserVerifier!AskQuestion
  <2> HIDE DEF t
  <2>4. ASSUME NEW v, Steady(t, v), v.calls = t.calls, v.waiters = t.waiters,
               v.pending = t.pending, v.timer = t.timer, v.verifier = t.verifier,
               v.talk = t.talk, v.querying = t.querying
        PROVE  VerifierGood(v) /\ ~v.done /\ v.querying # 0
    <3>1. /\ Steady(u, v) /\ v.calls = u.calls /\ v.waiters = u.waiters
          /\ v.pending = u.pending /\ v.timer = u.timer /\ v.verifier = u.verifier
          /\ v.talk = "asked" /\ v.querying = u.verifier /\ u.verifier # 0
      BY <1>6, <2>1, <2>2, <2>4 DEF Steady
    <3>2. Messages(v)
      BY <1>1, <3>1 DEF VerifierBase, Messages
    <3>3. /\ \A n : UserVerifier!Live(v, n) <=> UserVerifier!Live(u, n)
          /\ \A i : LiveAt(v, i) <=> LiveAt(u, i)
          /\ LiveCall(v) <=> LiveCall(u)
          /\ \A K : Waits(v, K) <=> Waits(u, K)
      BY <3>1, LiveSame DEF Steady, Waits
    <3>4. ASSUME OneTalk(u) PROVE OneTalk(v)
      <4>1. ~LiveCall(v) /\ ~Waits(v, {"retry"}) /\ ~v.list
        BY <1>6, <2>1, <3>1, <3>3, <3>4 DEF Steady
      <4>2. LastLive(v)
        BY <3>1, <3>3, <3>4 DEF OneTalk, LastLive, Steady
      <4> QED
        BY <4>1, <4>2, <3>1, <3>3, <3>4 DEF OneTalk
    <3>5. VerifierKept(v)
      BY <1>1, <3>1, <3>2, <3>4, SameCalls
    <3>6. Underway(v)
      BY <3>1 DEF Underway
    <3> QED
      BY <1>1, <3>1, <3>5, <3>6 DEF VerifierGood, Steady
  <2>5. CASE u.preempt
    <3> DEFINE v == [t EXCEPT !.preempt = FALSE]
    <3>1. /\ Steady(t, v) /\ v.calls = t.calls /\ v.waiters = t.waiters
          /\ v.pending = t.pending /\ v.timer = t.timer /\ v.verifier = t.verifier
          /\ v.talk = t.talk /\ v.querying = t.querying
      BY <2>2 DEF UserVerifier!State, Steady
    <3> HIDE DEF v
    <3>2. VerifierGood(v) /\ ~v.done /\ v.querying # 0
      BY <2>4, <3>1
    <3> QED
      BY <2>3, <2>5, <3>2, AnswerQueryGood DEF v
  <2>6. CASE ~u.preempt
    <3> DEFINE v == [t EXCEPT !.sensitive = TRUE]
    <3>1. /\ Steady(t, v) /\ v.calls = t.calls /\ v.waiters = t.waiters
          /\ v.pending = t.pending /\ v.timer = t.timer /\ v.verifier = t.verifier
          /\ v.talk = t.talk /\ v.querying = t.querying
      BY <2>2 DEF UserVerifier!State, Steady
    <3> HIDE DEF v
    <3>2. VerifierGood(v)
      BY <2>4, <3>1
    <3> QED
      BY <2>3, <2>6, <3>2 DEF v
  <2> QED
    BY <2>5, <2>6
<1>8. CASE UserVerifier!NextPressed
  <2> DEFINE t == [u EXCEPT !.sensitive = FALSE]
             p == [t EXCEPT !.preempt = TRUE]
  <2>1. state' = IF u.querying # 0 THEN UserVerifier!AnswerQuery(t) ELSE p
    BY <1>8 DEF UserVerifier!NextPressed
  <2>2. /\ Steady(u, t) /\ t.calls = u.calls /\ t.waiters = u.waiters
        /\ t.verifier = u.verifier /\ t.talk = u.talk /\ t.querying = u.querying
        /\ t.status = u.status /\ t.pending = u.pending /\ t.timer = u.timer
    BY <1>1 DEF UserVerifier!State, Steady
  <2>3. /\ Steady(u, p) /\ p.calls = u.calls /\ p.waiters = u.waiters
        /\ p.verifier = u.verifier /\ p.talk = u.talk /\ p.querying = u.querying
        /\ p.status = u.status /\ p.pending = u.pending /\ p.timer = u.timer
    BY <1>1 DEF UserVerifier!State, Steady
  <2> HIDE DEF t, p
  <2>4. VerifierGood(t) /\ ~t.done
    <3>1. Messages(t)
      BY <1>1, <2>2 DEF VerifierBase, Messages
    <3> QED
      BY <1>1, <1>3, <2>2, <3>1 DEF Steady
  <2>5. VerifierGood(p)
    <3>1. Messages(p)
      BY <1>1, <2>3 DEF VerifierBase, Messages
    <3> QED
      BY <1>3, <2>3, <3>1
  <2>6. CASE u.querying # 0
    BY <2>1, <2>2, <2>4, <2>6, AnswerQueryGood
  <2>7. CASE u.querying = 0
    BY <2>1, <2>5, <2>7
  <2> QED
    BY <2>6, <2>7
<1>9. CASE UserVerifier!ConversationStopped
  <2>1. u.talk # "off" /\ u.begun + Len(u.waiters) + 2 <= LoginTries
    BY <1>9 DEF UserVerifier!ConversationStopped, UserVerifier!Talking, UserVerifier!Room
  <2>2. state' = UserVerifier!VerificationFailed([u EXCEPT !.talk = "off"], TRUE)
    BY <1>9 DEF UserVerifier!ConversationStopped
  <2> QED
    BY <1>1, <2>1, <2>2, FailedGood
<1>10. CASE UserVerifier!VerificationComplete
  <2> DEFINE v == [u EXCEPT !.talk = "off", !.status = "succeeded"]
  <2>1. state' = v
    BY <1>10 DEF UserVerifier!VerificationComplete
  <2>2. /\ Steady(u, v) /\ v.calls = u.calls /\ v.waiters = u.waiters
        /\ v.verifier = u.verifier /\ v.talk = "off" /\ v.querying = u.querying
        /\ v.status = "succeeded" /\ v.pending = u.pending /\ v.timer = u.timer
    BY <1>1 DEF UserVerifier!State, Steady
  <2> HIDE DEF v
  <2>3. Messages(v)
    BY <1>1, <2>2 DEF VerifierBase, Messages
  <2>4. /\ \A n : UserVerifier!Live(v, n) <=> UserVerifier!Live(u, n)
        /\ \A i : LiveAt(v, i) <=> LiveAt(u, i)
        /\ LiveCall(v) <=> LiveCall(u)
        /\ \A K : Waits(v, K) <=> Waits(u, K)
    BY <2>2, LiveSame DEF Steady, Waits
  <2>5. ASSUME OneTalk(u) PROVE OneTalk(v)
    <3>1. LastLive(v)
      BY <2>2, <2>4, <2>5 DEF OneTalk, LastLive, Steady
    <3> QED
      BY <2>2, <2>4, <2>5, <3>1 DEF OneTalk, Steady
  <2>6. VerifierKept(v) /\ Underway(v)
    BY <1>1, <2>2, <2>3, <2>5, SameCalls DEF Underway
  <2> QED
    BY <2>1, <2>6 DEF VerifierGood
<1> QED
  BY <1>4, <1>5, <1>7, <1>8, <1>9, <1>10

\* The prompt is left, or the user is through.
LEMMA PromptIsLeft ==
  ASSUME VerifierGood(state),
         \/ UserVerifier!RemoteReset \/ UserVerifier!Escape \/ UserVerifier!Smartcard
         \/ UserVerifier!PickUser \/ UserVerifier!Finish
  PROVE  VerifierGood(state')
<1> DEFINE u == state
<1>1. /\ u \in UserVerifier!State /\ VerifierKept(u) /\ VerifierBase(u) /\ ~u.done
      /\ (Underway(u) \/ Awaited(u)) /\ u.begun \in 0..LoginTries /\ Len(u.waiters) \in Nat
      /\ LoginTries \in Nat
  <2>1. ~u.done
    BY DEF UserVerifier!RemoteReset, UserVerifier!Escape, UserVerifier!Smartcard,
       UserVerifier!PickUser, UserVerifier!Finish, UserVerifier!On
  <2> QED
    BY <2>1, VerifierFields, AgentsAssumption DEF VerifierGood, VerifierKept, VerifierBase
<1>2. ASSUME NEW v, Steady(u, v), v.calls = u.calls, v.waiters = u.waiters,
             v.pending = u.pending, v.timer = u.timer,
             v.verifier = u.verifier, v.talk = u.talk, v.querying = u.querying
      PROVE  /\ VerifierKept(v)
             /\ u.begun + Len(u.waiters) + 2 <= LoginTries => VerifierGood(UserVerifier!Reset(v))
  <2>1. VerifierKept(v)
    <3>1. Messages(v)
      BY <1>1, <1>2 DEF VerifierBase, Messages
    <3> QED
      BY <1>1, <1>2, <3>1, KeptStays
  <2>2. ASSUME u.begun + Len(u.waiters) + 2 <= LoginTries
        PROVE  VerifierGood(UserVerifier!Reset(v))
    <3>1. v.begun + Len(v.waiters) < LoginTries
      BY <1>1, <1>2, <2>2 DEF Steady
    <3>2. Anew(v, UserVerifier!Reset(v))
      BY <2>1, <3>1, KeptIsCancellable, ResetGood
    <3> QED
      BY <3>2, AnewGood DEF VerifierGood
  <2> QED
    BY <2>1, <2>2
<1>3. CASE UserVerifier!RemoteReset
  <2> DEFINE v == [u EXCEPT !.fails = 0, !.status = "idle"]
  <2>1. state' = UserVerifier!Reset(v) /\ u.begun + Len(u.waiters) + 2 <= LoginTries
    BY <1>3 DEF UserVerifier!RemoteReset, UserVerifier!Room
  <2>2. /\ Steady(u, v) /\ v.calls = u.calls /\ v.waiters = u.waiters
        /\ v.pending = u.pending /\ v.timer = u.timer
        /\ v.verifier = u.verifier /\ v.talk = u.talk /\ v.querying = u.querying
    BY <1>1, NoAttempt DEF UserVerifier!State, Steady
  <2> HIDE DEF v
  <2> QED
    BY <1>2, <2>1, <2>2
<1>4. CASE UserVerifier!Escape
  <2>1. state' = UserVerifier!Reset(u) /\ u.begun + Len(u.waiters) + 2 <= LoginTries
    BY <1>4 DEF UserVerifier!Escape, UserVerifier!Room
  <2>2. Steady(u, u)
    BY <1>1 DEF Steady
  <2> QED
    BY <1>2, <2>1, <2>2
<1>5. CASE UserVerifier!Smartcard
  <2> DEFINE v == [u EXCEPT !.card = ~u.card]
  <2>1. /\ state' = IF v.status = "succeeded" THEN v ELSE UserVerifier!Reset(v)
        /\ u.begun + Len(u.waiters) + 2 <= LoginTries
    BY <1>1, <1>5 DEF UserVerifier!Smartcard, UserVerifier!Room
  <2>2. /\ Steady(u, v) /\ v.calls = u.calls /\ v.waiters = u.waiters
        /\ v.pending = u.pending /\ v.timer = u.timer
        /\ v.verifier = u.verifier /\ v.talk = u.talk /\ v.querying = u.querying
    <3>1. (~u.card) \in BOOLEAN
      OBVIOUS
    <3> QED
      BY <1>1, <3>1 DEF UserVerifier!State, Steady
  <2> HIDE DEF v
  <2>3. VerifierKept(v) /\ VerifierGood(UserVerifier!Reset(v))
    BY <1>2, <2>1, <2>2
  <2>4. v.status = "succeeded" => VerifierGood(v)
    BY <2>3 DEF VerifierGood, Underway
  <2> QED
    BY <2>1, <2>3, <2>4
<1>6. CASE UserVerifier!PickUser
  <2> DEFINE v == UserVerifier!PromptBegin(u, TRUE)
  <2>1. /\ state' = v /\ u.list /\ u.begun < LoginTries
    BY <1>1, <1>6 DEF UserVerifier!PickUser, UserVerifier!Room
  <2>2. v \in UserVerifier!State /\ NewAttempt(u, v) /\ ~v.list
    BY <1>1, <2>1, PromptBeginFields
  <2> HIDE DEF v
  <2>3. /\ VerifierBase(v) /\ Len(v.calls) = Len(u.calls) + 1 /\ Len(u.calls) \in Nat
        /\ LiveAt(v, Len(v.calls)) /\ UserVerifier!Live(v, v.cancel)
        /\ OpenCall(v) /\ Renewed(v)
    BY <1>1, <2>2, BegunCalls, VerifierFields
  <2>4. /\ v.verifier = u.verifier /\ v.talk = u.talk /\ v.waiters = u.waiters
        /\ v.done = u.done /\ v.querying = u.querying /\ v.stray = u.stray
        /\ (~v.twice => ~u.twice)
    BY <2>2 DEF NewAttempt
  <2>5. ASSUME ~v.twice PROVE OneTalk(v) /\ ~v.stray
    <3>1. OneTalk(u) /\ ~u.stray
      BY <1>1, <2>4, <2>5 DEF VerifierKept, AskedAlone
    <3>2. LastLive(v)
      BY <1>1, <2>2, <2>5, <3>1, BegunLast DEF OneTalk
    <3>3. v.verifier = 0 /\ v.talk = "off" /\ v.querying = 0
      BY <1>1, <2>1, <2>4, <3>1 DEF OneTalk, VerifierBase, Messages
    <3>4. \A i \in 1..Len(v.waiters) : v.waiters[i].k \notin {"answer", "retry"}
      BY <2>1, <2>4, <3>1, <3>3 DEF OneTalk, Waits
    <3>5. ~Waits(v, {"answer"}) /\ ~Waits(v, {"retry"})
      BY <3>4 DEF Waits
    <3> QED
      BY <2>2, <2>4, <3>1, <3>2, <3>3, <3>4, <3>5 DEF OneTalk
  <2>6. VerifierKept(v)
    BY <2>3, <2>5 DEF VerifierKept, Attending, AskedAlone
  <2> QED
    BY <2>1, <2>3, <2>6 DEF VerifierGood, Underway
<1>7. CASE UserVerifier!Finish /\ u.pending
  <2> DEFINE w == [k |-> "finish", n |-> 0]
             s == Append(u.waiters, w)
             v == [u EXCEPT !.waiters = s]
  <2>1. state' = v
    BY <1>1, <1>7 DEF UserVerifier!Finish
  <2>2. s \in Seq(UserVerifier!Waiters)
    <3>1. u.waiters \in Seq(UserVerifier!Waiters)
      BY <1>1, VerifierFields
    <3>2. w \in UserVerifier!Waiters
      BY NoAttempt DEF UserVerifier!Waiters
    <3> QED
      BY <3>1, <3>2
  <2> HIDE DEF s
  <2>3. /\ Steady(u, v) /\ v.calls = u.calls /\ v.waiters = s /\ v.status = u.status
        /\ v.pending = u.pending /\ v.timer = u.timer
        /\ v.verifier = u.verifier /\ v.talk = u.talk /\ v.querying = u.querying
    BY <1>1, <2>2 DEF UserVerifier!State, Steady
  <2> HIDE DEF v
  <2>4. v.waiters = Append(u.waiters, [k |-> "finish", n |-> 0])
    BY <2>3 DEF s
  <2>5. v.pending /\ v.timer /\ 0 \in 0..LoginTries
    BY <1>1, <1>7, <2>3 DEF VerifierBase, Messages
  <2>6. VerifierKept(v)
    BY <1>1, <2>3, <2>4, <2>5, WaiterKept
  <2>7. Underway(u) => Underway(v)
    BY <2>3, UnderwayStays DEF Steady
  <2>8. Awaited(u) => Awaited(v)
    <3>1. \A K : Waits(v, K) <=> Waits(u, K) \/ "finish" \in K
      BY <1>1, <2>4, <2>5, AppendedWaiter
    <3> QED
      BY <2>3, <3>1 DEF Awaited
  <2> QED
    BY <1>1, <2>1, <2>6, <2>7, <2>8 DEF VerifierGood
<1>8. CASE UserVerifier!Finish /\ ~u.pending
  <2>1. state' = [UserVerifier!Clear(u) EXCEPT !.done = TRUE]
    BY <1>8 DEF UserVerifier!Finish
  <2>2. Cancellable(u)
    BY <1>1, KeptIsCancellable
  <2>3. u.begun + Len(u.waiters) <= LoginTries
    <3>1. u.waiters = <<>>
      BY <1>1, <1>8 DEF VerifierBase, Messages
    <3>2. Len(u.waiters) = 0
      BY <3>1
    <3> QED
      BY <1>1, <3>2
  <2> QED
    BY <2>1, <2>2, <2>3, FinishedGood DEF VerifierGood
<1> QED
  BY <1>3, <1>4, <1>5, <1>6, <1>7, <1>8

LEMMA VerifierStep ==
  ASSUME VerifierGood(state), UserVerifier!Next
  PROVE  VerifierGood(state')
BY CallReturns, TalkGoesOn, PromptIsLeft DEF UserVerifier!Next

LEMMA VerifierInit ==
  ASSUME UserVerifier!Init
  PROVE  VerifierGood(state)
<1>1. PICK m \in {"unlock", "login"} :
        state = [UserVerifier!OnReset([UserVerifier!Idle EXCEPT !.mode = m])
                 EXCEPT !.sensitive = TRUE]
  BY DEF UserVerifier!Init
<1> DEFINE a == [UserVerifier!Idle EXCEPT !.mode = m]
           b == UserVerifier!OnReset(a)
<1>2. /\ a.mode = m /\ a.status = "idle" /\ a.begun = 0 /\ a.cancel = 0 /\ a.cancelled = {}
      /\ a.verifier = 0 /\ a.talk = "off" /\ a.calls = <<>> /\ a.waiters = <<>>
      /\ a.pending = FALSE /\ a.twice = FALSE /\ a.stray = FALSE /\ a.querying = 0
  BY DEF UserVerifier!Idle
<1>3. a \in UserVerifier!State
  <2>1. <<>> \in Seq(UserVerifier!Calls) /\ {} \in SUBSET (1..LoginTries)
    OBVIOUS
  <2> QED
    BY <2>1, NoAttempt DEF UserVerifier!Idle, UserVerifier!State
<1> HIDE DEF a
<1>4. Gone(a)
  <2>1. \A i \in 1..Len(a.calls) : FALSE
    BY <1>2
  <2>2. \A i \in 1..Len(a.waiters) : FALSE
    BY <1>2
  <2>3. VerifierBase(a)
    BY <1>2, <1>3, <2>1 DEF VerifierBase, Numbered, Messages
  <2>4. LastLive(a) /\ ~LiveCall(a) /\ ~Waits(a, {"answer", "retry"})
        /\ ~UserVerifier!Live(a, a.cancel)
    BY <1>2, <2>1, <2>2 DEF LastLive, LiveCall, Waits, UserVerifier!Live
  <2> QED
    BY <1>2, <2>3, <2>4 DEF Gone
<1>5. Restarted(a, b)
  BY <1>2, <1>4, OnResetGood, AgentsAssumption
<1> HIDE DEF b
<1>6. VerifierKept(b) /\ VerifierBase(b) /\ Underway(b) /\ b \in UserVerifier!State
  BY <1>5, AnewGood DEF VerifierKept, VerifierBase
<1>7. /\ Steady(b, state) /\ state.calls = b.calls /\ state.waiters = b.waiters
      /\ state.pending = b.pending /\ state.timer = b.timer /\ state.status = b.status
      /\ state.verifier = b.verifier /\ state.talk = b.talk /\ state.querying = b.querying
  <2>1. state = [b EXCEPT !.sensitive = TRUE]
    BY <1>1 DEF a, b
  <2> QED
    BY <1>6, <2>1 DEF UserVerifier!State, Steady
<1>8. Messages(state)
  BY <1>6, <1>7 DEF VerifierBase, Messages
<1>9. VerifierKept(state)
  BY <1>6, <1>7, <1>8, KeptStays
<1>10. Underway(state)
  BY <1>6, <1>7, UnderwayStays DEF Steady
<1> QED
  BY <1>9, <1>10 DEF VerifierGood

\* What the run checks of the prompt.
LEMMA VerifierAnswers ==
  ASSUME VerifierGood(state)
  PROVE  UserVerifier!TypeOK /\ UserVerifier!PromptGoesOn /\ UserVerifier!AnswerGoesToAsker
<1>1. /\ state \in UserVerifier!State /\ VerifierBase(state) /\ AskedAlone(state)
      /\ (Underway(state) \/ Awaited(state))
  BY DEF VerifierGood, VerifierKept, VerifierBase
<1>2. /\ state.calls \in Seq(UserVerifier!Calls) /\ state.waiters \in Seq(UserVerifier!Waiters)
  BY <1>1, VerifierFields
<1>3. LiveCall(state) \/ OpenCall(state) =>
        \E c \in UserVerifier!Range(state.calls) : UserVerifier!Live(state, c.n)
  BY <1>2 DEF LiveCall, OpenCall, LiveAt, UserVerifier!Range
<1>4. Awaited(state) =>
        \E w \in UserVerifier!Range(state.waiters) : w.k \in {"retry", "giveup"}
  BY <1>2 DEF Awaited, Waits, UserVerifier!Range
<1>5. UserVerifier!PromptGoesOn
  <2>1. CASE Underway(state)
    BY <1>3, <2>1 DEF Underway, UserVerifier!PromptGoesOn
  <2>2. CASE Awaited(state)
    BY <1>1, <1>4, <2>2 DEF Awaited, VerifierBase, Messages, UserVerifier!PromptGoesOn
  <2> QED
    BY <1>1, <2>1, <2>2
<1>6. UserVerifier!AnswerGoesToAsker
  BY <1>1 DEF AskedAlone, OneTalk, UserVerifier!AnswerGoesToAsker
<1> QED
  BY <1>1, <1>5, <1>6 DEF UserVerifier!TypeOK

\* For any number of attempts and of failures that the greeter allows: a prompt that has
\* neither succeeded nor been left is never dead - GDM has a call of it to answer, a
\* conversation goes on, or a message is read after which it tries again or gives up - and
\* as long as no attempt was begun beside one under way, the question on the screen is the
\* one of the verifier that gets the answer (gdm/util.js, gdm/authPrompt.js).
THEOREM PromptIsNeverDead ==
  UserVerifier!Spec => [](/\ UserVerifier!TypeOK /\ UserVerifier!PromptGoesOn
                          /\ UserVerifier!AnswerGoesToAsker)
<1>1. VerifierGood(state) /\ [UserVerifier!Next]_(UserVerifier!uvVars) => VerifierGood(state)'
  <2>1. CASE UserVerifier!Next
    BY <2>1, VerifierStep
  <2>2. CASE UNCHANGED UserVerifier!uvVars
    BY <2>2 DEF UserVerifier!uvVars
  <2> QED BY <2>1, <2>2
<1> QED
  BY <1>1, VerifierInit, VerifierAnswers, PTL DEF UserVerifier!Spec
=============================================================================
