---------------------------- MODULE DeferredWork ----------------------------
(***************************************************************************)
(* The deferred work of main.js: what an actor has to do to be up to date  *)
(* is done before the next redraw if the actor is mapped, else when it is  *)
(* mapped or after twenty seconds. A callback may queue work, its own or   *)
(* another's, and may throw.                                               *)
(***************************************************************************)
EXTENDS Integers, Sequences, FiniteSets

CONSTANTS Works, MaxQueued   \* MaxQueued bounds the queue of before the redraw

NoWork == "none"

VARIABLE dw   \* the queues and the actors

dwVars == <<dw>>

State == [alive  : SUBSET Works,          \* _deferredWorkData
          mapped : SUBSET Works,
          queue  : Seq(Works),            \* _deferredWorkQueue
          before : Seq(Works),            \* _beforeRedrawQueue
          later  : BOOLEAN,               \* its callback is due
          timer  : {"none", "running", "over"},   \* _deferredTimeoutId; over: not reset
          thrown : BOOLEAN]               \* history: a callback threw

Init == dw = [alive |-> {}, mapped |-> {}, queue |-> <<>>, before |-> <<>>, later |-> FALSE,
              timer |-> "none", thrown |-> FALSE]
-----------------------------------------------------------------------------
In(w, q) == \E i \in DOMAIN q : q[i] = w
Without(q, w) == SelectSeq(q, LAMBDA v : v # w)

\* _queueBeforeRedraw(): only the first asks to be called.
QueueBeforeRedraw(u, w) ==
  [u EXCEPT !.before = Append(@, w), !.later = @ \/ u.before = <<>>]

\* Mutant of QueueWork: what is queued already is not looked at again.
QueueOnce(u, w) ==
  IF w \notin u.alive \/ In(w, u.queue) THEN u
  ELSE LET v == [u EXCEPT !.queue = Append(@, w)]
       IN IF w \in u.mapped THEN QueueBeforeRedraw(v, w) ELSE v

\* queueDeferredWork()
QueueWork(u, w) ==
  IF w \notin u.alive THEN u
  ELSE LET v == IF In(w, u.queue) THEN u ELSE [u EXCEPT !.queue = Append(@, w)]
       IN IF w \in u.mapped THEN QueueBeforeRedraw(v, w)
          ELSE IF v.timer = "none" THEN [v EXCEPT !.timer = "running"] ELSE v

\* What the callbacks do while the queues are run: one may queue a work, one may throw.
Effects == [by : Works, queues : Works \cup {NoWork}, throws : Works \cup {NoWork}]

\* The timer is removed when nothing is queued any more.
Stopped(u) == IF u.queue = <<>> THEN [u EXCEPT !.timer = "none"] ELSE u

\* _runDeferredWork(): off the queue, then the callback.
RunWork(u, w, e) ==
  IF w \notin u.alive \/ ~In(w, u.queue) THEN u
  ELSE LET v == [u EXCEPT !.queue = Without(@, w)]
       IN IF e.throws = w THEN [v EXCEPT !.thrown = TRUE]
          ELSE Stopped(IF e.by = w /\ e.queues # NoWork THEN QueueWork(v, e.queues) ELSE v)

\* A callback queues something the first time only: for ever would be a loop of its own.
Calm(e, w) == IF e.by = w THEN [e EXCEPT !.queues = NoWork] ELSE e

RECURSIVE RunBefore(_, _, _), RunAll(_, _)

\* _runBeforeRedrawQueue(): what is added meanwhile is run as well. An exception leaves
\* the queue as it is.
RunBefore(u, i, e) ==
  IF i > Len(u.before) THEN [u EXCEPT !.before = <<>>]
  ELSE LET w == u.before[i]
           v == RunWork(u, w, e)
       IN IF v.thrown # u.thrown THEN v
          ELSE RunBefore(v, i + 1, IF v = u THEN e ELSE Calm(e, w))

\* _runAllDeferredWork()
RunAll(u, e) ==
  IF u.queue = <<>> THEN [u EXCEPT !.timer = "none"]
  ELSE LET w == u.queue[1]
           v == RunWork(u, w, e)
       IN IF v.thrown # u.thrown THEN [v EXCEPT !.timer = "over"] ELSE RunAll(v, Calm(e, w))

\* Only the first exception is followed: what it leaves behind is the same again.
Follow(e) == dw.thrown => e.throws = NoWork

BeforeRedraw(e) == /\ dw.later /\ Follow(e)
                   /\ dw' = RunBefore([dw EXCEPT !.later = FALSE], 1, e)

CanQueue == Len(dw.before) < MaxQueued

DeferredTimeout(e) == /\ dw.timer = "running" /\ Follow(e) /\ CanQueue /\ dw' = RunAll(dw, e)

\* initializeDeferredWork()
Initialize(w) == w \notin dw.alive /\ dw' = QueueWork([dw EXCEPT !.alive = @ \cup {w}], w)

Queue(w) == w \in dw.alive /\ CanQueue /\ dw' = QueueWork(dw, w)

\* 'notify::mapped'
Mapped(w) ==
  /\ w \in dw.alive \ dw.mapped /\ CanQueue
  /\ LET u == [dw EXCEPT !.mapped = @ \cup {w}]
     IN dw' = IF In(w, u.queue) THEN QueueBeforeRedraw(u, w) ELSE u
Unmapped(w) == w \in dw.mapped /\ dw' = [dw EXCEPT !.mapped = @ \ {w}]

Destroyed(w) == /\ w \in dw.alive
                /\ dw' = [dw EXCEPT !.alive = @ \ {w}, !.mapped = @ \ {w}, !.queue = Without(@, w)]

Next == \/ \E e \in Effects : BeforeRedraw(e) \/ DeferredTimeout(e)
        \/ \E w \in Works : Initialize(w) \/ Queue(w) \/ Mapped(w) \/ Unmapped(w) \/ Destroyed(w)

Spec == Init /\ [][Next]_dwVars
-----------------------------------------------------------------------------
TypeOK == dw \in State

\* As long as no callback has thrown, work that is queued will be done: before the next
\* redraw, which is asked for, or when the timer that is running ends; for a mapped actor
\* before the next redraw.
QueuedWillRun == ~dw.thrown => \A w \in Works : In(w, dw.queue) =>
  /\ w \in dw.alive
  /\ (dw.later /\ In(w, dw.before)) \/ dw.timer = "running"
  /\ w \in dw.mapped => dw.later /\ In(w, dw.before)
=============================================================================
