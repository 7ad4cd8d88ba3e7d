----------------------------- MODULE PromptProofs -----------------------------
(***************************************************************************)
(* Proofs about the three system dialogs. What the session manager may     *)
(* rely on, for any number of requests and any types: the invariant        *)
(* follows one answer on its way from the button's handler or the          *)
(* countdown to PackageKit and to the session manager. And of the dialogs  *)
(* of polkit and of the keyring: nobody waits for a dialog that cannot be  *)
(* seen, and a request is answered by its own dialog, for every number of  *)
(* requests and questions.                                                 *)
(***************************************************************************)
EXTENDS MCEndSessionDialog, Integers, Sequences, TLAPS
-----------------------------------------------------------------------------
(* The end session dialog. *)

\* The answers of the current request, wherever they are.
OnTheWay(u) == u.handlers \cup u.calls \cup u.confirmed

\* Only the last countdown can run, and it has the dialog's id.
Known(u) == ~u.overlapped => u.running \subseteq {u.timer}

\* A request that goes on is the one that was asked for.
Current(u) ==
  ~u.overlapped /\ ~Finished(u) => u.type = u.asked /\ u.buttons = u.asked

Offered(u) == u.offered => u.buttons = "SHUTDOWN"

\* A countdown that outran a closed dialog leaves it closed.
RacedClosed(u) == ~u.overlapped /\ u.raced => ~IsOpen(u)

AsAsked(u) ==
  ~u.overlapped => \A a \in OnTheWay(u) : a.signal \in Buttons(u.asked)

\* There is one answer and it is in one place; the countdown that could give
\* another one is stopped before the session manager has it.
One(u) ==
  /\ \A a, b \in OnTheWay(u) : a = b
  /\ u.handlers # {} => ~IsOpen(u) /\ u.calls = {}
  /\ u.confirmed # {} => u.handlers = {} /\ u.calls = {} /\ u.running = {} /\ ~u.modal
  /\ u.calls # {} /\ u.running # {} => ~IsOpen(u)

OneAnswer(u) == ~u.overlapped /\ ~u.awaited /\ ~u.raced => One(u)

\* After Cancel nothing is left that could confirm.
Over(u) == u.running = {} /\ OnTheWay(u) = {} /\ ~IsOpen(u)

CanceledOver(u) == u.canceled /\ ~u.overlapped /\ ~u.awaited => Over(u)

Grabbed(u) == u.modal = (IsOpen(u) /\ ~u.faded)

Replied(u) == u.state = "OPENED" /\ ~u.overlapped => u.waiting = {}

\* Every dialog that is not closed has a request.
Numbered(u) == u.req = 0 => u.state = "CLOSED"

Answering(u) ==
  /\ u \in Dialog /\ Numbered(u)
  /\ Grabbed(u) /\ Known(u) /\ Current(u) /\ Offered(u) /\ RacedClosed(u)
  /\ AsAsked(u) /\ OneAnswer(u) /\ CanceledOver(u) /\ Replied(u)

IInv == Answering(d)
-----------------------------------------------------------------------------
(* The helpers *)

\* What confirming leaves alone.
Kept(u, p) ==
  /\ p.state = u.state /\ p.type = u.type /\ p.buttons = u.buttons
  /\ p.offered = u.offered /\ p.checked = u.checked /\ p.waiting = u.waiting
  /\ p.handlers = u.handlers /\ p.req = u.req /\ p.asked = u.asked
  /\ p.canceled = u.canceled /\ p.overlapped = u.overlapped
  /\ p.awaited = u.awaited /\ p.raced = u.raced

\* Emitting a confirmation fades the dialog out and stops its countdown.
LEMMA EmitEffect ==
  ASSUME NEW u \in Dialog, NEW A \in SUBSET Answers
  PROVE  LET p == Emit(u, A) IN
         /\ p \in Dialog /\ Kept(u, p)
         /\ p.calls = u.calls /\ p.confirmed = u.confirmed \cup A
         /\ p.timer = 0 /\ p.running = u.running \ {u.timer}
         /\ p.modal = (u.modal /\ ~IsOpen(u)) /\ p.faded = (u.faded \/ IsOpen(u))
<1>1. CASE IsOpen(u)
  <2> DEFINE v == [u EXCEPT !.modal = FALSE, !.faded = TRUE]
  <2>1. v \in Dialog /\ Kept(u, v) /\ v.calls = u.calls /\ v.confirmed = u.confirmed
        /\ v.timer = u.timer /\ v.running = u.running /\ v.modal = FALSE /\ v.faded = TRUE
    BY DEF Dialog, Kept
  <2>2. Emit(u, A) = [StopTimer(v) EXCEPT !.confirmed = @ \cup A]
    BY <1>1 DEF Emit, FadeOut
  <2> HIDE DEF v
  <2>3. StopTimer(v) \in Dialog /\ Kept(u, StopTimer(v))
        /\ StopTimer(v).calls = u.calls /\ StopTimer(v).confirmed = u.confirmed
        /\ StopTimer(v).timer = 0 /\ StopTimer(v).running = u.running \ {u.timer}
        /\ StopTimer(v).modal = FALSE /\ StopTimer(v).faded = TRUE
    BY <2>1 DEF StopTimer, Dialog, Kept
  <2> DEFINE w == StopTimer(v)
             p == [w EXCEPT !.confirmed = @ \cup A]
  <2> HIDE DEF w
  <2>4. p \in Dialog
    <3> DEFINE all == w.confirmed \cup A
    <3>1. w \in Dialog /\ all \in SUBSET Answers
      BY <2>3 DEF w, Dialog
    <3> HIDE DEF all
    <3> QED
      BY <3>1 DEF Dialog
  <2>5. /\ p.state = w.state /\ p.type = w.type /\ p.buttons = w.buttons
        /\ p.offered = w.offered /\ p.checked = w.checked /\ p.waiting = w.waiting
        /\ p.handlers = w.handlers /\ p.req = w.req /\ p.asked = w.asked
        /\ p.canceled = w.canceled /\ p.overlapped = w.overlapped
        /\ p.awaited = w.awaited /\ p.raced = w.raced
    BY <2>3 DEF w, Dialog
  <2>6. /\ p.calls = w.calls /\ p.confirmed = w.confirmed \cup A
        /\ p.timer = w.timer /\ p.running = w.running
        /\ p.modal = w.modal /\ p.faded = w.faded
    BY <2>3 DEF w, Dialog
  <2>7. Emit(u, A) = p
    BY <2>2 DEF w
  <2> HIDE DEF p
  <2>8. Kept(u, p)
    BY <2>3, <2>5 DEF w, Kept
  <2> QED
    BY <1>1, <2>3, <2>4, <2>6, <2>7, <2>8 DEF w
<1>2. CASE ~IsOpen(u)
  <2> DEFINE all == u.confirmed \cup A
             rest == u.running \ {u.timer}
             p == [u EXCEPT !.timer = 0, !.running = rest, !.confirmed = all]
  <2>1. all \in SUBSET Answers /\ rest \in SUBSET u.running
    BY DEF Dialog
  <2>2. Emit(u, A) = p
    BY <1>2 DEF Emit, StopTimer, FadeOut, Dialog
  <2>3. u.running \ {u.timer} = rest /\ u.confirmed \cup A = all
    OBVIOUS
  <2> HIDE DEF all, rest
  <2>4. p \in Dialog
    BY <2>1 DEF Dialog
  <2>5. Kept(u, p)
    BY DEF Dialog, Kept
  <2>6. /\ p.calls = u.calls /\ p.confirmed = all /\ p.timer = 0 /\ p.running = rest
        /\ p.modal = u.modal /\ p.faded = u.faded
    BY DEF Dialog
  <2>7. u.modal \in BOOLEAN /\ u.faded \in BOOLEAN
    BY DEF Dialog
  <2> HIDE DEF p
  <2> QED
    BY <1>2, <2>2, <2>3, <2>4, <2>5, <2>6, <2>7
<1> QED
  BY <1>1, <1>2

\* Only a shutdown that is held back becomes another answer, a restart.
LEMMA RestartingType ==
  ASSUME NEW u \in Dialog, NEW a \in Answers
  PROVE  /\ Restarting(u, a) \in Answers
         /\ Restarting(u, a).signal = a.signal
              \/ (a.signal = "ConfirmedShutdown" /\ Restarting(u, a).signal = "ConfirmedReboot")
BY DEF Restarting, Answers

\* No answer at all changes nothing.
LEMMA ConfirmNone ==
  ASSUME NEW u \in Dialog
  PROVE  Confirm(u, {}) = u
BY DEF Confirm, Dialog

\* One answer goes to PackageKit or to the session manager.
LEMMA ConfirmOne ==
  ASSUME NEW u \in Dialog, NEW a \in Answers
  PROVE  LET p == Confirm(u, {a}) IN
         IF Deferred(u, a)
           THEN p = [u EXCEPT !.calls = @ \cup {Restarting(u, a)}]
           ELSE p = Emit(u, {a})
<1>1. CASE Deferred(u, a)
  BY <1>1 DEF Confirm
<1>2. CASE ~Deferred(u, a)
  <2>1. [u EXCEPT !.calls = @ \cup {}] = u
    BY DEF Dialog
  <2>2. {b \in {a} : ~Deferred(u, b)} = {a} /\ {Restarting(u, b) : b \in {a} \ {a}} = {}
    BY <1>2
  <2> QED
    BY <1>2, <2>1, <2>2 DEF Confirm
<1> QED
  BY <1>1, <1>2

\* Several answers keep the types, and what confirming leaves alone.
LEMMA ConfirmKeeps ==
  ASSUME NEW u \in Dialog, NEW A \in SUBSET Answers
  PROVE  LET p == Confirm(u, A) IN
         /\ p \in Dialog /\ Kept(u, p)
         /\ p.calls \subseteq u.calls \cup {Restarting(u, a) : a \in A}
         /\ p.confirmed \subseteq u.confirmed \cup A
         /\ \/ p.timer = u.timer /\ p.running = u.running
            \/ p.timer = 0 /\ p.running = u.running \ {u.timer}
         /\ \/ p.modal = u.modal /\ p.faded = u.faded
            \/ p.modal = (u.modal /\ ~IsOpen(u)) /\ p.faded = (u.faded \/ IsOpen(u))
<1> DEFINE now == {a \in A : ~Deferred(u, a)}
           C == {Restarting(u, a) : a \in A \ now}
           v == [u EXCEPT !.calls = @ \cup C]
<1>1. C \subseteq Answers /\ C \subseteq {Restarting(u, a) : a \in A}
  BY RestartingType
<1>2. v \in Dialog /\ Kept(u, v) /\ v.running = u.running /\ v.timer = u.timer
      /\ v.modal = u.modal /\ v.faded = u.faded
      /\ v.calls = u.calls \cup C /\ v.confirmed = u.confirmed
  <2> HIDE DEF C
  <2> QED
    BY <1>1 DEF Dialog, Kept
<1>3. now \subseteq A /\ now \in SUBSET Answers
  OBVIOUS
<1>4. CASE now = {}
  <2>1. Confirm(u, A) = v
    BY <1>4 DEF Confirm
  <2> HIDE DEF v, C
  <2> QED
    BY <1>1, <1>2, <2>1
<1>5. CASE now # {}
  <2>1. Confirm(u, A) = Emit(v, now)
    BY <1>5 DEF Confirm
  <2> HIDE DEF now, v, C
  <2>2. IsOpen(v) = IsOpen(u)
    BY <1>2 DEF Kept, IsOpen
  <2>3. LET p == Emit(v, now) IN
        /\ p \in Dialog /\ Kept(v, p)
        /\ p.calls = v.calls /\ p.confirmed = v.confirmed \cup now
        /\ p.timer = 0 /\ p.running = v.running \ {v.timer}
        /\ p.modal = (v.modal /\ ~IsOpen(v)) /\ p.faded = (v.faded \/ IsOpen(v))
    BY <1>2, <1>3, EmitEffect
  <2>4. Kept(u, Emit(v, now))
    BY <1>2, <2>3 DEF Kept
  <2> QED
    BY <1>1, <1>2, <1>3, <2>1, <2>2, <2>3, <2>4
<1> QED
  BY <1>4, <1>5

\* The countdown presses one of the buttons.
LEMMA ButtonsType ==
  ASSUME NEW t \in Types
  PROVE  /\ LastButton(t) \in Buttons(t)
         /\ Buttons(t) \subseteq {"ConfirmedLogout", "ConfirmedReboot", "ConfirmedShutdown"}
         /\ "ConfirmedShutdown" \in Buttons(t) => "ConfirmedReboot" \in Buttons(t)
BY DEF Types, Buttons, LastButton
-----------------------------------------------------------------------------
(* Opening *)

\* While requests overlap only the grab and the check box are promised.
LEMMA OverlappedSound ==
  ASSUME NEW u \in Dialog, Numbered(u), Grabbed(u), Offered(u), u.overlapped
  PROVE  Answering(u)
BY DEF Answering, Known, Current, RacedClosed, AsAsked, OneAnswer, CanceledOver, Replied, Dialog

\* A dialog whose check box and history of overlaps change is still one.
LEMMA FitsBox ==
  ASSUME NEW x \in Dialog, NEW a \in BOOLEAN, NEW b \in BOOLEAN, NEW e \in BOOLEAN
  PROVE  [x EXCEPT !.offered = a, !.checked = b, !.overlapped = e] \in Dialog
<1> DEFINE y == [x EXCEPT !.offered = a, !.checked = b]
<1>1. y \in Dialog
  BY DEF Dialog
<1>2. [x EXCEPT !.offered = a, !.checked = b, !.overlapped = e] = [y EXCEPT !.overlapped = e]
  BY DEF Dialog
<1> HIDE DEF y
<1> QED
  BY <1>1, <1>2 DEF Dialog

\* What an Open() changes before it is accepted keeps the dialog sound.
LEMMA PreparedEffect ==
  ASSUME Answering(d), NEW t \in Types, NEW offered \in BOOLEAN, NEW checked \in BOOLEAN,
         offered => t = "SHUTDOWN"
  PROVE  LET u == Prepared(t, offered, checked) IN
         /\ u \in Dialog /\ Answering(u)
         /\ u.type = t /\ u.buttons = t /\ u.offered = offered
         /\ u.overlapped = (d.overlapped \/ ~Finished(d))
         /\ u.state = d.state /\ u.modal = d.modal /\ u.faded = d.faded
         /\ u.timer = d.timer /\ u.running = d.running /\ u.waiting = d.waiting
         /\ u.handlers = d.handlers /\ u.calls = d.calls /\ u.req = d.req
         /\ u.confirmed = d.confirmed
<1> DEFINE u == Prepared(t, offered, checked)
<1>1. /\ u \in Dialog
      /\ u.type = t /\ u.buttons = t /\ u.offered = offered
      /\ u.overlapped = (d.overlapped \/ ~Finished(d))
      /\ u.state = d.state /\ u.modal = d.modal /\ u.faded = d.faded
      /\ u.timer = d.timer /\ u.running = d.running /\ u.waiting = d.waiting
      /\ u.handlers = d.handlers /\ u.calls = d.calls /\ u.req = d.req
      /\ u.confirmed = d.confirmed /\ u.asked = d.asked /\ u.canceled = d.canceled
      /\ u.awaited = d.awaited /\ u.raced = d.raced
  <2> DEFINE o == d.overlapped \/ ~Finished(d)
             c == offered /\ checked
  <2>1. o \in BOOLEAN /\ c \in BOOLEAN
    OBVIOUS
  <2>2. u = [d EXCEPT !.type = t, !.buttons = t, !.offered = offered, !.checked = c,
                      !.overlapped = o]
    BY DEF Prepared, Answering, Dialog
  <2>3. o = (d.overlapped \/ ~Finished(d))
    OBVIOUS
  <2> HIDE DEF o, c, u
  <2>4. d \in Dialog
    BY DEF Answering
  <2>5. u \in Dialog
    <3> DEFINE x == [d EXCEPT !.type = t, !.buttons = t]
    <3>1. x \in Dialog
      BY <2>4 DEF Dialog
    <3>2. u = [x EXCEPT !.offered = offered, !.checked = c, !.overlapped = o]
      BY <2>2, <2>4 DEF Dialog
    <3> HIDE DEF x
    <3> QED
      BY <2>1, <3>1, <3>2, FitsBox
  <2>6. /\ u.type = t /\ u.buttons = t /\ u.offered = offered /\ u.overlapped = o
        /\ u.state = d.state /\ u.modal = d.modal /\ u.faded = d.faded
        /\ u.timer = d.timer /\ u.running = d.running /\ u.waiting = d.waiting
        /\ u.handlers = d.handlers /\ u.calls = d.calls /\ u.req = d.req
        /\ u.confirmed = d.confirmed /\ u.asked = d.asked /\ u.canceled = d.canceled
        /\ u.awaited = d.awaited /\ u.raced = d.raced
    BY <2>2, <2>4 DEF Dialog
  <2> QED
    BY <2>3, <2>5, <2>6
<1> HIDE DEF u
<1>2. Grabbed(u) /\ Offered(u) /\ Numbered(u)
  BY <1>1 DEF Answering, Grabbed, Offered, Numbered, IsOpen
<1>3. CASE u.overlapped
  BY <1>1, <1>2, <1>3, OverlappedSound DEF u
<1>4. CASE ~u.overlapped
  <2>1. Finished(d) /\ ~d.overlapped /\ Finished(u)
    BY <1>1, <1>4 DEF Finished
  <2>2. OnTheWay(u) = OnTheWay(d) /\ IsOpen(u) = IsOpen(d)
    BY <1>1 DEF OnTheWay, IsOpen
  <2>3. Known(u) /\ Current(u) /\ RacedClosed(u) /\ Replied(u)
    BY <1>1, <2>1, <2>2 DEF Answering, Known, Current, RacedClosed, Replied
  <2>4. AsAsked(u) /\ OneAnswer(u) /\ CanceledOver(u)
    BY <1>1, <2>1, <2>2 DEF Answering, AsAsked, OneAnswer, CanceledOver, One, Over
  <2> QED
    BY <1>1, <1>2, <2>3, <2>4 DEF Answering, u
<1> QED
  BY <1>1, <1>3, <1>4 DEF u

\* A new request starts without answers; it has the history to itself if the
\* ones before are finished.
LEMMA AcceptedEffect ==
  ASSUME NEW u \in Dialog, u.type \in Types, u.req < MaxRequests
  PROVE  LET p == Accepted(u) IN
         /\ p \in Dialog
         /\ p.state = u.state /\ p.modal = u.modal /\ p.faded = u.faded
         /\ p.type = u.type /\ p.buttons = u.buttons /\ p.offered = u.offered
         /\ p.handlers = u.handlers /\ p.calls = u.calls
         /\ p.req = u.req + 1 /\ p.asked = u.type /\ p.canceled = FALSE /\ p.confirmed = {}
         /\ \/ p.timer = u.req + 1 /\ p.running = u.running \cup {u.req + 1}
            \/ p.timer = u.timer /\ p.running = u.running
         /\ p.overlapped = (u.overlapped /\ ~Finished(d))
         /\ p.raced = (u.raced /\ ~Finished(d))
<1> DEFINE ghost == IF Finished(d)
                      THEN [u EXCEPT !.overlapped = FALSE, !.awaited = FALSE, !.raced = FALSE]
                      ELSE u
           v == [ghost EXCEPT !.req = @ + 1, !.asked = u.type, !.canceled = FALSE,
                              !.confirmed = {}]
           w == StartTimer(v)
<1>0. u.req + 1 \in Requests
  BY EndSessionAssumption DEF Dialog, Requests
<1>1. /\ ghost \in Dialog
      /\ ghost.state = u.state /\ ghost.modal = u.modal /\ ghost.faded = u.faded
      /\ ghost.type = u.type /\ ghost.buttons = u.buttons /\ ghost.offered = u.offered
      /\ ghost.handlers = u.handlers /\ ghost.calls = u.calls
      /\ ghost.timer = u.timer /\ ghost.running = u.running /\ ghost.req = u.req
      /\ ghost.overlapped = (u.overlapped /\ ~Finished(d))
      /\ ghost.raced = (u.raced /\ ~Finished(d))
  <2>1. CASE Finished(d)
    <3> HIDE DEF Finished
    <3> QED
      BY <2>1 DEF Dialog
  <2>2. CASE ~Finished(d)
    <3> HIDE DEF Finished
    <3> QED
      BY <2>2 DEF Dialog
  <2> QED
    BY <2>1, <2>2
<1> HIDE DEF ghost
<1>2. /\ v \in Dialog
      /\ v.state = u.state /\ v.modal = u.modal /\ v.faded = u.faded
      /\ v.type = u.type /\ v.buttons = u.buttons /\ v.offered = u.offered
      /\ v.handlers = u.handlers /\ v.calls = u.calls
      /\ v.timer = u.timer /\ v.running = u.running /\ v.req = u.req + 1
      /\ v.asked = u.type /\ v.canceled = FALSE /\ v.confirmed = {}
      /\ v.overlapped = ghost.overlapped /\ v.raced = ghost.raced
  BY <1>0, <1>1 DEF Dialog
<1> HIDE DEF v
<1>3. /\ w \in Dialog
      /\ w.state = u.state /\ w.modal = u.modal /\ w.faded = u.faded
      /\ w.type = u.type /\ w.buttons = u.buttons /\ w.offered = u.offered
      /\ w.handlers = u.handlers /\ w.calls = u.calls /\ w.req = u.req + 1
      /\ w.asked = u.type /\ w.canceled = FALSE /\ w.confirmed = {}
      /\ w.overlapped = ghost.overlapped /\ w.raced = ghost.raced
      /\ \/ w.timer = u.req + 1 /\ w.running = u.running \cup {u.req + 1}
         \/ w.timer = u.timer /\ w.running = u.running
  <2>1. CASE CountsDown(v.type)
    <3> DEFINE all == v.running \cup {v.req}
               x == [v EXCEPT !.timer = v.req, !.running = all]
    <3>1. all = u.running \cup {u.req + 1} /\ v.req = u.req + 1
      BY <1>2
    <3>2. v.req \in Requests /\ all \in SUBSET Requests
      BY <1>0, <1>2 DEF Dialog
    <3>3. w = x
      BY <1>2, <2>1 DEF StartTimer, Dialog
    <3> HIDE DEF all, w
    <3>4. x \in Dialog
      BY <1>2, <3>2 DEF Dialog
    <3>5. /\ x.state = v.state /\ x.modal = v.modal /\ x.faded = v.faded
          /\ x.type = v.type /\ x.buttons = v.buttons /\ x.offered = v.offered
          /\ x.handlers = v.handlers /\ x.calls = v.calls /\ x.req = v.req
          /\ x.asked = v.asked /\ x.canceled = v.canceled /\ x.confirmed = v.confirmed
          /\ x.overlapped = v.overlapped /\ x.raced = v.raced
          /\ x.timer = v.req /\ x.running = all
      BY <1>2 DEF Dialog
    <3> HIDE DEF x
    <3> QED
      BY <1>2, <3>1, <3>3, <3>4, <3>5
  <2>2. CASE ~CountsDown(v.type)
    BY <1>2, <2>2 DEF StartTimer
  <2> QED
    BY <2>1, <2>2
<1>4. Accepted(u) = [w EXCEPT !.waiting = @ \cup {v.req}]
  BY DEF Accepted, ghost, v
<1> HIDE DEF w
<1> QED
  BY <1>0, <1>1, <1>2, <1>3, <1>4 DEF Dialog

\* A request of the session manager, accepted or not.
LEMMA OpenSound ==
  ASSUME Answering(d), NEW t \in Types, NEW offered \in BOOLEAN, NEW checked \in BOOLEAN,
         Open(t, offered, checked)
  PROVE  Answering(d')
<1> DEFINE u == Prepared(t, offered, checked)
           v == [u EXCEPT !.state = "OPENING", !.modal = TRUE, !.faded = FALSE]
<1>1. /\ offered => t = "SHUTDOWN"
      /\ \/ d.req < MaxRequests /\ d' = IF IsOpen(u) THEN Accepted(u) ELSE Accepted(v)
         \/ ~IsOpen(u) /\ d' = u
  BY DEF Open
<1>2. /\ u \in Dialog /\ Answering(u)
      /\ u.type = t /\ u.buttons = t /\ u.offered = offered
      /\ u.overlapped = (d.overlapped \/ ~Finished(d))
      /\ u.state = d.state /\ u.modal = d.modal /\ u.faded = d.faded
      /\ u.timer = d.timer /\ u.running = d.running /\ u.waiting = d.waiting
      /\ u.handlers = d.handlers /\ u.calls = d.calls /\ u.req = d.req
      /\ u.confirmed = d.confirmed
  BY <1>1, PreparedEffect
<1> HIDE DEF u
<1>3. /\ v \in Dialog /\ v.state = "OPENING" /\ v.modal = TRUE /\ v.faded = FALSE
      /\ v.type = t /\ v.buttons = t /\ v.offered = offered /\ v.overlapped = u.overlapped
      /\ v.timer = u.timer /\ v.running = u.running /\ v.handlers = u.handlers
      /\ v.calls = u.calls /\ v.req = u.req /\ v.raced = u.raced
  BY <1>2 DEF Dialog
<1> HIDE DEF v
<1>4. ASSUME NEW w \in Dialog, d.req < MaxRequests, d' = Accepted(w), IsOpen(w), Grabbed(w),
             w.type = t, w.buttons = t, w.offered = offered, w.req = d.req,
             w.overlapped = (d.overlapped \/ ~Finished(d)), w.running = d.running,
             w.handlers = d.handlers, w.calls = d.calls, Finished(d) => w.state = "OPENING"
      PROVE  Answering(d')
  <2>1. /\ d' \in Dialog
        /\ d'.state = w.state /\ d'.modal = w.modal /\ d'.faded = w.faded
        /\ d'.type = t /\ d'.buttons = t /\ d'.offered = offered
        /\ d'.handlers = d.handlers /\ d'.calls = d.calls
        /\ d'.req = w.req + 1 /\ d'.asked = t /\ d'.canceled = FALSE /\ d'.confirmed = {}
        /\ \/ d'.timer = w.req + 1 /\ d'.running = w.running \cup {w.req + 1}
           \/ d'.timer = w.timer /\ d'.running = w.running
        /\ d'.overlapped = (w.overlapped /\ ~Finished(d))
        /\ d'.raced = (w.raced /\ ~Finished(d))
    BY <1>4, AcceptedEffect
  <2>2. Grabbed(d') /\ Offered(d') /\ Numbered(d')
    BY <1>1, <1>2, <1>4, <2>1 DEF Grabbed, Offered, Numbered, IsOpen, Dialog, Requests
  <2>3. CASE Finished(d)
    <3>1. OnTheWay(d') = {} /\ d'.running \subseteq {d'.timer} /\ d'.state = "OPENING"
          /\ ~d'.raced /\ d'.handlers = {} /\ d'.calls = {}
      BY <1>4, <2>1, <2>3 DEF Finished, OnTheWay
    <3>2. One(d')
      BY <2>1, <3>1 DEF One
    <3> QED
      BY <2>1, <2>2, <3>1, <3>2
         DEF Answering, Known, Current, RacedClosed, AsAsked, OneAnswer, CanceledOver, Replied
  <2>4. CASE ~Finished(d)
    BY <1>4, <2>1, <2>2, <2>4, OverlappedSound
  <2> QED
    BY <2>3, <2>4
<1>5. CASE d.req < MaxRequests /\ IsOpen(u) /\ d' = Accepted(u)
  <2>1. ~Finished(d) /\ Grabbed(u)
    BY <1>2, <1>5 DEF Finished, IsOpen, Answering
  <2> QED
    BY <1>2, <1>4, <1>5, <2>1
<1>6. CASE d.req < MaxRequests /\ ~IsOpen(u) /\ d' = Accepted(v)
  <2>1. IsOpen(v) /\ Grabbed(v)
    BY <1>3 DEF IsOpen, Grabbed
  <2> QED
    BY <1>2, <1>3, <1>4, <1>6, <2>1
<1>7. CASE d' = u
  BY <1>2, <1>7
<1> QED
  BY <1>1, <1>5, <1>6, <1>7

\* A request of an unknown type only disturbs a dialog that is in use.
LEMMA OpenUnknownSound ==
  ASSUME Answering(d), OpenUnknown
  PROVE  Answering(d')
<1> DEFINE o == d.overlapped \/ ~Finished(d)
<1>1. o \in BOOLEAN /\ d \in Dialog /\ d' = [d EXCEPT !.type = "unknown", !.overlapped = o]
  BY DEF OpenUnknown, Answering, Dialog
<1>2. o = (d.overlapped \/ ~Finished(d))
  OBVIOUS
<1> HIDE DEF o
<1>3. d' \in Dialog
  BY <1>1 DEF Dialog
<1>4. /\ d'.overlapped = o
      /\ d'.state = d.state /\ d'.modal = d.modal /\ d'.faded = d.faded
      /\ d'.buttons = d.buttons /\ d'.offered = d.offered /\ d'.timer = d.timer
      /\ d'.running = d.running /\ d'.waiting = d.waiting /\ d'.handlers = d.handlers
      /\ d'.calls = d.calls /\ d'.confirmed = d.confirmed /\ d'.req = d.req /\ d'.asked = d.asked
      /\ d'.canceled = d.canceled /\ d'.awaited = d.awaited /\ d'.raced = d.raced
      /\ d'.req = d.req
  BY <1>1 DEF Dialog
<1>5. Grabbed(d') /\ Offered(d') /\ Numbered(d')
  BY <1>4 DEF Answering, Grabbed, Offered, Numbered, IsOpen
<1>6. CASE o
  BY <1>3, <1>4, <1>5, <1>6, OverlappedSound
<1>7. CASE ~o
  <2>1. Finished(d) /\ ~d.overlapped /\ Finished(d')
    BY <1>2, <1>4, <1>7 DEF Finished
  <2>2. OnTheWay(d') = OnTheWay(d) /\ IsOpen(d') = IsOpen(d)
    BY <1>4 DEF OnTheWay, IsOpen
  <2>3. Known(d') /\ Current(d') /\ RacedClosed(d') /\ Replied(d')
    BY <1>4, <2>1, <2>2 DEF Answering, Known, Current, RacedClosed, Replied
  <2>4. AsAsked(d') /\ OneAnswer(d') /\ CanceledOver(d')
    BY <1>4, <2>1, <2>2 DEF Answering, AsAsked, OneAnswer, CanceledOver, One, Over
  <2> QED
    BY <1>3, <1>5, <2>3, <2>4 DEF Answering
<1> QED
  BY <1>1, <1>6, <1>7
-----------------------------------------------------------------------------
(* Closing and the ends of the fades *)

\* close() of a dialog that is open.
LEMMA CloseEffect ==
  ASSUME NEW u \in Dialog, IsOpen(u)
  PROVE  LET p == CloseDialog(u) IN
         /\ p \in Dialog /\ p.state = "CLOSING" /\ p.modal = FALSE
         /\ p.faded = u.faded /\ p.type = u.type /\ p.buttons = u.buttons
         /\ p.offered = u.offered /\ p.timer = u.timer /\ p.running = u.running
         /\ p.waiting = u.waiting /\ p.handlers = u.handlers /\ p.calls = u.calls
         /\ p.confirmed = u.confirmed /\ p.req = u.req /\ p.asked = u.asked
         /\ p.canceled = u.canceled /\ p.overlapped = u.overlapped
         /\ p.awaited = u.awaited /\ p.raced = u.raced
BY DEF CloseDialog, Dialog

\* The session manager closes the dialog.
LEMMA CloseSound ==
  ASSUME Answering(d), Close
  PROVE  Answering(d')
<1>1. CASE ~IsOpen(d)
  BY <1>1 DEF Close, CloseDialog
<1>2. CASE IsOpen(d)
  <2>1. /\ d' \in Dialog /\ d'.state = "CLOSING" /\ d'.modal = FALSE
        /\ d'.faded = d.faded /\ d'.type = d.type /\ d'.buttons = d.buttons
        /\ d'.offered = d.offered /\ d'.timer = d.timer /\ d'.running = d.running
        /\ d'.waiting = d.waiting /\ d'.handlers = d.handlers /\ d'.calls = d.calls
        /\ d'.confirmed = d.confirmed /\ d'.req = d.req /\ d'.asked = d.asked
        /\ d'.canceled = d.canceled /\ d'.overlapped = d.overlapped
        /\ d'.awaited = d.awaited /\ d'.raced = d.raced
    BY <1>2, CloseEffect DEF Close, Answering
  <2>2. ~IsOpen(d') /\ ~Finished(d) /\ OnTheWay(d') = OnTheWay(d)
    BY <1>2, <2>1 DEF IsOpen, Finished, OnTheWay
  <2>3. Grabbed(d') /\ Known(d') /\ Current(d') /\ Offered(d') /\ RacedClosed(d')
      /\ Replied(d') /\ Numbered(d')
    <3>1. Known(d') /\ Current(d') /\ Offered(d') /\ RacedClosed(d') /\ Replied(d')
      BY <2>1, <2>2 DEF Answering, Known, Current, Offered, RacedClosed, Replied
    <3>2. Grabbed(d')
      BY <2>1, <2>2 DEF Grabbed
    <3>3. Numbered(d')
      BY <1>2, <2>1 DEF Answering, Numbered, IsOpen
    <3> QED
      BY <3>1, <3>2, <3>3
  <2>4. One(d) => One(d')
    BY <2>1, <2>2 DEF One
  <2>5. AsAsked(d') /\ OneAnswer(d') /\ CanceledOver(d')
    BY <1>2, <2>1, <2>2, <2>4 DEF Answering, AsAsked, OneAnswer, CanceledOver, Over
  <2> QED
    BY <2>1, <2>3, <2>5 DEF Answering
<1> QED
  BY <1>1, <1>2

\* 'opened' answers every invocation.
LEMMA OpenedSound ==
  ASSUME Answering(d), Opened
  PROVE  Answering(d')
<1>1. d \in Dialog /\ d.state = "OPENING" /\ d' = [d EXCEPT !.state = "OPENED", !.waiting = {}]
  BY DEF Opened, Answering
<1>2. /\ d' \in Dialog /\ d'.state = "OPENED" /\ d'.waiting = {}
      /\ d'.modal = d.modal /\ d'.faded = d.faded /\ d'.type = d.type
      /\ d'.buttons = d.buttons /\ d'.offered = d.offered /\ d'.timer = d.timer
      /\ d'.running = d.running /\ d'.handlers = d.handlers /\ d'.calls = d.calls
      /\ d'.confirmed = d.confirmed /\ d'.req = d.req /\ d'.asked = d.asked
      /\ d'.canceled = d.canceled /\ d'.overlapped = d.overlapped
      /\ d'.awaited = d.awaited /\ d'.raced = d.raced
  BY <1>1 DEF Dialog
<1>3. IsOpen(d') /\ IsOpen(d) /\ ~Finished(d) /\ OnTheWay(d') = OnTheWay(d)
  BY <1>1, <1>2 DEF IsOpen, Finished, OnTheWay
<1>4. Grabbed(d') /\ Known(d') /\ Current(d') /\ Offered(d') /\ RacedClosed(d')
    /\ Replied(d') /\ Numbered(d')
  <2>1. Known(d') /\ Current(d') /\ Offered(d') /\ RacedClosed(d') /\ Replied(d')
    BY <1>2, <1>3 DEF Answering, Known, Current, Offered, RacedClosed, Replied
  <2>2. Grabbed(d') /\ Numbered(d')
    BY <1>1, <1>2, <1>3 DEF Answering, Numbered, Grabbed
  <2> QED
    BY <2>1, <2>2
<1>5. One(d) => One(d')
  BY <1>2, <1>3 DEF One
<1>6. AsAsked(d') /\ OneAnswer(d') /\ CanceledOver(d')
  BY <1>2, <1>3, <1>5 DEF Answering, AsAsked, OneAnswer, CanceledOver, Over
<1> QED
  BY <1>2, <1>4, <1>6 DEF Answering

\* A button adds its answer to a dialog that had none.
LEMMA ButtonSound ==
  ASSUME Answering(d), NEW signal, Button(signal)
  PROVE  Answering(d')
<1> DEFINE a == [req |-> d.req, by |-> "button", signal |-> signal]
           c == CloseDialog(Pressed)
<1>1. d \in Dialog /\ d.modal /\ signal \in Buttons(d.buttons) /\ IsOpen(d)
      /\ d' = [c EXCEPT !.handlers = @ \cup {a}]
  BY DEF Button, Answering, Grabbed
<1>2. /\ Pressed \in Dialog /\ IsOpen(Pressed)
      /\ Pressed.awaited = (d.awaited \/ d.calls # {})
      /\ Pressed.faded = d.faded /\ Pressed.type = d.type /\ Pressed.buttons = d.buttons
      /\ Pressed.offered = d.offered /\ Pressed.timer = d.timer
      /\ Pressed.running = d.running /\ Pressed.waiting = d.waiting
      /\ Pressed.handlers = d.handlers /\ Pressed.calls = d.calls
      /\ Pressed.confirmed = d.confirmed /\ Pressed.req = d.req /\ Pressed.asked = d.asked
      /\ Pressed.canceled = d.canceled /\ Pressed.overlapped = d.overlapped
      /\ Pressed.raced = d.raced
  BY <1>1 DEF Pressed, Dialog, IsOpen
<1>3. /\ c \in Dialog /\ c.state = "CLOSING" /\ c.modal = FALSE
      /\ c.faded = d.faded /\ c.type = d.type /\ c.buttons = d.buttons
      /\ c.offered = d.offered /\ c.timer = d.timer /\ c.running = d.running
      /\ c.waiting = d.waiting /\ c.handlers = d.handlers /\ c.calls = d.calls
      /\ c.confirmed = d.confirmed /\ c.req = d.req /\ c.asked = d.asked
      /\ c.canceled = d.canceled /\ c.overlapped = d.overlapped
      /\ c.awaited = (d.awaited \/ d.calls # {}) /\ c.raced = d.raced
  BY <1>2, CloseEffect
<1>4. a \in Answers
  BY <1>1, ButtonsType DEF Answers, Dialog, Answering, Numbered, IsOpen
<1> HIDE DEF a, c
<1>5. /\ d' \in Dialog /\ d'.state = "CLOSING" /\ d'.modal = FALSE
      /\ d'.faded = d.faded /\ d'.type = d.type /\ d'.buttons = d.buttons
      /\ d'.offered = d.offered /\ d'.timer = d.timer /\ d'.running = d.running
      /\ d'.waiting = d.waiting /\ d'.handlers = d.handlers \cup {a} /\ d'.calls = d.calls
      /\ d'.confirmed = d.confirmed /\ d'.req = d.req /\ d'.asked = d.asked
      /\ d'.canceled = d.canceled /\ d'.overlapped = d.overlapped
      /\ d'.awaited = (d.awaited \/ d.calls # {}) /\ d'.raced = d.raced
  BY <1>1, <1>3, <1>4 DEF Dialog
<1>6. /\ ~IsOpen(d') /\ ~Finished(d) /\ OnTheWay(d') = OnTheWay(d) \cup {a}
      /\ a.signal = signal
  BY <1>1, <1>5 DEF IsOpen, Finished, OnTheWay, a
<1>7. Grabbed(d') /\ Known(d') /\ Current(d') /\ Offered(d') /\ RacedClosed(d')
      /\ Replied(d') /\ Numbered(d')
  <2>1. Known(d') /\ Current(d') /\ Offered(d') /\ RacedClosed(d') /\ Replied(d')
    BY <1>5, <1>6 DEF Answering, Known, Current, Offered, RacedClosed, Replied
  <2>2. Grabbed(d')
    BY <1>5, <1>6 DEF Grabbed
  <2>3. Numbered(d')
    BY <1>1, <1>5 DEF Answering, Numbered, IsOpen
  <2> QED
    BY <2>1, <2>2, <2>3
<1>8. AsAsked(d')
  BY <1>1, <1>5, <1>6 DEF Answering, AsAsked, Current
<1>9. One(d) /\ d.calls = {} => One(d')
  <2>1. One(d) /\ d.calls = {} => d.handlers = {} /\ d.confirmed = {} /\ OnTheWay(d) = {}
    BY <1>1 DEF One, OnTheWay
  <2> QED
    BY <1>5, <1>6, <2>1 DEF One
<1>10. OneAnswer(d') /\ CanceledOver(d')
  BY <1>1, <1>5, <1>9 DEF Answering, OneAnswer, CanceledOver, Over
<1> QED
  BY <1>5, <1>7, <1>8, <1>10 DEF Answering

\* A dialog that the user can press has not confirmed yet.
LEMMA NothingYet ==
  ASSUME Answering(d), d.modal, ~d.overlapped, ~d.awaited, d.calls = {}
  PROVE  OnTheWay(d) = {} /\ One(d)
<1>1. IsOpen(d) /\ ~d.raced
  BY DEF Answering, Grabbed, RacedClosed
<1>2. One(d)
  BY <1>1 DEF Answering, OneAnswer
<1> QED
  BY <1>1, <1>2 DEF One, OnTheWay

\* Cancel finds no answer, and stops the countdown that could give one.
LEMMA CancelSound ==
  ASSUME Answering(d), Cancel
  PROVE  Answering(d')
<1> DEFINE u == StopTimer([Pressed EXCEPT !.canceled = TRUE])
<1>1. d \in Dialog /\ d.modal /\ IsOpen(d) /\ d' = CloseDialog(u)
  BY DEF Cancel, Answering, Grabbed
<1>2. /\ u \in Dialog /\ IsOpen(u)
      /\ u.awaited = (d.awaited \/ d.calls # {})
      /\ u.faded = d.faded /\ u.type = d.type /\ u.buttons = d.buttons
      /\ u.offered = d.offered /\ u.timer = 0
      /\ u.running = d.running \ {d.timer} /\ u.waiting = d.waiting
      /\ u.handlers = d.handlers /\ u.calls = d.calls
      /\ u.confirmed = d.confirmed /\ u.req = d.req /\ u.asked = d.asked
      /\ u.canceled = TRUE /\ u.overlapped = d.overlapped /\ u.raced = d.raced
  <2> DEFINE h == d.awaited \/ d.calls # {}
             rest == d.running \ {d.timer}
             x == [d EXCEPT !.timer = 0, !.running = rest]
             y == [x EXCEPT !.canceled = TRUE, !.awaited = h]
  <2>1. h \in BOOLEAN /\ rest \in SUBSET Requests
    BY <1>1 DEF Dialog
  <2>2. u = y
    BY <1>1 DEF Pressed, StopTimer, Dialog
  <2>3. h = (d.awaited \/ d.calls # {}) /\ rest = d.running \ {d.timer}
    OBVIOUS
  <2> HIDE DEF h, rest, u
  <2>4. x \in Dialog
    BY <1>1, <2>1 DEF Dialog
  <2>5. y \in Dialog
    <3> HIDE DEF x
    <3> QED
      BY <2>1, <2>4 DEF Dialog
  <2>6. /\ y.state = d.state /\ y.awaited = h
        /\ y.faded = d.faded /\ y.type = d.type /\ y.buttons = d.buttons
        /\ y.offered = d.offered /\ y.timer = 0
        /\ y.running = rest /\ y.waiting = d.waiting
        /\ y.handlers = d.handlers /\ y.calls = d.calls
        /\ y.confirmed = d.confirmed /\ y.req = d.req /\ y.asked = d.asked
        /\ y.canceled = TRUE /\ y.overlapped = d.overlapped /\ y.raced = d.raced
    BY <1>1 DEF Dialog
  <2> HIDE DEF y
  <2>7. IsOpen(y)
    BY <1>1, <2>6 DEF IsOpen
  <2> QED
    BY <2>2, <2>3, <2>5, <2>6, <2>7
<1> HIDE DEF u
<1>3. /\ d' \in Dialog /\ d'.state = "CLOSING" /\ d'.modal = FALSE
      /\ d'.faded = d.faded /\ d'.type = d.type /\ d'.buttons = d.buttons
      /\ d'.offered = d.offered /\ d'.timer = 0 /\ d'.running = d.running \ {d.timer}
      /\ d'.waiting = d.waiting /\ d'.handlers = d.handlers /\ d'.calls = d.calls
      /\ d'.confirmed = d.confirmed /\ d'.req = d.req /\ d'.asked = d.asked
      /\ d'.canceled = TRUE /\ d'.overlapped = d.overlapped
      /\ d'.awaited = (d.awaited \/ d.calls # {}) /\ d'.raced = d.raced
  BY <1>1, <1>2, CloseEffect
<1>4. ~IsOpen(d') /\ ~Finished(d) /\ OnTheWay(d') = OnTheWay(d)
  BY <1>1, <1>3 DEF IsOpen, Finished, OnTheWay
<1>5. Known(d') /\ Current(d') /\ Offered(d') /\ RacedClosed(d') /\ Replied(d')
  BY <1>3, <1>4 DEF Answering, Known, Current, Offered, RacedClosed, Replied
<1>6. Grabbed(d')
  BY <1>3, <1>4 DEF Grabbed
<1>7. Numbered(d')
  BY <1>1, <1>3 DEF Answering, Numbered, IsOpen
<1>8. AsAsked(d')
  BY <1>3, <1>4 DEF Answering, AsAsked
<1>9. ASSUME ~d'.overlapped, ~d'.awaited
      PROVE  One(d') /\ Over(d')
  <2>1. ~d.overlapped /\ ~d.awaited /\ d.calls = {}
    BY <1>3, <1>9
  <2>2. OnTheWay(d) = {} /\ One(d)
    BY <1>1, <2>1, NothingYet
  <2>3. d'.running = {}
    BY <1>3, <2>1 DEF Answering, Known
  <2> QED
    BY <1>3, <1>4, <2>2, <2>3 DEF One, Over, OnTheWay
<1> QED
  BY <1>3, <1>5, <1>6, <1>7, <1>8, <1>9 DEF Answering, OneAnswer, CanceledOver

\* The check box decides only where an answer goes.
LEMMA CheckBoxSound ==
  ASSUME Answering(d), CheckBox
  PROVE  Answering(d')
<1>1. d \in Dialog /\ d' = [d EXCEPT !.checked = ~@]
  BY DEF CheckBox, Answering
<1>2. /\ d' \in Dialog
      /\ d'.state = d.state /\ d'.modal = d.modal
      /\ d'.faded = d.faded /\ d'.type = d.type /\ d'.buttons = d.buttons
      /\ d'.offered = d.offered /\ d'.timer = d.timer /\ d'.running = d.running
      /\ d'.waiting = d.waiting /\ d'.handlers = d.handlers /\ d'.calls = d.calls
      /\ d'.confirmed = d.confirmed /\ d'.req = d.req /\ d'.asked = d.asked
      /\ d'.canceled = d.canceled /\ d'.overlapped = d.overlapped
      /\ d'.awaited = d.awaited /\ d'.raced = d.raced
  BY <1>1 DEF Dialog
<1>3. IsOpen(d') = IsOpen(d) /\ Finished(d') = Finished(d) /\ OnTheWay(d') = OnTheWay(d)
  BY <1>2 DEF IsOpen, Finished, OnTheWay
<1>4. Numbered(d') /\ Known(d') /\ Current(d') /\ Offered(d') /\ RacedClosed(d')
      /\ Replied(d') /\ AsAsked(d')
  BY <1>2, <1>3
     DEF Answering, Numbered, Known, Current, Offered, RacedClosed, Replied, AsAsked
<1>5. Grabbed(d')
  BY <1>2, <1>3 DEF Answering, Grabbed
<1>6. OneAnswer(d') /\ CanceledOver(d')
  BY <1>2, <1>3 DEF Answering, OneAnswer, CanceledOver, One, Over
<1> QED
  BY <1>2, <1>4, <1>5, <1>6 DEF Answering

\* A confirmation that is held back for an update keeps to the buttons.
LEMMA RestartingAsked ==
  ASSUME NEW u \in Dialog, NEW a \in Answers, NEW t \in Types, a.signal \in Buttons(t)
  PROVE  Restarting(u, a).signal \in Buttons(t)
BY RestartingType, ButtonsType

\* 'closed' runs the handlers: none or, without overlaps, one.
LEMMA ClosedSound ==
  ASSUME Answering(d), Closed
  PROVE  Answering(d')
<1> DEFINE u == [d EXCEPT !.state = "CLOSED", !.handlers = {}]
<1>1. d \in Dialog /\ d.state = "CLOSING" /\ d' = Confirm(u, d.handlers)
  BY DEF Closed, Answering
<1>2. /\ u \in Dialog /\ u.state = "CLOSED" /\ u.handlers = {}
      /\ u.modal = d.modal /\ u.faded = d.faded /\ u.type = d.type
      /\ u.buttons = d.buttons /\ u.offered = d.offered /\ u.timer = d.timer
      /\ u.running = d.running /\ u.waiting = d.waiting /\ u.calls = d.calls
      /\ u.confirmed = d.confirmed /\ u.req = d.req /\ u.asked = d.asked
      /\ u.canceled = d.canceled /\ u.overlapped = d.overlapped
      /\ u.awaited = d.awaited /\ u.raced = d.raced
  BY <1>1 DEF Dialog
<1>3. d.handlers \in SUBSET Answers
  BY <1>1 DEF Dialog
<1> HIDE DEF u
<1>4. ~IsOpen(d) /\ ~d.modal /\ ~IsOpen(u) /\ ~Finished(d)
  BY <1>1, <1>2 DEF Answering, Grabbed, IsOpen, Finished
<1>5. /\ d' \in Dialog /\ Kept(u, d')
      /\ d'.calls \subseteq d.calls \cup {Restarting(u, a) : a \in d.handlers}
      /\ d'.confirmed \subseteq d.confirmed \cup d.handlers
      /\ \/ d'.timer = d.timer /\ d'.running = d.running
         \/ d'.timer = 0 /\ d'.running = d.running \ {d.timer}
      /\ d'.modal = FALSE
  <2> DEFINE p == Confirm(u, d.handlers)
  <2>1. /\ p \in Dialog /\ Kept(u, p)
        /\ p.calls \subseteq u.calls \cup {Restarting(u, a) : a \in d.handlers}
        /\ p.confirmed \subseteq u.confirmed \cup d.handlers
        /\ \/ p.timer = u.timer /\ p.running = u.running
           \/ p.timer = 0 /\ p.running = u.running \ {u.timer}
        /\ \/ p.modal = u.modal /\ p.faded = u.faded
           \/ p.modal = (u.modal /\ ~IsOpen(u)) /\ p.faded = (u.faded \/ IsOpen(u))
    BY <1>2, <1>3, ConfirmKeeps
  <2> HIDE DEF p
  <2>2. d' = p
    BY <1>1 DEF p
  <2>3. p.modal = FALSE
    BY <1>1, <1>2, <1>4, <2>1 DEF Dialog
  <2> QED
    BY <1>2, <2>1, <2>2, <2>3
<1>6. ~IsOpen(d') /\ d'.handlers = {}
  BY <1>2, <1>5 DEF Kept, IsOpen
<1>7. Grabbed(d') /\ Numbered(d') /\ Offered(d')
  BY <1>2, <1>5, <1>6 DEF Answering, Grabbed, Numbered, Offered, Kept
<1>8. CASE d.overlapped
  BY <1>2, <1>5, <1>7, <1>8, OverlappedSound DEF Kept
<1>9. CASE ~d.overlapped
  <2>1. d.type = d.asked /\ d.buttons = d.asked /\ d.asked \in Types
    BY <1>1, <1>4, <1>9 DEF Answering, Current, Dialog
  <2>2. Known(d') /\ Current(d') /\ RacedClosed(d') /\ Replied(d')
    <3>1. Known(d')
      BY <1>2, <1>5, <1>9 DEF Answering, Known, Kept
    <3>2. Current(d')
      BY <1>2, <1>5, <2>1 DEF Current, Kept
    <3>3. RacedClosed(d') /\ Replied(d')
      BY <1>2, <1>5, <1>6 DEF RacedClosed, Replied, Kept
    <3> QED
      BY <3>1, <3>2, <3>3
  <2>3. AsAsked(d')
    <3>1. \A a \in OnTheWay(d) : a \in Answers /\ a.signal \in Buttons(d.asked)
      BY <1>1, <1>9 DEF Answering, AsAsked, OnTheWay, Dialog
    <3>2. ASSUME NEW a \in OnTheWay(d')
          PROVE  a.signal \in Buttons(d.asked)
      <4>1. CASE a \in OnTheWay(d)
        BY <3>1, <4>1
      <4>2. CASE \E b \in d.handlers : a = Restarting(u, b)
        <5>1. PICK b \in d.handlers : a = Restarting(u, b)
          BY <4>2
        <5>2. b \in Answers /\ b.signal \in Buttons(d.asked)
          BY <3>1 DEF OnTheWay
        <5> QED
          BY <1>2, <2>1, <5>1, <5>2, RestartingAsked
      <4> QED
        BY <1>5, <1>6, <3>2, <4>1, <4>2 DEF OnTheWay
    <3> QED
      BY <1>2, <1>5, <3>2 DEF AsAsked, Kept
  <2>4. CASE d.handlers = {}
    <3>1. d' = u
      BY <1>1, <1>2, <2>4, ConfirmNone
    <3>2. OnTheWay(d') = OnTheWay(d)
      BY <1>2, <2>4, <3>1 DEF OnTheWay
    <3>3. OneAnswer(d') /\ CanceledOver(d')
      BY <1>2, <1>4, <1>6, <3>1, <3>2 DEF Answering, OneAnswer, CanceledOver, One, Over
    <3> QED
      BY <1>5, <1>7, <2>2, <2>3, <3>3 DEF Answering
  <2>5. CASE d.handlers # {}
    <3>1. CanceledOver(d')
      <4>1. ~(d.canceled /\ ~d.awaited)
        BY <1>9, <2>5 DEF Answering, CanceledOver, Over, OnTheWay
      <4> QED
        BY <1>2, <1>5, <4>1 DEF CanceledOver, Kept
    <3>2. ASSUME ~d.awaited, ~d.raced
          PROVE  One(d')
      <4>1. One(d)
        BY <1>9, <3>2 DEF Answering, OneAnswer
      <4>2. PICK a \in d.handlers : d.handlers = {a}
        BY <2>5, <4>1 DEF One, OnTheWay
      <4>3. d.calls = {} /\ d.confirmed = {}
        BY <2>5, <4>1 DEF One
      <4>4. a \in Answers
        BY <1>3
      <4>5. CASE Deferred(u, a)
        <5>1. d' = [u EXCEPT !.calls = @ \cup {Restarting(u, a)}]
          BY <1>1, <1>2, <4>2, <4>4, <4>5, ConfirmOne
        <5>2. d'.calls = {Restarting(u, a)} /\ d'.confirmed = {} /\ d'.handlers = {}
          BY <1>2, <4>3, <5>1 DEF Dialog
        <5> QED
          BY <1>6, <5>2 DEF One, OnTheWay
      <4>6. CASE ~Deferred(u, a)
        <5>1. d' = Emit(u, {a})
          BY <1>1, <1>2, <4>2, <4>4, <4>6, ConfirmOne
        <5>2. d'.calls = {} /\ d'.confirmed = {a} /\ d'.running = d.running \ {d.timer}
          BY <1>2, <4>3, <4>4, <5>1, EmitEffect
        <5>3. d'.running = {}
          BY <1>9, <5>2 DEF Answering, Known
        <5> QED
          BY <1>5, <1>6, <5>2, <5>3 DEF One, OnTheWay
      <4> QED
        BY <4>5, <4>6
    <3> QED
      BY <1>2, <1>5, <1>7, <2>2, <2>3, <3>1, <3>2 DEF Answering, OneAnswer, Kept
  <2> QED
    BY <2>4, <2>5
<1> QED
  BY <1>8, <1>9
-----------------------------------------------------------------------------
(* The countdown and PackageKit *)

\* The end of a countdown confirms only what nobody has confirmed.
LEMMA CountdownSound ==
  ASSUME Answering(d), NEW r \in Requests, Countdown(r)
  PROVE  Answering(d')
<1> DEFINE o == d.raced \/ (~IsOpen(d) /\ d.confirmed = {})
           u == [d EXCEPT !.running = @ \ {r}, !.raced = o]
           a == [req |-> r, by |-> "countdown", signal |-> LastButton(d.type)]
           p == Confirm(u, {a})
<1>1. /\ d \in Dialog /\ r \in d.running
      /\ d' = IF d.type = "unknown" THEN [d EXCEPT !.running = @ \ {r}]
              ELSE [p EXCEPT !.timer = 0]
  BY DEF Countdown, Answering
<1>2. o \in BOOLEAN
  BY <1>1 DEF Dialog
<1>3. o = (d.raced \/ (~IsOpen(d) /\ d.confirmed = {}))
  OBVIOUS
<1>4. ~Finished(d)
  BY <1>1 DEF Finished
<1>5. CASE d.type = "unknown"
  <2>1. d.overlapped
    BY <1>1, <1>4, <1>5 DEF Answering, Current, Dialog, Types
  <2>2. d' = [d EXCEPT !.running = @ \ {r}]
    BY <1>1, <1>5
  <2>3. /\ d' \in Dialog /\ d'.overlapped
        /\ d'.state = d.state /\ d'.modal = d.modal /\ d'.faded = d.faded
        /\ d'.req = d.req /\ d'.offered = d.offered /\ d'.buttons = d.buttons
    <3> DEFINE rest == d.running \ {r}
               x == [d EXCEPT !.running = rest]
    <3>1. rest \in SUBSET Requests
      BY <1>1 DEF Dialog
    <3>2. d' = x
      BY <1>1, <2>2 DEF Dialog
    <3> HIDE DEF rest
    <3>3. x \in Dialog
      BY <1>1, <3>1 DEF Dialog
    <3>4. /\ x.overlapped = d.overlapped
          /\ x.state = d.state /\ x.modal = d.modal /\ x.faded = d.faded
          /\ x.req = d.req /\ x.offered = d.offered /\ x.buttons = d.buttons
      BY <1>1 DEF Dialog
    <3> HIDE DEF x
    <3> QED
      BY <2>1, <3>2, <3>3, <3>4
  <2>4. Grabbed(d') /\ Numbered(d') /\ Offered(d')
    BY <2>3 DEF Answering, Grabbed, Numbered, Offered, IsOpen
  <2> QED
    BY <2>3, <2>4, OverlappedSound
<1>6. CASE d.type # "unknown"
  <2> HIDE DEF o
  <2>1. /\ u \in Dialog /\ u.running = d.running \ {r} /\ u.raced = o
        /\ u.state = d.state /\ u.modal = d.modal /\ u.faded = d.faded
        /\ u.type = d.type /\ u.buttons = d.buttons /\ u.offered = d.offered
        /\ u.timer = d.timer /\ u.waiting = d.waiting /\ u.handlers = d.handlers
        /\ u.calls = d.calls /\ u.confirmed = d.confirmed /\ u.req = d.req
        /\ u.asked = d.asked /\ u.canceled = d.canceled
        /\ u.overlapped = d.overlapped /\ u.awaited = d.awaited
    BY <1>1, <1>2 DEF Dialog
  <2>2. d.type \in Types /\ a \in Answers /\ a.signal = LastButton(d.type)
    BY <1>1, <1>6, ButtonsType DEF Dialog, Answers
  <2> HIDE DEF u, a
  <2>3. IsOpen(u) = IsOpen(d)
    BY <2>1 DEF IsOpen
  <2>4. /\ p \in Dialog /\ Kept(u, p)
        /\ p.calls \subseteq d.calls \cup {Restarting(u, b) : b \in {a}}
        /\ p.confirmed \subseteq d.confirmed \cup {a}
        /\ \/ p.running = d.running \ {r}
           \/ p.running = (d.running \ {r}) \ {d.timer}
        /\ \/ p.modal = d.modal /\ p.faded = d.faded
           \/ p.modal = (d.modal /\ ~IsOpen(d)) /\ p.faded = (d.faded \/ IsOpen(d))
    <3>1. /\ p \in Dialog /\ Kept(u, p)
          /\ p.calls \subseteq u.calls \cup {Restarting(u, b) : b \in {a}}
          /\ p.confirmed \subseteq u.confirmed \cup {a}
          /\ \/ p.timer = u.timer /\ p.running = u.running
             \/ p.timer = 0 /\ p.running = u.running \ {u.timer}
          /\ \/ p.modal = u.modal /\ p.faded = u.faded
             \/ p.modal = (u.modal /\ ~IsOpen(u)) /\ p.faded = (u.faded \/ IsOpen(u))
      <4>1. {a} \in SUBSET Answers
        BY <2>2
      <4> QED
        BY <2>1, <4>1, ConfirmKeeps
    <3> HIDE DEF p
    <3> QED
      BY <2>1, <2>3, <3>1
  <2> HIDE DEF p
  <2>5. /\ d' \in Dialog /\ d'.timer = 0
        /\ d'.running = p.running /\ d'.calls = p.calls /\ d'.confirmed = p.confirmed
        /\ d'.modal = p.modal /\ d'.faded = p.faded /\ d'.raced = o
        /\ d'.state = d.state /\ d'.type = d.type /\ d'.buttons = d.buttons
        /\ d'.offered = d.offered /\ d'.waiting = d.waiting /\ d'.handlers = d.handlers
        /\ d'.req = d.req /\ d'.asked = d.asked /\ d'.canceled = d.canceled
        /\ d'.overlapped = d.overlapped /\ d'.awaited = d.awaited
    <3>1. d' = [p EXCEPT !.timer = 0]
      BY <1>1, <1>6 DEF p
    <3> QED
      BY <2>1, <2>4, <3>1 DEF Kept, Dialog
  <2>6. IsOpen(d') = IsOpen(d) /\ d.modal = (IsOpen(d) /\ ~d.faded)
    BY <2>5 DEF Answering, Grabbed, IsOpen
  <2>7. Grabbed(d')
    <3>1. CASE p.modal = d.modal /\ p.faded = d.faded
      BY <2>5, <2>6, <3>1 DEF Grabbed
    <3>2. CASE p.modal = (d.modal /\ ~IsOpen(d)) /\ p.faded = (d.faded \/ IsOpen(d))
      BY <2>5, <2>6, <3>2 DEF Grabbed
    <3> QED
      BY <2>4, <3>1, <3>2
  <2>8. Numbered(d') /\ Offered(d')
    BY <2>5 DEF Answering, Numbered, Offered
  <2>9. CASE d.overlapped
    BY <2>5, <2>7, <2>8, <2>9, OverlappedSound
  <2>10. CASE ~d.overlapped
    <3>1. d.type = d.asked /\ d.buttons = d.asked
      BY <1>4, <2>10 DEF Answering, Current
    <3>2. d.running \ {r} = {} /\ d'.running = {}
      BY <1>1, <2>4, <2>5, <2>10 DEF Answering, Known
    <3>3. Known(d') /\ Current(d') /\ Replied(d')
      BY <2>5, <3>1, <3>2 DEF Answering, Known, Current, Replied
    <3>4. RacedClosed(d')
      BY <1>3, <2>5, <2>6, <2>10 DEF Answering, RacedClosed
    <3>5. AsAsked(d')
      <4>1. a.signal \in Buttons(d.asked)
        BY <2>2, <3>1, ButtonsType
      <4>2. Restarting(u, a).signal \in Buttons(d.asked)
        BY <2>1, <2>2, <3>1, <4>1, RestartingAsked
      <4>3. OnTheWay(d') \subseteq OnTheWay(d) \cup {a, Restarting(u, a)}
        BY <2>4, <2>5 DEF OnTheWay
      <4> QED
        BY <2>5, <2>10, <4>1, <4>2, <4>3 DEF Answering, AsAsked
    <3>6. CanceledOver(d')
      BY <1>1, <2>5, <2>10 DEF Answering, CanceledOver, Over
    <3>7. ASSUME ~d.awaited, ~o
          PROVE  One(d')
      <4>1. One(d) /\ ~d.raced
        BY <1>3, <2>10, <3>7 DEF Answering, OneAnswer
      <4>2. d.confirmed = {} /\ IsOpen(d)
        BY <1>1, <1>3, <3>7, <4>1 DEF One
      <4>3. d.handlers = {} /\ d.calls = {}
        BY <1>1, <4>1, <4>2 DEF One
      <4>4. CASE Deferred(u, a)
        <5>1. p = [u EXCEPT !.calls = @ \cup {Restarting(u, a)}]
          BY <2>1, <2>2, <4>4, ConfirmOne DEF p
        <5>2. p.calls = {Restarting(u, a)} /\ p.confirmed = {}
          BY <2>1, <4>2, <4>3, <5>1 DEF Dialog
        <5> QED
          BY <2>5, <3>2, <4>3, <5>2 DEF One, OnTheWay
      <4>5. CASE ~Deferred(u, a)
        <5>1. p = Emit(u, {a})
          BY <2>1, <2>2, <4>5, ConfirmOne DEF p
        <5>2. /\ p.calls = u.calls /\ p.confirmed = u.confirmed \cup {a}
              /\ p.modal = (u.modal /\ ~IsOpen(u))
          BY <2>1, <2>2, <5>1, EmitEffect
        <5>3. p.calls = {} /\ p.confirmed = {a} /\ ~p.modal
          BY <2>1, <2>3, <4>2, <4>3, <5>2
        <5>4. OnTheWay(d') = {a} /\ ~d'.modal
          BY <2>5, <4>3, <5>3 DEF OnTheWay
        <5> QED
          BY <2>5, <3>2, <4>3, <5>3, <5>4 DEF One
      <4> QED
        BY <4>4, <4>5
    <3> QED
      BY <2>5, <2>7, <2>8, <3>3, <3>4, <3>5, <3>6, <3>7 DEF Answering, OneAnswer
  <2> QED
    BY <2>9, <2>10
<1> QED
  BY <1>5, <1>6

\* PackageKit's answer lets the confirmation through that it held back.
LEMMA UpdatedSound ==
  ASSUME Answering(d), NEW a \in d.calls, Updated(a)
  PROVE  Answering(d')
<1> DEFINE u == [d EXCEPT !.calls = @ \ {a}]
<1>1. d \in Dialog /\ a \in Answers /\ d' = Emit(u, {a})
  BY DEF Updated, Answering, Dialog
<1>2. /\ u \in Dialog /\ Kept(d, u) /\ u.calls = d.calls \ {a}
      /\ u.confirmed = d.confirmed /\ u.timer = d.timer /\ u.running = d.running
      /\ u.modal = d.modal /\ u.faded = d.faded
  BY <1>1 DEF Dialog, Kept
<1> HIDE DEF u
<1>3. IsOpen(u) = IsOpen(d)
  BY <1>2 DEF IsOpen, Kept
<1>4. /\ d' \in Dialog /\ Kept(u, d')
      /\ d'.calls = d.calls \ {a} /\ d'.confirmed = d.confirmed \cup {a}
      /\ d'.timer = 0 /\ d'.running = d.running \ {d.timer}
      /\ d'.modal = (d.modal /\ ~IsOpen(d)) /\ d'.faded = (d.faded \/ IsOpen(d))
  BY <1>1, <1>2, <1>3, EmitEffect
<1>5. Kept(d, d')
  BY <1>2, <1>4 DEF Kept
<1>6. IsOpen(d') = IsOpen(d) /\ ~Finished(d) /\ OnTheWay(d') = OnTheWay(d)
  BY <1>4, <1>5 DEF IsOpen, Finished, OnTheWay, Kept
<1>7. Grabbed(d') /\ ~d'.modal
  <2>1. d.modal = (IsOpen(d) /\ ~d.faded)
    BY DEF Answering, Grabbed
  <2> QED
    BY <1>4, <1>6, <2>1 DEF Grabbed
<1>8. Numbered(d') /\ Offered(d')
  BY <1>5 DEF Answering, Numbered, Offered, Kept
<1>9. CASE d.overlapped
  BY <1>4, <1>5, <1>7, <1>8, <1>9, OverlappedSound DEF Kept
<1>10. CASE ~d.overlapped
  <2>1. Known(d') /\ d'.running = {}
    BY <1>4, <1>10 DEF Answering, Known
  <2>2. Current(d') /\ RacedClosed(d') /\ Replied(d')
    BY <1>5, <1>6, <1>10 DEF Answering, Current, RacedClosed, Replied, Kept
  <2>3. AsAsked(d')
    BY <1>5, <1>6, <1>10 DEF Answering, AsAsked, Kept
  <2>4. CanceledOver(d')
    BY <1>5, <1>10 DEF Answering, CanceledOver, Over, OnTheWay, Kept
  <2>5. One(d) => One(d')
    <3>1. One(d) => d.calls = {a} /\ d.handlers = {} /\ d.confirmed = {}
      BY DEF One, OnTheWay
    <3> QED
      BY <1>4, <1>5, <1>6, <1>7, <2>1, <3>1 DEF One, Kept
  <2>6. OneAnswer(d')
    BY <1>5, <2>5 DEF Answering, OneAnswer, Kept
  <2> QED
    BY <1>4, <1>7, <1>8, <2>1, <2>2, <2>3, <2>4, <2>6 DEF Answering
<1> QED
  BY <1>9, <1>10
-----------------------------------------------------------------------------
(* The theorems *)

\* The dialog starts closed, with nothing on its way.
LEMMA InitSound == Init => IInv
<1> SUFFICES ASSUME Init PROVE Answering(d)
  BY DEF IInv
<1>1. d \in Dialog
  BY DEF Init, Dialog, Types
<1> QED
  BY <1>1
     DEF Init, Answering, Numbered, Grabbed, Known, Current, Offered, RacedClosed, AsAsked,
         OneAnswer, One, CanceledOver, Over, Replied, OnTheWay, IsOpen, Finished

\* No step of the session manager, the user, the main loop or PackageKit leaves
\* the inductive invariant.
LEMMA NextSound == IInv /\ [Next]_vars => IInv'
<1> SUFFICES ASSUME Answering(d), [Next]_vars PROVE Answering(d')
  BY DEF IInv
<1>1. ASSUME NEW t \in Requested, NEW offered \in BOOLEAN, NEW checked \in BOOLEAN,
             Open(t, offered, checked)
      PROVE  Answering(d')
  BY <1>1, OpenSound, EndSessionAssumption
<1>2. CASE OpenUnknown
  BY <1>2, OpenUnknownSound
<1>3. CASE Close
  BY <1>3, CloseSound
<1>4. CASE Opened
  BY <1>4, OpenedSound
<1>5. CASE Closed
  BY <1>5, ClosedSound
<1>6. ASSUME NEW signal \in Buttons(d.buttons), Button(signal)
      PROVE  Answering(d')
  BY <1>6, ButtonSound
<1>7. CASE Cancel
  BY <1>7, CancelSound
<1>8. CASE CheckBox
  BY <1>8, CheckBoxSound
<1>9. ASSUME NEW r \in Requests, Countdown(r)
      PROVE  Answering(d')
  BY <1>9, CountdownSound
<1>10. ASSUME NEW a \in d.calls, Updated(a)
       PROVE  Answering(d')
  BY <1>10, UpdatedSound
<1>11. CASE UNCHANGED vars
  BY <1>11 DEF vars
<1> QED
  BY <1>1, <1>2, <1>3, <1>4, <1>5, <1>6, <1>7, <1>8, <1>9, <1>10, <1>11 DEF Next

\* The inductive invariant holds of every behaviour of the dialog.
THEOREM Soundness == Spec => []IInv
BY InitSound, NextSound, PTL DEF Spec

\* The dialog keeps its types, whatever is requested and in whatever order.
THEOREM TypeCorrect == Spec => []TypeOK
<1>1. IInv => TypeOK
  BY DEF IInv, Answering, TypeOK
<1> QED
  BY <1>1, Soundness, PTL

\* The grab of the modal stack is the dialog's exactly while the user can press it.
THEOREM GrabAlwaysFollows == Spec => []GrabFollowsDialog
<1>1. IInv => GrabFollowsDialog
  BY DEF IInv, Answering, Grabbed, GrabFollowsDialog
<1> QED
  BY <1>1, Soundness, PTL

\* The session manager gets one confirmation of a request at most.
THEOREM ConfirmedOnce == Spec => []OneConfirmation
<1>1. IInv => OneConfirmation
  BY DEF IInv, Answering, OneAnswer, One, OnTheWay, OneConfirmation
<1> QED
  BY <1>1, Soundness, PTL

\* Once the user has canceled, neither the countdown nor a button confirms.
THEOREM CancelIsFinal == Spec => []CanceledMeansCanceled
<1>1. IInv => CanceledMeansCanceled
  BY DEF IInv, Answering, CanceledOver, Over, OnTheWay, CanceledMeansCanceled
<1> QED
  BY <1>1, Soundness, PTL

\* Buttons, countdown and the restart for updates confirm what was asked for.
THEOREM OnlyWhatWasAsked == Spec => []ConfirmedAsAsked
<1>1. IInv => ConfirmedAsAsked
  BY DEF IInv, Answering, AsAsked, OnTheWay, ConfirmedAsAsked
<1> QED
  BY <1>1, Soundness, PTL

\* A dialog that has opened leaves no call to Open() without its reply.
THEOREM EveryOpenAnswered == Spec => []OpenIsAnswered
<1>1. IInv => OpenIsAnswered
  BY DEF IInv, Answering, Replied, OpenIsAnswered
<1> QED
  BY <1>1, Soundness, PTL
-----------------------------------------------------------------------------
(* polkit and the keyring. *)

Asked == Polkit!Requests

\* A request whose dialog has ever had a helper, been open or emitted 'done'.
Touched(u, x) == u.helper[x] # "none" \/ u.state[x] # "CLOSED" \/ x \in u.done

\* The queue and the current request: each request once, none of those that wait has
\* a dialog yet, and whatever is not answered is one of them.
Lined(u) ==
  /\ u.current <= u.asked
  /\ \A i \in DOMAIN u.queue : u.queue[i] <= u.asked /\ u.queue[i] # u.current
  /\ \A i, j \in DOMAIN u.queue : u.queue[i] = u.queue[j] => i = j
  /\ \A x \in Asked : x > u.asked \/ x = u.waiting => ~Touched(u, x)
  /\ \A i \in DOMAIN u.queue : ~Touched(u, u.queue[i])
  /\ \A r \in 1..u.asked : u.answer[r] = "none" =>
       r = u.current \/ \E i \in DOMAIN u.queue : u.queue[i] = r

\* The dialog on screen is the current request's, and so is the initiation that waits.
Shown(u) == u.dialog # 0 => u.dialog = u.current
Waits(u) == u.waiting # 0 => u.waiting = u.current /\ u.dialog = 0

\* Somebody has yet to answer the current request.
Served(u) ==
  u.current # 0 =>
    \/ u.waiting = u.current /\ u.dialog = 0
    \/ /\ u.dialog = u.current /\ u.dialog \notin u.done /\ u.state[u.current] # "CLOSING"
       /\ \/ u.helper[u.current] = "busy"
          \/ u.helper[u.current] = "asking" /\ u.state[u.current] = "OPENED"

\* Until a dialog is severed from its request, every dialog but the one on screen has
\* emitted 'done', so that only the one on screen can answer.
Own(u) ==
  /\ u.idles \subseteq u.withdrawn
  /\ ~u.severed =>
       /\ \A x \in Asked : Touched(u, x) => x \in u.done \/ x = u.dialog
       /\ \A r \in Asked : u.answer[r] # "none" =>
            u.by[r] = r \/ (u.by[r] = 0 /\ r \in u.withdrawn)

\* What holds between two requests too, and what holds between two steps.
Sound(u) == u \in Polkit!Agent /\ Lined(u) /\ Shown(u) /\ Waits(u) /\ Own(u)

Good(u) == Sound(u) /\ (u.queue # <<>> => u.current # 0) /\ Served(u)
-----------------------------------------------------------------------------
\* The numbers of the requests.
LEMMA Numbers == /\ MaxAsked \in Nat
                 /\ \A r : r \in Asked <=> r \in Nat /\ 0 < r /\ r <= MaxAsked
                 /\ \A r \in Asked : r \in Nat /\ r # 0
                 /\ Polkit!None = 0
BY PromptsAssumption DEF PromptsAssumption, Asked, Polkit!Requests, Polkit!None

\* g_list_remove() on a list without repetitions: that element goes, the others stay.
LEMMA WithoutIsRemoval ==
  ASSUME NEW R, NEW q \in Seq(R), NEW r \in R,
         \A i, j \in DOMAIN q : q[i] = q[j] => i = j
  PROVE  LET w == Polkit!Without(q, r)
         IN /\ w \in Seq(R)
            /\ \A i \in DOMAIN w : w[i] # r /\ \E j \in DOMAIN q : w[i] = q[j]
            /\ \A i, j \in DOMAIN w : w[i] = w[j] => i = j
            /\ \A j \in DOMAIN q : q[j] # r => \E i \in DOMAIN w : w[i] = q[j]
<1> DEFINE w == Polkit!Without(q, r)
<1>1. CASE \A i \in DOMAIN q : q[i] # r
  <2>1. w = q BY <1>1 DEF Polkit!Without
  <2>2. \A i \in DOMAIN w : w[i] # r BY <1>1, <2>1
  <2> HIDE DEF w
  <2> QED BY <2>1, <2>2 DEF w
<1>2. CASE \E k \in DOMAIN q : q[k] = r
  <2>0. Len(q) \in Nat /\ DOMAIN q = 1..Len(q) OBVIOUS
  <2>1. PICK k \in DOMAIN q : q[k] = r BY <1>2
  <2>2. \A j \in 1..(k - 1) : q[j] # r BY <2>0, <2>1
  <2> DEFINE c == CHOOSE i \in DOMAIN q : q[i] = r /\ \A j \in 1..(i - 1) : q[j] # r
  <2>3. c \in DOMAIN q /\ q[c] = r BY <2>1, <2>2
  <2>4. w = [j \in 1..(Len(q) - 1) |-> q[IF j < c THEN j ELSE j + 1]]
    BY <1>2 DEF Polkit!Without
  <2> HIDE DEF c, w
  <2>5. c \in 1..Len(q) /\ Len(q) - 1 \in Nat BY <2>0, <2>3
  <2>6. \A j \in 1..(Len(q) - 1) : /\ (IF j < c THEN j ELSE j + 1) \in DOMAIN q
                                   /\ (IF j < c THEN j ELSE j + 1) # c
                                   /\ w[j] = q[IF j < c THEN j ELSE j + 1]
    BY <2>0, <2>4, <2>5
  <2>7. w \in [1..(Len(q) - 1) -> R] BY <2>4, <2>6
  <2>8. w \in Seq(R) /\ DOMAIN w = 1..(Len(q) - 1) BY <2>5, <2>7
  <2>9. \A i \in DOMAIN w : w[i] # r /\ \E j \in DOMAIN q : w[i] = q[j]
    BY <2>3, <2>6, <2>8
  <2>10. \A i, j \in DOMAIN w : w[i] = w[j] => i = j
    <3> SUFFICES ASSUME NEW i \in 1..(Len(q) - 1), NEW j \in 1..(Len(q) - 1), w[i] = w[j]
                 PROVE  i = j
      BY <2>8
    <3>1. (IF i < c THEN i ELSE i + 1) = (IF j < c THEN j ELSE j + 1) BY <2>6
    <3> QED BY <3>1, <2>5
  <2>11. ASSUME NEW j \in DOMAIN q, q[j] # r PROVE \E i \in DOMAIN w : w[i] = q[j]
    <3>1. j # c BY <2>3, <2>11
    <3>2. CASE j < c
      <4>1. j \in 1..(Len(q) - 1) BY <2>0, <2>5, <3>2
      <4> QED BY <2>6, <2>8, <4>1, <3>2
    <3>3. CASE j > c
      <4>1. j - 1 \in 1..(Len(q) - 1) /\ ~(j - 1 < c) /\ (j - 1) + 1 = j BY <2>0, <2>5, <3>3
      <4>2. w[j - 1] = q[j] BY <2>6, <4>1
      <4> QED BY <2>8, <4>1, <4>2
    <3> QED BY <2>0, <2>5, <3>1, <3>2, <3>3
  <2> QED BY <2>8, <2>9, <2>10, <2>11 DEF w
<1> QED BY <1>1, <1>2

\* The first element of a list, and the others.
LEMMA HeadAndTail ==
  ASSUME NEW R, NEW q \in Seq(R), q # <<>>
  PROVE  /\ Head(q) \in R /\ Head(q) = q[1] /\ 1 \in DOMAIN q /\ Tail(q) \in Seq(R)
         /\ \A i \in DOMAIN Tail(q) : /\ i + 1 \in DOMAIN q /\ i + 1 # 1 /\ i \in Nat
                                      /\ Tail(q)[i] = q[i + 1]
         /\ \A i \in DOMAIN q : i = 1 \/ (i - 1 \in DOMAIN Tail(q) /\ q[i] = Tail(q)[i - 1])
OBVIOUS

\* The changes of one field that keep the type.
LEMMA FitsTurn ==
  ASSUME NEW u \in Polkit!Agent, NEW r \in {0} \cup Asked, NEW q \in Seq(Asked)
  PROVE  [u EXCEPT !.current = r, !.queue = q] \in Polkit!Agent
BY Numbers DEF Asked, Polkit!Agent

LEMMA FitsLocked ==
  ASSUME NEW u \in Polkit!Agent, NEW l \in BOOLEAN
  PROVE  [u EXCEPT !.locked = l, !.waiting = 0] \in Polkit!Agent
<1> DEFINE v == [u EXCEPT !.waiting = 0]
<1>1. v \in Polkit!Agent BY DEF Polkit!Agent, Polkit!None
<1>2. [u EXCEPT !.locked = l, !.waiting = 0] = [v EXCEPT !.locked = l] BY DEF Polkit!Agent
<1> HIDE DEF v
<1> QED BY <1>1, <1>2 DEF Polkit!Agent

LEMMA FitsWaiting ==
  ASSUME NEW u \in Polkit!Agent, NEW r \in {0} \cup Asked
  PROVE  [u EXCEPT !.waiting = r] \in Polkit!Agent
BY Numbers DEF Asked, Polkit!Agent

LEMMA FitsDone ==
  ASSUME NEW u \in Polkit!Agent, NEW s \in SUBSET Asked
  PROVE  [u EXCEPT !.done = s] \in Polkit!Agent
BY Numbers DEF Asked, Polkit!Agent

\* maybe_process_next_request(): between two requests everything is as it should be once
\* it has run, and during a request it changes nothing.
LEMMA ProcessNextGood ==
  ASSUME NEW u, Sound(u), u.current = 0 => u.dialog = 0 /\ u.waiting = 0, Served(u)
  PROVE  Good(Polkit!ProcessNext(u))
<1> USE Numbers DEF Asked
<1>1. CASE ~(u.current = 0 /\ u.queue # <<>>)
  <2>1. Polkit!ProcessNext(u) = u BY <1>1 DEF Polkit!ProcessNext
  <2> QED BY <2>1, <1>1 DEF Good
<1>2. CASE u.current = 0 /\ u.queue # <<>>
  <2> DEFINE r == Head(u.queue)
             v == [u EXCEPT !.current = r, !.queue = Tail(u.queue)]
  <2>1. /\ u \in Polkit!Agent /\ u.queue \in Seq(Asked)
        /\ u.dialog = 0 /\ u.waiting = 0
    BY <1>2 DEF Sound, Polkit!Agent
  <2>2. /\ r \in Asked /\ r = u.queue[1] /\ 1 \in DOMAIN u.queue
        /\ Tail(u.queue) \in Seq(Asked)
        /\ \A i \in DOMAIN Tail(u.queue) : /\ i + 1 \in DOMAIN u.queue /\ i + 1 # 1 /\ i \in Nat
                                           /\ Tail(u.queue)[i] = u.queue[i + 1]
        /\ \A i \in DOMAIN u.queue : i = 1 \/ (i - 1 \in DOMAIN Tail(u.queue)
                                                /\ u.queue[i] = Tail(u.queue)[i - 1])
    BY <1>2, <2>1, HeadAndTail
  <2>3. Lined(u) /\ Own(u) BY DEF Sound
  <2>4. r # 0 /\ r <= u.asked /\ ~Touched(u, r) BY <2>2, <2>3 DEF Lined
  <2>5. \A i \in DOMAIN Tail(u.queue) : Tail(u.queue)[i] # r
    BY <2>2, <2>3 DEF Lined
  <2>6. \A i, j \in DOMAIN Tail(u.queue) : Tail(u.queue)[i] = Tail(u.queue)[j] => i = j
    <3> SUFFICES ASSUME NEW i \in DOMAIN Tail(u.queue), NEW j \in DOMAIN Tail(u.queue),
                        Tail(u.queue)[i] = Tail(u.queue)[j]
                 PROVE  i = j
      OBVIOUS
    <3>1. i \in Nat /\ j \in Nat /\ u.queue[i + 1] = u.queue[j + 1]
      BY <2>2
    <3>2. i + 1 = j + 1 BY <2>2, <2>3, <3>1 DEF Lined
    <3> QED BY <3>1, <3>2
  <2>7. \A x : (\E i \in DOMAIN u.queue : u.queue[i] = x) =>
          x = r \/ \E i \in DOMAIN Tail(u.queue) : Tail(u.queue)[i] = x
    BY <2>2
  <2>8. \A i \in DOMAIN Tail(u.queue) :
          /\ Tail(u.queue)[i] <= u.asked /\ Tail(u.queue)[i] # r
          /\ ~Touched(u, Tail(u.queue)[i])
    BY <2>2, <2>3, <2>5 DEF Lined
  <2>9. Polkit!ProcessNext(u) = Polkit!Initiate(v, r) BY <1>2 DEF Polkit!ProcessNext
  <2>10. CASE u.locked
    <3> DEFINE w == [v EXCEPT !.waiting = r]
    <3>1. Polkit!ProcessNext(u) = w BY <2>1, <2>9, <2>10 DEF Polkit!Initiate, Polkit!Agent
    <3>2. w \in Polkit!Agent
      <4> HIDE DEF r
      <4>1. v \in Polkit!Agent BY <2>1, <2>2, FitsTurn
      <4> HIDE DEF v
      <4> QED BY <2>2, <4>1, FitsWaiting
    <3>3. /\ w.current = r /\ w.queue = Tail(u.queue) /\ w.asked = u.asked
          /\ w.answer = u.answer /\ w.waiting = r /\ w.dialog = 0 /\ w.idles = u.idles
          /\ w.withdrawn = u.withdrawn /\ w.severed = u.severed
      BY <2>1 DEF Polkit!Agent
    <3>4. /\ w.helper = u.helper /\ w.state = u.state /\ w.done = u.done /\ w.by = u.by
      BY <2>1 DEF Polkit!Agent
    <3> HIDE DEF w, r
    <3>5. \A x : Touched(w, x) <=> Touched(u, x) BY <3>4 DEF Touched
    <3>6. Lined(w)
      <4>1. \A x \in Asked : x > w.asked \/ x = w.waiting => ~Touched(w, x)
        BY <2>3, <2>4, <3>3, <3>5 DEF Lined
      <4>2. \A i \in DOMAIN w.queue : ~Touched(w, w.queue[i]) BY <2>8, <3>3, <3>5
      <4>3. \A x \in 1..w.asked : w.answer[x] = "none" =>
              x = w.current \/ \E i \in DOMAIN w.queue : w.queue[i] = x
        <5>1. u.asked \in Nat BY <2>1 DEF Polkit!Agent
        <5>2. \A x \in 1..u.asked : u.answer[x] = "none" =>
                \E i \in DOMAIN u.queue : u.queue[i] = x
          BY <2>3, <5>1, <1>2 DEF Lined
        <5> QED BY <2>7, <3>3, <5>2
      <4> QED BY <2>4, <2>6, <2>8, <3>3, <4>1, <4>2, <4>3 DEF Lined
    <3>7. Own(w) BY <2>3, <3>3, <3>4, <3>5, <2>1 DEF Own
    <3> QED BY <3>1, <3>2, <3>3, <3>6, <3>7, <2>4 DEF Good, Sound, Shown, Waits, Served
  <2>11. CASE ~u.locked
    <3> DEFINE w == [v EXCEPT !.dialog = r, !.helper[r] = "busy"]
    <3>1. Polkit!ProcessNext(u) = w
      BY <2>1, <2>9, <2>11 DEF Polkit!Initiate, Polkit!Authenticate, Polkit!Agent
    <3>2. w \in Polkit!Agent BY <2>1, <2>2 DEF Polkit!Agent
    <3>3. /\ w.current = r /\ w.queue = Tail(u.queue) /\ w.asked = u.asked
          /\ w.answer = u.answer /\ w.waiting = 0 /\ w.dialog = r /\ w.idles = u.idles
          /\ w.withdrawn = u.withdrawn /\ w.severed = u.severed
      BY <2>1 DEF Polkit!Agent
    <3>4. /\ w.state = u.state /\ w.done = u.done /\ w.by = u.by /\ w.helper[r] = "busy"
          /\ \A x \in Asked \ {r} : w.helper[x] = u.helper[x]
      BY <2>1, <2>2 DEF Polkit!Agent
    <3> HIDE DEF w, r
    <3>5. \A x \in Asked \ {r} : Touched(w, x) <=> Touched(u, x) BY <3>4 DEF Touched
    <3>6. /\ \A i \in DOMAIN Tail(u.queue) : Tail(u.queue)[i] \in Asked \ {r}
          /\ u.asked \in Nat
      BY <2>2, <2>5, <2>1 DEF Polkit!Agent
    <3>7. Lined(w)
      <4>1. \A x \in Asked : x > w.asked \/ x = w.waiting => ~Touched(w, x)
        BY <2>3, <2>4, <3>3, <3>5, <3>6 DEF Lined
      <4>2. \A i \in DOMAIN w.queue : ~Touched(w, w.queue[i]) BY <2>8, <3>3, <3>5, <3>6
      <4>3. \A x \in 1..w.asked : w.answer[x] = "none" =>
              x = w.current \/ \E i \in DOMAIN w.queue : w.queue[i] = x
        <5>1. \A x \in 1..u.asked : u.answer[x] = "none" =>
                \E i \in DOMAIN u.queue : u.queue[i] = x
          BY <2>3, <3>6, <1>2 DEF Lined
        <5> QED BY <2>7, <3>3, <5>1
      <4> QED BY <2>4, <2>6, <2>8, <3>3, <4>1, <4>2, <4>3 DEF Lined
    <3>8. r \notin w.done /\ w.state[r] # "CLOSING" BY <2>4, <3>4 DEF Touched
    <3>9. Own(w) BY <2>3, <3>3, <3>4, <3>5, <2>1 DEF Own
    <3> QED BY <3>1, <3>2, <3>3, <3>4, <3>7, <3>8, <3>9, <2>4
            DEF Good, Sound, Shown, Waits, Served
  <2> QED BY <2>10, <2>11
<1> QED BY <1>1, <1>2

\* _completeRequest() for a dialog that is on screen. The dialog has emitted 'done', or
\* polkit withdrew the request.
LEMMA CompleteGood ==
  ASSUME NEW u, Sound(u), NEW a \in {"completed", "dismissed"}, NEW e \in {0} \cup Asked,
         u.dialog # 0,
         ~u.severed /\ e # 0 =>
           e = u.dialog /\ \A x \in Asked : Touched(u, x) => x \in u.done
  PROVE  Good(Polkit!CompleteRequest(u, a, e))
<1> USE Numbers DEF Asked
<1> DEFINE c == u.current
           s == IF u.state[c] = "OPENED" THEN [u.state EXCEPT ![c] = "CLOSING"] ELSE u.state
           v == [u EXCEPT !.state = s, !.dialog = 0, !.waiting = 0,
                          !.severed = @ \/ e = 0]
           p == [v EXCEPT !.answer[c] = a, !.by[c] = e, !.current = 0]
<1>1. /\ u \in Polkit!Agent /\ Lined(u) /\ Own(u)
      /\ u.dialog = c /\ c \in Asked /\ c # 0 /\ u.queue \in Seq(Asked) /\ u.asked \in Nat
  BY DEF Sound, Shown, Polkit!Agent
<1>2. [Polkit!CloseDialog(u, c) EXCEPT !.dialog = 0, !.waiting = 0,
                                       !.severed = @ \/ e = 0] = v
  BY <1>1 DEF Polkit!CloseDialog, Polkit!Agent
<1>3. v \in Polkit!Agent /\ v.current = c
  <2>1. s \in [Asked -> {"CLOSED", "OPENED", "CLOSING"}] BY <1>1 DEF Polkit!Agent
  <2> DEFINE g == u.severed \/ e = 0
             x == [u EXCEPT !.state = s, !.dialog = 0]
  <2>2. g \in BOOLEAN OBVIOUS
  <2> HIDE DEF s
  <2>3. x \in Polkit!Agent BY <1>1, <2>1 DEF Polkit!Agent
  <2>4. v = [x EXCEPT !.waiting = 0, !.severed = g] /\ v.current = c BY <1>1 DEF Polkit!Agent
  <2> HIDE DEF x, g, v
  <2> QED BY <2>2, <2>3, <2>4 DEF Polkit!Agent
<1>4. Polkit!CompleteRequest(u, a, e) = Polkit!Answer(v, c, a, e)
  <2> HIDE DEF v, s
  <2>1. Polkit!CompleteRequest(u, a, e) =
          IF v.current = 0 THEN v ELSE Polkit!Answer(v, v.current, a, e)
    <3>1. u.dialog # 0 BY <1>1
    <3>2. Polkit!CompleteRequest(u, a, e) =
            LET x == [Polkit!CloseDialog(u, c) EXCEPT !.dialog = 0, !.waiting = 0,
                                                      !.severed = @ \/ e = 0]
            IN IF x.current = 0 THEN x ELSE Polkit!Answer(x, x.current, a, e)
      BY <1>1, <3>1 DEF Polkit!CompleteRequest, Polkit!None
    <3> QED BY <1>2, <3>2
  <2> QED BY <1>1, <1>3, <2>1
<1>5. Polkit!Answer(v, c, a, e) = Polkit!ProcessNext(p)
  BY <1>3 DEF Polkit!Answer
<1>6. p \in Polkit!Agent
  <2> DEFINE as == [v.answer EXCEPT ![c] = a]
             es == [v.by EXCEPT ![c] = e]
  <2>1. v.answer \in [Asked -> {"none", "completed", "dismissed"}]
    <3> HIDE DEF v
    <3> QED BY <1>3 DEF Polkit!Agent
  <2>2. v.by \in [Asked -> {0} \cup Asked]
    <3> HIDE DEF v
    <3> QED BY <1>3 DEF Polkit!Agent
  <2> HIDE DEF v
  <2>3. as \in [Asked -> {"none", "completed", "dismissed"}] BY <1>1, <2>1
  <2>4. es \in [Asked -> {0} \cup Asked] BY <1>1, <2>2
  <2>5. p = [v EXCEPT !.answer = as, !.by = es, !.current = 0] BY <1>3 DEF Polkit!Agent
  <2> HIDE DEF as, es, p
  <2> QED BY <1>3, <2>3, <2>4, <2>5 DEF Polkit!Agent
<1>7. /\ p.current = 0 /\ p.queue = u.queue /\ p.asked = u.asked /\ p.waiting = 0
      /\ p.dialog = 0 /\ p.idles = u.idles /\ p.withdrawn = u.withdrawn
      /\ p.severed = (u.severed \/ e = 0)
  BY <1>1 DEF Polkit!Agent
<1>8. /\ p.helper = u.helper /\ p.done = u.done
      /\ p.state = s
      /\ p.answer = [u.answer EXCEPT ![c] = a] /\ p.by = [u.by EXCEPT ![c] = e]
  BY <1>1 DEF Polkit!Agent
<1>9. /\ u.answer \in [Asked -> {"none", "completed", "dismissed"}]
      /\ u.by \in [Asked -> {0} \cup Asked]
      /\ u.state \in [Asked -> {"CLOSED", "OPENED", "CLOSING"}]
  BY <1>1 DEF Polkit!Agent
<1>10. \A x \in Asked : Touched(p, x) <=> Touched(u, x)
  BY <1>1, <1>8, <1>9 DEF Touched
<1> HIDE DEF p, v, s, c
<1>11. \A i \in DOMAIN u.queue : u.queue[i] \in Asked /\ u.queue[i] # c /\ u.queue[i] # 0
  BY <1>1 DEF Lined, c
<1>12. \A r \in Asked : r # c => p.answer[r] = u.answer[r] /\ p.by[r] = u.by[r]
  BY <1>8, <1>9
<1>13. p.answer[c] = a /\ p.by[c] = e BY <1>1, <1>8, <1>9
<1>14. \A r \in 1..u.asked : r \in Asked
  <2>1. u.asked \in 0..MaxAsked BY <1>1 DEF Polkit!Agent
  <2> QED BY <2>1
<1>15. Lined(p)
  <2>1. \A i \in DOMAIN p.queue : p.queue[i] <= p.asked /\ p.queue[i] # p.current
    BY <1>1, <1>7, <1>11 DEF Lined
  <2>2. \A x \in Asked : x > p.asked \/ x = p.waiting => ~Touched(p, x)
    BY <1>1, <1>7, <1>10 DEF Lined
  <2>3. \A i \in DOMAIN p.queue : ~Touched(p, p.queue[i])
    BY <1>1, <1>7, <1>10, <1>11 DEF Lined
  <2>4. \A r \in 1..p.asked : p.answer[r] = "none" =>
          r = p.current \/ \E i \in DOMAIN p.queue : p.queue[i] = r
    BY <1>1, <1>7, <1>12, <1>13, <1>14 DEF Lined, c
  <2>5. \A i, j \in DOMAIN p.queue : p.queue[i] = p.queue[j] => i = j
    BY <1>1, <1>7 DEF Lined
  <2> QED BY <1>1, <1>7, <2>1, <2>2, <2>3, <2>4, <2>5 DEF Lined
<1>16. Own(p)
  <2>1. p.idles \subseteq p.withdrawn BY <1>1, <1>7 DEF Own
  <2> SUFFICES ASSUME ~p.severed
               PROVE  /\ \A x \in Asked : Touched(p, x) => x \in p.done
                      /\ \A r \in Asked : p.answer[r] # "none" =>
                           p.by[r] = r \/ (p.by[r] = 0 /\ r \in p.withdrawn)
    BY <2>1 DEF Own
  <2>2. ~u.severed /\ e = u.dialog BY <1>7
  <2>3. \A x \in Asked : Touched(p, x) => x \in p.done BY <2>2, <1>7, <1>8, <1>10
  <2>4. \A r \in Asked : p.answer[r] # "none" =>
          p.by[r] = r \/ (p.by[r] = 0 /\ r \in p.withdrawn)
    BY <2>2, <1>1, <1>7, <1>12, <1>13 DEF Own
  <2> QED BY <2>3, <2>4
<1>17. Sound(p) BY <1>6, <1>7, <1>15, <1>16 DEF Sound, Shown, Waits
<1>18. Served(p) BY <1>7 DEF Served
<1> QED BY <1>4, <1>5, <1>7, <1>17, <1>18, ProcessNextGood

\* A step that leaves the queue, the current request and the answers alone: a dialog that
\* has had a helper may change as it likes, and one that has not is left alone.
LEMMA Carried ==
  ASSUME NEW u, Sound(u), NEW w, w \in Polkit!Agent,
         w.current = u.current, w.queue = u.queue, w.asked = u.asked,
         w.answer = u.answer, w.by = u.by, w.severed = u.severed, w.dialog = u.dialog,
         w.waiting = 0 \/ w.waiting = u.waiting, u.done \subseteq w.done,
         w.idles \subseteq w.withdrawn, u.withdrawn \subseteq w.withdrawn,
         \A x \in Asked : Touched(w, x) => Touched(u, x)
  PROVE  Sound(w)
<1> USE Numbers DEF Asked
<1>1. u \in Polkit!Agent /\ Lined(u) /\ Shown(u) /\ Waits(u) /\ Own(u) BY DEF Sound
<1>2. \A i \in DOMAIN u.queue : u.queue[i] \in Asked BY <1>1 DEF Polkit!Agent
<1>3. Lined(w)
  <2>1. \A x \in Asked : x > w.asked \/ x = w.waiting => ~Touched(w, x) BY <1>1 DEF Lined
  <2>2. \A i \in DOMAIN w.queue : ~Touched(w, w.queue[i]) BY <1>1, <1>2 DEF Lined
  <2> QED BY <1>1, <2>1, <2>2 DEF Lined
<1>4. Own(w) BY <1>1 DEF Own
<1> QED BY <1>1, <1>3, <1>4 DEF Sound, Shown, Waits

\* _emitDone() of a dialog whose helper has run. Only the one on screen may have nobody
\* left to answer it.
LEMMA EmitDoneGood ==
  ASSUME NEW u, Sound(u), NEW a \in {"completed", "dismissed"}, NEW e \in Asked,
         Touched(u, e), e \in u.done => e # u.dialog,
         u.queue # <<>> => u.current # 0, e = u.dialog \/ Served(u)
  PROVE  Good(Polkit!EmitDone(u, e, a))
<1> USE Numbers DEF Asked
<1>1. CASE e \in u.done
  BY <1>1 DEF Polkit!EmitDone, Good
<1>2. CASE e \notin u.done
  <2> DEFINE v == [u EXCEPT !.done = @ \cup {e}]
  <2>1. u \in Polkit!Agent /\ Lined(u) /\ Shown(u) /\ Waits(u) /\ Own(u) BY DEF Sound
  <2>2. Polkit!EmitDone(u, e, a) = Polkit!CompleteRequest(v, a, e)
    BY <1>2, <2>1 DEF Polkit!EmitDone, Polkit!Agent
  <2>3. v \in Polkit!Agent
    <3> DEFINE all == u.done \cup {e}
    <3>1. all \in SUBSET Asked BY <2>1 DEF Polkit!Agent
    <3>2. v = [u EXCEPT !.done = all] BY <2>1 DEF Polkit!Agent
    <3> HIDE DEF all, v
    <3> QED BY <2>1, <3>1, <3>2, FitsDone
  <2>4. /\ v.current = u.current /\ v.queue = u.queue /\ v.asked = u.asked
        /\ v.waiting = u.waiting /\ v.dialog = u.dialog /\ v.answer = u.answer
        /\ v.done = u.done \cup {e}
    BY <2>1 DEF Polkit!Agent
  <2>5. /\ v.idles = u.idles /\ v.withdrawn = u.withdrawn /\ v.severed = u.severed
        /\ v.by = u.by /\ v.helper = u.helper /\ v.state = u.state
    BY <2>1 DEF Polkit!Agent
  <2> HIDE DEF v
  <2>6. \A x : Touched(v, x) <=> Touched(u, x) BY <2>4, <2>5 DEF Touched
  <2>7. v.idles \subseteq v.withdrawn BY <2>1, <2>5 DEF Own
  <2>8. u.done \subseteq v.done BY <2>4
  <2>9. Sound(v) BY <2>3, <2>4, <2>5, <2>6, <2>7, <2>8, Carried
  <2>10. CASE u.dialog = 0
    <3>1. Polkit!CompleteRequest(v, a, e) = v BY <2>4, <2>10 DEF Polkit!CompleteRequest
    <3>2. Served(u) BY <2>10
    <3>3. Served(v) BY <2>4, <2>5, <2>10, <3>2 DEF Served
    <3> QED BY <2>2, <2>4, <2>9, <3>1, <3>3 DEF Good
  <2>11. CASE u.dialog # 0
    <3>1. ~u.severed => e = u.dialog /\ \A x \in Asked : Touched(u, x) => x \in u.done \cup {e}
      BY <1>2, <2>1 DEF Own
    <3>2. ~v.severed /\ e # 0 =>
            e = v.dialog /\ \A x \in Asked : Touched(v, x) => x \in v.done
      BY <2>4, <2>5, <2>6, <3>1
    <3>3. v.dialog # 0 /\ e \in {0} \cup Asked BY <2>4, <2>11
    <3> QED BY <2>2, <2>9, <3>2, <3>3, CompleteGood
  <2> QED BY <2>10, <2>11
<1> QED BY <1>1, <1>2
-----------------------------------------------------------------------------
\* The new request joins the queue, and is the current one at once if there is none.
LEMMA AskGood ==
  ASSUME Good(pk), Polkit!Ask
  PROVE  Good(pk')
<1> USE Numbers DEF Asked
<1> DEFINE n == pk.asked + 1
           u == [pk EXCEPT !.asked = @ + 1, !.queue = Append(@, pk.asked + 1)]
<1>1. /\ pk \in Polkit!Agent /\ Lined(pk) /\ Shown(pk) /\ Waits(pk) /\ Own(pk) /\ Served(pk)
  BY DEF Good, Sound
<1>2. /\ pk.asked < MaxAsked /\ pk' = Polkit!ProcessNext(u) BY DEF Polkit!Ask
<1>3. /\ pk.asked \in Nat /\ pk.queue \in Seq(Asked) /\ pk.current \in {0} \cup Asked
      /\ pk.answer \in [Asked -> {"none", "completed", "dismissed"}]
  BY <1>1 DEF Polkit!Agent
<1>4. n \in Asked /\ n \in Nat /\ n \in 0..MaxAsked BY <1>2, <1>3
<1>5. /\ Append(pk.queue, n) \in Seq(Asked) /\ Len(pk.queue) \in Nat
      /\ DOMAIN pk.queue = 1..Len(pk.queue)
      /\ DOMAIN Append(pk.queue, n) = 1..(Len(pk.queue) + 1)
      /\ \A i \in DOMAIN pk.queue : Append(pk.queue, n)[i] = pk.queue[i]
      /\ Append(pk.queue, n)[Len(pk.queue) + 1] = n
  BY <1>3, <1>4
<1>6. u \in Polkit!Agent
  <2> DEFINE q == Append(pk.queue, n)
  <2>1. u = [pk EXCEPT !.asked = n, !.queue = q] BY <1>1 DEF Polkit!Agent
  <2>2. q \in Seq(Asked) BY <1>5
  <2> HIDE DEF q, n, u
  <2> QED BY <1>1, <1>4, <2>1, <2>2 DEF Polkit!Agent
<1>7. /\ u.asked = n /\ u.queue = Append(pk.queue, n) /\ u.current = pk.current
      /\ u.waiting = pk.waiting /\ u.dialog = pk.dialog /\ u.answer = pk.answer
      /\ u.idles = pk.idles /\ u.withdrawn = pk.withdrawn
  BY <1>1 DEF Polkit!Agent
<1>8. /\ u.helper = pk.helper /\ u.state = pk.state /\ u.done = pk.done /\ u.by = pk.by
      /\ u.severed = pk.severed
  BY <1>1 DEF Polkit!Agent
<1>9. n > pk.asked BY <1>3
<1> HIDE DEF u
<1>10. \A x : Touched(u, x) <=> Touched(pk, x) BY <1>8 DEF Touched
<1>11. \A i \in DOMAIN pk.queue : /\ pk.queue[i] \in Asked /\ pk.queue[i] <= pk.asked
                                  /\ pk.queue[i] # pk.current /\ ~Touched(pk, pk.queue[i])
  BY <1>1, <1>3 DEF Lined
<1>12. pk.current <= pk.asked /\ ~Touched(pk, n) BY <1>1, <1>3, <1>4 DEF Lined
<1> DEFINE last == Len(pk.queue) + 1
<1>13. /\ DOMAIN u.queue = DOMAIN pk.queue \cup {last} /\ u.queue[last] = n
       /\ \A i \in DOMAIN pk.queue : u.queue[i] = pk.queue[i]
  <2>1. 1..(Len(pk.queue) + 1) = (1..Len(pk.queue)) \cup {Len(pk.queue) + 1} BY <1>5
  <2> HIDE DEF n
  <2> QED BY <1>5, <1>7, <2>1
<1> HIDE DEF last
<1>14. \A i \in DOMAIN u.queue : /\ u.queue[i] \in Asked /\ u.queue[i] <= n
                                 /\ u.queue[i] # pk.current /\ ~Touched(pk, u.queue[i])
  <2> SUFFICES ASSUME NEW i \in DOMAIN u.queue
               PROVE  /\ u.queue[i] \in Asked /\ u.queue[i] <= n
                      /\ u.queue[i] # pk.current /\ ~Touched(pk, u.queue[i])
    OBVIOUS
  <2>1. CASE i = last
    <3>1. n # pk.current BY <1>3, <1>4, <1>9, <1>12
    <3>2. u.queue[i] = n BY <1>13, <2>1
    <3> HIDE DEF n
    <3> QED BY <1>4, <1>12, <3>1, <3>2
  <2>2. CASE i \in DOMAIN pk.queue
    <3>1. /\ pk.queue[i] \in Asked /\ pk.queue[i] <= pk.asked
          /\ pk.queue[i] # pk.current /\ ~Touched(pk, pk.queue[i])
      BY <1>11, <2>2
    <3>2. pk.queue[i] <= n BY <1>3, <3>1
    <3>3. u.queue[i] = pk.queue[i] BY <1>13, <2>2
    <3> QED BY <3>1, <3>2, <3>3
  <2> QED BY <1>13, <2>1, <2>2
<1>15. \A i, j \in DOMAIN u.queue : u.queue[i] = u.queue[j] => i = j
  <2>1. \A i, j \in DOMAIN pk.queue : pk.queue[i] = pk.queue[j] => i = j BY <1>1 DEF Lined
  <2>2. \A i \in DOMAIN pk.queue : pk.queue[i] # n
    <3> SUFFICES ASSUME NEW i \in DOMAIN pk.queue PROVE pk.queue[i] # n OBVIOUS
    <3>1. pk.queue[i] \in Nat /\ pk.queue[i] <= pk.asked BY <1>11
    <3> QED BY <1>3, <3>1
  <2> HIDE DEF n
  <2> QED BY <1>13, <2>1, <2>2
<1>16. \A r \in 1..n : pk.answer[r] = "none" =>
         r = pk.current \/ \E i \in DOMAIN u.queue : u.queue[i] = r
  <2> SUFFICES ASSUME NEW r \in 1..n, pk.answer[r] = "none", r # pk.current
               PROVE  \E i \in DOMAIN u.queue : u.queue[i] = r
    OBVIOUS
  <2>1. CASE r = n BY <1>13, <2>1
  <2>2. CASE r # n
    <3>1. r \in 1..pk.asked BY <1>3, <2>2
    <3>2. PICK i \in DOMAIN pk.queue : pk.queue[i] = r BY <1>1, <3>1 DEF Lined
    <3> QED BY <1>13, <3>2
  <2> QED BY <2>1, <2>2
<1>17. Lined(u)
  <2>1. \A x \in Asked : x > u.asked \/ x = u.waiting => ~Touched(u, x)
    BY <1>1, <1>3, <1>4, <1>7, <1>10 DEF Lined
  <2>2. u.current <= u.asked BY <1>3, <1>4, <1>7, <1>9, <1>12
  <2> HIDE DEF n
  <2> QED BY <1>7, <1>10, <1>14, <1>15, <1>16, <2>1, <2>2 DEF Lined
<1>18. Own(u) BY <1>1, <1>7, <1>8, <1>10 DEF Own
<1>19. Sound(u) BY <1>1, <1>6, <1>7, <1>17, <1>18 DEF Sound, Shown, Waits
<1>20. Served(u) BY <1>1, <1>7, <1>8 DEF Served
<1>21. u.current = 0 => u.dialog = 0 /\ u.waiting = 0 BY <1>1, <1>7 DEF Shown, Waits
<1> QED BY <1>2, <1>19, <1>20, <1>21, ProcessNextGood

\* Withdrawals only leave an idle, and an idle that dangles only goes.
LEMMA IdlesGood ==
  ASSUME Good(pk), NEW r \in Asked, Polkit!Withdraw(r) \/ Polkit!Dangling(r)
  PROVE  Good(pk')
<1> USE Numbers DEF Asked
<1>1. /\ pk \in Polkit!Agent /\ Lined(pk) /\ Shown(pk) /\ Waits(pk) /\ Own(pk) /\ Served(pk)
      /\ (pk.queue # <<>> => pk.current # 0)
  BY DEF Good, Sound
<1>2. PICK s \in SUBSET Asked, w \in SUBSET Asked :
        /\ pk' = [pk EXCEPT !.idles = s, !.withdrawn = w]
        /\ s \subseteq w /\ pk.withdrawn \subseteq w
  <2>1. CASE Polkit!Withdraw(r)
    <3>1. pk' = [pk EXCEPT !.idles = pk.idles \cup {r}, !.withdrawn = pk.withdrawn \cup {r}]
      BY <1>1, <2>1 DEF Polkit!Withdraw, Polkit!Agent
    <3>2. /\ pk.idles \cup {r} \in SUBSET Asked /\ pk.withdrawn \cup {r} \in SUBSET Asked
          /\ pk.idles \cup {r} \subseteq pk.withdrawn \cup {r}
      BY <1>1 DEF Own, Polkit!Agent
    <3> QED BY <3>1, <3>2
  <2>2. CASE Polkit!Dangling(r)
    <3>1. pk' = [pk EXCEPT !.idles = pk.idles \ {r}, !.withdrawn = pk.withdrawn]
      BY <1>1, <2>2 DEF Polkit!Dangling, Polkit!Agent
    <3>2. /\ pk.idles \ {r} \in SUBSET Asked /\ pk.withdrawn \in SUBSET Asked
          /\ pk.idles \ {r} \subseteq pk.withdrawn
      BY <1>1 DEF Own, Polkit!Agent
    <3> QED BY <3>1, <3>2
  <2> QED BY <2>1, <2>2
<1>3. pk' \in Polkit!Agent BY <1>1, <1>2 DEF Polkit!Agent
<1>4. /\ pk'.current = pk.current /\ pk'.queue = pk.queue /\ pk'.asked = pk.asked
      /\ pk'.waiting = pk.waiting /\ pk'.dialog = pk.dialog /\ pk'.answer = pk.answer
      /\ pk'.idles = s /\ pk'.withdrawn = w
  BY <1>1, <1>2 DEF Polkit!Agent
<1>5. /\ pk'.helper = pk.helper /\ pk'.state = pk.state /\ pk'.done = pk.done
      /\ pk'.by = pk.by /\ pk'.severed = pk.severed
  BY <1>1, <1>2 DEF Polkit!Agent
<1>6. \A x : Touched(pk', x) <=> Touched(pk, x) BY <1>5 DEF Touched
<1>7. Sound(pk)
  BY DEF Good
<1>8. Sound(pk') BY <1>2, <1>3, <1>4, <1>5, <1>6, <1>7, Carried
<1> QED BY <1>1, <1>4, <1>5, <1>8 DEF Good, Served

\* handle_cancelled_in_idle(): the current request's dialog is closed, and a request in
\* the queue is taken out of it.
LEMMA HandleCancelledGood ==
  ASSUME Good(pk), NEW r \in Asked, Polkit!HandleCancelled(r)
  PROVE  Good(pk')
<1> USE Numbers DEF Asked
<1> DEFINE u == [pk EXCEPT !.idles = @ \ {r}]
<1>1. /\ pk \in Polkit!Agent /\ Lined(pk) /\ Shown(pk) /\ Waits(pk) /\ Own(pk) /\ Served(pk)
      /\ Sound(pk) /\ (pk.queue # <<>> => pk.current # 0)
  BY DEF Good, Sound
<1>2. /\ r \in pk.idles /\ pk.answer[r] = "none"
      /\ pk' = IF r = pk.current THEN Polkit!CompleteRequest(u, "completed", 0)
               ELSE Polkit!Answer(u, r, "completed", 0)
  BY DEF Polkit!HandleCancelled
<1>3. u \in Polkit!Agent
  <2> DEFINE s == pk.idles \ {r}
  <2>1. s \in SUBSET Asked /\ u = [pk EXCEPT !.idles = s] BY <1>1 DEF Polkit!Agent
  <2> HIDE DEF s, u
  <2> QED BY <1>1, <2>1 DEF Polkit!Agent
<1>4. /\ u.current = pk.current /\ u.queue = pk.queue /\ u.asked = pk.asked
      /\ u.waiting = pk.waiting /\ u.dialog = pk.dialog /\ u.answer = pk.answer
      /\ u.idles = pk.idles \ {r} /\ u.withdrawn = pk.withdrawn
  BY <1>1 DEF Polkit!Agent
<1>5. /\ u.helper = pk.helper /\ u.state = pk.state /\ u.done = pk.done
      /\ u.by = pk.by /\ u.severed = pk.severed
  BY <1>1 DEF Polkit!Agent
<1> HIDE DEF u
<1>6. \A x : Touched(u, x) <=> Touched(pk, x) BY <1>5 DEF Touched
<1>7. Sound(u)
  <2>1. u.idles \subseteq u.withdrawn BY <1>1, <1>4 DEF Own
  <2> QED BY <2>1, <1>1, <1>3, <1>4, <1>5, <1>6, Carried
<1>8. Good(u) BY <1>1, <1>4, <1>5, <1>7 DEF Good, Served
<1>9. CASE r = pk.current
  <2>1. CASE u.dialog = 0
    BY <1>2, <1>8, <1>9, <2>1 DEF Polkit!CompleteRequest
  <2>2. CASE u.dialog # 0
    <3>1. Good(Polkit!CompleteRequest(u, "completed", 0)) BY <1>7, <2>2, CompleteGood
    <3> QED BY <1>2, <1>9, <3>1
  <2> QED BY <2>1, <2>2
<1>10. CASE r # pk.current
  <2> DEFINE q == Polkit!Without(pk.queue, r)
             v == [u EXCEPT !.answer[r] = "completed", !.by[r] = 0]
             w == [v EXCEPT !.queue = q]
  <2>1. v \in Polkit!Agent BY <1>3 DEF Polkit!Agent
  <2>2. pk' = w /\ v.queue = pk.queue
    BY <1>2, <1>3, <1>4, <1>10, <2>1 DEF Polkit!Answer, Polkit!Agent
  <2>3. pk.queue \in Seq(Asked) BY <1>1 DEF Polkit!Agent
  <2>4. /\ q \in Seq(Asked)
        /\ \A i \in DOMAIN q : q[i] # r /\ \E j \in DOMAIN pk.queue : q[i] = pk.queue[j]
        /\ \A i, j \in DOMAIN q : q[i] = q[j] => i = j
        /\ \A j \in DOMAIN pk.queue : pk.queue[j] # r => \E i \in DOMAIN q : q[i] = pk.queue[j]
    <3>1. \A i, j \in DOMAIN pk.queue : pk.queue[i] = pk.queue[j] => i = j BY <1>1 DEF Lined
    <3> HIDE DEF u
    <3> QED BY <2>3, <3>1, WithoutIsRemoval
  <2> HIDE DEF q
  <2>5. w \in Polkit!Agent
    <3> HIDE DEF v
    <3> QED BY <2>1, <2>4 DEF Polkit!Agent
  <2>6. /\ w.current = pk.current /\ w.queue = q /\ w.asked = pk.asked
        /\ w.waiting = pk.waiting /\ w.dialog = pk.dialog
        /\ w.idles = u.idles /\ w.withdrawn = pk.withdrawn
    BY <1>3, <1>4, <2>1 DEF Polkit!Agent
  <2>7. /\ w.helper = pk.helper /\ w.state = pk.state /\ w.done = pk.done
        /\ w.severed = pk.severed
    BY <1>3, <1>5, <2>1 DEF Polkit!Agent
  <2>8. /\ w.answer[r] = "completed" /\ w.by[r] = 0
        /\ \A x \in Asked \ {r} : w.answer[x] = pk.answer[x] /\ w.by[x] = pk.by[x]
    BY <1>3, <1>4, <1>5, <2>1 DEF Polkit!Agent
  <2> HIDE DEF v, w
  <2>9. \A x : Touched(w, x) <=> Touched(pk, x) BY <2>7 DEF Touched
  <2>10. \A r1 \in 1..pk.asked : r1 \in Asked
    <3>1. pk.asked \in 0..MaxAsked BY <1>1 DEF Polkit!Agent
    <3> QED BY <3>1
  <2>11. Lined(w)
    <3>1. \A i \in DOMAIN q : /\ q[i] <= pk.asked /\ q[i] # pk.current
                              /\ ~Touched(pk, q[i])
      BY <1>1, <2>4 DEF Lined
    <3>2. \A x \in Asked : x > w.asked \/ x = w.waiting => ~Touched(w, x)
      BY <1>1, <2>6, <2>9 DEF Lined
    <3>3. \A x \in 1..w.asked : w.answer[x] = "none" =>
            x = w.current \/ \E i \in DOMAIN q : q[i] = x
      <4> SUFFICES ASSUME NEW x \in 1..w.asked, w.answer[x] = "none", x # w.current
                   PROVE  \E i \in DOMAIN q : q[i] = x
        OBVIOUS
      <4>1. x \in Asked /\ x # r /\ pk.answer[x] = "none" BY <2>6, <2>8, <2>10
      <4>2. PICK j \in DOMAIN pk.queue : pk.queue[j] = x BY <1>1, <2>6, <4>1 DEF Lined
      <4> QED BY <2>4, <4>1, <4>2
    <3> QED BY <1>1, <2>4, <2>6, <2>9, <3>1, <3>2, <3>3 DEF Lined
  <2>12. Own(w)
    <3>1. r \in pk.withdrawn /\ u.idles \subseteq pk.withdrawn BY <1>1, <1>2, <1>4 DEF Own
    <3>2. \A x \in Asked : w.answer[x] # "none" /\ ~w.severed =>
            w.by[x] = x \/ (w.by[x] = 0 /\ x \in w.withdrawn)
      BY <1>1, <2>6, <2>7, <2>8, <3>1 DEF Own
    <3> QED BY <1>1, <2>6, <2>7, <2>9, <3>1, <3>2 DEF Own
  <2>13. w.queue # <<>> => w.current # 0
    <3> SUFFICES ASSUME q # <<>>
                 PROVE  pk.queue # <<>>
      BY <1>1, <2>6
    <3>1. 1 \in DOMAIN q BY <2>4, HeadAndTail
    <3> QED BY <2>4, <3>1
  <2>14. Served(w) BY <1>1, <2>6, <2>7 DEF Served
  <2> QED BY <1>1, <2>2, <2>5, <2>6, <2>11, <2>12, <2>13, <2>14 DEF Good, Sound, Shown, Waits
<1> QED BY <1>9, <1>10

\* The agent with another state of the helper and of the window of one dialog.
With(e, h, t) == [pk EXCEPT !.helper[e] = h, !.state[e] = t]

\* All that may be missing then is somebody to answer the current request.
Loose(u, e) ==
  /\ Sound(u) /\ (u.queue # <<>> => u.current # 0)
  /\ e # u.dialog => Served(u)
  /\ e = u.dialog => e \notin u.done /\ u.current = e

\* What the helper or the window of a dialog does, if the helper has run.
LEMMA DialogLoose ==
  ASSUME Good(pk), NEW e \in Asked, Touched(pk, e),
         NEW h \in {"none", "busy", "asking", "ended"},
         NEW t \in {"CLOSED", "OPENED", "CLOSING"}
  PROVE  /\ Loose(With(e, h, t), e)
         /\ With(e, h, t).helper[e] = h /\ With(e, h, t).state[e] = t
         /\ With(e, h, t).done = pk.done /\ With(e, h, t).dialog = pk.dialog
<1> USE Numbers DEF Asked
<1> DEFINE u == With(e, h, t)
<1>0. u = [pk EXCEPT !.helper[e] = h, !.state[e] = t] BY DEF With
<1> HIDE DEF u
<1>1. /\ pk \in Polkit!Agent /\ Shown(pk) /\ Waits(pk) /\ Own(pk) /\ Served(pk) /\ Sound(pk)
      /\ (pk.queue # <<>> => pk.current # 0)
  BY DEF Good, Sound
<1>2. u \in Polkit!Agent
  <2> DEFINE hs == [pk.helper EXCEPT ![e] = h]
             ts == [pk.state EXCEPT ![e] = t]
  <2>1. hs \in [Asked -> {"none", "busy", "asking", "ended"}] BY <1>1 DEF Polkit!Agent
  <2>2. ts \in [Asked -> {"CLOSED", "OPENED", "CLOSING"}] BY <1>1 DEF Polkit!Agent
  <2>3. u = [pk EXCEPT !.helper = hs, !.state = ts] BY <1>0, <1>1 DEF Polkit!Agent
  <2> HIDE DEF hs, ts
  <2> QED BY <1>1, <2>1, <2>2, <2>3 DEF Polkit!Agent
<1>3. /\ u.current = pk.current /\ u.queue = pk.queue /\ u.asked = pk.asked
      /\ u.waiting = pk.waiting /\ u.dialog = pk.dialog /\ u.answer = pk.answer
      /\ u.idles = pk.idles /\ u.withdrawn = pk.withdrawn
  BY <1>0, <1>1 DEF Polkit!Agent
<1>4. u.done = pk.done /\ u.by = pk.by /\ u.severed = pk.severed
  BY <1>0, <1>1 DEF Polkit!Agent
<1>5. /\ u.helper[e] = h /\ u.state[e] = t
      /\ \A x \in Asked \ {e} : u.helper[x] = pk.helper[x] /\ u.state[x] = pk.state[x]
  BY <1>0, <1>1 DEF Polkit!Agent
<1>6. \A x \in Asked : Touched(u, x) => Touched(pk, x) BY <1>4, <1>5 DEF Touched
<1>7. u.idles \subseteq u.withdrawn BY <1>1, <1>3 DEF Own
<1>8. Sound(u) BY <1>1, <1>2, <1>3, <1>4, <1>6, <1>7, Carried
<1>9. pk.current \in {0} \cup Asked BY <1>1 DEF Polkit!Agent
<1>10. e # u.dialog => Served(u)
  <2> SUFFICES ASSUME e # pk.dialog, pk.current # 0
               PROVE  \/ u.waiting = u.current /\ u.dialog = 0
                      \/ /\ u.dialog = u.current /\ u.dialog \notin u.done
                         /\ u.state[u.current] # "CLOSING"
                         /\ \/ u.helper[u.current] = "busy"
                            \/ u.helper[u.current] = "asking" /\ u.state[u.current] = "OPENED"
    BY <1>3 DEF Served
  <2>1. CASE pk.waiting = pk.current /\ pk.dialog = 0 BY <1>3, <2>1
  <2>2. CASE pk.dialog = pk.current
    <3>1. pk.current \in Asked \ {e} BY <1>9, <2>2
    <3> QED BY <1>1, <1>3, <1>4, <1>5, <2>2, <3>1 DEF Served
  <2> QED BY <1>1, <2>1, <2>2 DEF Served
<1>11. e = u.dialog => e \notin u.done /\ u.current = e
  BY <1>1, <1>3, <1>4 DEF Shown, Served, Waits
<1>12. Loose(u, e) BY <1>1, <1>3, <1>8, <1>10, <1>11 DEF Loose
<1> QED BY <1>3, <1>4, <1>5, <1>12 DEF u

\* The dialog emits 'done' after that, or has its helper at work, or its question on screen.
LEMMA LooseEmits ==
  ASSUME NEW u, NEW e \in Asked, Loose(u, e), Touched(u, e),
         NEW a \in {"completed", "dismissed"}
  PROVE  Good(Polkit!EmitDone(u, e, a))
BY EmitDoneGood DEF Loose

LEMMA LooseServed ==
  ASSUME NEW u, NEW e \in Asked, Loose(u, e), e = u.dialog => u.state[e] # "CLOSING",
         u.helper[e] = "busy" \/ (u.helper[e] = "asking" /\ u.state[e] = "OPENED")
  PROVE  Good(u)
BY DEF Loose, Good, Served

\* What the helper, the user and the fade do to a dialog.
LEMMA DialogGood ==
  ASSUME Good(pk), NEW e \in Asked,
         \/ Polkit!Prompt(e) \/ Polkit!Respond(e) \/ Polkit!Dismiss(e) \/ Polkit!Closed(e)
         \/ \E gained \in BOOLEAN : Polkit!Completed(e, gained)
  PROVE  Good(pk')
<1> DEFINE h0 == pk.helper[e]
           t0 == pk.state[e]
<1>1. pk \in Polkit!Agent /\ Served(pk) /\ Shown(pk) BY DEF Good, Sound
<1>2. h0 \in {"none", "busy", "asking", "ended"} /\ t0 \in {"CLOSED", "OPENED", "CLOSING"}
  BY <1>1 DEF Polkit!Agent, Asked
<1>3. /\ \A h : [pk EXCEPT !.helper[e] = h] = With(e, h, t0)
      /\ \A t : [pk EXCEPT !.state[e] = t] = With(e, h0, t)
  BY <1>1 DEF Polkit!Agent, With, Asked
<1>4. h0 # "none" \/ t0 # "CLOSED" => Touched(pk, e) BY DEF Touched
<1>5. e = pk.dialog => t0 # "CLOSING"
  BY <1>1, Numbers DEF Served, Shown
<1>6. ASSUME Polkit!Prompt(e) PROVE Good(pk')
  <2>1. PICK h \in {"asking", "busy"} :
          \/ pk' = [[pk EXCEPT !.helper[e] = h] EXCEPT !.state[e] = "OPENED"]
          \/ pk' = Polkit!EmitDone([pk EXCEPT !.helper[e] = h], e, "dismissed")
    BY <1>6 DEF Polkit!Prompt
  <2>2. Touched(pk, e) BY <1>4, <1>6 DEF Polkit!Prompt
  <2>3. [[pk EXCEPT !.helper[e] = h] EXCEPT !.state[e] = "OPENED"] = With(e, h, "OPENED")
    BY DEF With
  <2>4. /\ Loose(With(e, h, "OPENED"), e) /\ With(e, h, "OPENED").helper[e] = h
        /\ With(e, h, "OPENED").state[e] = "OPENED"
    BY <2>2, DialogLoose
  <2>5. Good(With(e, h, "OPENED")) BY <2>4, LooseServed
  <2>6. Loose(With(e, h, t0), e) /\ With(e, h, t0).helper[e] = h
    BY <1>2, <2>2, DialogLoose
  <2>7. Touched(With(e, h, t0), e) BY <2>6 DEF Touched
  <2>8. Good(Polkit!EmitDone(With(e, h, t0), e, "dismissed")) BY <2>6, <2>7, LooseEmits
  <2>9. [pk EXCEPT !.helper[e] = h] = With(e, h, t0) BY <1>3
  <2> QED BY <2>1, <2>3, <2>5, <2>8, <2>9
<1>7. ASSUME Polkit!Respond(e) PROVE Good(pk')
  <2>1. t0 = "OPENED" /\ Touched(pk, e) BY <1>4, <1>7 DEF Polkit!Respond
  <2>2. pk' = With(e, "busy", t0) BY <1>3, <1>7 DEF Polkit!Respond
  <2>3. /\ Loose(With(e, "busy", t0), e) /\ With(e, "busy", t0).helper[e] = "busy"
        /\ With(e, "busy", t0).state[e] = t0
    BY <1>2, <2>1, DialogLoose
  <2>4. Good(With(e, "busy", t0)) BY <2>1, <2>3, LooseServed
  <2> QED BY <2>2, <2>4
<1>8. ASSUME Polkit!Dismiss(e) PROVE Good(pk')
  <2>1. t0 = "OPENED" /\ Touched(pk, e) BY <1>4, <1>8 DEF Polkit!Dismiss
  <2>2. [pk EXCEPT !.state[e] = "CLOSING"] = With(e, h0, "CLOSING") BY <1>3
  <2>3. pk' = Polkit!EmitDone(With(e, h0, "CLOSING"), e, "dismissed")
    BY <1>8, <2>1, <2>2 DEF Polkit!Dismiss, Polkit!CloseDialog
  <2>4. Loose(With(e, h0, "CLOSING"), e) /\ With(e, h0, "CLOSING").state[e] = "CLOSING"
    BY <1>2, <2>1, DialogLoose
  <2>5. Touched(With(e, h0, "CLOSING"), e) BY <2>4 DEF Touched
  <2> QED BY <2>3, <2>4, <2>5, LooseEmits
<1>9. ASSUME Polkit!Closed(e) PROVE Good(pk')
  <2>1. t0 = "CLOSING" /\ Touched(pk, e) BY <1>4, <1>9 DEF Polkit!Closed
  <2>2. pk' = With(e, "none", "CLOSED")
    BY <1>1, <1>9 DEF Polkit!Closed, Polkit!Agent, With, Asked
  <2>3. Loose(With(e, "none", "CLOSED"), e) /\ With(e, "none", "CLOSED").dialog = pk.dialog
    BY <2>1, DialogLoose
  <2> QED BY <1>5, <2>1, <2>2, <2>3 DEF Loose, Good
<1>10. ASSUME NEW gained \in BOOLEAN, Polkit!Completed(e, gained) PROVE Good(pk')
  <2>1. Touched(pk, e) BY <1>4, <1>10 DEF Polkit!Completed
  <2>2. [pk EXCEPT !.helper[e] = "ended"] = With(e, "ended", t0) BY <1>3
  <2>3. \/ e \in pk.done /\ pk' = With(e, "ended", t0)
        \/ pk' = Polkit!EmitDone(With(e, "ended", t0), e, "completed")
        \/ pk' = Polkit!Authenticate(With(e, "ended", t0), e)
    BY <1>10, <2>2 DEF Polkit!Completed
  <2>4. /\ Loose(With(e, "ended", t0), e) /\ With(e, "ended", t0).helper[e] = "ended"
        /\ With(e, "ended", t0).done = pk.done
    BY <1>2, <2>1, DialogLoose
  <2>5. e \in pk.done => Good(With(e, "ended", t0)) BY <2>4 DEF Loose, Good
  <2>6. Touched(With(e, "ended", t0), e) BY <2>4 DEF Touched
  <2>7. Good(Polkit!EmitDone(With(e, "ended", t0), e, "completed"))
    BY <2>4, <2>6, LooseEmits
  <2>8. Polkit!Authenticate(With(e, "ended", t0), e) = With(e, "busy", t0)
    BY <1>1 DEF Polkit!Authenticate, Polkit!Agent, With, Asked
  <2>9. /\ Loose(With(e, "busy", t0), e) /\ With(e, "busy", t0).helper[e] = "busy"
        /\ With(e, "busy", t0).state[e] = t0 /\ With(e, "busy", t0).dialog = pk.dialog
    BY <1>2, <2>1, DialogLoose
  <2>10. Good(With(e, "busy", t0)) BY <1>5, <2>9, LooseServed
  <2> QED BY <2>3, <2>5, <2>7, <2>8, <2>10
<1> QED BY <1>6, <1>7, <1>8, <1>9, <1>10

\* The session is locked or unlocked: the initiation that waited starts over.
LEMMA SetLockedGood ==
  ASSUME Good(pk), Polkit!SetLocked
  PROVE  Good(pk')
<1> USE Numbers DEF Asked
<1> DEFINE u == [pk EXCEPT !.locked = ~@, !.waiting = 0]
           r == pk.waiting
<1>1. /\ pk \in Polkit!Agent /\ Lined(pk) /\ Shown(pk) /\ Waits(pk) /\ Own(pk) /\ Served(pk)
      /\ Sound(pk) /\ (pk.queue # <<>> => pk.current # 0)
  BY DEF Good, Sound
<1>2. pk' = IF r = 0 THEN u ELSE Polkit!Initiate(u, r) BY DEF Polkit!SetLocked
<1>3. u \in Polkit!Agent
  <2> DEFINE l == ~pk.locked
  <2>1. l \in BOOLEAN OBVIOUS
  <2>2. u = [pk EXCEPT !.locked = l, !.waiting = 0] BY <1>1 DEF Polkit!Agent
  <2> HIDE DEF l, u
  <2> QED BY <1>1, <2>1, <2>2, FitsLocked
<1>4. /\ u.current = pk.current /\ u.queue = pk.queue /\ u.asked = pk.asked
      /\ u.waiting = 0 /\ u.dialog = pk.dialog /\ u.answer = pk.answer
      /\ u.idles = pk.idles /\ u.withdrawn = pk.withdrawn
  BY <1>1 DEF Polkit!Agent
<1>5. /\ u.helper = pk.helper /\ u.state = pk.state /\ u.done = pk.done
      /\ u.by = pk.by /\ u.severed = pk.severed
  BY <1>1 DEF Polkit!Agent
<1> HIDE DEF u
<1>6. \A x : Touched(u, x) <=> Touched(pk, x) BY <1>5 DEF Touched
<1>7. Sound(u)
  <2>1. u.idles \subseteq u.withdrawn BY <1>1, <1>4 DEF Own
  <2> QED BY <2>1, <1>1, <1>3, <1>4, <1>5, <1>6, Carried
<1>8. CASE r = 0
  <2>1. Served(u) BY <1>1, <1>4, <1>5, <1>8 DEF Served
  <2> QED BY <1>1, <1>2, <1>4, <1>7, <1>8, <2>1 DEF Good
<1>9. CASE r # 0
  <2>1. /\ r = pk.current /\ pk.dialog = 0 /\ r \in Asked /\ ~Touched(pk, r)
        /\ pk.queue \in Seq(Asked)
    BY <1>1, <1>9 DEF Waits, Lined, Polkit!Agent
  <2>2. CASE u.locked
    <3> DEFINE w == [u EXCEPT !.waiting = r]
    <3>1. pk' = w BY <1>2, <1>9, <2>2 DEF Polkit!Initiate
    <3>2. w \in Polkit!Agent BY <1>3, <2>1, FitsWaiting
    <3>3. /\ w.current = pk.current /\ w.queue = pk.queue /\ w.asked = pk.asked
          /\ w.waiting = pk.waiting /\ w.dialog = pk.dialog /\ w.answer = pk.answer
          /\ w.idles = pk.idles /\ w.withdrawn = pk.withdrawn
      BY <1>3, <1>4 DEF Polkit!Agent
    <3>4. /\ w.helper = pk.helper /\ w.state = pk.state /\ w.done = pk.done
          /\ w.by = pk.by /\ w.severed = pk.severed
      BY <1>3, <1>5 DEF Polkit!Agent
    <3> HIDE DEF w, r
    <3>5. \A x : Touched(w, x) <=> Touched(pk, x) BY <3>4 DEF Touched
    <3>6. w.idles \subseteq w.withdrawn BY <1>1, <3>3 DEF Own
    <3>7. Sound(w) BY <1>1, <3>2, <3>3, <3>4, <3>5, <3>6, Carried
    <3> QED BY <1>1, <3>1, <3>3, <3>4, <3>7 DEF Good, Served
  <2>3. CASE ~u.locked
    <3> DEFINE v == [u EXCEPT !.dialog = r]
               w == [v EXCEPT !.helper[r] = "busy"]
    <3>1. pk' = w BY <1>2, <1>9, <2>3 DEF Polkit!Initiate, Polkit!Authenticate
    <3>2. w \in Polkit!Agent
      <4> HIDE DEF r
      <4>1. v \in Polkit!Agent
        <5>1. u \in Polkit!Agent /\ r \in Polkit!Requests BY <1>3, <2>1
        <5> QED BY <5>1 DEF Polkit!Agent
      <4> DEFINE h == [v.helper EXCEPT ![r] = "busy"]
      <4> HIDE DEF v
      <4>2. h \in [Polkit!Requests -> {"none", "busy", "asking", "ended"}]
        BY <2>1, <4>1 DEF Polkit!Agent
      <4>3. w = [v EXCEPT !.helper = h] BY <4>1 DEF Polkit!Agent
      <4> HIDE DEF h, w
      <4> QED BY <4>1, <4>2, <4>3 DEF Polkit!Agent
    <3>3. /\ w.current = r /\ w.queue = pk.queue /\ w.asked = pk.asked
          /\ w.waiting = 0 /\ w.dialog = r /\ w.answer = pk.answer
          /\ w.idles = pk.idles /\ w.withdrawn = pk.withdrawn
      BY <1>3, <1>4, <2>1 DEF Polkit!Agent
    <3>4. /\ w.helper[r] = "busy" /\ (\A x \in Asked \ {r} : w.helper[x] = pk.helper[x])
          /\ w.state = pk.state /\ w.done = pk.done /\ w.by = pk.by /\ w.severed = pk.severed
      BY <1>3, <1>5, <2>1 DEF Polkit!Agent
    <3> HIDE DEF w, r
    <3>5. \A x \in Asked \ {r} : Touched(w, x) <=> Touched(pk, x) BY <3>4 DEF Touched
    <3>6. \A i \in DOMAIN pk.queue : pk.queue[i] \in Asked \ {r} BY <1>1, <2>1 DEF Lined
    <3>7. Lined(w)
      <4>1. \A x \in Asked : x > w.asked \/ x = w.waiting => ~Touched(w, x)
        BY <1>1, <2>1, <3>3, <3>5 DEF Lined, Polkit!Agent
      <4>2. \A i \in DOMAIN w.queue : ~Touched(w, w.queue[i])
        BY <1>1, <3>3, <3>5, <3>6 DEF Lined
      <4> QED BY <1>1, <2>1, <3>3, <4>1, <4>2 DEF Lined
    <3>8. Own(w) BY <1>1, <2>1, <3>3, <3>4, <3>5 DEF Own
    <3>9. Sound(w) BY <3>2, <3>3, <3>7, <3>8, <2>1 DEF Sound, Shown, Waits
    <3>10. r \notin w.done /\ w.state[r] # "CLOSING" BY <2>1, <3>4 DEF Touched
    <3>11. Served(w) BY <3>3, <3>4, <3>10 DEF Served
    <3>12. w.current # 0 BY <2>1, <3>3
    <3> QED BY <3>1, <3>9, <3>11, <3>12 DEF Good
  <2> QED BY <2>2, <2>3
<1> QED BY <1>8, <1>9
-----------------------------------------------------------------------------
\* The agent of polkit, all its steps together.
LEMMA PolkitInit == Polkit!Init => Good(pk)
<1> SUFFICES ASSUME Polkit!Init PROVE Good(pk)
  OBVIOUS
<1> USE Numbers DEF Asked, Polkit!Init
<1>1. pk \in Polkit!Agent
  BY DEF Polkit!Agent
<1>2. /\ pk.asked = 0 /\ pk.queue = <<>> /\ pk.current = 0 /\ pk.dialog = 0 /\ pk.waiting = 0
      /\ pk.idles = {} /\ pk.done = {} /\ pk.withdrawn = {}
      /\ \A r \in Asked : /\ pk.helper[r] = "none" /\ pk.state[r] = "CLOSED"
                          /\ pk.answer[r] = "none"
  OBVIOUS
<1>3. \A x \in Asked : ~Touched(pk, x) BY <1>2 DEF Touched
<1>4. Lined(pk)
  <2>1. DOMAIN pk.queue = {} /\ 1..pk.asked = {} BY <1>2
  <2>2. \A x \in Asked : x > pk.asked \/ x = pk.waiting => ~Touched(pk, x) BY <1>3
  <2>3. pk.current <= pk.asked BY <1>2
  <2> HIDE DEF Polkit!Init
  <2> QED BY <2>1, <2>2, <2>3 DEF Lined
<1>5. Own(pk) BY <1>2, <1>3 DEF Own
<1> QED BY <1>1, <1>2, <1>4, <1>5 DEF Good, Sound, Shown, Waits, Served

LEMMA PolkitNextGood ==
  ASSUME Good(pk), PolkitNext
  PROVE  Good(pk')
<1>1. CASE P(Polkit!Ask) BY <1>1, AskGood DEF P
<1>2. CASE P(Polkit!SetLocked) BY <1>2, SetLockedGood DEF P
<1>3. CASE \E r \in Polkit!Requests :
       \/ P(Polkit!Withdraw(r)) \/ P(Polkit!HandleCancelled(r)) \/ P(Polkit!Dangling(r))
       \/ P(Polkit!Prompt(r)) \/ P(Polkit!Respond(r)) \/ P(Polkit!Dismiss(r))
       \/ P(Polkit!Closed(r))
       \/ \E gained \in BOOLEAN : P(Polkit!Completed(r, gained))
  <2>1. PICK r \in Asked :
          \/ Polkit!Withdraw(r) \/ Polkit!HandleCancelled(r) \/ Polkit!Dangling(r)
          \/ Polkit!Prompt(r) \/ Polkit!Respond(r) \/ Polkit!Dismiss(r)
          \/ Polkit!Closed(r)
          \/ \E gained \in BOOLEAN : Polkit!Completed(r, gained)
    BY <1>3 DEF P, Asked
  <2> QED BY <2>1, IdlesGood, HandleCancelledGood, DialogGood
<1> QED BY <1>1, <1>2, <1>3 DEF PolkitNext

\* What is good answers: the agent's half of PromptsAnswer.
LEMMA GoodAnswers ==
  ASSUME Good(pk)
  PROVE  Polkit!TypeOK /\ Polkit!NeverStalls /\ Polkit!AnsweredByItsDialog
<1> USE Numbers DEF Asked
<1>1. /\ pk \in Polkit!Agent /\ Lined(pk) /\ Own(pk) /\ Served(pk)
      /\ (pk.queue # <<>> => pk.current # 0)
  BY DEF Good, Sound
<1>2. Polkit!TypeOK BY <1>1 DEF Polkit!TypeOK
<1>3. Polkit!NeverStalls
  <2>1. \A r \in 1..pk.asked : pk.answer[r] = "none" =>
          r = pk.current \/ \E i \in DOMAIN pk.queue : pk.queue[i] = r
    BY <1>1 DEF Lined
  <2>2. pk.current # 0 =>
          \/ pk.waiting = pk.current /\ pk.dialog = 0
          \/ /\ pk.dialog = pk.current
             /\ \/ pk.helper[pk.current] = "busy"
                \/ pk.helper[pk.current] = "asking" /\ pk.state[pk.current] = "OPENED"
    BY <1>1 DEF Served
  <2> QED BY <1>1, <2>1, <2>2 DEF Polkit!NeverStalls
<1>4. Polkit!AnsweredByItsDialog BY <1>1 DEF Own, Polkit!AnsweredByItsDialog
<1> QED BY <1>2, <1>3, <1>4
-----------------------------------------------------------------------------
\* The keyring's prompt: a question that waits is on screen, and gcr closes no prompt that
\* does not exist.
Asking(u) ==
  (u.task # 0 /\ ~u.closed) =>
    /\ u.exists = "dialog" /\ u.state = "OPENED" /\ u.shown
    /\ u.mode # "NONE" /\ u.entries = Keyring!Entries(u.mode, u.fresh)
    /\ u.sensitive \/ u.mismatch

Prompted(u) == u \in Keyring!Prompt /\ Asking(u) /\ (u.exists = "no" => ~u.closed)

\* shell_keyring_prompt_cancel() ends the question, or closes a prompt without one.
LEMMA ReturnEnds ==
  ASSUME NEW u \in Keyring!Prompt, NEW a \in {"continue", "cancel"}
  PROVE  LET w == Keyring!Return(u, a)
         IN /\ w \in Keyring!Prompt /\ w.task = 0 /\ w.exists = u.exists
            /\ w.closed = u.closed
<1> DEFINE r == [u.reply EXCEPT ![u.task] = a]
           w == [u EXCEPT !.reply = r, !.task = 0, !.mode = "NONE", !.mismatch = FALSE]
<1>1. Keyring!Return(u, a) = w BY DEF Keyring!Return, Keyring!Prompt
<1>2. r \in [1..MaxCalls -> Keyring!Replies] BY DEF Keyring!Prompt, Keyring!Replies
<1>3. 0 \in 0..MaxCalls BY PromptsAssumption DEF PromptsAssumption
<1> HIDE DEF r
<1>4. w \in Keyring!Prompt BY <1>2, <1>3 DEF Keyring!Prompt
<1>5. w.task = 0 /\ w.exists = u.exists /\ w.closed = u.closed BY DEF Keyring!Prompt
<1> HIDE DEF w
<1> QED BY <1>1, <1>4, <1>5

LEMMA CloseEnds ==
  ASSUME NEW u \in Keyring!Prompt
  PROVE  LET w == Keyring!ClosePrompt(u)
         IN /\ w \in Keyring!Prompt /\ w.task = u.task /\ w.exists = u.exists
            /\ w.closed = u.closed
BY PromptsAssumption DEF PromptsAssumption, Keyring!ClosePrompt, Keyring!Prompt

LEMMA CancelPrompted ==
  ASSUME NEW u \in Keyring!Prompt, u.task # 0 /\ ~u.closed => u.mode # "NONE",
         u.exists = "no" => ~u.closed
  PROVE  Prompted(Keyring!CancelPrompt(u))
<1> DEFINE w == Keyring!CancelPrompt(u)
<1>1. CASE u.mode # "NONE"
  <2>1. w = Keyring!Return(u, "cancel") BY <1>1 DEF Keyring!CancelPrompt
  <2>2. /\ w \in Keyring!Prompt /\ w.task = 0 /\ w.exists = u.exists /\ w.closed = u.closed
    BY <2>1, ReturnEnds
  <2> HIDE DEF w
  <2>3. Prompted(w) BY <2>2 DEF Prompted, Asking
  <2> QED BY <2>3 DEF w
<1>2. CASE u.mode = "NONE" /\ u.shown
  <2>1. w = Keyring!ClosePrompt(u) BY <1>2 DEF Keyring!CancelPrompt
  <2>2. /\ w \in Keyring!Prompt /\ w.task = u.task /\ w.exists = u.exists
        /\ w.closed = u.closed
    BY <2>1, CloseEnds
  <2> HIDE DEF w
  <2>3. Prompted(w) BY <1>2, <2>2 DEF Prompted, Asking
  <2> QED BY <2>3 DEF w
<1>3. CASE u.mode = "NONE" /\ ~u.shown
  <2>1. w = u BY <1>3 DEF Keyring!CancelPrompt
  <2> QED BY <1>3, <2>1 DEF Prompted, Asking
<1> QED BY <1>1, <1>2, <1>3 DEF Keyring!Prompt

LEMMA QuestionGood ==
  ASSUME Prompted(kp), NEW mode \in {"CONFIRM", "PASSWORD"}, NEW fresh \in BOOLEAN,
         Keyring!Question(mode, fresh)
  PROVE  Prompted(kp')
<1> DEFINE u == [kp EXCEPT !.calls = @ + 1, !.task = kp.calls + 1, !.mode = mode,
                           !.fresh = fresh, !.shown = TRUE]
           v == [u EXCEPT !.entries = Keyring!Entries(u.mode, u.fresh), !.sensitive = TRUE]
           x == [v EXCEPT !.state = "OPENED"]
<1>1. /\ kp \in Keyring!Prompt /\ kp.exists # "no" /\ ~kp.closed /\ kp.calls < MaxCalls
      /\ kp' \in IF kp.exists = "dummy" THEN {Keyring!CancelPrompt(u)} ELSE Keyring!Show(u)
  BY DEF Prompted, Keyring!Question
<1>2. kp.calls \in Nat /\ kp.calls + 1 \in 0..MaxCalls /\ MaxCalls \in Nat
  BY <1>1, PromptsAssumption DEF PromptsAssumption, Keyring!Prompt
<1>3. u \in Keyring!Prompt BY <1>1, <1>2 DEF Keyring!Prompt
<1>4. u.mode = mode /\ u.exists = kp.exists /\ ~u.closed /\ u.shown
  BY <1>1 DEF Keyring!Prompt
<1> HIDE DEF u
<1>5. Keyring!Entries(u.mode, u.fresh) \in {"none", "one", "two"} BY DEF Keyring!Entries
<1>6. v \in Keyring!Prompt BY <1>3, <1>5 DEF Keyring!Prompt
<1>7. /\ v.mode = mode /\ v.exists = kp.exists /\ ~v.closed /\ v.shown /\ v.sensitive
      /\ v.fresh = u.fresh /\ v.entries = Keyring!Entries(u.mode, u.fresh)
  BY <1>3, <1>4 DEF Keyring!Prompt
<1> HIDE DEF v
<1>8. x \in Keyring!Prompt BY <1>6 DEF Keyring!Prompt
<1>9. /\ x.mode = mode /\ x.exists = kp.exists /\ ~x.closed /\ x.shown /\ x.sensitive
      /\ x.state = "OPENED" /\ x.fresh = v.fresh /\ x.entries = v.entries
  BY <1>6, <1>7 DEF Keyring!Prompt
<1> HIDE DEF x
<1>10. CASE kp.exists = "dummy"
  <2>1. Prompted(Keyring!CancelPrompt(u)) BY <1>1, <1>3, <1>4, CancelPrompted
  <2> QED BY <1>1, <1>10, <2>1
<1>11. CASE kp.exists # "dummy"
  <2>1. kp.exists = "dialog" BY <1>1, <1>11 DEF Keyring!Prompt
  <2>2. kp' = x \/ kp' = Keyring!CancelPrompt(v)
    BY <1>1, <1>11 DEF Keyring!Show, v, x
  <2>3. Prompted(x) BY <1>4, <1>7, <1>8, <1>9, <2>1 DEF Prompted, Asking
  <2>4. Prompted(Keyring!CancelPrompt(v)) BY <1>1, <1>6, <1>7, CancelPrompted
  <2> QED BY <2>2, <2>3, <2>4
<1> QED BY <1>10, <1>11

LEMMA ContinueGood ==
  ASSUME Prompted(kp), NEW match \in BOOLEAN, Keyring!Continue(match)
  PROVE  Prompted(kp')
<1> DEFINE u == [kp EXCEPT !.sensitive = FALSE]
           m == [u EXCEPT !.mismatch = TRUE]
<1>1. kp \in Keyring!Prompt /\ Asking(kp) /\ (kp.exists = "no" => ~kp.closed) BY DEF Prompted
<1>2. \/ kp' = u /\ u.task = 0
      \/ kp' = m
      \/ kp' = Keyring!Return(u, "continue")
  BY DEF Keyring!Continue
<1>3. u \in Keyring!Prompt BY <1>1 DEF Keyring!Prompt
<1>4. u.exists = kp.exists /\ u.closed = kp.closed BY <1>1 DEF Keyring!Prompt
<1>5. CASE kp' = u /\ u.task = 0
  BY <1>1, <1>3, <1>4, <1>5 DEF Prompted, Asking
<1>6. CASE kp' = m
  <2>1. m \in Keyring!Prompt BY <1>1 DEF Keyring!Prompt
  <2>2. /\ m.task = kp.task /\ m.closed = kp.closed /\ m.exists = kp.exists
        /\ m.state = kp.state /\ m.shown = kp.shown /\ m.mode = kp.mode
        /\ m.entries = kp.entries /\ m.fresh = kp.fresh /\ m.mismatch
    BY <1>1 DEF Keyring!Prompt
  <2> HIDE DEF m
  <2> QED BY <1>1, <1>6, <2>1, <2>2 DEF Prompted, Asking
<1>7. CASE kp' = Keyring!Return(u, "continue")
  <2> HIDE DEF u
  <2> QED BY <1>1, <1>3, <1>4, <1>7, ReturnEnds DEF Prompted, Asking
<1> QED BY <1>2, <1>5, <1>6, <1>7

LEMMA DisposeGood ==
  ASSUME Prompted(kp), Keyring!Dispose
  PROVE  Prompted(kp')
<1> DEFINE u == IF kp.task = 0 THEN kp ELSE Keyring!CancelPrompt(kp)
           n == Keyring!NoPrompt(u.enabled, u.calls, u.reply)
<1>1. /\ kp \in Keyring!Prompt /\ Asking(kp) /\ (kp.exists = "no" => ~kp.closed)
      /\ kp' = n /\ kp.closed
  BY DEF Prompted, Keyring!Dispose
<1>2. Prompted(Keyring!CancelPrompt(kp)) BY <1>1, CancelPrompted
<1>3. u \in Keyring!Prompt BY <1>1, <1>2 DEF Prompted
<1> HIDE DEF u
<1>4. /\ u.enabled \in BOOLEAN /\ u.calls \in 0..MaxCalls
      /\ u.reply \in [1..MaxCalls -> Keyring!Replies]
  BY <1>3 DEF Keyring!Prompt
<1>5. n \in Keyring!Prompt
  BY <1>4, PromptsAssumption DEF PromptsAssumption, Keyring!NoPrompt, Keyring!Prompt
<1>6. n.task = 0 /\ ~n.closed BY DEF Keyring!NoPrompt
<1> HIDE DEF n
<1> QED BY <1>1, <1>5, <1>6 DEF Prompted, Asking

LEMMA KeyringNextGood ==
  ASSUME Prompted(kp), KeyringNext
  PROVE  Prompted(kp')
<1>1. kp \in Keyring!Prompt /\ Asking(kp) /\ (kp.exists = "no" => ~kp.closed) BY DEF Prompted
<1>2. ASSUME Keyring!NewPrompt PROVE Prompted(kp')
  <2>1. kp' \in Keyring!Prompt BY <1>1, <1>2 DEF Keyring!NewPrompt, Keyring!Prompt
  <2>2. kp'.task = kp.task /\ kp'.closed = kp.closed /\ kp'.exists # "no"
    BY <1>1, <1>2 DEF Keyring!NewPrompt, Keyring!Prompt
  <2>3. kp.exists = "no" BY <1>2 DEF Keyring!NewPrompt
  <2> QED BY <1>1, <2>1, <2>2, <2>3 DEF Prompted, Asking
<1>3. ASSUME Keyring!Cancel PROVE Prompted(kp')
  BY <1>1, <1>3, CancelPrompted DEF Keyring!Cancel, Asking
<1>4. ASSUME Keyring!Close PROVE Prompted(kp')
  <2> DEFINE w == Keyring!ClosePrompt(kp)
  <2>1. w \in Keyring!Prompt /\ w.exists = kp.exists BY <1>1, CloseEnds
  <2>2. kp' = [w EXCEPT !.closed = TRUE] /\ kp.exists # "no" BY <1>4 DEF Keyring!Close
  <2> HIDE DEF w
  <2>3. kp' \in Keyring!Prompt /\ kp'.closed /\ kp'.exists # "no"
    BY <2>1, <2>2 DEF Keyring!Prompt
  <2> QED BY <2>3 DEF Prompted, Asking
<1>5. ASSUME Keyring!Faded PROVE Prompted(kp')
  <2>1. /\ kp' \in Keyring!Prompt /\ kp'.task = kp.task /\ kp'.closed = kp.closed
        /\ kp'.exists = kp.exists /\ kp.state = "CLOSING"
    BY <1>1, <1>5 DEF Keyring!Faded, Keyring!Prompt
  <2> QED BY <1>1, <2>1 DEF Prompted, Asking
<1>6. ASSUME Keyring!Dispose PROVE Prompted(kp')
  BY <1>6, DisposeGood
<1>7. ASSUME Keyring!Disable PROVE Prompted(kp')
  <2> DEFINE u == [kp EXCEPT !.enabled = FALSE]
  <2>1. kp' = IF kp.exists = "no" THEN u ELSE Keyring!CancelPrompt(u)
    BY <1>7 DEF Keyring!Disable
  <2>2. u \in Keyring!Prompt BY <1>1 DEF Keyring!Prompt
  <2>3. /\ u.task = kp.task /\ u.closed = kp.closed /\ u.exists = kp.exists
        /\ u.state = kp.state /\ u.shown = kp.shown /\ u.mode = kp.mode
        /\ u.entries = kp.entries /\ u.fresh = kp.fresh /\ u.mismatch = kp.mismatch
    BY <1>1 DEF Keyring!Prompt
  <2>4. u.sensitive = kp.sensitive BY <1>1 DEF Keyring!Prompt
  <2> HIDE DEF u
  <2>5. Prompted(u) BY <1>1, <2>2, <2>3, <2>4 DEF Prompted, Asking
  <2>6. Prompted(Keyring!CancelPrompt(u)) BY <2>5, CancelPrompted DEF Prompted, Asking
  <2> QED BY <2>1, <2>5, <2>6
<1>8. ASSUME Keyring!Enable PROVE Prompted(kp')
  <2>1. kp' = [kp EXCEPT !.enabled = TRUE] BY <1>8 DEF Keyring!Enable
  <2>2. kp' \in Keyring!Prompt BY <1>1, <2>1 DEF Keyring!Prompt
  <2>3. /\ kp'.task = kp.task /\ kp'.closed = kp.closed /\ kp'.exists = kp.exists
        /\ kp'.state = kp.state /\ kp'.shown = kp.shown /\ kp'.mode = kp.mode
        /\ kp'.entries = kp.entries /\ kp'.fresh = kp.fresh /\ kp'.mismatch = kp.mismatch
    BY <1>1, <2>1 DEF Keyring!Prompt
  <2>4. kp'.sensitive = kp.sensitive BY <1>1, <2>1 DEF Keyring!Prompt
  <2> QED BY <1>1, <2>2, <2>3, <2>4 DEF Prompted, Asking
<1> QED BY <1>2, <1>3, <1>4, <1>5, <1>6, <1>7, <1>8, QuestionGood, ContinueGood
        DEF KeyringNext, K
-----------------------------------------------------------------------------
\* Both promises, which the steps of the three dialogs keep.
PromptsGood == Good(pk) /\ Prompted(kp)

\* The caller of a dialog is never left waiting for one that nobody can see, and a request
\* for authentication is answered by its own dialog or because polkit withdrew it: the
\* queue of shell-polkit-authentication-agent.c, the dialogs of polkitAgent.js and
\* keyring.js, for every number of requests and questions.
THEOREM NobodyWaitsUnseen == MCSpec => []PromptsAnswer
<1>1. MCInit => PromptsGood
  <2> SUFFICES ASSUME MCInit PROVE PromptsGood
    OBVIOUS
  <2>1. Good(pk) BY PolkitInit DEF MCInit
  <2>2. kp = Keyring!NoPrompt(TRUE, 0, [c \in 1..MaxCalls |-> "none"])
    BY DEF MCInit, Keyring!Init
  <2>3. kp \in Keyring!Prompt
    BY <2>2, PromptsAssumption
    DEF PromptsAssumption, Keyring!NoPrompt, Keyring!Prompt, Keyring!Replies
  <2>4. kp.task = 0 /\ ~kp.closed BY <2>2 DEF Keyring!NoPrompt
  <2> QED BY <2>1, <2>3, <2>4 DEF PromptsGood, Prompted, Asking
<1>2. PromptsGood /\ [MCNext]_<<subject, d, pk, kp>> => PromptsGood'
  <2> SUFFICES ASSUME PromptsGood, [MCNext]_<<subject, d, pk, kp>>
               PROVE  Good(pk') /\ Prompted(kp')
    BY DEF PromptsGood, Good, Sound, Lined, Shown, Waits, Served, Own, Touched, Prompted, Asking
  <2>1. Good(pk) /\ Prompted(kp) BY DEF PromptsGood
  <2>2. CASE EndSessionNext
    <3>1. pk' = pk /\ kp' = kp BY <2>2 DEF EndSessionNext, E
    <3> QED BY <2>1, <3>1
  <2>3. CASE PolkitNext
    <3>1. kp' = kp BY <2>3 DEF PolkitNext, P
    <3> QED BY <2>1, <2>3, <3>1, PolkitNextGood
  <2>4. CASE KeyringNext
    <3>1. pk' = pk BY <2>4 DEF KeyringNext, K
    <3> QED BY <2>1, <2>4, <3>1, KeyringNextGood
  <2>5. CASE UNCHANGED <<subject, d, pk, kp>> BY <2>1, <2>5
  <2> QED BY <2>2, <2>3, <2>4, <2>5 DEF MCNext
<1>3. PromptsGood => PromptsAnswer
  BY GoodAnswers
  DEF PromptsGood, PromptsAnswer, Prompted, Asking, Keyring!TypeOK, Keyring!QuestionIsOnScreen
<1> QED BY <1>1, <1>2, <1>3, PTL DEF MCSpec
=============================================================================
