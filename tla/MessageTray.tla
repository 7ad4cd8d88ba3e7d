----------------------------- MODULE MessageTray -----------------------------
(***************************************************************************)
(* The notification banners of js/ui/messageTray.js: the sources' lists,   *)
(* the queue of notifications waiting for a banner, the one banner that is *)
(* shown, its animations, and the timers, pointer movements and session    *)
(* changes that bring it up and down.                                      *)
(*                                                                         *)
(* The signal handlers update the tray and end in _updateState(), which may *)
(* destroy notifications, whose handlers end in _updateState() again, so    *)
(* the tray is one record and each function of the code an operator from a *)
(* tray to the set of trays it can leave.                                  *)
(***************************************************************************)
EXTENDS Integers, Sequences, FiniteSets, SequencesExt

CONSTANTS
  Notifications,     \* notification objects; one that is destroyed can be built anew
  Sources,           \* message tray sources: applications and the shell itself
  SourceOf,          \* the source of each notification
  Transient,         \* notifications to be destroyed when their banner is gone
  Resident,          \* notifications that stay when they are activated
  Feedback,          \* notifications that answer what the user just did
  Chats,             \* notifications whose banner has an entry to reply in
  NoNotification,    \* null
  MaxQueue,          \* MAX_NOTIFICATIONS_IN_QUEUE
  MaxPerSource,      \* MAX_NOTIFICATIONS_PER_SOURCE
  Policies,          \* what a source may do: "banners" (showBanners and enable),
                     \* "list" (enable alone) or "off"
  Toggles,           \* changes of the session the instance explores: "busy",
                     \* "fullscreen", "blocked", "allowed"
  MaxWatches         \* bound: idle monitor watches waiting for the user

ASSUME TrayAssumption == /\ NoNotification \notin Notifications
                         /\ SourceOf \in [Notifications -> Sources]
                         /\ MaxQueue \in Nat \ {0} /\ MaxPerSource \in Nat \ {0}
                         /\ MaxWatches \in Nat \ {0}
                         /\ Policies \subseteq {"banners", "list", "off"}

VARIABLES
  tray,     \* the MessageTray and the notifications' flags
  listed,   \* source.notifications
  policy    \* what each source's NotificationPolicy allows

vars == <<tray, listed, policy>>

States == {"HIDDEN", "SHOWING", "SHOWN", "HIDING"}

Tray == [live        : SUBSET Notifications,  \* built and not destroyed
         critical    : SUBSET Notifications,  \* urgency is CRITICAL
         acked       : SUBSET Notifications,  \* acknowledged
         queue       : Seq(Notifications),    \* _notificationQueue
         current     : Notifications \cup {NoNotification},   \* _notification
         state       : States,                \* _notificationState
         removed     : BOOLEAN,               \* _notificationRemoved
         busy        : BOOLEAN,               \* _busy
         fullscreen  : BOOLEAN,               \* primaryMonitor.inFullscreen
         blocked     : BOOLEAN,               \* _bannerBlocked
         allowed     : BOOLEAN,               \* sessionMode.hasNotifications
         timer       : BOOLEAN,               \* _notificationTimeoutId
         leftTimer   : BOOLEAN,               \* _notificationLeftTimeoutId
         hovered     : BOOLEAN,               \* _notificationHovered
         pointerIn   : BOOLEAN,               \* _pointerInNotification
         fresh       : BOOLEAN,               \* _showNotificationMouseX >= 0
         userActive  : BOOLEAN,               \* _userActiveWhileNotificationShown
         watches     : 0..MaxWatches,         \* add_user_active_watch() pending
         focused     : BOOLEAN,               \* the banner's reply entry has the focus
         wired       : BOOLEAN,               \* _bannerClickedId, _bannerUnfocusedId
         unredirect  : Int,                   \* disable minus enable_unredirect
         unasked     : BOOLEAN,               \* history: see NothingLeftUndone
         reordered   : BOOLEAN]               \* history: see Update

Init == /\ tray = [live |-> {}, critical |-> {}, acked |-> {}, queue |-> <<>>,
                   current |-> NoNotification, state |-> "HIDDEN", removed |-> FALSE,
                   busy |-> FALSE, fullscreen |-> FALSE, blocked |-> FALSE,
                   allowed |-> TRUE, timer |-> FALSE, leftTimer |-> FALSE,
                   hovered |-> FALSE, pointerIn |-> FALSE, fresh |-> FALSE,
                   userActive |-> FALSE, watches |-> 0, focused |-> FALSE,
                   wired |-> FALSE, unredirect |-> 0, unasked |-> FALSE,
                   reordered |-> FALSE]
        /\ listed = [s \in Sources |-> <<>>]
        /\ policy \in [Sources -> Policies]
-----------------------------------------------------------------------------
\* Array.filter(): the elements of q that are in A, in their order.
Only(q, A) ==
  LET kept[i \in 0 .. Len(q)] ==
        IF i = 0 THEN <<>>
        ELSE IF q[i] \in A THEN Append(kept[i - 1], q[i]) ELSE kept[i - 1]
  IN  kept[Len(q)]

\* _showNotificationCompleted(), at the end of the animation.
ShowCompleted(t) ==
  [t EXCEPT !.state = "SHOWN", !.timer = @ \/ t.current \notin t.critical]

\* _updateShowingNotification(): a banner that is not on the screen, because the
\* tray is blocked, has no transition, and its ease() completes at once.
UpdateShowing(t) ==
  LET u == [t EXCEPT !.acked = @ \cup {t.current}, !.state = "SHOWING"] IN
  IF t.blocked THEN ShowCompleted(u) ELSE u

\* _showNotification(): the head of the queue gets the banner. Whether the user
\* is there is the idle monitor's to say; if not, a watch waits for the user.
Show(t) ==
  {UpdateShowing([t EXCEPT !.current = Head(t.queue), !.queue = Tail(@),
                           !.userActive = active,
                           !.watches = @ + IF active THEN 0 ELSE 1,
                           !.wired = TRUE, !.focused = FALSE, !.fresh = TRUE,
                           !.leftTimer = FALSE, !.unredirect = @ + 1]) :
     active \in IF t.watches < MaxWatches THEN BOOLEAN ELSE {TRUE}}

\* Mutant of HideCompleted: transient notifications stay.
HideCompletedKeepsTransient(t) ==
  [t EXCEPT !.state = "HIDDEN", !.current = NoNotification, !.pointerIn = FALSE,
            !.removed = FALSE, !.focused = FALSE, !.unredirect = @ - 1]

\* Mutant of HideCompleted: what is acknowledged is read after it was cleared.
HideCompletedAcksNull(t) ==
  [t EXCEPT !.state = "HIDDEN", !.current = NoNotification,
            !.acked = @ \cup {NoNotification},
            !.live = @ \ IF t.removed THEN {} ELSE {t.current} \cap Transient,
            !.pointerIn = FALSE, !.removed = FALSE, !.focused = FALSE,
            !.unredirect = @ - 1]

\* _hideNotificationCompleted(): a transient notification goes with its banner,
\* unless it went before.
HideCompleted(t) ==
  [t EXCEPT !.state = "HIDDEN", !.current = NoNotification,
            !.live = @ \ IF t.removed THEN {} ELSE {t.current} \cap Transient,
            !.pointerIn = FALSE, !.removed = FALSE, !.focused = FALSE,
            !.unredirect = @ - 1]

\* _hideNotification(): the banner's handlers go before the animation starts.
Hide(t, animate) ==
  LET u == [t EXCEPT !.wired = FALSE, !.leftTimer = FALSE, !.focused = FALSE] IN
  IF animate THEN [u EXCEPT !.state = "HIDING"]
             ELSE [HideCompleted(u) EXCEPT !.unasked = TRUE]

Limited(t) == t.busy \/ t.fullscreen

\* Mutant of Showable: critical notifications are limited as well.
ShowableWithoutCritical(t) ==
  t.allowed /\ t.queue # <<>> /\ (~Limited(t) \/ Head(t.queue) \in Feedback)

\* showNextNotification, for the head of the queue only.
Showable(t) == /\ t.allowed /\ t.queue # <<>>
               /\ \/ ~Limited(t)
                  \/ Head(t.queue) \in Feedback \cup t.critical

\* The banner's time is over: Escape, or nothing that keeps it.
Expired(t) == /\ t.userActive /\ ~t.timer
              /\ t.current \notin t.critical
              /\ ~t.focused /\ ~t.pointerIn

\* _updateState(): the one place that decides what to show and what to hide. A
\* pointer in the banner only expands it.
UpdateState(t, escaped) ==
  LET u == [t EXCEPT !.queue = Only(@, Notifications \ t.acked),
                     !.unasked = FALSE] IN
  IF t.blocked THEN {t}
  ELSE IF u.state = "HIDDEN" /\ Showable(u) THEN Show(u)
  ELSE IF u.state = "SHOWN" /\ (u.removed \/ ~u.allowed \/ escaped \/ Expired(u))
    THEN {Hide(u, u.allowed /\ ~u.removed)}
  ELSE {u}

\* Mutant of OnDestroy: a banner that is still coming up is not closed.
OnDestroyMissesShowing(t, n) ==
  LET u == [t EXCEPT !.live = @ \ {n}] IN
  IF t.current = n /\ t.state = "SHOWN"
    THEN UpdateState([u EXCEPT !.timer = FALSE, !.removed = TRUE], FALSE)
    ELSE {[u EXCEPT !.queue = Only(@, Notifications \ {n}),
                    !.unasked = @ \/ n \in ToSet(t.queue)]}

\* _onNotificationDestroy(): the banner of a destroyed notification closes, one
\* that waits leaves the queue; one that is being hidden is hidden anyway.
OnDestroy(t, n) ==
  LET u == [t EXCEPT !.live = @ \ {n}] IN
  IF t.current = n /\ t.state \in {"SHOWN", "SHOWING"}
    THEN UpdateState([u EXCEPT !.timer = FALSE, !.removed = TRUE], FALSE)
    ELSE {[u EXCEPT !.queue = Only(@, Notifications \ {n}),
                    !.unasked = @ \/ n \in ToSet(t.queue)]}

\* The queue is kept sorted by urgency, the oldest of the same urgency first.
Sorted(q, critical) == Only(q, critical) \o Only(q, Notifications \ critical)

Full(t) == Len(t.queue) + (IF t.current = NoNotification THEN 0 ELSE 1) >= MaxQueue

\* Mutant of OnShow: what is queued is queued again.
OnShowTwice(t, n) ==
  LET u == IF t.current = n THEN UpdateShowing(t)
           ELSE IF ~Full(t) \/ n \in t.critical
             THEN [t EXCEPT !.queue = Sorted(Append(@, n), t.critical),
                            !.reordered = FALSE]
           ELSE t
  IN UpdateState(u, FALSE)

\* _onNotificationShow(): an update of the notification on the banner shows it
\* again, another one waits for its turn if there is room.
OnShow(t, n) ==
  LET u == IF t.current = n THEN UpdateShowing(t)
           ELSE IF n \notin ToSet(t.queue) /\ (~Full(t) \/ n \in t.critical)
             THEN [t EXCEPT !.queue = Sorted(Append(@, n), t.critical),
                            !.reordered = FALSE]
           ELSE t
  IN UpdateState(u, FALSE)
-----------------------------------------------------------------------------
\* A source lists the notifications that were not destroyed.
Listed(t) == [s \in Sources |-> Only(listed[s], t.live)]

\* A handler of the tray: the sources drop what it destroyed.
Step(S) == /\ tray' \in S
           /\ listed' = Listed(tray')
           /\ UNCHANGED policy

\* source.showNotification(n): the oldest notification of a full source expires,
\* n joins the list, and the tray is asked for a banner if the policy allows.
Post(n, t) ==
  LET s == SourceOf[n] IN
  IF policy[s] = "banners" \/ (policy[s] = "list" /\ n \in t.critical)
    THEN OnShow(t, n) ELSE {t}

\* Mutant of Notify: one more notification than the source may have.
NotifyOneTooMany(n, isCritical) ==
  LET s == SourceOf[n]
      t == [tray EXCEPT !.acked = @ \ {n}, !.live = @ \cup {n},
                        !.critical = IF isCritical THEN @ \cup {n} ELSE @ \ {n}]
  IN
  /\ n \notin tray.live
  /\ tray.current # n /\ n \notin ToSet(tray.queue)
  /\ \E u \in IF Len(listed[s]) > MaxPerSource THEN OnDestroy(t, Head(listed[s])) ELSE {t} :
       /\ tray' \in Post(n, u)
       /\ listed' = [Listed(u) EXCEPT ![s] = Append(@, n)]
  /\ UNCHANGED policy

\* An application or the shell sends a notification.
Notify(n, isCritical) ==
  LET s == SourceOf[n]
      t == [tray EXCEPT !.acked = @ \ {n}, !.live = @ \cup {n},
                        !.critical = IF isCritical THEN @ \cup {n} ELSE @ \ {n}]
  IN
  /\ n \notin tray.live
  /\ tray.current # n /\ n \notin ToSet(tray.queue)
  /\ \E u \in IF Len(listed[s]) >= MaxPerSource THEN OnDestroy(t, Head(listed[s])) ELSE {t} :
       /\ tray' \in Post(n, u)
       /\ listed' = [Listed(u) EXCEPT ![s] = Append(@, n)]
  /\ UNCHANGED policy

\* The application updates a notification, maybe with another urgency. Nothing
\* sorts the queue again when the notification is waiting in it already.
Update(n, isCritical) ==
  LET critical == IF isCritical THEN tray.critical \cup {n} ELSE tray.critical \ {n} IN
  /\ n \in tray.live
  /\ \E u \in Post(n, [tray EXCEPT !.acked = @ \ {n}, !.critical = critical]) :
       Step({[u EXCEPT !.reordered = @ \/ Sorted(u.queue, u.critical) # u.queue]})

\* The application closes it, or the user does in the calendar.
Destroy(n) == n \in tray.live /\ Step(OnDestroy(tray, n))

\* A click on the banner: 'done-displaying' runs _escapeTray() if the banner's
\* handlers are there, and a notification that is not resident is destroyed.
Activate(n) ==
  /\ tray.current = n /\ n \in tray.live /\ ~tray.blocked
  /\ \E u \in IF tray.wired
                THEN UpdateState([tray EXCEPT !.pointerIn = FALSE, !.timer = FALSE], FALSE)
                ELSE {tray} :
       Step(IF n \in Resident \/ n \notin u.live THEN {u} ELSE OnDestroy(u, n))

\* The calendar is opened and lists what is not critical.
Acknowledge(n) ==
  /\ n \in tray.live \ (tray.critical \cup tray.acked)
  /\ Step({[tray EXCEPT !.acked = @ \cup {n}]})

\* The end of the animations.
ShowDone == /\ tray.state = "SHOWING"
            /\ Step(UpdateState(ShowCompleted(tray), FALSE))

\* Mutant of HideDone: _updateState() is not called at the end.
HideDoneOnly == tray.state = "HIDING" /\ Step({HideCompleted(tray)})

HideDone == /\ tray.state = "HIDING"
            /\ Step(UpdateState(HideCompleted(tray), FALSE))

\* _notificationTimeout(); when it is only postponed nothing changes.
Timeout == /\ tray.timer
           /\ Step(UpdateState([tray EXCEPT !.timer = FALSE], FALSE))

\* _onIdleMonitorBecameActive(), once for every watch.
UserActive ==
  /\ tray.watches > 0
  /\ Step(UpdateState([tray EXCEPT !.watches = @ - 1, !.userActive = TRUE,
                                   !.timer = TRUE], FALSE))

\* _onNotificationHoverChanged(): a banner that came up under the pointer does
\* not expand.
Enter ==
  LET t == [tray EXCEPT !.hovered = TRUE, !.leftTimer = FALSE, !.fresh = FALSE] IN
  /\ tray.current # NoNotification /\ ~tray.blocked /\ ~tray.hovered
  /\ \/ tray.fresh /\ Step({t})
     \/ Step(UpdateState([t EXCEPT !.pointerIn = TRUE], FALSE))

\* Mutant of Leave: nothing waits for the pointer to come back.
LeaveForGood == tray.hovered /\ Step({[tray EXCEPT !.hovered = FALSE]})

Leave == /\ tray.hovered
         /\ Step({[tray EXCEPT !.hovered = FALSE, !.leftTimer = TRUE]})

\* _onNotificationLeftTimeout(); when it is only extended nothing changes.
LeftTimeout ==
  /\ tray.leftTimer
  /\ Step(UpdateState([tray EXCEPT !.leftTimer = FALSE, !.pointerIn = FALSE,
                                   !.timer = FALSE], FALSE))

\* _onNotificationKeyRelease(): Escape in the banner.
Escape == /\ tray.current # NoNotification /\ ~tray.blocked
          /\ Step(UpdateState(tray, TRUE))

\* The reply entry of a chat banner gets the focus, and loses it.
FocusReply == /\ tray.current \in Chats /\ tray.state # "HIDING" /\ ~tray.focused
              /\ ~tray.blocked
              /\ Step({[tray EXCEPT !.focused = TRUE]})

UnfocusReply ==
  /\ tray.focused
  /\ LET t == [tray EXCEPT !.focused = FALSE] IN
     Step(IF tray.wired THEN UpdateState(t, FALSE) ELSE {t})

\* _onStatusChanged(), to BUSY and to AVAILABLE.
SetBusy(b) ==
  /\ "busy" \in Toggles /\ b # tray.busy
  /\ Step(UpdateState([tray EXCEPT !.busy = b, !.timer = @ /\ ~b], FALSE))

SetFullscreen(b) == /\ "fullscreen" \in Toggles /\ b # tray.fullscreen
                    /\ Step(UpdateState([tray EXCEPT !.fullscreen = b], FALSE))

\* set bannerBlocked(): the calendar's menu opens and closes.
SetBlocked(b) == /\ "blocked" \in Toggles /\ b # tray.blocked
                 /\ Step(UpdateState([tray EXCEPT !.blocked = b], FALSE))

\* _sessionUpdated(): the lock screen has no banners.
SetAllowed(b) == /\ "allowed" \in Toggles /\ b # tray.allowed
                 /\ Step(UpdateState([tray EXCEPT !.allowed = b], FALSE))

\* The user changes what a source may do: 'notify' runs _updateState().
SetPolicy(s, p) == /\ p # policy[s]
                   /\ tray' \in UpdateState(tray, FALSE)
                   /\ listed' = Listed(tray')
                   /\ policy' = [policy EXCEPT ![s] = p]

Next == \/ \E n \in Notifications :
             \/ \E c \in BOOLEAN : Notify(n, c) \/ Update(n, c)
             \/ Destroy(n) \/ Activate(n) \/ Acknowledge(n)
        \/ ShowDone \/ HideDone \/ Timeout \/ UserActive
        \/ Enter \/ Leave \/ LeftTimeout \/ Escape \/ FocusReply \/ UnfocusReply
        \/ \E b \in BOOLEAN : SetBusy(b) \/ SetFullscreen(b) \/ SetBlocked(b) \/ SetAllowed(b)
        \/ \E s \in Sources, p \in Policies : SetPolicy(s, p)

\* The main loop ends the animations and runs out the timers; the user owes
\* nothing.
Fairness == WF_vars(ShowDone) /\ WF_vars(HideDone) /\ WF_vars(Timeout)

Spec == Init /\ [][Next]_vars /\ Fairness
-----------------------------------------------------------------------------
TypeOK == /\ tray \in Tray
          /\ listed \in [Sources -> Seq(Notifications)]
          /\ policy \in [Sources -> Policies]

\* Every notification that exists is listed by its source, once and only there,
\* and no source lists more than MAX_NOTIFICATIONS_PER_SOURCE.
ListsExact ==
  \A s \in Sources :
    /\ Len(listed[s]) <= MaxPerSource
    /\ Len(listed[s]) = Cardinality(ToSet(listed[s]))
    /\ ToSet(listed[s]) = {n \in tray.live : SourceOf[n] = s}

\* There is a banner's notification exactly while there is a banner, nothing is
\* queued twice, queued while it is shown or queued once it is destroyed, and
\* unredirection is disabled once per banner, however showing, hiding, updates
\* and destruction interleave; and the sources' lists are exact.
BannerConsistent ==
  /\ (tray.state = "HIDDEN") = (tray.current = NoNotification)
  /\ \A i, j \in DOMAIN tray.queue : tray.queue[i] = tray.queue[j] => i = j
  /\ ToSet(tray.queue) \subseteq tray.live \ {tray.current}
  /\ tray.unredirect = IF tray.state = "HIDDEN" THEN 0 ELSE 1
  /\ ListsExact

\* "_updateState() figures out what (if anything) needs to be done at the present
\* time": between two events no notification waits that could have a banner,
\* but for those of a source that may send none any more.
NothingLeftUndone ==
  (tray.state = "HIDDEN" /\ ~tray.blocked /\ Showable(tray))
     => \/ Head(tray.queue) \in tray.acked
        \/ policy[SourceOf[Head(tray.queue)]] = "off"

\* That holds but after a destruction that closed the banner without animation or
\* took a notification from the queue: _updateState() is not asked again then.
NothingLeftUndoneButByDestruction == ~tray.unasked => NothingLeftUndone

\* A critical notification that waits for its banner is not kept back by others,
\* by a busy user or by a fullscreen window, as long as the queue was sorted
\* since the last change of an urgency.
CriticalComesUp ==
  (/\ tray.state = "HIDDEN" /\ ~tray.blocked /\ tray.allowed
   /\ ~tray.unasked /\ ~tray.reordered)
     => \A n \in ToSet(tray.queue) \cap tray.critical :
          n \in tray.acked \/ policy[SourceOf[n]] = "off"

\* What can still bring a banner down that no one has to act on.
WayOut ==
  \/ tray.timer
  \/ ~tray.userActive /\ tray.watches > 0
  \/ tray.focused
  \/ tray.pointerIn /\ (tray.hovered \/ tray.leftTimer)

\* An update is to "extend the time until it auto-hides": a banner that is not
\* critical, of a source that may show banners, always has a timer to end it or
\* something of the user's to wait for.
AlwaysAutoHides ==
  (/\ tray.state = "SHOWN" /\ ~tray.blocked /\ tray.current \notin tray.critical
   /\ policy[SourceOf[tray.current]] = "banners") => WayOut

\* That holds for every banner that was not brought back while it was hidden.
AutoHidesUnlessBroughtBack == tray.wired => AlwaysAutoHides

\* The banner of a destroyed notification is not left on the screen: it goes away
\* whatever animation it was in, unless banners are blocked.
DestroyedGoesAway ==
  tray.current \notin tray.live \cup {NoNotification}
    ~> (tray.current \in tray.live \cup {NoNotification} \/ tray.blocked)

\* A notification leaves the queue only for the banner, or because the user has
\* seen it or it is gone; a transient one does not outlive its banner.
NeverLost ==
  [][\A n \in Notifications :
       /\ (n \in ToSet(tray.queue) /\ n \notin ToSet(tray'.queue))
             => (tray'.current = n \/ n \in tray.acked \/ n \notin tray'.live)
       /\ (tray.current = n /\ tray'.current # n /\ n \in Transient)
             => n \notin tray'.live]_vars
=============================================================================
