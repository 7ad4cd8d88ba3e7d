------------------------------ MODULE Greeter ------------------------------
(***************************************************************************)
(* The login dialog of the greeter (gdm/loginDialog.js): its list of users *)
(* and the prompt that takes turns with it, the setting that disables the  *)
(* list, the session that fades the screen out and the return to the       *)
(* greeter that fades it in, and the login that begins by itself, a batch  *)
(* of tasks with holds (gdm/batch.js) that every key starts anew.          *)
(***************************************************************************)
EXTENDS Integers, Sequences, SequencesExt

CONSTANTS Users,
          Timed,        \* the user who is logged in after a while
          Delay,        \* that while
          Threshold,    \* _TIMED_LOGIN_IDLE_THRESHOLD
          MaxBatches    \* bounds the batches that have not ended

VARIABLE gr   \* the dialog, its prompt, and what GDM and the accounts service know

grVars == <<gr>>

Nobody == ""
NoTime == -1

\* What a batch of a timed login waits with: for the item of its user, for an idle user, and
\* for the indicator in the item to fill.
Batches == [phase : {"item", "idle", "shown"},
            cut   : BOOLEAN,             \* it was cancelled
            left  : 0..Delay,            \* of its timer
            own   : BOOLEAN]             \* its item is the one in the list

State == [ready     : BOOLEAN,                        \* the user manager has loaded
          awaits    : BOOLEAN,                        \* _userManagerLoadedId
          idle      : BOOLEAN,                        \* idle of _ensureUserListLoaded()
          loaded    : BOOLEAN,                        \* _userListLoaded
          setting   : BOOLEAN,                        \* 'disable-user-list'
          disabled  : {"unset", "yes", "no"},         \* _disableUserList
          users     : SUBSET Users,
          locked    : SUBSET Users,                   \* accounts that are
          items     : SUBSET Users,                   \* _items of the list
          status    : {"idle", "verifying", "failed", "succeeded"},   \* of the prompt
          list      : BOOLEAN,                        \* _userSelectionBox.visible
          prompt    : BOOLEAN,                        \* _authPrompt.visible
          next      : BOOLEAN,                        \* _nextSignalId: it asks for a name
          cancel    : BOOLEAN,                        \* cancelButton.visible
          card      : BOOLEAN,                        \* history: begun without a name
          user      : Users \cup {Nobody},            \* _user
          menu      : {"closed", "open"},
          sensitive : BOOLEAN,                        \* the button of the session menu
          messages  : BOOLEAN,                        \* hasPendingMessages
          finishing : BOOLEAN,                        \* finish() waits for them to be read
          opened    : BOOLEAN,                        \* GDM has a session to start
          opacity   : {"full", "some", "none"},
          fade      : {"", "open", "in", "out"},      \* the ease of the opacity
          bound     : 0..2,                           \* bindings of the opacity
          lost      : BOOLEAN,                        \* history: a fade was overtaken
          batches   : Seq(Batches),                   \* of timed logins, with the current one
          timed     : BOOLEAN,                        \* last, if _timedLoginBatch
          watching  : BOOLEAN,                        \* handlers of 'captured-event'
          quiet     : 0..Delay,                       \* since the last key or button
          auto      : {NoTime} \cup 0..Delay]         \* what that was at the last automatic login

Init == gr = [ready |-> FALSE, awaits |-> FALSE, idle |-> FALSE, loaded |-> FALSE,
              setting |-> FALSE, disabled |-> "unset", users |-> Users, locked |-> {},
              items |-> {}, status |-> "idle", list |-> FALSE, prompt |-> FALSE, next |-> FALSE,
              cancel |-> TRUE, card |-> FALSE, user |-> Nobody, menu |-> "closed",
              sensitive |-> TRUE, messages |-> FALSE, finishing |-> FALSE, opened |-> FALSE,
              opacity |-> "none", fade |-> "open", bound |-> 0, lost |-> FALSE, batches |-> <<>>,
              timed |-> FALSE, watching |-> FALSE, quiet |-> 0, auto |-> NoTime]
-----------------------------------------------------------------------------
\* updateSensitivity() of the session menu
MenuSensitive(s, on) == [s EXCEPT !.sensitive = on, !.menu = "closed"]

\* _updateCancelButton()
CancelButton(s) == [s EXCEPT !.cancel = ~(s.status = "idle" /\ s.disabled = "yes")]

\* begin() of the prompt
Begin(s) == [s EXCEPT !.status = "verifying"]

\* _askForUsernameAndBeginVerification(), the list hidden
Ask(s) == MenuSensitive([CancelButton(s) EXCEPT !.list = FALSE, !.next = TRUE, !.prompt = TRUE], FALSE)

\* _showUserList() and _ensureUserListLoaded()
ShowList(s) == [s EXCEPT !.awaits = @ \/ ~s.ready, !.idle = @ \/ s.ready, !.prompt = FALSE,
                         !.menu = "closed", !.list = TRUE]

\* _bindOpacity() and ease(); what was eased before is not completed.
Fade(s, to) == [s EXCEPT !.bound = IF @ < 2 THEN @ + 1 ELSE 2, !.lost = @ \/ s.fade \in {"in", "out"},
                         !.fade = to, !.opacity = "some"]

\* _startSession()
StartSession(s) == Fade([s EXCEPT !.finishing = FALSE, !.messages = FALSE], "out")

\* Mutant of OnReset: the prompt goes on asking for a name behind the list.
OnResetAsking(s, card) ==
  LET t == MenuSensitive([s EXCEPT !.user = Nobody, !.card = card], TRUE)
  IN CASE card -> Begin([t EXCEPT !.list = FALSE])
       [] ~card /\ t.disabled = "yes" -> Ask(t)
       [] OTHER -> ShowList(t)

\* _onReset(): the list, the question for a name, or what the smartcard says.
OnReset(s, card) ==
  LET t == MenuSensitive([s EXCEPT !.user = Nobody, !.next = FALSE, !.card = card], TRUE)
  IN CASE card -> Begin([t EXCEPT !.list = FALSE])
       [] ~card /\ t.disabled = "yes" -> Ask(t)
       [] OTHER -> ShowList(t)

\* reset() of the prompt; to drop the messages ends the wait for them.
Reset(s, card) ==
  LET t == [s EXCEPT !.status = "idle", !.messages = FALSE]
  IN OnReset(IF t.finishing THEN StartSession(t) ELSE t, card)

\* _updateDisableUserList()
UpdateDisabled(s) ==
  LET d == IF s.setting \/ (s.loaded /\ s.items = {}) THEN "yes" ELSE "no"
      t == [s EXCEPT !.disabled = d]
  IN IF d # s.disabled /\ s.status = "idle" THEN Reset(t, FALSE) ELSE t
-----------------------------------------------------------------------------
\* The tasks of a timed login from the one that shows the indicator: it is put out first.
ShowIndicator(s, b, time) ==
  LET others == SelectSeq(s.batches, LAMBDA x : ~(x.phase = "shown" /\ x.own = b.own))
  IN [s EXCEPT !.batches = Append(others, [b EXCEPT !.phase = "shown", !.left = time])]

\* With the item there: a login with some delay waits for a user who does nothing.
WithItem(s, b) ==
  LET put == [s EXCEPT !.batches = SelectSeq(@, LAMBDA x : ~(x.phase = "shown" /\ x.own))]
  IN IF Delay > Threshold
     THEN [put EXCEPT !.batches = Append(@, [b EXCEPT !.phase = "idle", !.left = Threshold, !.own = TRUE])]
     ELSE ShowIndicator(put, [b EXCEPT !.own = TRUE], Delay)

\* Mutant of Cancelled: the tasks of the old batch go on.
CancelledOnly(s) == SelectSeq(s.batches, LAMBDA x : x.phase # "idle")

\* cancel() of the batches there are, with the timer of those that wait for idleness; what
\* others wait for goes on, and then nothing comes after.
Cancelled(s) == LET left == SelectSeq(s.batches, LAMBDA x : x.phase # "idle")
                IN [i \in DOMAIN left |-> [left[i] EXCEPT !.cut = TRUE]]

\* _startTimedLogin()
StartTimed(s) ==
  LET b == [phase |-> "item", cut |-> FALSE, left |-> 0, own |-> FALSE]
      t == [s EXCEPT !.batches = Cancelled(s), !.timed = TRUE]
  IN IF Timed \in s.items THEN WithItem(t, b) ELSE [t EXCEPT !.batches = Append(@, b)]

\* 'item-added' releases what waits for the item: a batch that was cut ends.
ItemAdded(s) ==
  LET waits == SelectSeq(s.batches, LAMBDA b : b.phase = "item" /\ ~b.cut)
      rest == [s EXCEPT !.batches = SelectSeq(@, LAMBDA b : b.phase # "item")]
  IN IF waits = <<>> THEN rest ELSE WithItem(rest, waits[1])

\* addUser(), removeUser()
AddUser(s, u) ==
  IF u \in s.locked \cup s.items THEN s
  ELSE LET t == [s EXCEPT !.items = @ \cup {u}] IN IF u = Timed THEN ItemAdded(t) ELSE t
RemoveUser(s, u) ==
  LET t == [s EXCEPT !.items = @ \ {u}]
  IN IF u # Timed THEN t
     ELSE [t EXCEPT !.batches = [i \in DOMAIN @ |-> [@[i] EXCEPT !.own = FALSE]]]

\* _loadUserList()
LoadList(s) ==
  IF s.loaded THEN s
  ELSE UpdateDisabled(FoldLeft(AddUser, [s EXCEPT !.loaded = TRUE], SetToSeq(s.users)))
-----------------------------------------------------------------------------
StartupComplete == gr.disabled = "unset" /\ gr' = UpdateDisabled(gr)
SettingChanged == gr.disabled # "unset" /\ gr' = UpdateDisabled([gr EXCEPT !.setting = ~@])

\* notify::is-loaded, the idle of _ensureUserListLoaded()
ManagerLoaded == /\ ~gr.ready
                 /\ LET s == [gr EXCEPT !.ready = TRUE, !.awaits = FALSE]
                    IN gr' = IF gr.awaits THEN LoadList(s) ELSE s
LoadIdle == gr.idle /\ gr' = LoadList([gr EXCEPT !.idle = FALSE])

UserAdded(u) == /\ gr.ready /\ u \notin gr.users
                /\ LET s == [gr EXCEPT !.users = @ \cup {u}]
                   IN gr' = IF s.loaded THEN UpdateDisabled(AddUser(s, u)) ELSE s
UserRemoved(u) == /\ gr.ready /\ u \in gr.users
                  /\ LET s == [gr EXCEPT !.users = @ \ {u}, !.locked = @ \ {u}]
                     IN gr' = IF s.loaded THEN UpdateDisabled(RemoveUser(s, u)) ELSE s

\* 'user-changed', of an account that is locked or unlocked
UserChanged(u) ==
  /\ gr.ready /\ u \in gr.users
  /\ LET lock == u \notin gr.locked
         s == [gr EXCEPT !.locked = IF lock THEN @ \cup {u} ELSE @ \ {u}]
     IN gr' = IF ~s.loaded THEN s ELSE UpdateDisabled(IF lock THEN RemoveUser(s, u) ELSE AddUser(s, u))

\* "Not listed?", an item of the list, the name entered
NotListed == gr.list /\ gr' = Ask(gr)
PickUser(u) == gr.list /\ u \in gr.items /\ gr' = Begin([CancelButton([gr EXCEPT !.user = u]) EXCEPT !.list = FALSE])
NameEntered(u) == gr.next /\ gr' = CancelButton(Begin([gr EXCEPT !.next = FALSE, !.user = u]))

\* cancel(): Escape or the button, not once the verification has succeeded
Escape(card) == gr.prompt /\ gr.status # "succeeded" /\ gr' = Reset(gr, card)

\* Of the conversation with GDM: a question or message, and how it ends.
Prompted(loggedIn, message) ==
  /\ gr.status \in {"verifying", "failed"}
  /\ gr' = MenuSensitive([gr EXCEPT !.prompt = TRUE, !.messages = @ \/ message], ~loggedIn)
VerificationFailed == gr.status = "verifying" /\ gr' = [gr EXCEPT !.status = "failed"]
VerificationComplete == gr.status \in {"verifying", "failed"} /\ gr' = [gr EXCEPT !.status = "succeeded"]
VerifierReset(card) == gr.status \in {"verifying", "failed", "succeeded"} /\ gr' = Reset(gr, card)

\* The menu of sessions
ToggleMenu == gr.prompt /\ gr.sensitive /\ gr' = [gr EXCEPT !.menu = IF @ = "open" THEN "closed" ELSE "open"]
SelectSession == gr.menu = "open" /\ gr' = [gr EXCEPT !.menu = "closed"]
-----------------------------------------------------------------------------
\* Mutant of SessionOpened: it takes the messages that are there to be the last.
SessionOpenedForgets ==
  /\ gr.status = "succeeded" /\ ~gr.opened
  /\ gr' = IF gr.messages THEN [gr EXCEPT !.opened = TRUE, !.messages = FALSE]
           ELSE StartSession([gr EXCEPT !.opened = TRUE])

\* 'session-opened': the messages are read before.
SessionOpened ==
  /\ gr.status = "succeeded" /\ ~gr.opened
  /\ LET s == [gr EXCEPT !.opened = TRUE]
     IN gr' = IF s.messages THEN [s EXCEPT !.finishing = TRUE] ELSE StartSession(s)

\* 'no-more-messages'
MessagesRead == /\ gr.messages
                /\ gr' = IF gr.finishing THEN StartSession(gr) ELSE [gr EXCEPT !.messages = FALSE]

\* _loginScreenSessionActivated(): whichever property of the active session changes. At full
\* opacity there is nothing to ease.
Activated ==
  /\ gr.opacity # "full" \/ gr.status # "idle"
  /\ gr' = IF gr.opacity = "full" /\ gr.fade = "" THEN Reset(gr, FALSE) ELSE Fade(gr, "in")

\* The ease of the opacity ends; only the bindings made last are undone.
Faded ==
  /\ gr.fade # ""
  /\ LET s == [gr EXCEPT !.fade = "", !.bound = IF gr.fade = "open" THEN @ ELSE @ - 1,
                         !.opacity = IF gr.fade = "out" THEN "none" ELSE "full"]
     IN gr' = CASE gr.fade = "out" -> [s EXCEPT !.opened = FALSE]
                [] gr.fade = "in" /\ s.status # "idle" -> Reset(s, FALSE)
                [] OTHER -> s
-----------------------------------------------------------------------------
\* 'timed-login-requested'
TimedLoginRequested == ~gr.timed /\ gr' = StartTimed([gr EXCEPT !.watching = TRUE])

\* A key or a button is pressed.
Pressed == /\ gr.watching /\ Len(gr.batches) < MaxBatches
           /\ gr' = StartTimed([gr EXCEPT !.quiet = 0])

Timers == {i \in DOMAIN gr.batches : gr.batches[i].phase \in {"idle", "shown"}}

\* Time passes when no timer is due.
Tick == /\ \A i \in Timers : gr.batches[i].left > 0
        /\ gr' = [gr EXCEPT !.quiet = IF @ < Delay THEN @ + 1 ELSE @,
                            !.batches = [i \in DOMAIN @ |-> IF i \in Timers THEN [@[i] EXCEPT !.left = @ - 1] ELSE @[i]]]

\* The user has done nothing: who was at the prompt is sent back to the list.
IdleTimeout(i) ==
  /\ i \in Timers /\ gr.batches[i].phase = "idle" /\ gr.batches[i].left = 0
  /\ LET s == [gr EXCEPT !.batches = RemoveAt(@, i)]
         t == IF s.prompt /\ s.status # "succeeded" THEN Reset(s, FALSE) ELSE s
     IN gr' = ShowIndicator(t, gr.batches[i], Delay - Threshold)

\* The indicator has filled: call_begin_auto_login_sync(), unless the batch was cut.
IndicatorFull(i) ==
  /\ i \in Timers /\ gr.batches[i].phase = "shown" /\ gr.batches[i].left = 0
  /\ LET s == [gr EXCEPT !.batches = RemoveAt(@, i)]
     IN gr' = IF gr.batches[i].cut THEN s ELSE [s EXCEPT !.timed = FALSE, !.auto = s.quiet]

Next ==
  \/ StartupComplete \/ SettingChanged \/ ManagerLoaded \/ LoadIdle \/ NotListed
  \/ VerificationFailed \/ VerificationComplete \/ ToggleMenu \/ SelectSession \/ SessionOpened
  \/ MessagesRead \/ Activated \/ Faded \/ TimedLoginRequested \/ Pressed \/ Tick
  \/ \E u \in Users :
       \/ UserAdded(u) \/ UserRemoved(u) \/ UserChanged(u) \/ PickUser(u) \/ NameEntered(u)
  \/ \E b \in BOOLEAN : Escape(b) \/ VerifierReset(b)
  \/ \E b \in BOOLEAN, m \in BOOLEAN : Prompted(b, m)
  \/ \E i \in 1..MaxBatches : IdleTimeout(i) \/ IndicatorFull(i)

Spec == Init /\ [][Next]_grVars
-----------------------------------------------------------------------------
TypeOK == gr \in State

\* The list and the prompt take turns: the list is shown only to choose from, when there is
\* somebody in it and it is not disabled; nobody is left with neither; and what has begun can
\* be cancelled with the button, unless a smartcard began it.
ListOrPrompt ==
  /\ gr.list => gr.status = "idle" /\ gr.disabled # "yes" /\ ~gr.prompt /\ ~gr.next /\ gr.menu = "closed"
  /\ gr.next => gr.prompt /\ gr.status = "idle"
  /\ gr.status = "idle" /\ gr.disabled # "unset" => gr.list \/ (gr.prompt /\ gr.next)
  /\ gr.loaded /\ gr.disabled # "unset" => /\ gr.items = gr.users \ gr.locked
                                           /\ gr.disabled = "yes" <=> (gr.setting \/ gr.items = {})
  /\ gr.status \in {"verifying", "failed"} => gr.cancel \/ gr.card

\* A session that was opened is going to be started or has been, unless the screen came back
\* while it faded out; and the screen is dark for no other reason.
OpenedIsStarted ==
  /\ gr.opened => gr.finishing \/ gr.fade = "out" \/ gr.lost
  /\ gr.finishing => gr.messages
  /\ gr.fade = "" /\ ~gr.lost => gr.bound = 0
  /\ gr.fade \in {"in", "out"} => gr.bound > 0

\* A login begins by itself only when no key was pressed for as long as was asked for; and
\* once asked for it is waiting for its time, or for its user to be listed.
AutoLoginWaits ==
  /\ gr.auto # NoTime => gr.auto >= Delay
  /\ gr.timed => \E i \in DOMAIN gr.batches : /\ ~gr.batches[i].cut
                                              /\ gr.batches[i].phase = "item" => Timed \notin gr.items
=============================================================================
