-------------------------- MODULE OnScreenKeyboard --------------------------
(***************************************************************************)
(* When the on-screen keyboard (keyboard.js) is up, with the box of        *)
(* layout.js that carries it, and the window it pushes out of the way. To  *)
(* open and to close wait for a rest time; a window is moved by a slide    *)
(* whose end moves its frame.                                              *)
(***************************************************************************)
EXTENDS Integers, FiniteSets

CONSTANT Windows

NoWindow == "none"

VARIABLE osk   \* the keyboard, its box and the windows

oskVars == <<osk>>

Timers == {"none", "open", "close"}
Offset == -1..1   \* of a frame, in heights of the keyboard; bounds slides overtaken

State == [on : BOOLEAN,                        \* there is a keyboard
          requested : BOOLEAN, visible : BOOLEAN,   \* _keyboardRequested, _keyboardVisible
          rest : Timers, idle : BOOLEAN,       \* _keyboardRestingId, _showIdleId
          left : Timers,                       \* the rest timer of a keyboard destroyed
          box : {"down", "rising", "up", "sinking"},
          raised : Windows \cup {NoWindow},    \* _animFocusedWindow
          delayed : Windows \cup {NoWindow},   \* _delayedAnimFocusWindow
          gone : SUBSET Windows,
          at : [Windows -> Offset], slide : [Windows -> {-1, 0, 1}],
          broken : BOOLEAN, stray : BOOLEAN]   \* history: a slide was overtaken; left acted

Init == osk = [on |-> FALSE, requested |-> FALSE, visible |-> FALSE, rest |-> "none",
               idle |-> FALSE, left |-> "none", box |-> "down", raised |-> NoWindow,
               delayed |-> NoWindow, gone |-> {}, at |-> [w \in Windows |-> 0],
               slide |-> [w \in Windows |-> 0], broken |-> FALSE, stray |-> FALSE]
-----------------------------------------------------------------------------
\* _animateWindow(): a slide overtakes the one that is running, whose end is never run.
AnimateWindow(u, w, d) ==
  IF w = NoWindow \/ w \in u.gone THEN u
  ELSE [u EXCEPT !.slide[w] = d, !.broken = @ \/ u.slide[w] # 0]

\* Mutant of SetAnimationWindow: the window raised before stays where it is.
RaiseOnly(u, w) == [AnimateWindow(u, w, -1) EXCEPT !.raised = w]

\* _setAnimationWindow()
SetAnimationWindow(u, w) ==
  IF u.raised = w THEN u
  ELSE [AnimateWindow(AnimateWindow(u, u.raised, 1), w, -1) EXCEPT !.raised = w]

\* setCursorLocation(): place says where the cursor is with respect to the keyboard.
SetCursorLocation(u, w, place) ==
  CASE w = NoWindow -> SetAnimationWindow(u, NoWindow)
    [] w # NoWindow /\ place = "below" ->
         IF u.visible THEN SetAnimationWindow(u, w) ELSE [u EXCEPT !.delayed = w]
    [] w # NoWindow /\ place = "top" ->
         SetAnimationWindow([u EXCEPT !.delayed = NoWindow], NoWindow)
    [] OTHER -> u

\* showKeyboard() and hideKeyboard(): 'keyboard-visible-changed' reaches the keyboard there is.
ShowKeyboard(u) == [u EXCEPT !.box = "rising", !.visible = u.on]
HideKeyboard(u) ==
  [u EXCEPT !.box = IF @ = "down" THEN "down" ELSE "sinking", !.visible = FALSE]

\* open(), close(): a keyboard that is where it should be waits for nothing new.
Open(u) == LET v == [u EXCEPT !.idle = FALSE, !.requested = TRUE]
           IN IF u.visible THEN v ELSE [v EXCEPT !.rest = "open"]
Close(u) == LET v == [u EXCEPT !.idle = FALSE, !.requested = FALSE]
            IN IF u.visible THEN [v EXCEPT !.rest = "close"] ELSE v

\* _open(): the window that was to be raised is raised now.
OpenNow(u) ==
  IF ~u.requested THEN u
  ELSE LET v == ShowKeyboard(u)
       IN IF u.delayed = NoWindow THEN v
          ELSE [SetAnimationWindow(v, u.delayed) EXCEPT !.delayed = NoWindow]

\* _close()
CloseNow(u) == IF u.requested THEN u ELSE SetAnimationWindow(HideKeyboard(u), NoWindow)

\* _syncEnabled(): a keyboard is made, or hidden at once and destroyed. Destroying it does
\* not remove its rest timer.
Enable == /\ ~osk.on
          /\ osk' = [osk EXCEPT !.on = TRUE, !.requested = FALSE, !.visible = FALSE]
Disable == /\ osk.on /\ osk.left = "none"
           /\ osk' = [SetAnimationWindow(osk, NoWindow) EXCEPT
                        !.box = "down", !.visible = FALSE, !.on = FALSE, !.idle = FALSE,
                        !.rest = "none", !.requested = FALSE, !.delayed = NoWindow,
                        !.raised = NoWindow,
                        !.left = IF (osk.rest = "open") = osk.requested THEN osk.rest ELSE "none"]

\* The rest timer of the keyboard that is no more.
LeftTimeout == /\ osk.left # "none"
               /\ LET u == [osk EXCEPT !.left = "none", !.stray = TRUE]
                  IN osk' = IF osk.left = "open" THEN ShowKeyboard(u) ELSE HideKeyboard(u)

\* _onKeyFocusChanged()
TextFocused  == osk.on /\ ~osk.idle /\ osk' = [osk EXCEPT !.idle = TRUE]
OtherFocused == osk.on /\ osk' = Close(osk)
ShowIdle     == osk.on /\ osk.idle /\ osk' = Open(osk)

\* _onKeyboardStateChanged(): what an application's input method asks for.
PanelState(s) == /\ osk.on
                 /\ osk' = IF s = "on" \/ (s = "toggle" /\ ~osk.visible) THEN Open(osk)
                           ELSE Close(osk)

RestTimeout == /\ osk.rest # "none"
               /\ LET u == [osk EXCEPT !.rest = "none"]
                  IN osk' = IF osk.rest = "open" THEN OpenNow(u) ELSE CloseNow(u)

\* _showKeyboardComplete(), _hideKeyboardComplete()
BoxEased == /\ osk.box \in {"rising", "sinking"}
            /\ osk' = [osk EXCEPT !.box = IF @ = "rising" THEN "up" ELSE "down"]

\* _onFocusPositionChanged()
CursorAt(w, place) == /\ osk.on /\ w \notin osk.gone
                      /\ osk' = SetCursorLocation(osk, w, place)

\* _windowSlideAnimationComplete()
SlideEnded(w) == /\ osk.slide[w] # 0 /\ osk.at[w] + osk.slide[w] \in Offset
                 /\ osk' = [osk EXCEPT !.at[w] = @ + osk.slide[w], !.slide[w] = 0]

\* 'reset': the user moves the window, its place is the user's from now on.
MoveGrabbed(w) ==
  /\ osk.on /\ w \notin osk.gone
  /\ osk' = [osk EXCEPT !.raised = NoWindow, !.delayed = NoWindow, !.at[w] = 0,
                        !.broken = @ \/ osk.slide[w] # 0 \/ osk.raised \notin {w, NoWindow}]

WindowGone(w) == w \notin osk.gone /\ osk' = [osk EXCEPT !.gone = @ \cup {w}, !.slide[w] = 0]

Next == \/ Enable \/ Disable \/ LeftTimeout \/ TextFocused \/ OtherFocused \/ ShowIdle
        \/ RestTimeout \/ BoxEased
        \/ \E s \in {"on", "off", "toggle"} : PanelState(s)
        \/ \E w \in Windows : SlideEnded(w) \/ MoveGrabbed(w) \/ WindowGone(w)
        \/ \E w \in Windows \cup {NoWindow}, p \in {"below", "between", "top"} : CursorAt(w, p)

Spec == Init /\ [][Next]_oskVars
-----------------------------------------------------------------------------
TypeOK == osk \in State

\* Once nothing is waited for, the keyboard is up if and only if that was asked for last,
\* and its box with it, whatever was asked while it rested.
SettlesAsAsked == osk.on /\ ~osk.stray =>
  /\ (osk.rest = "none" => osk.visible = osk.requested)
  /\ osk.visible <=> osk.box \in {"rising", "up"}

\* A window is given its place back: it is, or its slide ends, one keyboard above it while
\* it is the raised one and at its own place otherwise, as long as no slide is overtaken.
WindowGivenBack == ~osk.broken => \A w \in Windows \ osk.gone :
  osk.at[w] + osk.slide[w] = IF osk.raised = w THEN -1 ELSE 0
-----------------------------------------------------------------------------
(***************************************************************************)
(* The keys: taps, long presses and their extended keys, the layers with   *)
(* the latched shift, and the pages that are made anew when the sources or *)
(* the emoji key change, one finger at a time, whether the keyboard is     *)
(* shown or not.                                                           *)
(***************************************************************************)
CONSTANTS Groups    \* the layouts of the input sources

VARIABLE keys   \* the pages, the layer's state and the finger

keysVars == <<keys>>

Pages == Groups \X (0..2)              \* lower case, upper case, symbols
\* A character with extended keys, one without, those that switch to a layer, Backspace.
Kinds(layer) == {"plain", "back", "emoji"}
                \cup (IF layer < 2 THEN {"char", "to2"} ELSE {"to0"})
                \cup (CASE layer = 0 -> {"to1"} [] layer = 1 -> {"to0"} [] OTHER -> {})
Keys == UNION {{<<p, k>> : k \in Kinds(p[2])} : p \in Pages}
NoKey == <<>>
SwitchTo(k) == CASE k = "to0" -> 0 [] k = "to1" -> 1 [] OTHER -> 2
Switches == {"to0", "to1", "to2"}

Held == [key : Keys \cup {NoKey}, emitted : 0..2, stale : BOOLEAN]
KeysState ==
  [group : Groups, made : SUBSET Groups,    \* _groups
   page : Pages, visible : SUBSET Pages, latched : BOOLEAN,
   emoji : BOOLEAN, keypad : BOOLEAN,
   held : Held, timer : BOOLEAN,            \* the finger; _pressTimeoutId
   long : SUBSET Keys,                      \* _longPress
   sub : Keys \cup {NoKey},                 \* the subkeys that are open
   keyvals : 0..2,                          \* pressed on the virtual device
   stuck : BOOLEAN,                         \* one is, by a key that was destroyed
   dismissed : SUBSET Keys, lost : BOOLEAN] \* history

NotHeld == [key |-> NoKey, emitted |-> 0, stale |-> FALSE]

KeysInit == \E g \in Groups :
  keys = [group |-> g, made |-> {g}, page |-> <<g, 0>>, visible |-> {<<g, 0>>},
         latched |-> FALSE, emoji |-> FALSE, keypad |-> FALSE, held |-> NotHeld,
         timer |-> FALSE, long |-> {}, sub |-> NoKey, keyvals |-> 0, lost |-> FALSE,
         stuck |-> FALSE, dismissed |-> {}]
-----------------------------------------------------------------------------
\* _updateCurrentPageVisible()
PageVisible(u) == [u EXCEPT !.visible = IF u.emoji \/ u.keypad THEN @ \ {u.page}
                                        ELSE @ \cup {u.page}]

\* The subkeys go when their key is no longer mapped.
HideSubkeys(u) == [u EXCEPT !.sub = NoKey, !.dismissed = @ \cup {u.sub}]
Unmapped(u) == IF u.sub = NoKey \/ u.sub[1] \in u.visible THEN u ELSE HideSubkeys(u)

\* Mutant of ActiveLayer: the page that was current stays.
ActiveLayerOver(u, layer) == Unmapped(PageVisible([u EXCEPT !.page = <<u.group, layer>>]))

\* _setActiveLayer()
ActiveLayer(u, layer) ==
  Unmapped(PageVisible([u EXCEPT !.page = <<u.group, layer>>,
                                 !.visible = IF u.page = <<u.group, layer>> THEN @
                                             ELSE @ \ {u.page}]))

\* The 'pressed' of a key
Pressed(u, kind) ==
  LET v == [u EXCEPT !.held.emitted = @ + 1]
  IN CASE kind \in Switches -> [ActiveLayer(v, SwitchTo(kind)) EXCEPT !.latched = kind # "to1"]
       [] kind \in {"back", "plain"} -> [v EXCEPT !.keyvals = @ + 1]
       [] OTHER -> v

\* The 'released' of a key: a character returns to the first layer.
Released(u, kind) ==
  LET v == [u EXCEPT !.keyvals = IF kind \in {"back", "plain"} THEN @ - 1 ELSE @]
  IN CASE kind \in {"char", "plain"} -> IF v.latched THEN v ELSE ActiveLayer(v, 0)
       [] kind = "emoji" -> Unmapped(PageVisible([v EXCEPT !.emoji = ~@]))
       [] OTHER -> v

\* _press(): a key with extended keys waits for the release.
Press(k) ==
  /\ keys.held = NotHeld /\ keys.sub = NoKey /\ k[1] = keys.page /\ keys.page \in keys.visible
  /\ LET u == [keys EXCEPT !.held = [key |-> k, emitted |-> 0, stale |-> k \in keys.dismissed],
                          !.timer = TRUE]
     IN keys' = IF k[2] = "char" THEN u ELSE Pressed(u, k[2])

\* The timeout of a press: shift latches, and extended keys open under the finger, whose
\* release then ends nothing.
LongPress ==
  /\ keys.timer
  /\ LET k == keys.held.key
         u == [keys EXCEPT !.timer = FALSE, !.long = @ \cup {k}]
     IN keys' = CASE k[2] = "to1" -> [u EXCEPT !.latched = TRUE]
                 [] k[2] = "char" -> Unmapped([u EXCEPT !.held = NotHeld, !.sub = k])
                 [] OTHER -> u

\* _release()
Release ==
  /\ keys.held # NotHeld
  /\ LET k == keys.held.key
         u == [keys EXCEPT !.timer = FALSE]
         p == IF k \notin u.long /\ k[2] = "char" THEN Pressed(u, k[2]) ELSE u
     IN keys' = [Released(p, k[2]) EXCEPT
                  !.held = NotHeld, !.long = @ \ {k}, !.dismissed = @ \ {k},
                  !.lost = @ \/ (p.held.emitted # 1 /\ ~p.held.stale)]

\* An extended key is tapped: _press() and _release() with it.
Subkey == /\ keys.sub # NoKey
          /\ keys' = [Released(keys, "char") EXCEPT !.sub = NoKey, !.long = @ \ {keys.sub}]

\* _onCapturedEvent(): a press and a release elsewhere close the subkeys; _longPress stays.
Dismiss == keys.sub # NoKey /\ keys' = HideSubkeys(keys)

\* _onGroupChanged()
GroupChanged(g) ==
  /\ g # keys.group
  /\ keys' = ActiveLayer([keys EXCEPT !.group = g, !.made = @ \cup {g}], 0)

\* _onKeyboardGroupsChanged(), by the sources or the emoji key: every page is destroyed,
\* the key under the finger with it, and no release follows.
GroupsChanged ==
  LET u == [keys EXCEPT !.made = {keys.group}, !.visible = {}, !.held = NotHeld,
                       !.timer = FALSE, !.long = {}, !.dismissed = {}, !.sub = NoKey,
                       !.stuck = @ \/ keys.keyvals > 0, !.keyvals = 0]
  IN keys' = ActiveLayer(u, 0)

\* _onKeypadVisible()
KeypadVisible == keys' = Unmapped(PageVisible([keys EXCEPT !.keypad = ~@]))

\* _toggleEmoji() from the selection of emojis
ToggleEmoji == keys.emoji /\ keys' = PageVisible([keys EXCEPT !.emoji = FALSE])

KeysNext ==
  \/ \E k \in Keys : Press(k)
  \/ \E g \in Groups : GroupChanged(g)
  \/ LongPress \/ Release \/ Subkey \/ Dismiss \/ GroupsChanged \/ KeypadVisible
  \/ ToggleEmoji

KeysSpec == KeysInit /\ [][KeysNext]_keysVars
-----------------------------------------------------------------------------
KeysTypeOK == keys \in KeysState

\* The page of the current layout and layer is the only one that may be seen, and is unless
\* emojis or the keypad take its place; the symbols stay only as long as they are latched.
OnePage == /\ keys.page[1] = keys.group /\ keys.group \in keys.made
           /\ keys.visible = IF keys.emoji \/ keys.keypad THEN {} ELSE {keys.page}
           /\ keys.page[2] = 2 => keys.latched

\* A tap or a long press types once, except the first one after the extended keys of that
\* key were dismissed; what is pressed on the virtual device is released with the finger.
TapTypesOnce == /\ ~keys.lost
                /\ keys.keyvals > 0 =>
                     keys.held.key # NoKey /\ keys.held.key[2] \in {"back", "plain"}
=============================================================================
