---------------------------- MODULE WindowManager ----------------------------
(***************************************************************************)
(* What the shell does for mutter's windows, in three parts that share no  *)
(* state, each with a specification of its own.                            *)
(*                                                                         *)
(* The effects of one window in windowManager.js: mutter starts them and   *)
(* waits for each to be reported complete, the shell keeps lists of those  *)
(* that run and completes them when a transition of the actor stops. A     *)
(* transition stops when it ends, when another effect takes its property   *)
(* over, or when an effect that is done removes all of them. mutter is     *)
(* external: it may start an effect while others run, and may or may not   *)
(* kill those first.                                                       *)
(*                                                                         *)
(* The animation of a switch of workspaces: for as long as it lasts the    *)
(* window actors live in groups of its own, one record per window saying   *)
(* where it came from. A gesture prepares it, drags it and cancels it or   *)
(* hands it over to mutter's switch; a switch from the keyboard kills the  *)
(* one before.                                                             *)
(*                                                                         *)
(* The dialog over a window that does not respond (closeDialog.js), on     *)
(* X11: its buttons work only while the dialog is in the input region, and *)
(* they are told so when the focus changes. One CloseDialog serves every   *)
(* time its window hangs.                                                  *)
(***************************************************************************)
EXTENDS Integers, FiniteSetsExt

CONSTANTS MaxEffects,             \* bound: effects mutter starts
          Windows, MaxSwitches,   \* MaxSwitches bounds the animations prepared
          MaxShows                \* bound: the times mutter shows the dialog

VARIABLES we,    \* a window's actor and its effects
          ws,    \* the switches and where the window actors are
          cdlg   \* a CloseDialog, its dialog and the one that shrinks away

-----------------------------------------------------------------------------
\* The effects of a window.
weVars == <<we>>

Effects == {"minimize", "unminimize", "map", "destroy", "resize"}

\* An ease is known by its effect and the property whose transition has its callback,
\* the first one it names. Of a monitor-sized window only the opacity is eased.
Heads == (Effects \X {"opacity", "scale_x"}) \cup {<<"destroy", "scale_y">>}
BigMinimize == <<"minimize", "opacity">>

\* What each ease animates.
Eased(h) == CASE h[1] = "resize" -> {"scale_x", "scale_y"}
              [] h[1] = "map" -> {"opacity", "scale_x", "scale_y"}
              [] h = <<"destroy", "opacity">> -> {"opacity", "scale_x", "scale_y"}
              [] h[2] = "scale_x" -> {"scale_x", "scale_y"}
              [] OTHER -> {h[2]}

Counts == [Effects -> 0..MaxEffects]
EffectState == [type    : {"normal", "dialog"},
                started : 0..MaxEffects,
                phase   : {"new", "shown", "minimized", "destroyed", "gone"},  \* mutter's
                listed  : Counts,            \* _minimizing, _unminimizing, ...
                waits   : [Effects -> -1..MaxEffects],  \* mutter: started and not completed
                live    : SUBSET Heads,      \* transitions that run and have a callback
                info    : BOOLEAN,           \* __animationInfo
                lost    : SUBSET Effects]    \* history: nothing is left to end them

None == [e \in Effects |-> 0]

EffectsInit == \E t \in {"normal", "dialog"} :
  we = [type |-> t, started |-> 0, phase |-> "new", listed |-> None, waits |-> None,
               live |-> {}, info |-> FALSE, lost |-> {}]
-----------------------------------------------------------------------------
Completed(u, e) == [u EXCEPT !.waits[e] = @ - 1]

\* An effect leaves its list and is reported, all but a resize, which was when it began.
Drop(u, e) == IF u.listed[e] = 0 THEN u
              ELSE [IF e = "resize" THEN [u EXCEPT !.info = FALSE] ELSE Completed(u, e)
                      EXCEPT !.listed[e] = @ - 1,
                             !.lost = IF u.listed[e] = 1 THEN @ \ {e} ELSE @]

DropAll(u, hs) == FoldSet(LAMBDA h, v : Drop(v, h[1]), u, hs)

\* Transitions that stop before their end call their effects' callbacks, but that of a
\* monitor-sized window's minimization is a method that does not exist: it stays listed.
Interrupted(u, hs) ==
  LET v == DropAll([u EXCEPT !.live = @ \ hs], hs \ {BigMinimize})
  IN IF BigMinimize \in hs /\ v.listed["minimize"] > 0
     THEN [v EXCEPT !.lost = @ \cup {"minimize"}] ELSE v

\* remove_all_transitions(): whatever is done in turn finds none left.
StopAll(u) == Interrupted(u, u.live)

\* _minimizeWindowDone() and its like; _destroyWindowDone() leaves the transitions.
Done(u, e) == IF u.listed[e] = 0 THEN u
              ELSE IF e = "destroy" THEN Drop(u, e) ELSE StopAll(Drop(u, e))

\* Mutant of Ease: transitions that are taken over vanish without a call.
EaseOver(u, h) ==
  [u EXCEPT !.listed[h[1]] = @ + 1,
            !.live = {g \in @ : g[2] \notin Eased(h)} \cup {h}]

\* ease(): the transitions whose properties it takes over stop first; the first of them
\* whose effect is done stops the others.
Ease(u, h) ==
  LET hit  == {g \in u.live : g[2] \in Eased(h)}
      pushed == [u EXCEPT !.listed[h[1]] = @ + 1]
      v == IF \E g \in hit : g # BigMinimize /\ g[1] # "destroy" THEN StopAll(pushed)
           ELSE Interrupted(pushed, hit)
  IN [v EXCEPT !.live = @ \cup {h}]

Start(e) == /\ we.started < MaxEffects
            /\ we.phase # "gone"

Begin(e, p) == [we EXCEPT !.started = @ + 1, !.waits[e] = @ + 1, !.phase = p]

\* An effect that is not animated, because the actor is to be skipped, the overview is
\* visible or the window has no texture or another type, is completed at once; so is
\* one whose duration is nothing.
Effect(e, p, h) ==
  /\ Start(e)
  /\ \/ we' = Completed(Begin(e, p), e)
     \/ we' = Ease(Begin(e, p), h)
     \/ we' = Done([Ease(Begin(e, p), h) EXCEPT !.live = @ \ {h}], e)

\* Without a monitor there is nowhere to ease to: the effect is "done" without saying
\* which actor it was.
Nowhere(e, p) ==
  /\ Start(e)
  /\ we' = [Begin(e, p) EXCEPT !.listed[e] = @ + 1, !.lost = @ \cup {e}]

Map == we.phase = "new" /\ Effect("map", "shown", <<"map", "opacity">>)

Minimize == /\ we.phase = "shown"
            /\ \/ \E p \in {"opacity", "scale_x"} :
                    Effect("minimize", "minimized", <<"minimize", p>>)
               \/ Nowhere("minimize", "minimized")

Unminimize == /\ we.phase = "minimized"
              /\ \/ \E p \in {"opacity", "scale_x"} :
                      Effect("unminimize", "shown", <<"unminimize", p>>)
                 \/ Nowhere("unminimize", "shown")

Destroy == /\ we.phase \in {"shown", "minimized"}
           /\ Effect("destroy", "destroyed",
                     <<"destroy", IF we.type = "normal" THEN "opacity" ELSE "scale_y">>)

\* 'size-change': a clone stands for the window until it has its new size; the change
\* before is completed, although it was already if it is being animated.
SizeChange ==
  /\ we.phase = "shown" /\ Start("resize")
  /\ LET u == Begin("resize", "shown")
     IN \/ we' = Completed(u, "resize")
        \/ /\ we.type = "normal"
           /\ we' = [IF u.info THEN Completed(u, "resize") ELSE u EXCEPT !.info = TRUE]

\* 'size-changed': the actor is eased to its new size and its updates go on at once.
SizeChanged ==
  /\ we.info /\ we.listed["resize"] = 0
  /\ \/ we' = Completed(Ease(we, <<"resize", "scale_x">>), "resize")
     \/ we' = Completed(Done([Ease(we, <<"resize", "scale_x">>)
                                EXCEPT !.live = @ \ {<<"resize", "scale_x">>}], "resize"), "resize")

\* A transition ends.
Ended(h) == h \in we.live /\ we' = Done([we EXCEPT !.live = @ \ {h}], h[1])

\* 'kill-window-effects': all but an unminimization.
KillEffects == we' = Done(Done(Done(Done(we, "minimize"), "map"), "destroy"), "resize")

\* The parent of a dialog that is being destroyed is unmanaged.
ParentUnmanaged == /\ we.type = "dialog" /\ we.listed["destroy"] > 0
                   /\ we' = Done(StopAll(we), "destroy")

\* mutter destroys the actor of a destroyed window when it waits for nothing any more.
Destroyed == /\ we.phase = "destroyed" /\ we.waits = None
             /\ we' = [StopAll(we) EXCEPT !.phase = "gone", !.info = FALSE]

EffectsNext == \/ Map \/ Minimize \/ Unminimize \/ Destroy \/ SizeChange \/ SizeChanged
               \/ \E h \in Heads : Ended(h)
               \/ KillEffects \/ ParentUnmanaged \/ Destroyed

EffectsSpec == EffectsInit /\ [][EffectsNext]_weVars
-----------------------------------------------------------------------------
EffectsTypeOK == we \in EffectState

\* mutter waits for exactly the effects that are listed, however they cut one another
\* short: none is completed twice and none is dropped. It waits for a change of size
\* until the size has changed.
MutterAgrees ==
  /\ \A e \in Effects \ {"resize"} : we.waits[e] = we.listed[e]
  /\ we.waits["resize"] = IF we.info /\ we.listed["resize"] = 0 THEN 1 ELSE 0

\* Every listed effect has a transition that will end it, but a minimization of a
\* monitor-sized window that was interrupted and one that found no monitor.
EffectIsDriven == \A e \in Effects : we.listed[e] > 0 =>
  e \in we.lost \/ \E h \in we.live : h[1] = e
-----------------------------------------------------------------------------
\* The switch of workspaces.
wsVars == <<ws>>

Switches == 1..MaxSwitches
Home == 0            \* global.window_group
Groups == {Home} \cup Switches

SwitchState == [made    : 0..MaxSwitches,
                current : {0} \cup Switches,                 \* _switchData
                state   : [Switches -> {"new", "prepared", "switching", "cancelling", "lost",
                                        "gone"}],
                gesture : SUBSET Switches,                   \* gestureActivated
                records : [Switches -> [Windows -> Groups \cup {-1}]],   \* with the parent
                parent  : [Windows -> Groups],               \* of the actors
                alive   : SUBSET Windows,
                waits   : -1..MaxSwitches + 1,               \* mutter: switches not completed
                overlap : BOOLEAN]    \* history: a switch was prepared during a cancellation

NoRecords == [w \in Windows |-> -1]

SwitchInit ==
  ws = [made |-> 0, current |-> 0, state |-> [s \in Switches |-> "new"], gesture |-> {},
        records |-> [s \in Switches |-> NoRecords], parent |-> [w \in Windows |-> Home],
        alive |-> Windows, waits |-> 0, overlap |-> FALSE]
-----------------------------------------------------------------------------
\* _prepareWorkspaceSwitch(): the windows that are seen during the switch, some of those
\* that are alive, move to its groups.
Prepare(u, seen) ==
  IF u.current # 0 THEN u
  ELSE LET s == u.made + 1
       IN [u EXCEPT !.made = s, !.current = s, !.state[s] = "prepared",
                    !.records[s] = [w \in Windows |-> IF w \in seen THEN u.parent[w] ELSE -1],
                    !.parent = [w \in Windows |-> IF w \in seen THEN s ELSE u.parent[w]],
                    !.overlap = @ \/ \E t \in Switches : u.state[t] = "cancelling"]

CanPrepare(u) == u.current = 0 => u.made < MaxSwitches

\* Mutant of Finish: the windows stay where they are.
FinishForgets(u, s) ==
  [u EXCEPT !.current = 0, !.state[s] = "gone", !.records[s] = NoRecords]

\* _finishWorkspaceSwitch(), of whichever switch: _switchData is reset.
Finish(u, s) ==
  [u EXCEPT !.current = 0, !.state[s] = "gone", !.records[s] = NoRecords,
            !.parent = [w \in Windows |-> IF u.records[s][w] = -1 THEN u.parent[w]
                                          ELSE u.records[s][w]]]

\* _switchWorkspaceDone()
SwitchDone(u) == [Finish(u, u.current) EXCEPT !.waits = @ - 1]

\* 'kill-switch-workspace': a gesture that became a switch is not killed, as it is about
\* to be handed over.
Kill(u) == IF u.current = 0 THEN u
           ELSE IF u.state[u.current] = "switching" THEN SwitchDone(u)
           ELSE IF u.current \notin u.gesture THEN Finish(u, u.current) ELSE u

\* mutter: a switch begins. With the overview visible, or in a session mode without
\* workspaces, it is not animated; what a gesture prepared is then left.
Switch(u, seen) ==
  [Prepare([u EXCEPT !.waits = @ + 1], seen) EXCEPT
     !.state = [s \in Switches |-> IF s = (IF u.current = 0 THEN u.made + 1 ELSE u.current)
                                   THEN "switching" ELSE @[s]]]

\* A gesture moves: the switch is prepared by the first motion.
Motion(seen) == /\ CanPrepare(ws) /\ seen \subseteq ws.alive
                /\ ws' = Prepare(ws, seen)

\* _switchWorkspaceCancel(): it glides back, on its own from here on.
CancelGesture ==
  /\ ws.current # 0 /\ ws.state[ws.current] # "switching"
  /\ ws' = [ws EXCEPT !.current = 0, !.state[ws.current] = "cancelling"]

\* _actionSwitchWorkspace() towards another workspace: mutter kills what runs, then
\* switches. Without a motion before it there is nothing to activate.
Activated(animated, seen) ==
  /\ ws.current # 0 /\ CanPrepare(ws) /\ seen \subseteq ws.alive
  /\ LET u == Kill([ws EXCEPT !.gesture = @ \cup {ws.current}])
     IN CanPrepare(u) /\ ws' = IF animated THEN Switch(u, seen) ELSE u

\* A switch from anywhere else.
SwitchWorkspace(animated, seen) ==
  /\ seen \subseteq ws.alive
  /\ LET u == Kill(ws)
     IN CanPrepare(u) /\ ws' = IF animated THEN Switch(u, seen) ELSE u

KillSwitch == ws' = Kill(ws)

\* The animation of a switch ends, and finishes whichever switch is the current one; one
\* that the end of a cancellation has made nobody's finishes nothing.
Switched(s) ==
  /\ ws.state[s] = "switching"
  /\ LET u == IF s = ws.current THEN ws ELSE [ws EXCEPT !.state[s] = "lost"]
     IN ws' = IF u.current = 0 THEN u ELSE SwitchDone(u)

\* The animation of a cancellation ends.
Cancelled(s) == ws.state[s] = "cancelling" /\ ws' = Finish(ws, s)

WindowDestroyed(w) ==
  /\ w \in ws.alive
  /\ ws' = [ws EXCEPT !.alive = @ \ {w}, !.parent[w] = Home,
                      !.records = [s \in Switches |-> [@[s] EXCEPT ![w] = -1]]]

SwitchNext == \/ \E seen \in SUBSET Windows :
                   \/ Motion(seen)
                   \/ \E animated \in BOOLEAN :
                        Activated(animated, seen) \/ SwitchWorkspace(animated, seen)
              \/ CancelGesture \/ KillSwitch
              \/ \E s \in Switches : Switched(s) \/ Cancelled(s)
              \/ \E w \in Windows : WindowDestroyed(w)

SwitchSpec == SwitchInit /\ [][SwitchNext]_wsVars
-----------------------------------------------------------------------------
SwitchTypeOK == ws \in SwitchState

\* mutter waits for a switch exactly while one is being animated, unless a switch was
\* prepared while another was still gliding back: the end of the cancellation then
\* resets _switchData, and nothing completes the switch.
SwitchCompletes == ~ws.overlap =>
  ws.waits = IF ws.current # 0 /\ ws.state[ws.current] = "switching" THEN 1 ELSE 0

\* A window that is away from its group is in one that still exists and remembers where
\* it belongs, so that it comes back; unless a switch was prepared during a
\* cancellation, which records a group about to be destroyed as the parent.
NoWindowLost == ~ws.overlap =>
  \A w \in ws.alive : ws.parent[w] # Home =>
    LET s == ws.parent[w]
    IN ws.state[s] # "gone" /\ ws.records[s][w] = Home
       /\ (s = ws.current \/ ws.state[s] = "cancelling")
-----------------------------------------------------------------------------
\* The dialog over a window that does not respond.
cdlgVars == <<cdlg>>

Focus == {"window", "dialog", "elsewhere"}   \* "dialog": no window, the key focus inside
Dialog == [there : BOOLEAN, tracked : BOOLEAN, reactive : BOOLEAN]
NoDialog == [there |-> FALSE, tracked |-> FALSE, reactive |-> FALSE]
NewDialog == [there |-> TRUE, tracked |-> FALSE, reactive |-> TRUE]

DialogState == [dialog : Dialog, old : SUBSET Dialog,   \* _dialog; those easing out
                growing : BOOLEAN,                      \* the ease at whose end the focus is read
                tracked : {"undefined", "yes", "no"},   \* _tracked
                focus : Focus, connected : BOOLEAN,     \* the two focus handlers
                unredirect : Int,                       \* calls of disable_unredirect outstanding
                shows : 0..MaxShows]

DialogInit == cdlg = [dialog |-> NoDialog, old |-> {}, growing |-> FALSE, tracked |-> "undefined",
                      focus |-> "window", connected |-> FALSE, unredirect |-> 0, shows |-> 0]
-----------------------------------------------------------------------------
\* _onFocusChanged()
FocusChanged(u) ==
  LET yes == u.focus \in {"window", "dialog"}
      now == IF yes THEN "yes" ELSE "no"
  IN IF now = u.tracked THEN u
     ELSE [u EXCEPT !.dialog.tracked = yes, !.dialog.reactive = yes, !.tracked = now]

\* vfunc_show() with _initDialog()
Show == /\ ~cdlg.dialog.there /\ cdlg.shows < MaxShows
        /\ cdlg' = [cdlg EXCEPT !.dialog = NewDialog, !.growing = TRUE, !.connected = TRUE,
                                !.unredirect = @ + 1, !.shows = @ + 1]

Grown == cdlg.growing /\ cdlg' = FocusChanged([cdlg EXCEPT !.growing = FALSE])

\* Mutant of Hide: the handlers stay.
HideConnected == /\ cdlg.dialog.there
                 /\ cdlg' = [cdlg EXCEPT !.old = @ \cup {cdlg.dialog}, !.dialog = NoDialog,
                                         !.growing = FALSE, !.unredirect = @ - 1]

\* vfunc_hide(): the ease out replaces the one in; _tracked stays as it is.
Hide == /\ cdlg.dialog.there
        /\ cdlg' = [cdlg EXCEPT !.old = @ \cup {cdlg.dialog}, !.dialog = NoDialog,
                                !.growing = FALSE, !.connected = FALSE, !.unredirect = @ - 1]

Gone(d) == d \in cdlg.old /\ cdlg' = [cdlg EXCEPT !.old = @ \ {d}]

\* The focus window or the key focus changes; vfunc_focus() among others.
FocusMoves(f) ==
  /\ f # cdlg.focus /\ (f = "dialog" => cdlg.dialog.there)
  /\ LET u == [cdlg EXCEPT !.focus = f] IN cdlg' = IF u.connected THEN FocusChanged(u) ELSE u

DialogNext == \/ Show \/ Grown \/ Hide
              \/ \E d \in Dialog : Gone(d)
              \/ \E f \in Focus : FocusMoves(f)

DialogSpec == DialogInit /\ [][DialogNext]_cdlgVars
-----------------------------------------------------------------------------
DialogTypeOK == cdlg \in DialogState

\* The first dialog's buttons take part exactly when they receive events; with no dialog
\* nothing listens and nothing keeps windows redirected.
FirstButtonsWork ==
  /\ cdlg.dialog.there <=> cdlg.connected
  /\ cdlg.unredirect = IF cdlg.dialog.there THEN 1 ELSE 0
  /\ cdlg.dialog.there /\ cdlg.tracked # "undefined" /\ cdlg.shows = 1 =>
       cdlg.dialog.reactive = cdlg.dialog.tracked

\* closeDialog.js on its buttons: those not in the input region are disabled.
ButtonsWork == cdlg.dialog.there /\ ~cdlg.growing /\ cdlg.dialog.reactive => cdlg.dialog.tracked
=============================================================================
