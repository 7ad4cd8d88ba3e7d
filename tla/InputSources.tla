---------------------------- MODULE InputSources ----------------------------
(***************************************************************************)
(* The input sources of status/keyboard.js and the connection to IBus of   *)
(* misc/ibusManager.js: the sources that can be used, the order in which   *)
(* they were used, the source of each window, the password entries that    *)
(* suspend IBus and the keyboard that is frozen while an engine is set.    *)
(***************************************************************************)
EXTENDS Integers, SequencesExt

CONSTANTS Ibus,         \* the sources that are engines of IBus
          Lists,        \* the values of the setting 'sources'
          Default,      \* DEFAULT_LAYOUT
          Windows,      \* what can have a source of its own: windows, the overview
          MaxPending    \* bounds the engines being set

VARIABLE is   \* the manager, the connection and the windows

isVars == <<is>>

Sources  == UNION {Range(l) : l \in Lists} \cup {Default}
Nothing  == "none"
Echo     == "xkb:us::eng"                      \* the engine of every source that is not IBus's
Orders   == SeqOf(Sources, 3)                  \* the lists are not longer
Source   == [id : Sources, index : Nat, ours : BOOLEAN]   \* ours: one of _inputSources
Pending  == [engine : Sources \cup {Echo, Nothing}, thaws : BOOLEAN]

State == [conf : Lists, saved : Orders,        \* the settings sources and mru-sources
          perWindow : BOOLEAN,
          steps : SUBSET {"engines", "panel"}, got : SUBSET {"engines", "panel"},
          sources : Orders, current : Source, mru : Orders, backup : Orders,
          disabled : BOOLEAN,                  \* _disableIBus
          focus : Windows \cup {Nothing},
          own : [Windows -> [id : Sources \cup {Nothing}, index : Nat, ours : BOOLEAN,
                             fresh : BOOLEAN]],   \* fresh: _inputSources is ours
          popup : Orders, popupFresh : BOOLEAN,
          pending : Seq(Pending), engine : Sources \cup {Echo, Nothing}, frozen : BOOLEAN]

Ready(u) == u.got = {"engines", "panel"}
InOrder(s, q) == SelectInSeq(q, LAMBDA t : t = s)
Made(u, s) == [id |-> s, index |-> InOrder(s, u.sources), ours |-> TRUE]
-----------------------------------------------------------------------------
\* _changePerWindowSource()
ChangePerWindow(u) ==
  IF ~u.perWindow \/ u.focus = Nothing THEN u
  ELSE [u EXCEPT !.own[u.focus] = [id |-> u.current.id, index |-> u.current.index,
                                   ours |-> u.current.ours, fresh |-> TRUE]]

\* _updateMruSettings()
SaveMru(u) == IF Ready(u) /\ ~u.disabled THEN [u EXCEPT !.saved = u.mru] ELSE u

\* Mutant of SetEngine: without IBus the keyboard is held all the same.
SetEngineHeld(u, e, thaws) ==
  IF Ready(u) THEN [u EXCEPT !.pending = Append(@, [engine |-> e, thaws |-> thaws]),
                             !.frozen = @ \/ thaws]
  ELSE [u EXCEPT !.frozen = @ \/ thaws]

\* holdKeyboard() unless the sources are reloaded, and setEngine(): without IBus its
\* callback releases the keyboard at once.
SetEngine(u, e, thaws) ==
  IF Ready(u) THEN [u EXCEPT !.pending = Append(@, [engine |-> e, thaws |-> thaws]),
                             !.frozen = @ \/ thaws]
  ELSE [u EXCEPT !.frozen = @ /\ ~thaws]

\* _currentInputSourceChanged()
Current(u, s) ==
  ChangePerWindow([u EXCEPT !.current = s,
                            !.mru = IF s.ours THEN <<s.id>> \o Remove(@, s.id) ELSE @])

\* activateInputSource()
Activate(u, s, reloading) ==
  Current(SetEngine(u, IF s.id \in Ibus THEN s.id ELSE Echo, ~reloading), s)

\* The sources that exist; without any the default layout.
Usable(u) == LET l == SelectSeq(u.conf, LAMBDA s : s \notin Ibus \/ (Ready(u) /\ ~u.disabled))
             IN IF l = <<>> THEN <<Default>> ELSE l

Kept(q, sources) == SelectSeq(q, LAMBDA s : s \in Range(sources))

\* Mutant of MruBase: the order of before the password is not taken up again.
BackupForgotten(u) == u.mru

\* What _updateMruSources() starts from
MruBase(u) == IF ~u.disabled /\ u.backup # <<>> THEN u.backup ELSE u.mru

\* _inputSourcesChanged() with _updateMruSources(): what was used before keeps its order,
\* new sources come last; the first one becomes the current one.
InputSourcesChanged(u, reloading) ==
  LET sources == Usable(u)
      base    == MruBase(u)
      before  == Kept(IF base = <<>> THEN u.saved ELSE base, sources)
      v == [u EXCEPT !.sources = sources,
                     !.mru = before \o SelectSeq(sources, LAMBDA s : s \notin Range(before)),
                     !.backup = IF u.disabled THEN @ ELSE <<>>,
                     !.popupFresh = FALSE,
                     !.own = [w \in Windows |-> [@[w] EXCEPT !.fresh = FALSE, !.ours = FALSE]]]
  IN Activate(v, Made(v, Head(v.mru)), reloading)

\* _setPerWindowInputSource(): a window that has seen other sources looks for its own.
SetPerWindow(u) ==
  IF ~u.perWindow \/ u.focus = Nothing THEN u
  ELSE LET o == u.own[u.focus]
           s == IF o.fresh THEN [id |-> o.id, index |-> o.index, ours |-> o.ours]
                ELSE Made(u, IF o.id \in Range(u.sources) THEN o.id ELSE Head(u.sources))
       IN Activate([u EXCEPT !.own[u.focus] = [id |-> s.id, index |-> s.index,
                                               ours |-> s.ours, fresh |-> TRUE]], s, FALSE)

Blank == [id |-> Nothing, index |-> 0, ours |-> FALSE, fresh |-> FALSE]

Init == \E c \in Lists, p \in BOOLEAN :
  is = InputSourcesChanged(
    [conf |-> c, saved |-> <<>>, perWindow |-> p, steps |-> {}, got |-> {},
     sources |-> <<>>, current |-> [id |-> Default, index |-> 1, ours |-> FALSE],
     mru |-> <<>>, backup |-> <<>>, disabled |-> FALSE, focus |-> Nothing,
     own |-> [w \in Windows |-> Blank], popup |-> <<>>, popupFresh |-> FALSE,
     pending |-> <<>>, engine |-> Nothing, frozen |-> FALSE], TRUE)

Room == Len(is.pending) < MaxPending

\* The popup of the switcher is modal: the focus does not move while it is up.
Free == Room /\ is.popup = <<>>

\* The settings change.
SetSources(c) == Room /\ c # is.conf /\ is' = InputSourcesChanged([is EXCEPT !.conf = c], FALSE)
SetPerWindowSetting ==
  /\ Free
  /\ is' = IF is.perWindow THEN [is EXCEPT !.perWindow = FALSE, !.own = [w \in Windows |-> Blank]]
           ELSE [is EXCEPT !.perWindow = TRUE]

Focus(w) == /\ Free /\ w # is.focus
            /\ is' = SetPerWindow([is EXCEPT !.focus = w])

\* _ibusSetContentType(): nothing is suspended where every source is IBus's.
PasswordEntry ==
  /\ Free /\ ~is.disabled /\ \E s \in Range(is.sources) : s \notin Ibus
  /\ is' = InputSourcesChanged([is EXCEPT !.disabled = TRUE, !.backup = is.mru], TRUE)
OtherEntry == /\ Free /\ is.disabled
              /\ is' = InputSourcesChanged([is EXCEPT !.disabled = FALSE], TRUE)

\* _switchInputSource(), and the item that is chosen in the popup
SwitchPopup == /\ is.popup = <<>> /\ Len(is.mru) >= 2
               /\ is' = [is EXCEPT !.popup = is.mru, !.popupFresh = TRUE]
Chosen(i) ==
  /\ Room /\ i \in DOMAIN is.popup
  /\ LET s == [id |-> is.popup[i], index |-> i, ours |-> FALSE]
     IN is' = SaveMru(Activate([is EXCEPT !.popup = <<>>],
                               IF is.popupFresh THEN Made(is, is.popup[i]) ELSE s, FALSE))
PopupGone == is.popup # <<>> /\ is' = [is EXCEPT !.popup = <<>>]

\* _modifiersSwitcher()
ModifiersSwitch ==
  /\ Free
  /\ LET n == IF is.current.index >= Len(is.sources) THEN 1 ELSE is.current.index + 1
     IN is' = SaveMru(Activate(is, Made(is, is.sources[n]), FALSE))

\* _ibusReadyCallback()
ReadyChanged(u) == IF Ready(u) = Ready(is) THEN u
                   ELSE InputSourcesChanged([u EXCEPT !.mru = <<>>], FALSE)

\* _clear() of the connection: what was asked of IBus is cancelled.
Cleared == ReadyChanged([is EXCEPT !.steps = {}, !.got = {}, !.engine = Nothing,
             !.pending = [i \in DOMAIN @ |-> [@[i] EXCEPT !.engine = Nothing]]])

Connected == /\ is.steps = {} /\ is.got = {}
             /\ is' = [is EXCEPT !.steps = {"engines", "panel"}]
\* _initEngines(), _initPanelService()
Got(x) == /\ Room /\ x \in is.steps
          /\ is' = ReadyChanged([is EXCEPT !.steps = @ \ {x}, !.got = @ \cup {x}])
Disconnected == Room /\ is.steps \cup is.got # {} /\ is' = Cleared

EngineSet == /\ is.pending # <<>>
             /\ LET p == Head(is.pending)
                IN is' = [is EXCEPT !.pending = Tail(@), !.frozen = @ /\ ~p.thaws,
                                    !.engine = IF p.engine = Nothing THEN @ ELSE p.engine]

Next == \/ SetPerWindowSetting \/ PasswordEntry \/ OtherEntry \/ SwitchPopup \/ PopupGone
        \/ ModifiersSwitch \/ Connected \/ Disconnected \/ EngineSet
        \/ \E c \in Lists : SetSources(c)
        \/ \E w \in Windows \cup {Nothing} : Focus(w)
        \/ \E i \in 1..3 : Chosen(i)
        \/ \E x \in {"engines", "panel"} : Got(x)

Spec == Init /\ [][Next]_isVars
-----------------------------------------------------------------------------
TypeOK == is \in State

\* The source used last leads the order of use, which lists what can be used and nothing
\* else, unless it was taken from a popup older than the sources.
CurrentLeads ==
  /\ Range(is.mru) = Range(is.sources) /\ Len(is.mru) = Len(is.sources)
  /\ is.current.ours => Head(is.mru) = is.current.id

\* When IBus has answered, its engine is the one of the current source, and a frozen
\* keyboard has an answer to come that thaws it.
EngineFollows ==
  /\ Ready(is) /\ is.pending = <<>> =>
       is.engine = IF is.current.id \in Ibus THEN is.current.id ELSE Echo
  /\ is.frozen => \E p \in Range(is.pending) : p.thaws

\* Leaving a password entry brings back the order of use of before it, as far as the
\* sources are still there, whatever was switched to meanwhile.
Restores ==
  is.disabled /\ ~is'.disabled => Kept(is.backup, is'.sources) = Kept(is'.mru, is.backup)
PasswordRestores == [][Restores]_isVars
=============================================================================
