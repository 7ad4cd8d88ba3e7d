----------------------------- MODULE ModalStack -----------------------------
(***************************************************************************)
(* The stack of input grabs every modal part of the shell goes through:    *)
(* pushModal() and popModal() of js/ui/main.js, the stage grab below them  *)
(* (shell_global_begin_modal() and shell_global_end_modal() of             *)
(* src/shell-global.c), and the 'destroy' handlers that pop a destroyed    *)
(* actor and forget a destroyed focus.                                     *)
(*                                                                         *)
(* An action is one call from the main loop: JavaScript runs it, and every *)
(* signal handler it triggers, to the end before anything else happens.    *)
(* The model starts where the startup animation has ended.                 *)
(***************************************************************************)
EXTENDS Integers, Sequences

CONSTANTS
  Modals,      \* actors some client passes to pushModal()
  Widgets,     \* other actors that can have the key focus
  Focusable,   \* actors that navigation, a click or grab_key_focus() focuses
  ModeOf,      \* the Shell.ActionMode each modal actor is pushed with
  Careless,    \* clients that pop without having looked at pushModal()'s result
  HandlerIds,  \* GObject signal handler ids
  NoActor,     \* JavaScript null, or the stage itself: no explicit key focus
  Normal,      \* Shell.ActionMode.NORMAL
  MaxDepth     \* bound: the modal grabs open at the same time

Actors == Modals \cup Widgets

ActionModes == {ModeOf[a] : a \in Modals} \cup {Normal}

ASSUME ModalsAssumption == /\ NoActor \notin Actors
                           /\ Careless \subseteq Modals
                           /\ Focusable \subseteq Actors
                           /\ MaxDepth \in Nat

VARIABLES
  alive,        \* actors that exist
  modalCount,   \* var modalCount
  stack,        \* var modalActorFocusStack, the top last
  handlers,     \* connected prevFocus 'destroy' handlers
  actionMode,   \* var actionMode
  keyFocus,     \* the stage's key focus
  hasModal,     \* global->has_modal
  unredirect,   \* nested Meta.disable_unredirect_for_display() calls
  orphans,      \* careless clients whose push failed and that did not pop yet
  owed,         \* history: the focus each record has to give back
  deepShift,    \* history: a record with two or more above it was removed
  strayForget,  \* history: a handler forgot the focus of a record not its own
  strayPop      \* history: a client popped what it had not pushed

vars == <<alive, modalCount, stack, handlers, actionMode, keyFocus, hasModal,
          unredirect, orphans, owed, deepShift, strayForget, strayPop>>

\* A handler sits on the actor "on"; when that actor is destroyed it looks up
\* the record of the actor "pusher", the one its closure was created for.
Handler == [on : Actors, pusher : Modals, id : HandlerIds]

Record == [actor      : Modals,
           prevFocus  : Actors \cup {NoActor},
           handlerId  : HandlerIds,
           actionMode : ActionModes]

Depth == Len(stack)

InStack(a) == \E i \in 1..Depth : stack[i].actor = a

\* _findModal(): the lowest record of the actor.
FindModal(a) == CHOOSE i \in 1..Depth :
                  /\ stack[i].actor = a
                  /\ \A j \in 1..(i - 1) : stack[j].actor # a

FreeIds == HandlerIds \ ({h.id : h \in handlers}
                           \cup {stack[i].handlerId : i \in 1..Depth})

Init == /\ alive = Actors
        /\ modalCount = 0
        /\ stack = <<>>
        /\ handlers = {}
        /\ actionMode = Normal
        /\ keyFocus = NoActor
        /\ hasModal = FALSE
        /\ unredirect = 0
        /\ orphans = {}
        /\ owed = <<>>
        /\ deepShift = FALSE
        /\ strayForget = FALSE
        /\ strayPop = FALSE
-----------------------------------------------------------------------------
\* Mutant of PushFails: the grab is there, the client is told that it is not.
PushFailsWithGrab(a) ==
  /\ modalCount = 0
  /\ orphans' = IF a \in Careless THEN orphans \cup {a} ELSE orphans
  /\ hasModal' = TRUE
  /\ UNCHANGED <<alive, modalCount, stack, handlers, actionMode, keyFocus,
                 unredirect, owed, deepShift, strayForget, strayPop>>

\* begin_modal() may fail, for instance because an application has the pointer
\* grabbed, and fails when the stage has a grab already. Only a client that
\* does not look at the result is left believing that it is modal.
PushFails(a) ==
  /\ modalCount = 0
  /\ orphans' = IF a \in Careless THEN orphans \cup {a} ELSE orphans
  /\ UNCHANGED <<alive, modalCount, stack, handlers, actionMode, keyFocus,
                 hasModal, unredirect, owed, deepShift, strayForget, strayPop>>

\* Above the first record begin_modal() is not asked again.
PushSucceeds(a, id) ==
  /\ \/ /\ modalCount = 0
        /\ ~hasModal /\ hasModal' = TRUE
        /\ unredirect' = unredirect + 1
     \/ /\ modalCount # 0
        /\ UNCHANGED <<hasModal, unredirect>>
  /\ modalCount' = modalCount + 1
  /\ handlers' = handlers \cup {[on |-> x, pusher |-> a, id |-> id] :
                                  x \in {keyFocus} \ {NoActor}}
  /\ stack' = Append(stack, [actor |-> a, prevFocus |-> keyFocus,
                             handlerId |-> id, actionMode |-> actionMode])
  /\ owed' = Append(owed, keyFocus)
  /\ actionMode' = ModeOf[a]
  /\ keyFocus' = a
  /\ UNCHANGED <<alive, orphans, deepShift, strayForget, strayPop>>

\* pushModal(). The clients keep a flag, and push only what is not pushed.
Push(a) ==
  /\ a \in alive /\ ~InStack(a) /\ a \notin orphans
  /\ Depth < MaxDepth /\ FreeIds # {}
  /\ \/ PushFails(a)
     \/ PushSucceeds(a, CHOOSE id \in FreeIds : TRUE)
-----------------------------------------------------------------------------
\* The focus that set_key_focus(x) leaves.
Living(x, living) == IF x \in living THEN x ELSE NoActor

\* Mutant of Spliced: the record is removed and no other is touched.
SplicedWithoutShift(i) ==
  [j \in 1..(Depth - 1) |-> IF j < i THEN stack[j] ELSE stack[j + 1]]

\* The stack popModal() leaves when it removes the record i: every record above
\* takes over what the record below it was to restore.
Spliced(i) ==
  [j \in 1..(Depth - 1) |->
     IF j < i THEN stack[j] ELSE [stack[j] EXCEPT !.actor = stack[j + 1].actor]]

\* What the remaining records have to give back: only the next one's changes.
OwedAfter(i, living) ==
  [j \in 1..(Depth - 1) |->
     Living(IF j <= i THEN owed[j] ELSE owed[j + 1], living)]

\* In the middle or not, popModal() disconnects the top record's handler.
HandlersAfterPop ==
  {h \in handlers : h.id # stack[Depth].handlerId \/ h.on # stack[Depth].prevFocus}

\* Mutant of PopAt: the grab goes one pop too early.
PopAtReleasesEarly(i, living) ==
  /\ modalCount' = modalCount - 1
  /\ owed' = OwedAfter(i, living)
  /\ deepShift' = (deepShift \/ Depth - i >= 2)
  /\ \/ /\ i = Depth /\ modalCount > 2
        /\ actionMode' = stack[i].actionMode
        /\ keyFocus' = Living(stack[i].prevFocus, living)
        /\ UNCHANGED <<hasModal, unredirect>>
     \/ /\ i # Depth /\ modalCount > 2
        /\ keyFocus' = Living(keyFocus, living)
        /\ UNCHANGED <<actionMode, hasModal, unredirect>>
     \/ /\ modalCount <= 2
        /\ actionMode' = Normal
        /\ keyFocus' \in {Living(stack[i].prevFocus, living), NoActor}
        /\ hasModal' = FALSE
        /\ unredirect' = 0

\* Mutant of PopAt: every pop of a top record enables unredirection.
PopAtAlwaysUnredirects(i, living) ==
  /\ modalCount' = modalCount - 1
  /\ owed' = OwedAfter(i, living)
  /\ deepShift' = (deepShift \/ Depth - i >= 2)
  /\ \/ /\ i = Depth /\ modalCount # 1
        /\ actionMode' = stack[i].actionMode
        /\ keyFocus' = Living(stack[i].prevFocus, living)
        /\ unredirect' = unredirect - 1
        /\ UNCHANGED hasModal
     \/ /\ i # Depth /\ modalCount # 1
        /\ keyFocus' = Living(keyFocus, living)
        /\ UNCHANGED <<actionMode, hasModal, unredirect>>
     \/ /\ modalCount = 1
        /\ actionMode' = Normal
        /\ keyFocus' \in {Living(stack[i].prevFocus, living), NoActor}
        /\ hasModal' = FALSE
        /\ unredirect' = unredirect - 1

\* popModal() of the top record: its mode and its focus come back; of the last
\* one: the grab is released, and end_modal() drops the key focus if the stage
\* window is not the X focus. A pop below the top leaves mode and focus alone.
PopAt(i, living) ==
  /\ modalCount' = modalCount - 1
  /\ owed' = OwedAfter(i, living)
  /\ deepShift' = (deepShift \/ Depth - i >= 2)
  /\ \/ /\ i = Depth /\ modalCount # 1
        /\ actionMode' = stack[i].actionMode
        /\ keyFocus' = Living(stack[i].prevFocus, living)
        /\ UNCHANGED <<hasModal, unredirect>>
     \/ /\ i # Depth /\ modalCount # 1
        /\ keyFocus' = Living(keyFocus, living)
        /\ UNCHANGED <<actionMode, hasModal, unredirect>>
     \/ /\ modalCount = 1
        /\ actionMode' = Normal
        /\ keyFocus' \in {Living(stack[i].prevFocus, living), NoActor}
        /\ hasModal' = FALSE
        /\ unredirect' = unredirect - 1

\* A client gives its grab back: close(), fadeAndDestroy(), _releaseModalGrab()...
Pop(a) ==
  /\ InStack(a)
  /\ PopAt(FindModal(a), alive)
  /\ stack' = Spliced(FindModal(a))
  /\ handlers' = HandlersAfterPop
  /\ UNCHANGED <<alive, orphans, strayForget, strayPop>>

\* popModal() of an actor that is not in the stack: the grab is dropped and
\* 'incorrect pop' is thrown, but the records and their count stay.
IncorrectPop(a) ==
  /\ a \in orphans
  /\ orphans' = orphans \ {a}
  /\ keyFocus' = NoActor
  /\ hasModal' = FALSE
  /\ actionMode' = Normal
  /\ UNCHANGED <<alive, modalCount, stack, handlers, unredirect, owed,
                 deepShift, strayForget>>
  /\ strayPop' = TRUE
-----------------------------------------------------------------------------
\* The handlers on a destroyed actor forget it: each in the record of the actor
\* it was created for, whatever record has that actor's focus chain by now.
Forgetting(s, fired) ==
  [j \in DOMAIN s |->
     IF \E h \in fired : h.pusher = s[j].actor
       THEN [s[j] EXCEPT !.prevFocus = NoActor] ELSE s[j]]

Stray(s, fired) == \E h \in fired, j \in DOMAIN s : /\ h.pusher = s[j].actor
                                                    /\ h.id # s[j].handlerId

\* The destruction of an actor that is not modal, maybe of the focused one.
DestroyWidget(a) ==
  LET fired == {h \in handlers : h.on = a} IN
  /\ a \in alive /\ a \notin orphans /\ ~InStack(a)
  /\ alive' = alive \ {a}
  /\ handlers' = handlers \ fired
  /\ stack' = Forgetting(stack, fired)
  /\ strayForget' = (strayForget \/ Stray(stack, fired))
  /\ owed' = [j \in DOMAIN owed |-> Living(owed[j], alive \ {a})]
  /\ keyFocus' = Living(keyFocus, alive \ {a})
  /\ UNCHANGED <<modalCount, actionMode, hasModal, unredirect, orphans, deepShift,
                 strayPop>>

\* The destruction of a modal actor: the 'destroy' handler of its own record
\* was connected first and pops it, then the handlers that are left run.
DestroyModal(a) ==
  LET i      == FindModal(a)
      living == alive \ {a}
      fired  == {h \in HandlersAfterPop : h.on = a}
  IN
  /\ a \in alive /\ InStack(a)
  /\ alive' = living
  /\ PopAt(i, living)
  /\ stack' = Forgetting(Spliced(i), fired)
  /\ handlers' = HandlersAfterPop \ fired
  /\ strayForget' = (strayForget \/ Stray(Spliced(i), fired))
  /\ UNCHANGED <<orphans, strayPop>>

\* The next dialog, popup or widget of that kind is built.
Create(a) ==
  /\ a \in Actors \ alive
  /\ \A i \in 1..Depth : stack[i].prevFocus # a
  /\ alive' = alive \cup {a}
  /\ UNCHANGED <<modalCount, stack, handlers, actionMode, keyFocus, hasModal,
                 unredirect, orphans, owed, deepShift, strayForget, strayPop>>

\* The key focus moves; while nothing is modal, focus_window_changed() drops it
\* when a window takes the X focus.
SetFocus(x) ==
  /\ x \in alive \cap Focusable \/ (x = NoActor /\ ~hasModal)
  /\ keyFocus' = x
  /\ UNCHANGED <<alive, modalCount, stack, handlers, actionMode, hasModal,
                 unredirect, orphans, owed, deepShift, strayForget, strayPop>>

Next == \/ \E a \in Modals : \/ Push(a)
                             \/ Pop(a)
                             \/ IncorrectPop(a)
                             \/ DestroyModal(a)
        \/ \E a \in Actors : DestroyWidget(a) \/ Create(a)
        \/ \E x \in Actors \cup {NoActor} : SetFocus(x)

Spec == Init /\ [][Next]_vars
-----------------------------------------------------------------------------
TypeOK == /\ alive \subseteq Actors
          /\ modalCount \in Nat
          /\ stack \in Seq(Record)
          /\ handlers \subseteq Handler
          /\ actionMode \in ActionModes
          /\ keyFocus \in Actors \cup {NoActor}
          /\ hasModal \in BOOLEAN
          /\ unredirect \in Nat
          /\ orphans \subseteq Careless
          /\ owed \in Seq(Actors \cup {NoActor})
          /\ deepShift \in BOOLEAN
          /\ strayForget \in BOOLEAN
          /\ strayPop \in BOOLEAN

\* Whatever the order of pushes, pops, failures and destructions, modalCount is
\* the number of records, no actor has two of them, and window unredirection is
\* disabled exactly once while there is one: the "effect will be undone when an
\* equal number of popModal() invocations have been made".
CountMatches == /\ modalCount = Len(stack)
                /\ unredirect = IF stack = <<>> THEN 0 ELSE 1
                /\ \A i, j \in 1..Depth : stack[i].actor = stack[j].actor => i = j

\* The stage never keeps the keyboard and the pointer of the session grabbed
\* when the last modal actor is gone, however it went, careless clients or not.
GrabNeverLeaks == hasModal => stack # <<>>

\* pushModal() returns "true iff we successfully acquired a grab or already had
\* one": a client whose push succeeded has the stage grab until it pops.
ModalHasGrab == stack # <<>> => hasModal

\* That holds as long as no careless client popped what it had not pushed.
CarefulModalHasGrab == ~strayPop => ModalHasGrab

\* What record i of s puts back is what its place in the stack asks for: the mode of
\* the record below it, NORMAL at the bottom.
ModeBelow(s, i) == IF i = 1 THEN Normal ELSE ModeOf[s[i - 1].actor]

\* The key bindings are filtered by the mode of the topmost modal actor, and
\* stay so however the records are popped.
KeybindingsFollowTop ==
  /\ actionMode = IF stack = <<>> THEN Normal ELSE ModeOf[stack[Depth].actor]
  /\ \A i \in 1..Depth : stack[i].actionMode = ModeBelow(stack, i)

\* As long as no client popped what it had not pushed, and no record was removed
\* from below two others, the mode of the topmost modal actor filters the key
\* bindings.
KeybindingsFollowTopIfShallow ==
  (~strayPop /\ ~deepShift) => KeybindingsFollowTop

\* "If the modal stack returns to this actor, reset the focus to the actor which
\* was focused at the time pushModal() was invoked": what a record would restore
\* is the focus at its push, or what a record removed below it would have
\* restored; nothing if that actor is gone.
FocusGivenBack ==
  \A i \in 1..Depth : Living(stack[i].prevFocus, alive) = owed[i]

\* It is given back as long as no record was removed from below two others and
\* no handler of a shifted record ran for another record of its actor.
FocusGivenBackIfShallow == (~deepShift /\ ~strayForget) => FocusGivenBack
=============================================================================
