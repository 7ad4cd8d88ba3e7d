----------------------------- MODULE Backgrounds -----------------------------
(***************************************************************************)
(* The backgrounds of background.js and what layout.js does with them: a   *)
(* source that managers share and that lives while one of them does, the   *)
(* backgrounds it hands out, the slideshows that are loaded and cached     *)
(* behind them, the actor that replaces another one when its background    *)
(* has loaded, the monitors that come and go, and the animation with       *)
(* which the shell starts up.                                              *)
(***************************************************************************)
EXTENDS Integers, FiniteSets, FiniteSetsExt

CONSTANTS Users,          \* of the source: "desktop" (the layout manager), "overview"
          Slideshows,     \* the animated files
          Empty,          \* those without slides
          MaxMonitors,    \* bound
          MaxMade         \* bound: backgrounds at a time

VARIABLE bg   \* the source, its backgrounds, the managers and the start-up

bgVars == <<bg>>

Monitors == 0..(MaxMonitors - 1)
Ids == 1..MaxMade
Files == {"none", "image"} \cup Slideshows
Unused == [file |-> "unused", slot |-> 0, alive |-> FALSE, loaded |-> FALSE,
           announcing |-> FALSE, changed |-> FALSE, images |-> 0, anim |-> "none",
           timer |-> FALSE, strays |-> 0]
NoManager == [there |-> FALSE, shows |-> 0, waits |-> 0, visible |-> FALSE, next |-> FALSE,
              replaced |-> FALSE]

Background == [file       : Files \cup {"unused"},
               slot       : Monitors,                \* _monitorIndex
               alive      : BOOLEAN,                 \* not destroyed
               loaded     : BOOLEAN,                 \* isLoaded
               announcing : BOOLEAN,                 \* the idle that emits 'loaded'
               changed    : BOOLEAN,                 \* _changedIdleId
               images     : 0..2,                    \* updates that wait for an image
               anim       : {"none"} \cup Slideshows,\* _animation
               timer      : BOOLEAN,                 \* _updateAnimationTimeoutId
               strays     : 0..1]                    \* timers whose id was overwritten

Manager == [there    : BOOLEAN,
            shows    : Ids \cup {0},   \* of backgroundActor; 0: it has changed since
            waits    : Ids \cup {0},   \* of _newBackgroundActor
            visible  : BOOLEAN,        \* the one, and the other of them
            next     : BOOLEAN,
            replaced : BOOLEAN]        \* while starting up

State == [n       : 0..MaxMonitors,
          primary : Monitors,
          picture : Files,                                     \* the settings
          made    : [Ids -> Background],
          slots   : [Monitors -> Ids \cup {0}],                \* _backgrounds of the source
          mgr     : [Users \X Monitors -> Manager],
          cached  : {"none"} \cup Slideshows,                  \* _animations
          loads   : SUBSET (Slideshows \X Ids),                \* Animation.load()
          ready   : SUBSET Ids,                                \* idles that call onLoaded
          mode    : {"session", "greeter", "restart"},
          startup : {"no monitor", "loading", "prepared", "animating", "done", "broken"}]
-----------------------------------------------------------------------------
StartingUp(s) == s.startup # "done"
SetBg(s, b, r) == [s EXCEPT !.made[b] = r]

\* A destroyed background that nothing will call again.
Reclaim(s) ==
  [s EXCEPT !.made = [b \in Ids |->
     IF /\ ~@[b].alive /\ @[b].images = 0 /\ @[b].strays = 0
        /\ b \notin s.ready /\ \A l \in s.loads : l[2] # b
     THEN Unused ELSE @[b]]]

\* _setLoaded()
SetLoaded(s, b) == IF s.made[b].loaded THEN s
                   ELSE [s EXCEPT !.made[b].loaded = TRUE, !.made[b].announcing = TRUE]

\* finish() of _updateAnimation() and _queueUpdateAnimation()
Finish(s, b) ==
  LET t == SetLoaded(s, b)
  IN IF t.made[b].alive THEN [t EXCEPT !.made[b].timer = TRUE] ELSE t

\* Mutant of UpdateAnimation: the id of the timer that fired is kept.
UpdateAnimationKeepsId(s, b, warm) ==
  IF s.made[b].anim \in Empty THEN s
  ELSE IF warm THEN SetLoaded(s, b) ELSE [s EXCEPT !.made[b].images = @ + 1]

\* _updateAnimation(): the id is set back whatever it stood for; a slideshow without slides
\* never finishes. Of the frames the last to load counts; warm: they were loaded already.
UpdateAnimation(s, b, warm) ==
  LET r == s.made[b]
      t == SetBg(s, b, [r EXCEPT !.timer = FALSE, !.strays = IF r.timer THEN 1 ELSE @])
  IN IF r.anim \in Empty THEN t
     ELSE IF warm THEN Finish(t, b) ELSE [t EXCEPT !.made[b].images = @ + 1]

\* _refreshAnimation()
RefreshAnimation(s, b, warm) ==
  IF s.made[b].anim = "none" THEN s
  ELSE UpdateAnimation([s EXCEPT !.made[b].timer = FALSE], b, warm)

\* getAnimation(): a file that is cached is ready at the next idle.
LoadAnimation(s, f, b) == IF s.cached = f THEN [s EXCEPT !.ready = @ \cup {b}]
                          ELSE [s EXCEPT !.loads = @ \cup {<<f, b>>}]

\* destroy() of a background
Destroyed(s, b) == [s EXCEPT !.made[b].alive = FALSE, !.made[b].timer = FALSE,
                             !.made[b].changed = FALSE, !.made[b].announcing = FALSE]

\* Animated backgrounds are per monitor, one of any other kind is shared.
SlotFor(s, m) == IF s.picture \in Slideshows THEN m ELSE 0

\* A new background, _load()
Made(s, i, warm) ==
  LET b == Min({x \in Ids : s.made[x].file = "unused"})
      f == s.picture
      t == SetBg([s EXCEPT !.slots[i] = b], b,
                 [Unused EXCEPT !.file = f, !.slot = i, !.alive = TRUE])
  IN CASE f = "none" -> SetLoaded(t, b)
       [] f = "image" -> IF warm THEN SetLoaded(t, b) ELSE [t EXCEPT !.made[b].images = 1]
       [] OTHER -> LoadAnimation(t, f, b)

\* getBackground()
WithBackground(s, m, warm) ==
  IF s.slots[SlotFor(s, m)] = 0 THEN Made(s, SlotFor(s, m), warm) ELSE s
-----------------------------------------------------------------------------
\* _swapBackgroundActor(): the old actor fades and is destroyed.
Swapped(s, k) ==
  [s EXCEPT !.mgr[k].shows = s.mgr[k].waits, !.mgr[k].visible = s.mgr[k].next, !.mgr[k].waits = 0]

\* Mutant of UpdateActor: a background that is loading is shown only by the next change.
UpdateActorForgets(s, k, warm) ==
  LET t == WithBackground(s, k[2], warm)
      b == t.slots[SlotFor(s, k[2])]
  IN IF t.made[b].loaded THEN Swapped([t EXCEPT !.mgr[k].waits = b], k) ELSE t

\* _updateBackgroundActor(): a new actor, of the same visibility, takes the place of the
\* one that is waiting, and of the one that is shown when its background is loaded.
UpdateActor(s, k, warm) ==
  LET t == WithBackground(s, k[2], warm)
      b == t.slots[SlotFor(s, k[2])]
      u == [t EXCEPT !.mgr[k].waits = b, !.mgr[k].next = t.mgr[k].visible,
                     !.mgr[k].replaced = @ \/ StartingUp(s)]
  IN IF u.made[b].loaded THEN Swapped(u, k) ELSE u

\* 'bg-changed': the source destroys and forgets the background, and then each manager with
\* an actor that shows it or would show it makes another one.
Changed(s, b, warm) ==
  LET Listens(k) == b \in {s.mgr[k].shows, s.mgr[k].waits}
      t == Destroyed([s EXCEPT !.slots[s.made[b].slot] = 0,
                               !.mgr = [k \in DOMAIN @ |->
                                 [@[k] EXCEPT !.shows = IF @ = b THEN 0 ELSE @,
                                              !.waits = IF @ = b THEN 0 ELSE @]]], b)
  IN FoldSet(LAMBDA k, u : UpdateActor(u, k, warm), t, {k \in DOMAIN s.mgr : Listens(k)})

\* A new manager; while starting up only the primary monitor has its background.
Created(s, k, warm) ==
  LET t == WithBackground(s, k[2], warm)
  IN [t EXCEPT !.mgr[k] = [NoManager EXCEPT !.there = TRUE,
        !.shows = t.slots[SlotFor(s, k[2])],
        !.visible = k[1] # "desktop" \/ k[2] = s.primary \/ ~StartingUp(s)]]

\* releaseBackgroundSource(): with the last manager the source and all it made are gone.
Released(s) ==
  IF \E k \in DOMAIN s.mgr : s.mgr[k].there THEN s
  ELSE FoldSet(LAMBDA b, t : Destroyed(t, b), [s EXCEPT !.slots = [m \in Monitors |-> 0]],
               {b \in Ids : s.made[b].alive})

\* _updateBackgrounds()
UpdateBackgrounds(s, u, warm) ==
  LET t == Released([s EXCEPT !.mgr = [k \in DOMAIN @ |-> IF k[1] = u THEN NoManager ELSE @[k]]])
      wanted == IF s.mode = "greeter" THEN {} ELSE {<<u, m>> : m \in 0..(s.n - 1)}
  IN FoldSet(LAMBDA k, v : Created(v, k, warm), t, wanted)

\* Mutant of SourceMonitorsChanged: the background of a monitor that is gone is refreshed too.
SourceMonitorsChangedAll(s, warm) ==
  FoldSet(LAMBDA m, t : RefreshAnimation(t, s.slots[m], warm), s, {m \in Monitors : s.slots[m] # 0})

\* _onMonitorsChanged() of a source that has lived on
SourceMonitorsChanged(s, warm) ==
  LET One(m, t) == IF m < s.n THEN RefreshAnimation(t, s.slots[m], warm)
                   ELSE Destroyed([t EXCEPT !.slots[m] = 0], s.slots[m])
  IN FoldSet(One, s, {m \in Monitors : s.slots[m] # 0})

Blank == [n |-> 0, primary |-> 0, picture |-> "none", made |-> [b \in Ids |-> Unused],
          slots |-> [m \in Monitors |-> 0], mgr |-> [k \in Users \X Monitors |-> NoManager],
          cached |-> "none", loads |-> {}, ready |-> {}, mode |-> "session",
          startup |-> "no monitor"]

\* The constructor and init(): the monitors are there, or none is yet.
Init == \E n \in 0..MaxMonitors, f \in Files, mode \in {"session", "greeter", "restart"} :
  LET s == [Blank EXCEPT !.n = n, !.picture = f, !.mode = mode,
                         !.startup = IF n = 0 THEN "no monitor" ELSE "loading"]
  IN bg = FoldSet(LAMBDA u, t : UpdateBackgrounds(t, u, FALSE), s, Users)
-----------------------------------------------------------------------------
Becomes(t) == bg' = Reclaim(t)
Alive == {b \in Ids : bg.made[b].alive}

\* Bounds: there is room for the backgrounds a step may make, and for what may be pending.
Room(n) == Cardinality({b \in Ids : bg.made[b].file = "unused"}) >= n
Calm(b) == bg.made[b].images < 2 /\ bg.made[b].strays = 0

\* The source's settings change: any key of them.
SetPicture(f) ==
  bg' = [bg EXCEPT !.picture = f,
                   !.made = [b \in Ids |-> [@[b] EXCEPT !.changed = @ \/ bg.made[b].alive]]]

\* The file, or an image of its slides, was written.
FileChanged(f) ==
  LET watchers == {b \in Alive : bg.made[b].file = f /\ (f = "image" \/ bg.made[b].anim # "none")}
  IN /\ f # "none" /\ watchers # {}
     /\ bg' = [bg EXCEPT !.made = [b \in Ids |-> [@[b] EXCEPT !.changed = @ \/ b \in watchers]]]

\* The idle that emits 'bg-changed'.
ChangedIdle(b, warm) ==
  bg.made[b].changed /\ Room(MaxMonitors) /\ Becomes(Changed(bg, b, warm))

\* The idle that emits 'loaded': the actors that waited for it are shown.
LoadedIdle(b) ==
  /\ bg.made[b].announcing
  /\ Becomes(FoldSet(LAMBDA k, t : Swapped(t, k), [bg EXCEPT !.made[b].announcing = FALSE],
                     {k \in DOMAIN bg.mgr : bg.mgr[k].waits = b}))

\* An image is there: the picture, or the last one an update of the slides waits for.
ImageLoaded(b) ==
  /\ bg.made[b].images > 0
  /\ LET t == [bg EXCEPT !.made[b].images = @ - 1]
     IN Becomes(IF bg.made[b].file = "image" THEN SetLoaded(t, b) ELSE Finish(t, b))

\* A slideshow is read; it becomes the one that is cached.
AnimationLoaded(f, b) ==
  <<f, b>> \in bg.loads
  /\ bg' = [bg EXCEPT !.loads = @ \ {<<f, b>>}, !.cached = f, !.ready = @ \cup {b}]

\* onLoaded(): the background gets the slideshow that is cached by now.
AnimationReady(b, warm) ==
  /\ b \in bg.ready /\ bg.made[b].images < 2
  /\ LET t == [bg EXCEPT !.ready = @ \ {b}, !.made[b].anim = bg.cached]
     IN Becomes(IF t.made[b].alive THEN UpdateAnimation(t, b, warm) ELSE SetLoaded(t, b))

\* The timer of the slides.
SlideTimeout(b, warm) ==
  /\ bg.made[b].timer /\ bg.made[b].images < 2
  /\ Becomes(UpdateAnimation([bg EXCEPT !.made[b].timer = FALSE], b, warm))

\* A timer whose id was lost; for a destroyed background the update throws.
StrayTimeout(b, warm) ==
  /\ bg.made[b].strays > 0 /\ bg.made[b].images < 2
  /\ LET t == [bg EXCEPT !.made[b].strays = 0]
     IN Becomes(IF t.made[b].alive THEN UpdateAnimation(t, b, warm) ELSE t)

\* The time zone changes: slideshows are loaded anew, under the timers that are running.
ZoneChanged ==
  LET shown == {b \in Alive : bg.made[b].anim # "none"}
  IN /\ shown # {} /\ shown \cap bg.ready = {} /\ \A b \in shown : Calm(b)
     /\ bg' = FoldSet(LAMBDA b, t : LoadAnimation(t, t.made[b].anim, b), bg, shown)

\* The system has woken up.
Resumed(warm) ==
  LET shown == {b \in Alive : bg.made[b].anim # "none"}
  IN /\ shown # {} /\ \A b \in shown : Calm(b)
     /\ bg' = FoldSet(LAMBDA b, t : RefreshAnimation(t, b, warm), bg, shown)

\* The monitors change: the layout manager first, then the overview that listens to it, and
\* last the source, unless it has gone and come again with its managers.
MonitorsChanged(n, p, warm) ==
  LET s == [bg EXCEPT !.n = n, !.primary = p,
                      !.startup = IF @ = "no monitor" /\ n > 0 THEN "loading" ELSE @]
      t == UpdateBackgrounds(s, "desktop", warm)
      u == IF "overview" \in Users THEN UpdateBackgrounds(t, "overview", warm) ELSE t
      lived == "overview" \in Users /\ bg.n > 0 /\ n > 0 /\ bg.mode # "greeter"
  IN /\ p < n \/ (n = 0 /\ p = 0)
     /\ Room(MaxMonitors) /\ \A b \in Alive : Calm(b)
     /\ Becomes(IF lived THEN SourceMonitorsChanged(u, warm) ELSE u)
-----------------------------------------------------------------------------
\* The system background has loaded: _prepareStartupAnimation(), which needs a monitor.
SystemLoaded(warm) ==
  /\ bg.startup = "loading" /\ Room(MaxMonitors) /\ \A b \in Alive : Calm(b)
  /\ LET t == IF bg.mode = "session" THEN UpdateBackgrounds(bg, "desktop", warm) ELSE bg
     IN Becomes([t EXCEPT !.startup = IF bg.mode = "session" /\ bg.n = 0 THEN "broken" ELSE "prepared"])

\* Mutant of Complete: the backgrounds of other monitors are not brought up.
CompleteOnly(s) == [s EXCEPT !.startup = "done"]

\* _showSecondaryBackgrounds(): of the actors that wait none is shown.
ShowSecondary(s) ==
  [s EXCEPT !.mgr = [k \in DOMAIN @ |->
     [@[k] EXCEPT !.visible = @ \/ (k[1] = "desktop" /\ s.mgr[k].there)]]]

Complete(s) ==
  LET t == [s EXCEPT !.startup = "done"] IN IF s.mode = "greeter" THEN t ELSE ShowSecondary(t)

\* _startupAnimation(): there is none on a restart.
StartupIdle == /\ bg.startup = "prepared"
               /\ bg' = IF bg.mode = "restart" THEN Complete(bg) ELSE [bg EXCEPT !.startup = "animating"]

StartupEased == bg.startup = "animating" /\ bg' = Complete(bg)

Next ==
  \/ StartupIdle \/ StartupEased \/ ZoneChanged
  \/ \E f \in Files : SetPicture(f) \/ FileChanged(f)
  \/ \E b \in Ids : LoadedIdle(b) \/ ImageLoaded(b) \/ (\E f \in Slideshows : AnimationLoaded(f, b))
  \/ \E warm \in BOOLEAN : SystemLoaded(warm) \/ Resumed(warm)
  \/ \E b \in Ids, warm \in BOOLEAN :
       ChangedIdle(b, warm) \/ AnimationReady(b, warm) \/ SlideTimeout(b, warm) \/ StrayTimeout(b, warm)
  \/ \E n \in 0..MaxMonitors, p \in Monitors, warm \in BOOLEAN : MonitorsChanged(n, p, warm)

Spec == Init /\ [][Next]_bgVars
-----------------------------------------------------------------------------
TypeOK == bg \in State

\* The last actor of every manager hangs on a background that the source keeps and that the
\* settings reach: it is what the settings ask for, or it will tell that they have changed.
\* A destroyed one would stay on its monitor for good.
ManagersFollow ==
  \A k \in DOMAIN bg.mgr : bg.mgr[k].there =>
    LET b == IF bg.mgr[k].waits # 0 THEN bg.mgr[k].waits ELSE bg.mgr[k].shows
    IN /\ b # 0 /\ bg.made[b].alive /\ bg.slots[bg.made[b].slot] = b
       /\ \/ bg.made[b].changed
          \/ bg.made[b].file = bg.picture /\ bg.made[b].slot = SlotFor(bg, k[2])

\* A background that is waited for will tell that it has loaded, and a slideshow goes on: an
\* update is on its way or its timer runs. Not so if the slideshow has no slides.
SlidesGoOn ==
  \A b \in Alive :
    LET r == bg.made[b]
        coming == b \in bg.ready \/ (\E l \in bg.loads : l[2] = b) \/ r.images > 0
    IN /\ r.loaded \/ coming \/ r.anim \in Empty
       /\ r.anim \in {"none"} \cup Empty \/ coming \/ r.timer
       /\ \A k \in DOMAIN bg.mgr : bg.mgr[k].waits = b /\ r.loaded => r.announcing

\* No background is left of a monitor that is gone: its next update would look for it.
MonitorsExist == \A b \in Alive : bg.made[b].slot < bg.n

\* After the start-up no monitor is without its background, but one where a background that
\* changed while starting up was still loading at its end.
SecondaryShown ==
  ~StartingUp(bg) => \A k \in DOMAIN bg.mgr : bg.mgr[k].there => bg.mgr[k].visible \/ bg.mgr[k].replaced
=============================================================================
