# GNOME Shell in TLA+

This directory holds TLA+ models of the parts of GNOME Shell whose correctness depends on
the order of events: who has the input grab, which notification has the banner, whether the
screen is locked, which request a dialog answers, where a window's clone is when the overview
closes. TLC checks the models on small instances; TLAPS proves, for all instances, the safety
properties of the modal stack, the message tray, the overview, the screen shield, the three
system dialogs, the agents that ask the user for others, GDM's verifier with its prompt, and the
extension system.

A line number such as `main.js:462` refers to the file of that name in this repository
(`js/ui/main.js` here).

## 1. The system

GNOME Shell is one process with one main loop. JavaScript (`js/`) runs in that loop, on top
of C (`src/`) and of mutter. A callback runs to its end, with every signal handler it
triggers; nothing is preempted. What makes the program hard is what happens *between*
callbacks - animations that end later, timers, D-Bus replies, input, other processes - and
*inside* one, when a signal handler re-enters the object that emitted the signal.

So an action of a model is one call from the main loop with everything it triggers, and
the nondeterminism is the order of those calls and what the outside answers. A chain of
calls inside one callback is a chain of operators on the component's state record, in the
order of the code: `Activate(s, i)` is the record that `item.active = true` leaves of `s`.

Three facts of the platform are used throughout. A transition (`ease()`) of an actor that is
not mapped completes at once, one that is overtaken by another of the same property is
stopped (`onStopped` runs, `onComplete` does not, `environment.js`), and a property that is
set directly loses its transition. A handler that throws is caught by the emitter, and the
other handlers run. A D-Bus call that is cancelled may still deliver an answer that had
arrived.

### Inventory

| Component | State it keeps | Talks to | What is hard | What makes it correct | Modules |
|---|---|---|---|---|---|
| **Modal stack** `main.js`, `shell-global.c` | `modalCount`, `modalActorFocusStack`, `actionMode`, grab | every dialog, popup, overview, shield; mutter | pops from the middle, refused grabs, destroyed actors | one record per grab; mode and focus are those of the top | `ModalStack` |
| **Message tray** `messageTray.js` | queue, banner, timers, the sources' lists | presence, layout, session mode, idle monitor, daemons | handlers of `destroy` re-enter `_updateState()` | nothing lost, forgotten or shown twice; banners leave | `MessageTray` |
| **Overview** `overview.js` | `_shown`, `_visible`, `_animationInProgress`, `_modal` | modal stack, layout, session mode | requests in animations, refused grabs, mode changes | settles as asked, holds the grab as long as it must | `Overview`, `OverviewPromise` |
| **Overview's pages and controls** `viewSelector.js`, `overviewControls.js` | active page, fades, springs, sliders | overview, search, application grid | a page leaves before the next comes, and both may be overtaken | the active page alone is there in the end | `ViewSelector` |
| **Workspaces of the overview** `workspacesView.js`, `workspace.js`, `workspaceThumbnail.js` | views, adjustment, clones, layout, thumbnails' states | mutter | windows and workspaces come and go under animations and drags | views follow what they stand for | `WorkspacesView`, `WindowPicker`, `Thumbnails` |
| **Application grid** `appDisplay.js`, `iconGrid.js` | icons, folders, popups, drags, spaces | settings, installed applications, grab helper | settings change under open popups and drags | no application is lost, popups block while they show | `AppPicker` |
| **Screen shield** `screenShield.js`, `unlockDialog.js`, `lightbox.js` | curtain, dialog, lightboxes, grab, modes, lock timer | logind, session manager, GDM, idle monitor | six animations and timers in any order | a locked session is covered, a lit desktop is not | `ScreenShield` |
| **System dialogs** `modalDialog.js`, `endSessionDialog.js`, `polkitAgent.js`, `keyring.js` and their C halves | state, grab, countdown, queues of requests | session manager, PackageKit, polkit, gcr | a dialog meets leftovers of the last request | one answer, the one asked for | `EndSessionDialog`, `PolkitAgent`, `KeyringPrompt` |
| **Authentication** `loginDialog.js`, `authPrompt.js`, `util.js`, `batch.js` | verifier, prompt, user list, timed login | GDM, accounts service | retries against messages still on the screen, batches that are cancelled | the prompt goes on; what was opened is started; nobody present is logged in | `UserVerifier`, `Greeter` |
| **Network** `networkAgent.js`, `shell-network-agent.c`, `status/network.js` | requests, dialogs, items, access points, portal queue | NetworkManager, portal helper | cancel and ask again; objects that change while listed | requests end on the right dialog, lists mark what is active | `NetworkAgent`, `NetworkMenu` |
| **Mounts** `automountManager.js`, `autorunManager.js`, `shellMountOperation.js` | attempts, dialogs, offers | GVfs | locking, removal and retries in the middle of a password dialog | a dialog has an attempt, an attempt can be answered | `Mounts` |
| **Panel, menus, grabs** `panel.js`, `popupMenu.js`, `boxpointer.js`, `panelMenu.js`, `grabHelper.js` | boxes, open menus, active items, stacks of grabs | session mode, modal stack, extensions | hover, focus, sensitivity and removal all move the active item | one menu has the grab; one item is active | `PanelMenus`, `GrabHelper` |
| **Extensions** `extensionSystem.js`, `extensionDownloader.js` | states, `_extensionOrder` | settings, session mode, extensions' code | exceptions in the middle of a rebase | enabled exactly when wanted, in the order of a stack | `ExtensionSystem` |
| **Window manager** `windowManager.js`, `closeDialog.js` | effects that run, groups of actors, workspaces' timers | mutter | an effect is ended by its transition, a kill, a destruction | completed once; no window lost; used workspaces stay | `WindowManager`, `Workspaces` |
| **Layout and backgrounds** `layout.js`, `background.js` | tracked actors, regions, corner, keyboard box, managers, slide shows | mutter, files, time | regions wait for redraws, grabs and start-up; late loads | the chrome takes input where it is; every monitor has a background | `Layout`, `Backgrounds` |
| **Input** `keyboard.js`, `status/keyboard.js`, `ibusManager.js`, `dnd.js`, `altTab.js`, `switcherPopup.js` | keyboard's visibility, keys, sources, drags, selection | IBus, mutter | timers, engines that answer late, windows that close | shown as asked, one key typed once, the grab ends | `OnScreenKeyboard`, `InputSources`, `DragAndDrop`, `AltTab` |
| **Search, deferred work** `search.js`, `remoteSearch.js`, `main.js` | terms, results, queues | providers | late answers, callbacks that throw | results fit the terms; queued work runs | `Search`, `DeferredWork` |
| **Magnifier** `magnifier.js`, `magnifierDBus.js`, `focusCaretTracker.js` | zoom regions, pointer, timers | settings, D-Bus | settings, pointer, focus and monitors move the same view | the pointer is where it is magnified | `Magnifier` |
| Sleep inhibitor, `shell-app*.c`, object manager, calendar, notification daemons, indicators, screenshots, St, trays, parsers, tools | mirrors of other services, drawing, pure functions | - | - | - | section 7 |

### How they interact

`pushModal()`/`popModal()` is the shared resource: the overview, the shield, the dialogs,
the grab helpers and the switchers all take the one stage grab through it. Their modules
take from ModalStack what a client sees: a push succeeds or is refused, a grab that was
granted stays until the pop. The session mode is the second one: the shield pushes
`unlock-dialog` and `lock-screen`, which takes the overview (`overview.js:271`), the
notifications (`messageTray.js`, `_sessionUpdated`), the menus and half of the panel away; in
the other modules the mode is an input that may change between any two steps. The overview's
opening and closing is an input of ViewSelector, AppPicker and Layout in the same way, and
the workspaces of the window manager one of WorkspacesView and Thumbnails. The tray is
blocked by the menus next to the banner: PanelMenus has the bit (`blocked`) that MessageTray
takes as an input (`bannerBlocked`).

## 2. The modules

| Module | Models | Lines |
|---|---|---|
| `ModalStack`, `MCModalStack`, `ModalStackProofs` | `pushModal()`, `popModal()`, destroy handlers, `begin_modal`/`end_modal` | 350 + proofs |
| `MessageTray`, `MCMessageTray`, `MessageTrayProofs` | the tray, sources' lists, banner | 435 + proofs |
| `Overview`, `OverviewPromise`, `OverviewProofs` | the overview; what its listeners are promised | 265 + 42 + proofs |
| `ScreenShield`, `ScreenShieldProofs` | the shield in a user's session, unlock dialog, lightboxes, session modes | 425 + proofs |
| `EndSessionDialog` | the end-session dialog on ModalDialog | 252 |
| `PolkitAgent`, `KeyringPrompt` | two agents whose callers may withdraw, with their dialogs | 198 + 142 |
| `MCEndSessionDialog`, `PromptProofs` | the three system dialogs, one at a time | 63 + proofs |
| `Agents`, `AgentProofs` with `NetworkAgent`, `Mounts`, `NetworkMenu`, `Search`, `ExtensionSystem` (`ExtensionProofs`), `UserVerifier` (`VerifierProofs`) | what asks the user for others, the network menu, the search, and extensions, one at a time | 111 + proofs, section 2.2 |
| `MCAgents`, which adds the other modules of section 2.2 | the greeter, the panel, and what the menus show | below |
| `MCDesktop` and the sixteen modules of section 2.3 | windows, workspaces, layout, input | below |

`PROJECT.json` maps definitions to the lines they model, so that every stretch of source that is
modelled is under the name of a definition that translates it; types, helpers and mutants whose
lines another definition of the same module already names are not listed again. A definition commented "Mutant
of X" is X with a plausible bug; no specification uses it, and it exists to show that a
property notices that bug. A component's state is one record-valued variable, two or three in some of the older
modules, whose fields have the names of the code's or say in a comment which they are.
Fields commented as history, and sets such as `missed`, `astray` or `stale`, are not in
the code: they say that something happened which the code does not survive intact, and the
properties are stated for the time without it. Section 4 lists these cases.

### 2.1 The modules with runs of their own

**ModalStack.** `stack` is `modalActorFocusStack`, a record per push with the focus to give
back, the id of the handler that forgets that focus when it is destroyed, and the mode to
give back. `Push`, `Pop`, `IncorrectPop` (a pop of an actor that is not in the stack),
`DestroyModal` and `DestroyWidget` are the calls; `SetFocus` is navigation. `PopAt` and
`Spliced` are `popModal()`'s two halves: at the top mode and focus come back; below the top
every record above takes over what the record below it was to restore. `HandlersAfterPop`
follows the code in disconnecting the *top* record's handler, whichever record goes. The
model starts after `startup-complete`. Four history variables say what the code cannot know:
`owed` is the focus each record should give back, `deepShift` that a record with two or more
above it was removed, `strayForget` that a handler ran for a record it was not made for,
`strayPop` that a client popped what it had not pushed.

**MessageTray.** The tray's handlers all end in `_updateState()`, which may destroy
notifications, whose handlers end in `_updateState()` again. The tray is therefore one
record, and each function an operator from a tray to the *set* of trays it may leave (the
idle monitor's answer is a choice). Urgency has two levels, critical and not. The primary
monitor always exists. Postponed timers stutter: the timer that runs out and finds the
pointer near the banner starts again. `unasked` and `reordered` are history: a destruction
changed the tray without asking `_updateState()`, and an urgency changed without sorting the
queue.

**Overview.** The fields of the class are the fields of `ov`; `RequestShow`, `RequestHide`,
`RequestToggle` the methods, with `granted` the answer of `pushModal()` and `ctrl` the
modifier of a click; `ShowDone` and `HideDone` the ends of the animations, with the request
they may find. `OverviewPromise` is the abstract specification: four phases, one bit that
is wanted; its liveness says that the overview settles as it was last asked to. `Overview`
starts after `init()` in a session with an overview. The activation time-out of the
Activities button may have passed or not; workspace restore is left out.

**ScreenShield.** Methods are operators on the state, an action is a D-Bus call, an idle
notice, an input, a timer or the end of an animation. The module covers a user's session, not
the greeter; the arrows, the backgrounds and the notifications box are left out,
`DISABLE_LOCK_KEY` is not set. Animations and timers end in any order. `rough` is history:
the curtain was dragged, a message delayed the dialog or a request met a leaving shield.

**EndSessionDialog.** `OpenAsync` is `Open` (accepted: the grab is granted or the dialog is
open already; or refused), with what it changes before it asks for the grab in `Prepared`;
`OpenUnknown` is its early return, which has set the type by then. `Confirm` is `_confirm()`:
an answer goes to the session manager (`Emit`) or to PackageKit first (`calls`). A countdown
is a member of `running`, the set of its main loop sources; `timer` is the id the dialog
remembers. Countdowns may end in any state of the dialog. `FADED_OUT` is never reached
because `state` has no setter (finding 3). History: `req` counts requests, `asked`,
`canceled` and `confirmed` tell of the last one, `overlapped` that a request met leftovers of
another one, `awaited` that the user pressed while PackageKit had the answer, `raced` that a
countdown ended behind a closed dialog.

**PolkitAgent.** `queue`, `current` and the answers are `shell-polkit-authentication-agent.c`'s;
`dialog`, `state`, `waiting` (for the unlocking) and `helper`, the PAM conversation, are
`polkitAgent.js`'s. polkit's `Ask` and `Withdraw`, the idle that handles a cancellation, the
helper's `Prompt` and `Completed`, the user's `Respond` and `Dismiss`, and `SetLocked` come
in any order. `severed`: a request was withdrawn while its helper ran.

**KeyringPrompt.** `Question`, `Continue`, `Cancel`, `Close`, `Dispose` are gcr's and the
user's calls on `shell-keyring-prompt.c`, `Disable`/`Enable` the component's; the dialog
fades and may be refused its grab.

### 2.2 The modules of Agents and MCAgents

Agents is the sum of the network agent, of both halves of `Mounts`, of the halves
`portal` and `ns` of `NetworkMenu`, of the search, of the extension system and of GDM's verifier, with their bounds as constants,
and AgentProofs proves about it; MCAgents extends it by the rest and is what the run checks. A
behaviour of MCAgents about one of these eight is one of Agents: the others' steps need another
subject. They are apart because
what the prover has to carry around grows with every instance in the module.

| Module | State | Actions | Not claimed when |
|---|---|---|---|
| `NetworkAgent` (207) | the request in the table, its keyring search, notification, dialog, VPN helper | ask, cancel, keyring's answer, notification clicked or gone, button, helper's start, output and exit, fade; disable, which any id's failed helper cuts short | `stray`: a leftover of an earlier request acted |
| `Mounts` (310), its half `au` | the volume, mount attempts with their dialogs, `_activeOperations`, the offer | volume and mount come and go, password asked, answered or aborted, retry, lock, unlock, removal, guess of the content | `stranded`: two attempts at a time; `missed`: removed while guessed or locked |
| `Mounts`, its half `mh` | D-Bus calls, the current request, the dialog | AskPassword/AskQuestion/ShowProcesses, Close, the user's answer, fades | - |
| `UserVerifier` (247) | attempts with their cancellables, calls to GDM, messages with their timer, waiters of `no-more-messages`, the prompt | begin, answers of calls (also cancelled ones), info and secret queries, failures, Escape, reset, the timer | `twice`: an attempt was begun beside another |
| `NetworkMenu` (402), its half `portal` | queue, proxies being made, logins the helper shows | connectivity and main connection change, proxy made or not, helper's done, cancel, recheck | `late`: begun by a late proxy |
| `NetworkMenu`, its half `ns` | devices, connections, items, the marked ones, VPNs | devices and connections added, removed, changed, activated, in any order of notifications | `failed`, `vpnStale` |
| `NetworkMenu`, its part `wd` | access points, networks in their order, the selected one | open, an access point comes, gets its name, goes, becomes stronger; select, connect | - |
| `Search` (151) | terms, timer, calls on the provider, results on screen | typing, timer, answers of searches, subsearches and metas, failures | `astray` |
| `ExtensionSystem` (206) | state of every extension, `_extensionOrder`, session, settings | load, reload, unload, install, update, settings, session mode; `init()`, `enable()`, `disable()` may throw | its own code threw, or it was loaded where extensions are not allowed |
| `Greeter` (304) | list or prompt, verification, the greeter's session, timed login with its batches of tasks | user chosen, other user, answers, cancel, session opened, started, stopped, users added and removed, key, ticks of the clock | `lost`: the screen came back while it faded out; a smartcard began |
| `PanelMenus` (533) | boxes, indicators, open menus, box pointers, grabs, items with their active one, submenus, sensitivity, the application's button and menu | press, key, hover, focus, click, ungrab, session mode, indicators of extensions, items removed and added, applications and focus, overview | `orphan`, `free`, `late`, `stale` |

### 2.3 The modules of MCDesktop

| Module | State | Actions | Not claimed when |
|---|---|---|---|
| `WindowManager` (389), its part `we` | per effect: listed, transitions that drive it, what mutter waits for | mutter's map, minimize, unminimize, size change, destroy, kill; transitions end or are overtaken; the actor goes | `lost`: a minimization interrupted, or without a monitor |
| `WindowManager`, its part `ws` | the switches prepared, where every window actor hangs | switch, gesture begun, updated, cancelled, finished, windows destroyed, ends | `overlap`: prepared during a cancellation |
| `Workspaces` (176) | mutter's workspaces, windows on them, the tracker's timers and its queued check | windows come, go, move; drops insert; startup sequences; graces end; the check | a startup sequence counts a stale position |
| `Thumbnails` (172) | workspaces, thumbnails with their nine states, queued updates, eases | show, hide, workspaces come and go, ends of slides and collapses, monitors change | `crossed` |
| `AltTab` (228) | items, selection, thumbnail lists with clones | keys, hover, close, quit, fades, release | an index was used after it went stale |
| `DragAndDrop` (174) | per draggable its grabs and animation, the current drag | press, motion, release, Escape, drop answered, animation ends, destroy | `orphaned`: destroyed as it glides back |
| `WindowManager`, its part `cdlg` | the dialog, its input region, its focus handler | show, hide, focus, end of the animations | a second dialog |
| `GrabHelper` (140) | per helper stack, count and modal grab; the stack of helpers; what is open | open, close, destroy, Escape, click outside, push refused | `crossed`: helpers popped crosswise |
| `OnScreenKeyboard` (298) | visibility, rest timer, box, raised window and its slide | focus, input, rest over, animations end, window moves or goes, enabled or not | `stray`, `broken` |
| `OnScreenKeyboard`, its half `keys` | the held key, layer, latch, pages | press, release, long press, extended keys, layouts change | `lost` |
| `InputSources` (204) | sources, order of use, IBus engine, frozen keyboard, per-window sources, backup | activation, engine set, popup, window focus, password entry, settings | a popup older than the sources |
| `DeferredWork` (122) | queues, timer, mapped actors | queue, map, destroy, redraw, timer; callbacks queue or throw | `thrown` |
| `WindowPicker` (421) | actors, clones, idles to add, layout and slots, caption and button, drag; a trial layout | the two signals of a window in either order, its actor, moves, layout timers, pointer, focus, drag, close; rows of the layout step by step | `missed`: dragged when slots were given |
| `WorkspacesView` (321) | per view its workspaces, adjustment, eases, visibility | workspaces come, go, change places; pan, gesture, scroll, eases; monitors and settings | `tail`, `shifted` |
| `ViewSelector` (324) | pages with opacity and fades, spring, sliders, the overview's phase, search text | show, hide, toggle, type, Escape, ends of fades and springs, folders, frames, drags | `left`, `missed` |
| `Backgrounds` (335) | sources, backgrounds, slide shows with timers and loads, managers, start-up | settings, files, loads, timers, monitors, system background, end of the start-up | a slide show without slides |
| `AppPicker` (358) | installed applications, folders' settings and views, popups, space, drags, views | settings and installations in any order of signals, open, close, drag, drop, page, redisplay | `astray`, a stale folder |
| `Layout` (275) | tracked actors, regions, struts, windows shown, keyboard's box, corner and barrier | track, hide, overview, fullscreen, modal grabs, start-up, idles, pushes in time | `grew` |
| `Magnifier` (430) | zoom regions, view ports, centers, pointer, crosshairs, effects, handlers | settings, D-Bus, pointer, focus, caret, timers, monitors | `cleared`, `early`, `asked` |

These modules share no state in the shell, and a run may be about any of them: in MCAgents
and MCDesktop a behaviour chooses in its first state one `subject` and takes that one's
steps only. The run's state space is thus the sum of theirs, each searched exhaustively, and
`AgentsAnswer`, `WindowsInStep` and the others conjoin what their modules state, guarded by the
subject. Where one module's actions together are more than TLC can exhaust, it appears under
several names, as do the halves of `Mounts`, `NetworkMenu` and `OnScreenKeyboard`, whose variables
have nothing to do with each other: `VsPages`, `VsSearch`, `VsDrag` and `VsPopup` are ViewSelector with a part of
its actions each (those of the name and the ones they meet), and `MgScreens` or `PmPanel`
also have constants of their own. The union covers every action of the module; what is not
searched is all of its actions at once.

## 3. The runs

| Run | Instance | What it shows |
|---|---|---|
| `modal_stack` | three modal actors with different modes, one widget, depth 3, one careless client | records, count, grab, mode and focus stay right through refused grabs, destruction and pops from the middle, up to the history variables above |
| `message_tray` | three notifications of two sources (one is feedback, the others alike: symmetry), queue of 2, lists of 1; presence, fullscreen and session mode change | the banner, the lists and the queue agree; what can be shown is shown; critical ones come up; banners have a way out |
| `tray_session` | two notifications of one source: one transient, one resident with a reply entry; queue of 1; policies and the blocker change | a destroyed notification leaves the screen, also where policies, blocking and reply entries interfere |
| `tray_idle` (violated) | two notifications of one source, presence changes | finding 1 |
| `overview` | refused grabs, XDND and inner drags, no Ctrl+clicks, no mode changes | settles as asked, the grab is right, refinement of OverviewPromise with its liveness |
| `overview_locked` | all of that with Ctrl+clicks and mode changes | side effects balanced, the grab is held until the overview is gone, an overview nobody wants leaves |
| `shield` | everything on: refusals, external unlocks, drags, messages, overlaps | a black screen is watched, a locked one covered, dialogs are fresh; modes follow the curtain; a shield that was not handled roughly holds nothing when it is gone |
| `shield_overlap` (violated) | overlaps, nothing else | finding 2 |
| `end_session` | end-session dialog: two requests of three types; polkit: two requests; keyring: three questions | one answer, the one asked for, never after Cancel; every Open() replied to; the countdown ends; no prompt goes dead; what is withdrawn is answered in the end |
| `end_session_faded` (violated) | two requests of one type | finding 3 |
| `agents` | the modules of 2.2, one at a time | `AgentsAnswer`: whoever asks for secrets, a volume, a mount operation or a portal is answered or still asked, a prompt of GDM goes on and its answer goes to who asked, the network menu marks what is active, results fit the terms, extensions are enabled as wanted; `MenusFollow`: the greeter asks or lets choose; menus, lists and the panel show what there is, one menu has the grab, one item is active; `ExtensionsKeepOrder`: what is enabled before and after a change keeps its order |
| `desktop` | the modules of 2.3, one at a time | `WindowsInStep`: effects complete once, views, clones, thumbnails and backgrounds follow what they stand for; `InputInStep`: grabs end, keys type once, no application is lost, the chrome takes input where it is seen; `StepsSpareUse`: no step takes a workspace in use, switches workspaces by itself, loses the order of the sources or a folder that is not empty |

### Bounds

`MaxDepth` 3 is the least depth at which a record has two above it, the case in which the
code goes wrong; handler ids are as many. Three notifications fill a queue of two and
evict one another from a list of one; more only repeat those cases. `MaxQueue` and
`MaxPerSource` stand for 3 and 3 in the code. The policies of `tray_session` are the two
extremes, a source that may do everything and one that is switched off: under the third,
"list", a critical notification comes up as under the first and another one as under the
second; the theorems about the tray hold for all three. `MaxWatches` 1 bounds idle watches that
accumulate. In the shield two beats and one orphaned timer are enough for a timer that
fires for another locking; more of them fire the same way. `MaxRequests` 2 lets every
leftover of one request meet another one, and `MaxAsked` 2 does so for polkit's requests.

In the sums the bounds follow one rule: as many of a thing as are needed for two of them to
meet while a leftover of a third acts. So `NetworkAsks`, `VolumeTries`, `MountAsks` and `MaxCalls` (the keyring's questions) are 3 (a
cancelled request, its successor, and the one after that), `PortalAsks` 4 has two for each of
two connections, `LoginTries` 6 lets GDM's allowed failures (`LoginFailures` 2) run out twice, `MaxLists` 2 is a list that fades and one that comes,
`MaxWorkspaces` 3 has one before and one after the active workspace, `MaxBatches` 3 a timed
login begun twice over one that was cut, `MaxRegions` 2 (1 where only the geometry matters)
one region that has the pointer and one that has its clone, `MaxMonitors` 2 a primary and a
secondary one. One device with two connections
and two VPNs (`DeviceIds`, `ConnectionIds`, `VpnIds`) have the active one change while the other
is listed; `SearchTerms` has a term, two that begin with it and one that nothing matches, and `SearchKeys` 4 types over two searches whose answers are late. `ExtensionFaults` 1 lets any one call of an extension throw. Times are counted in
ticks of the smallest distance between two deadlines that the code compares: `Delay` and
`Threshold` in Greeter, `Rest` in Magnifier, `Timeout` in Layout. Lengths in Magnifier are
multiples that leave no remainder; WindowPicker computes with thousandths where the code has
floating point.

The symmetry of `message_tray` exchanges `mail` and `chat`, of the same source and in
none of the sets `Transient`, `Resident`, `Chats`; the run checks no leads-to property. No
other run uses symmetry. The two sums have CHECK_DEADLOCK FALSE: a behaviour ends where a
bound is used up.

### Fairness

Only what the main loop and mutter's frame clock do: transitions of mapped actors end
(`ShowDone`, `HideDone`, `Opened`, `Closed`), timers run out (`Timeout`, `Countdown`), an
idle runs (`HandleCancelled`), and PackageKit's D-Bus calls return, with an error if they
must (`Updated`). Each of these stays possible until it happens or another call overtakes it,
so weak fairness is enough and no more is assumed. The user, applications, the session
manager, polkit, gcr and the idle monitor owe nothing. ScreenShield has no liveness property
and states no fairness. The modules of the sums state theirs as safety: not that something
comes in the end, but that at every moment something is under way that will bring it - a
timer that runs, an animation with a handler, a call without an answer (`StepsGoOn`,
`QueuedWillRun`, `PromptGoesOn`, `EffectIsDriven`, `SlidesGoOn`). To turn it into a
leads-to takes only the fairness of the main loop stated above.

## 4. Findings

Shown by a run:

1. `tray_idle`: a notification destroyed while it has the banner, or in the queue, does not
   ask `_updateState()`; another one waits although it could be shown.
2. `shield_overlap`: a lock in the animation of `deactivate()` takes the grab, and the
   animation's end forgets to give it back.
3. `end_session_faded`: `_fadeOutDialog()` assigns to `state`, which has no setter; the
   dialog stays OPENED, and an `Open()` after it works on a transparent dialog.

### What a doc or comment says and the code does not do

Stated as operators in the modules, and in no run:

- ModalStack, `main.js:556-560`: when a record with two or more above it is removed, the saved
  focus *and the saved action mode* of every record above it are shifted, not only of the next
  one (comment at 549-551).
- `SelectedIsHighlighted` (AltTab): the window selected is not always the one highlighted.
- `EscapeKeepsGrab` (DragAndDrop), `dnd.js` around 240: Escape in the drag of a window gives
  the grab up with the button still down. `NothingLeftOnStage`: `_dragCancellable` is never
  set back, and a dragged actor stays on the stage.
- `ButtonsWork` (WindowManager): the second dialog of a window has its buttons out of step.
- `ConnectHasNetwork` (NetworkMenu): a network that vanishes stays selected.
- `FullFlushes` (NetworkMenu), `network.js:1978-1981`: a cancelled login stays in the queue
  when connectivity is full.
- `SubsearchRefines` (Search), `search.js:591` against `org.gnome.ShellSearchProvider2.xml`: a
  subsearch may be asked to refine what does not contain its results.

### Seen while modelling

Excluded by a history field of the module, or by its bounds.

**Modal stack, tray, overview, shield, dialogs.** An incorrect pop takes another client's grab;
the handler of a shifted focus forgets another record's. A banner brought back while it hides
has no click handler and may never hide again. A Ctrl+click whose grab is refused leaves
`_shown` set; the end of a drag after the session was locked leaves an overview without a
grab. User activity in the short fade cancels the completion that announces the lock; the
long lightbox may be on while the shield is not active; a "take a beat" timer fires after the
shield has gone. `Close()` leaves the countdown running; `Open()` of a dialog that is OPENED
waits for an `opened` that was emitted before. polkit: a cancellation while the session is
locked meets a null dialog; the end of a withdrawn request's helper completes the *next*
request; the idle of a request that was freed reads it. keyring: after "Passwords do not
match" the dialog stays insensitive.

**Agents and devices.** Network secrets: the notification of a cancelled request answers a
newer one; the end of a dialog's fade deletes the newer dialog's key; late output of a
cancelled VPN helper opens a dialog; a VPN helper that does not start makes `disable()`
throw, and the agent stays on with its notifications. Mounts: the mount at startup
overwrites `_activeOperations` with null; a dialog is lent to an attempt that fails before
asking; a mount removed while its content is guessed leaves its offer; `allowAutorun`
expires ten seconds after a failed attempt. GDM: giving up waits for `no-more-messages` and
then cancels a newer attempt; Escape while it waits begins two; `AccessDenied` uses the
cancellable of now. Greeter: any property change of its own session while a new one fades
out overtakes the fade, and the session that was opened is never started; the key handler of
the timed login is never disconnected, so a key after an automatic login begins another;
touch does not count as activity; a card-begun verification with the list disabled has no
cancel button; a user added while a name is asked for clears what was typed. Portal: a proxy
that comes late opens a login that is in no queue. Network menu: a connection removed while
active makes `_activeConnectionChanged` throw from then on; an active VPN without an item
throws half-way. Wi-Fi: the list is not sorted again; access points that wait for a name
keep a handler. Extensions: one loaded while locked stays in ERROR; one in ERROR stays in
the order, and a reinstalled one is there twice.

**Panel and menus.** An indicator destroyed while its menu is open leaves the banner blocked:
its container goes first, and `_onMenuSet`'s handler (`panel.js:1128`) finds it in no box. A
session mode that moves the date menu moves the banner's alignment before the menus close,
with the same effect. A menu that opened although its grab was refused unblocks the banner
when it closes under another. A destroyed active item stays `_activeMenuItem` of the menus
above it. An item added to an insensitive menu stays reactive. A menu opened again while its
box pointer falls keeps its submenus open. A loss of the focused application while the shell
has the key focus is ignored and never read again.

**Windows and workspaces.** `_minimizeWindowOverwritten` does not exist; `_minimizeWindowDone()`
is called without arguments when there is no monitor; unminimize is not killed. A switch
prepared while a cancelled gesture glides back loses windows and is never completed. A startup
sequence's position goes stale when a workspace before it goes. The thumbnails that leave are
compared and counted with the others. Window picker: a dialog announced twice is added twice; a
window dragged while its workspace is laid out anew goes back to its old slot; the close button
stays reactive after it has faded; `_closeRequested` is for ever; a row's height counts the
first window of the next row. Views: the loop of `_updateWorkspaces` does not see the last
workspace go (`workspacesView.js:257-272`), and the next one that comes gets no view; a removal
below the active workspace leaves the adjustment stale, and the next pan activates another
workspace; `workspaces-only-on-primary` set in the overview forgets scroll, gesture and drag.
Pages: a slider turned back in the frame in which it left goes on (`overviewControls.js:189`);
an apps page cut off by the closing overview stays visible under the next page. Backgrounds: a
slide show without slides never finishes loading; `notify::timezone` starts a second chain of
timers; without a monitor at the right moment the start-up never completes; a secondary
monitor's background that was loading at its end stays away. Close dialogs: see above.

**Application grid.** An uninstalled application still shown by a folder makes
`_refilterApps` throw; dragging one application out of a category folder whose own list is
empty removes the folder; a drag out of a folder that is not listed any more removes the *last*
folder (`splice(-1, 1)`); a second click while space opens leaves a handler that opens two popups
later; a popup refused its grab leaves the space open; `animate(OUT)` may wait for a
`space-closed` that was emitted before; handlers of icons are never disconnected.

**Layout, input, magnifier.** A corner whose barriers are re-made after a push stays
triggered and ignores the next visit; a keyboard box that grows while it rises stays at its old
height. A grab helper popped crosswise throws and leaves its modal grab. The keyboard's rest
timer outlives it; a slide that is overtaken displaces the window; `_longPress` stays after
extended keys were dismissed; emoji and keypad may both be visible. Overlapping activations of
input sources thaw the keyboard early; a popup older than the sources sets a stale one. The
switcher's items keep the index they were added with. A second press leaks a drag's handlers; an
icon destroyed gliding back never reports its end. Late answers of a search provider are shown;
a deferred callback that throws leaves `_beforeRedrawQueue` behind. `clearAllZoomRegions` does
not undo `setActive`: unredirection stays off and a handler stays; `isTrackingMouse` tests an id
that is never set; three getters of `magnifierDBus.js` call functions that do not exist; a
viewport that moves away from under the pointer leaves it hidden.

## 5. The proofs

`tlapm` checks all of them to the last leaf. The only assumptions are the named ones on the
constants, which TLC evaluates in the runs: `ModalsAssumption`, `TrayAssumption`,
`OverviewAssumption`, `ShieldAssumption`, `EndSessionAssumption`, `PromptsAssumption`,
`AgentsAssumption`. They say that a bound is a natural number, a switch a Boolean, that no actor
or notification is the value for none, and that every notification has a source. The proofs
hold for any number of actors, notifications, sources, requests, questions, attempts,
connections, extensions, failures and messages, of which the runs have two or three.

Each proof has the same shape. A state predicate says what every method keeps, a lemma per
method says so for an arbitrary state that has it, and a step is then the composition its
action is. The invariant is a conjunction of such predicates; what it has beyond the checked
properties is what makes it inductive, and was checked with TLC first.

**ModalStackProofs.** `IInv` conjoins the checked properties with `TypeOK`, `CountMatches`
and `Len(owed) = Len(stack)`: the count tells a last pop from another, the grab follows the
count, and the mode saved in each record is that of the record below. `GrabNeverLeaks` and
`CarefulModalHasGrab` are not inductive without `CountMatches`: `popModal()` decides by
`modalCount` and not by the stack. Proved: `TypeCorrect`, `CountAlwaysMatches`,
`NoGrabLeak`, `ModalGrab`, `ModesFollowStack`.
`FocusComesBack` is about the focus and takes a second invariant on top, `Foci`: the handler
connected for a record sits on the focus that this record would give back (`HandlersFit`),
and the key focus is never an actor that is gone (`FocusLives`). `HandlersFit` is what a
handler that runs for another record breaks (`strayForget`), and a record removed with two
above it (`deepShift`) is where `SplicedFoci` would be false.

**MessageTrayProofs.** The handlers re-enter one another, so the invariant is in layers. `Good`
holds at every step of a handler: a banner exists exactly outside of HIDDEN, the queue has no
notification twice and none that is gone or on the banner, the unredirection is held once,
a user who was idle when the banner came is watched for. `Ordered` and `Quiet` hold between two
handlers, `Fresh` at the end of `_updateState()`; `Quiet` is weaker than `Fresh` because a
source's policy and an urgency change without a call of it. `Lists` ties the sources' lists to
what lives: exactly the source's notifications, each once, at most `MaxPerSource`.
`Only(q, A)`, what is left of a list, is proved to be the elements of `q` in `A` in their order by
an induction over sets that needs no operator parameter: `FS_Injection` on an initial segment.
The action property `NeverLost` comes from `Keeps`, a relation between the states before and
after a method that is shown to compose. Proved: `TypeCorrect`, `BannersAreConsistent`,
`NothingIsLeftUndone`, `CriticalNotKeptBack`, `BannersAutoHide`, `NothingIsLost`.

**OverviewProofs.** The last signal tells which of four situations the overview is in, and
`Balanced` says what each leaves behind; `Settled`, `Answered`, `Held` and `Free` add what a
resting one owes, the latter three in the environments in which they hold. Every method is
a lemma about an arbitrary sound state, so that the actions, which call several, compose.
Proved: `TypeCorrect`, `AlwaysBalanced`, `NoRequestLost`, `GrabFollowsOverview`, `GrabHeld` and
`SignalsInOrder`, the safety part of the refinement of OverviewPromise.

**ScreenShieldProofs.** `Safe` is what nothing breaks, however roughly the shield is handled: a
locked shield is visible and modal, a dialog belongs to a locked shield and has the grab of
its own, a password that is being checked has a dialog, a lightbox is on only while user
activity is watched for. `Returning` keeps the curtain that was let go from falling on a
dialog. `Calm` is what holds until the shield is treated roughly: modes, curtain, grab and
visibility tell of each other, which is what makes "gone" mean that everything was given
back. Proved: `TypeCorrect`, `BlackScreenIsWatched`, `LockedShieldCovers`,
`DialogBelongsToItsLocking`, `ModesFollow`, `GoneHasLetGo`.

**PromptProofs: the end-session dialog.** The invariant (`IInv`) follows one answer from a button's handler or the
countdown over PackageKit to the session manager. `One` says that the answers of a
request, wherever they are, are one, and that the countdown which could give another is
stopped in time; it needs `Known` (only the remembered countdown runs), `Current` (the
buttons and the type are those asked for) and `RacedClosed`. Proved for any number of
requests: `TypeCorrect`, `GrabAlwaysFollows`, `ConfirmedOnce`, `CancelIsFinal`, `OnlyWhatWasAsked`,
`EveryOpenAnswered`.

**PromptProofs: polkit and the keyring.** polkit's queue and dialogs, and the keyring's prompt. That polkit's queue
never stands still is not inductive: `Lined` adds that a request waits at most once, that
none of those waiting has ever had a dialog (`Touched`), and that whatever is unanswered is
current or waits; `Shown` and `Waits` tie the dialog and the initiation put off by the
lock screen to the current request; `Served` says who has yet to answer it; `Own` that, until
a request is withdrawn under its helper (`severed`), every other dialog has emitted `done`
and so cannot answer for the current one. Between two requests `Served` is false for a
moment, and `ProcessNextGood` brings it back. Proved: `NobodyWaitsUnseen`, all of
`PromptsAnswer`, for any number of requests and questions.

**AgentProofs.** Eight invariants side by side, one for each subject of Agents, on the record that
is its state; two of them are the next two modules'. A request of NetworkManager (`RequestGood`): `Keyed` says that what is on screen or
runs is of the request in the table and is under the key by which `_cancelUI()` finds it, which
is why a cancelled request takes its dialog along; `Served` says who has yet to answer; `Turns`
that a request has its notification, its dialog and its helper one after another. Between the
cancellation of a request and the dialog of the next `Served` is false, and `Ready` stands for
it. A volume (`VolumeGood`): until two attempts overlap (`stranded`) only the last one runs
(`Alone`), it has the place in the table (`Tabled`), an open dialog is the one it shows or has
borrowed (`Opened`), and it asks on a dialog that reports to it (`Asked`); `Offered` must speak
of the guess under way too, and `Counted`, by the cardinality of the attempts that ended, bounds
the expirations that run. The handler of mount operations (`HandlerGood`): `Lined` says that
all calls but the current one are answered, without which a dialog taken over by a call of
another operation could answer an earlier one. The portal's queue (`PortalGood`): `Queued` adds
that a cancelled login is still queued and not being made again, and that without a proxy the
helper shows nothing. The sections of the network menu (`SectionsGood`): `Whole` is that a
device's wrapper marks the active connection if it lists it, and a VPN section likewise; within an
operation, between the change of the items or of the active connection and `_sync()`, only `Half` of it is
so. The search (`SearchGood`): `CallsKept` says that at most one call is unanswered, that it
is for the terms of now, and that at most one answer waits to be delivered; `MetasKept` that behind metas
which were cancelled, and whose end clears the screen, there are others that were not, unless the
view was cleared; `Pending` and `Answered` that the terms typed last are still searched for, by the
last of the answers, or that what was found is shown or will be. It assumes (`SearchAssumption`)
that a term which begins with another matches no more than that one does, which is what a
subsearch is by `org.gnome.ShellSearchProvider2.xml`. Proved: `NobodyIsLeftAsking`, all of
`AgentsAnswer`, for any number of requests, attempts, calls, connections, keys and extensions, and
`ExtensionsKeepTheirOrder`, the action property `ExtensionsKeepOrder`.

**ExtensionProofs.** `enableExtension()` disables what was enabled after it, enables, and enables
the rest again; each of those calls may throw, and the list it walks is the order before it began.
Loops over sequences are recursive functions in the model, and each has a rule here
(`RebaseFold`, `EnableFold`, `DisableFold`, `ReloadFold`): what holds at the start and is kept by one
turn holds at the end, by induction over the number of turns (`StepsExist`). `Only`, `IndexOf`
and the reversal of a list have lemmas of their own, so that nothing about a list is taken by
its length alone. `Good` holds between the calls of an operation: an extension that never threw
has one place in the order when it is ENABLED and none otherwise, and its code runs (`on`) exactly
then. Inside a rebase the code that runs is another one at every turn (`OnIs`), and nothing else
changes (`Calm`). `Settled`, that an extension is ENABLED exactly when it is wanted, allowed and of
the right version, is false inside an operation and comes back with its last call; `Spared` says
what a call about one extension leaves of the others. `KeepsPlaces` relates the order before and after and composes over the turns. Proved:
`ExtensionsRunAsWanted`, which puts `TypeOK`, `EnabledAsWanted` and `KeepsOrder` together for the
module's own specification.

**VerifierProofs.** A prompt never goes dead because something is under way that will bring it
on (`Underway`: a call that opens a channel, a conversation, a list to choose from) or is
waiting for messages to be read (`Awaited`: a retry, or giving up). Neither is inductive alone: a
call that returns to a cancelled attempt clears the verifier, and so `Renewed` says that behind
every cancelled call that opens a channel there is one that was not cancelled, and `Attending`
that a prompt on the screen has a cancellable which is live. That an answer goes to the verifier
which asked holds until an attempt is begun beside another (`twice`), and then needs that only
the last call is live and that nothing is asked while it is (`LastLive`, `OneTalk`). Between
`clear()`, `cancel()` and the new `begin()` none of this is so; `Cancellable` and `Gone` are what
there is instead, and `Anew` what the beginning makes of it. The handlers of `no-more-messages` run
one after the other on the state the one before left, some of them resetting everything:
`Read` says which of them may still find a prompt. Proved: `PromptIsNeverDead` (`TypeOK`,
`PromptGoesOn`, `AnswerGoesToAsker`), for any numbers of attempts and allowed failures.

What the proofs found in the models: `ScreenShield.finishing` stayed set when the dialog was
destroyed with messages pending (the code's batch goes with the dialog), and was corrected;
everything else that was proved had passed TLC and held as stated.

**Only model-checked.**

- Liveness: `KeepsPromise`'s, `UnwantedLeaves`, `DestroyedGoesAway`, `CountdownEnds`,
  `WithdrawnAreAnswered`. Fairness and ENABLED are out of the prover's reach.
- `MenusFollow`, `WindowsInStep`, `InputInStep` and `StepsSpareUse`: the modules of MCAgents and
  MCDesktop that are not in Agents, with half of the operators of the whole. Their proofs are not
  written. Greeter, GrabHelper, WindowManager and WindowPicker fold over sequences and sets with
  the operators of the community modules, which take an operator as a parameter and are out of
  the prover's reach; a proof about them begins by writing the loop as ExtensionSystem and
  UserVerifier do, as a recursive function with a rule.
- The three violated properties, by their nature.

## 6. What comes next

The components that the inventory calls hard are modelled, and the proofs cover those that hold
a grab, a lock, a request or an extension. Left, in the order of what they would say:

1. The menus and the greeter of MCAgents moved into Agents and proved, as the extension system
   and GDM's verifier were; then the modules of MCDesktop.
2. A composition of the shield, the overview and the modal stack: one grab, three clients, one
   session mode. Each is checked now against all that ModalStack may answer.
3. The states of `shell-app.c` against windows and startup sequences.

## 7. Not modelled

`PROJECT.json` lists every component with its reason. In short:

- `shell-app.c`, `shell-app-system.c`, `shell-window-tracker.c`: the states of an application
  are inputs of PanelMenus and Workspaces; usage scores are numeric.
- The sleep inhibitor (`screenShield.js:713`): an asynchronous answer kept in one field, whose
  only effect is in logind.
- Drawing, layout and geometry: St, icon grids, most of the geometry of several monitors;
  what WindowPicker and Magnifier compute is modelled.
- Mirrors of other services' state: power, Bluetooth, calendar, indicators; the notification
  daemons, whose requests MessageTray takes as inputs.
- Copies of other projects' code (the action muxer, the notification area), pure functions with
  unit tests (`js/misc`, `tests/unit`), screenshots, performance scripts, command line tools.

Three hazards in `PROJECT.json` have no property: `screenShield.js:888` (user activity cancels
the fade whose end announces the lock), `screenShield.js:713` and `shell-app.c:940`; each says why.
Inside the modelled components texts, styles, positions and sounds are left out, and what
`PROJECT.json` notes for each.
