----------------------------- MODULE Workspaces -----------------------------
(***************************************************************************)
(* The WorkspaceTracker of windowManager.js: it keeps one empty workspace  *)
(* at the end and removes those that became empty, in a check that is      *)
(* queued by whatever may change which are. Windows, startup sequences,    *)
(* drops that insert a workspace, timers and the user act at any time      *)
(* between the queueing and the check.                                     *)
(***************************************************************************)
EXTENDS Integers, Sequences, FiniteSetsExt

CONSTANTS Windows, Dialogs,   \* Dialogs: also splash screens, whose removal has a grace
          MaxWorkspaces       \* bound: the workspaces there are at a time

VARIABLE wt   \* mutter's workspaces and windows, and the tracker

wtVars == <<wt>>

Workspace == 1..MaxWorkspaces   \* objects, used again when they have gone
Nowhere == 0
NoWindow == "none"

State == [list    : Seq(Workspace),                    \* mutter's, and _workspaces
          on      : [Windows -> Workspace \cup {Nowhere}],
          active  : Workspace,
          dynamic : BOOLEAN,                           \* the dynamic-workspaces setting
          queued  : BOOLEAN,                           \* _checkWorkspacesId
          removed : [Workspace -> Dialogs \cup {NoWindow}],    \* _lastRemovedWindow, if one
          graces  : SUBSET (Workspace \X Dialogs),     \* LAST_WINDOW_GRACE_TIME running
          kept    : SUBSET Workspace,                  \* _keepAliveId
          launch  : 0..MaxWorkspaces]                  \* a startup sequence, on this position

Init == wt = [list |-> <<1>>, on |-> [w \in Windows |-> Nowhere], active |-> 1, dynamic |-> TRUE,
              queued |-> TRUE, removed |-> [s \in Workspace |-> NoWindow], graces |-> {},
              kept |-> {}, launch |-> 0]
-----------------------------------------------------------------------------
Listed(u) == {u.list[i] : i \in DOMAIN u.list}
IndexOf(u, s) == CHOOSE i \in DOMAIN u.list : u.list[i] = s
HasWindow(u, s) == \E w \in Windows : u.on[w] = s
Queue(u) == [u EXCEPT !.queued = TRUE]

\* append_new_workspace(): _nWorkspacesChanged() follows the list, and queues unless a
\* check runs.
Append1(u) == [u EXCEPT !.list = Append(@, CHOOSE s \in Workspace : s \notin Listed(u))]
CanAppend(u) == Len(u.list) < MaxWorkspaces

\* remove_workspace(): mutter moves windows that are left to a neighbour; the timers of
\* the workspace that has gone can only queue one more check.
Remove(u, s) ==
  LET i == IndexOf(u, s)
      neighbour == IF i > 1 THEN u.list[i - 1] ELSE u.list[2]
      here == IF u.active = s THEN neighbour ELSE u.active
  IN [u EXCEPT !.list = SubSeq(@, 1, i - 1) \o SubSeq(@, i + 1, Len(@)),
               !.on = [w \in Windows |-> IF @[w] = s THEN neighbour ELSE @[w]],
               !.active = here, !.removed[s] = NoWindow, !.kept = @ \ {s},
               !.graces = {g \in @ : g[1] # s}]

\* Mutant of InUse: the workspace of an application that is starting.
InUseNow(u, i) ==
  \/ HasWindow(u, u.list[i])
  \/ u.removed[u.list[i]] # NoWindow
  \/ u.list[i] \in u.kept

\* What _checkWorkspaces() does not call empty.
InUse(u, i) ==
  \/ HasWindow(u, u.list[i])
  \/ u.removed[u.list[i]] # NoWindow
  \/ u.list[i] \in u.kept
  \/ u.launch = i

LastInUse(u) == LET used == {i \in DOMAIN u.list : InUse(u, i)}
                IN IF used = {} THEN 0 ELSE Max(used)

\* A startup sequence may be on the position after the last, as when a workspace before
\* it went.
MoreNeeded(u) == u.launch = Len(u.list) + 1 \/ InUse(u, Len(u.list))

\* _checkWorkspaces(): one more workspace if the last is in use, then those that are not
\* go, except the first after the last in use and the active one.
Check ==
  /\ wt.queued
  /\ wt.dynamic /\ MoreNeeded(wt) => CanAppend(wt)
  /\ LET u == IF MoreNeeded(wt) THEN Append1(wt) ELSE wt
         spare == {i \in DOMAIN u.list : ~InUse(u, i) /\ i # LastInUse(u) + 1}
         gone == {u.list[i] : i \in spare} \ {wt.active}
     IN wt' = IF ~wt.dynamic THEN [wt EXCEPT !.queued = FALSE]
              ELSE [FoldSet(LAMBDA s, v : Remove(v, s), u, gone) EXCEPT !.queued = FALSE]

\* A window leaves its workspace: _windowRemoved(), whose timer can only queue a check
\* more if the window is no dialog; one arrives: 'window-added'.
Left(u, w) ==
  IF u.on[w] = Nowhere THEN u
  ELSE [Queue(u) EXCEPT !.on[w] = Nowhere,
                        !.removed[u.on[w]] = IF w \in Dialogs THEN w ELSE NoWindow,
                        !.graces = IF w \in Dialogs THEN @ \cup {<<u.on[w], w>>} ELSE @]
Moved(u, w, s) == IF u.on[w] = s THEN u ELSE [Queue(Left(u, w)) EXCEPT !.on[w] = s]

PutWindow(w, s) == s \in Listed(wt) /\ wt.on[w] # s /\ wt' = Moved(wt, w, s)
CloseWindow(w) == wt.on[w] # Nowhere /\ wt' = Left(wt, w)

\* Mutant of GraceOver: the check is left to the next event.
GraceOverQuietly(s, w) ==
  /\ <<s, w>> \in wt.graces
  /\ LET u == [wt EXCEPT !.graces = @ \ {<<s, w>>}]
     IN wt' = IF u.removed[s] = w THEN [u EXCEPT !.removed[s] = NoWindow] ELSE u

\* The time a workspace has after its last window: another window may have left since.
GraceOver(s, w) ==
  /\ <<s, w>> \in wt.graces
  /\ LET u == [wt EXCEPT !.graces = @ \ {<<s, w>>}]
     IN wt' = IF u.removed[s] = w THEN [Queue(u) EXCEPT !.removed[s] = NoWindow] ELSE u

SwitchTo(s) == s \in Listed(wt) /\ s # wt.active /\ wt' = [Queue(wt) EXCEPT !.active = s]

\* A startup sequence, known by the position it was started on, begins or ends.
Launch(i) == wt.launch = 0 /\ i \in DOMAIN wt.list /\ wt' = [Queue(wt) EXCEPT !.launch = i]
Launched == wt.launch # 0 /\ wt' = [Queue(wt) EXCEPT !.launch = 0]

\* insertWorkspace(): the windows from there on move one workspace further, the active
\* workspace with them.
Inserted(u, i) ==
  LET v == Append1(u)
      Shift(w, x) == IF x.on[w] = Nowhere \/ IndexOf(u, u.on[w]) < i THEN x
                     ELSE Moved(x, w, v.list[IndexOf(u, u.on[w]) + 1])
      shifted == FoldSet(Shift, Queue(v), Windows)
  IN IF IndexOf(u, u.active) < i THEN shifted
     ELSE [shifted EXCEPT !.active = v.list[IndexOf(u, u.active) + 1]]

\* A drop between two thumbnails: of a window, which then moves to the new workspace, or
\* of an application, for which it is kept a moment.
DropWindow(i, w) ==
  /\ wt.dynamic /\ CanAppend(wt) /\ i \in DOMAIN wt.list /\ wt.on[w] # Nowhere
  /\ wt' = LET u == Inserted(wt, i) IN Moved(u, w, u.list[i])

DropApp(i) ==
  /\ wt.dynamic /\ CanAppend(wt) /\ i \in DOMAIN wt.list
  /\ wt' = LET u == Inserted(wt, i) IN [u EXCEPT !.kept = @ \cup {u.list[i]}]

KeptLongEnough(s) == s \in wt.kept /\ wt' = [Queue(wt) EXCEPT !.kept = @ \ {s}]

\* The setting changes; without dynamic workspaces the user adds and removes them.
SetDynamic == wt' = [Queue(wt) EXCEPT !.dynamic = ~@]
SetCount ==
  /\ ~wt.dynamic
  /\ \/ CanAppend(wt) /\ wt' = Queue(Append1(wt))
     \/ Len(wt.list) > 1 /\ wt' = Queue(Remove(wt, wt.list[Len(wt.list)]))

Next == \/ Check \/ Launched \/ SetDynamic \/ SetCount
        \/ \E w \in Windows : CloseWindow(w)
        \/ \E w \in Windows, s \in Workspace : PutWindow(w, s) \/ GraceOver(s, w)
        \/ \E s \in Workspace : SwitchTo(s) \/ KeptLongEnough(s)
        \/ \E i \in Workspace : Launch(i) \/ DropApp(i)
        \/ \E i \in Workspace, w \in Windows : DropWindow(i, w)

Spec == Init /\ [][Next]_wtVars
-----------------------------------------------------------------------------
TypeOK == wt \in State

\* With nothing left to check the last workspace is free, and of the others only the
\* active one, the first after the last in use and one kept for a drop may be empty:
\* whatever makes a workspace empty also queues the check that removes it.
\* While an application starts its position counts, which goes stale when a workspace
\* before it goes.
OneFreeAtTheEnd == wt.dynamic /\ ~wt.queued /\ wt.launch = 0 =>
  LET n == Len(wt.list)
  IN /\ ~HasWindow(wt, wt.list[n])
     /\ \A i \in 1..n : InUse(wt, i) \/ wt.list[i] = wt.active \/ i = LastInUse(wt) + 1

\* A check takes no workspace from under a window, from under the user, from a window
\* that is about to follow its splash screen, from a drop, or from the position an
\* application is starting on.
SparesUse == wt.queued /\ ~wt'.queued =>
  /\ wt'.on = wt.on /\ wt'.active = wt.active
  /\ \A s \in Listed(wt) \ Listed(wt') :
       s \notin wt.kept /\ wt.removed[s] = NoWindow /\ IndexOf(wt, s) # wt.launch
CheckSparesUse == [][SparesUse]_wtVars
=============================================================================
