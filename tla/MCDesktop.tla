----------------------------- MODULE MCDesktop -----------------------------
(* Windows, workspaces, switchers, drags, grabs and input, for TLC: components            *)
(* that each follow mutter or another process on their own. They share no state in the    *)
(* shell, so a behaviour is about one of them, the subject; one run goes through the      *)
(* behaviours of all.                                                                     *)
EXTENDS Integers

VARIABLES subject,   \* the component that the behaviour is about
          state      \* and its state

\* Two menus of the panel's manager; a folder's popup and the menu of an icon in it.
Clients == {"menu1", "menu2", "folder", "icon menu"}
HelperOf == [x \in Clients |-> IF x \in {"menu1", "menu2"} THEN "panel" ELSE x]

Windows == {"v", "w"}

\* The sizes of windows that layouts are tried on.
CellSizes == {<<2, 2>>, <<3, 4>>, <<8, 5>>, <<5, 2>>}

\* Two screens, and points on both.
Wide == [x |-> 160, y |-> 160]
Narrow == [x |-> 80, y |-> 160]
Points2 == {[x |-> 0, y |-> 0], [x |-> 40, y |-> 120]}
Points4 == Points2 \cup {[x |-> 40, y |-> 40], [x |-> 120, y |-> 0]}

WindowEffects == INSTANCE WindowManager WITH
  we <- state, ws <- state, cdlg <- state, MaxEffects <- 5, MaxSwitches <- 3, MaxShows <- 3
WorkspaceSwitch == INSTANCE WindowManager WITH
  we <- state, ws <- state, cdlg <- state, MaxEffects <- 5, MaxSwitches <- 3, MaxShows <- 3
Workspaces == INSTANCE Workspaces WITH wt <- state, Dialogs <- {"w"}, MaxWorkspaces <- 3
Thumbnails == INSTANCE Thumbnails WITH th <- state, MaxWorkspaces <- 3, MaxMade <- 4
AltTab == INSTANCE AltTab WITH
  alt <- state, Groups <- <<<<"a1", "a2", "a3">>, <<"b1">>>>, MaxLists <- 2
DragAndDrop == INSTANCE DragAndDrop WITH
  dnd <- state, Draggables <- {"i", "j", "w"}, Itself <- {"w"}, Manual <- {"w"},
  Presses <- 4
CloseDialog == INSTANCE WindowManager WITH
  we <- state, ws <- state, cdlg <- state, MaxEffects <- 5, MaxSwitches <- 3, MaxShows <- 3
GrabHelper == INSTANCE GrabHelper WITH gh <- state, Folders <- {"folder"}
OnScreenKeyboard == INSTANCE OnScreenKeyboard WITH
  osk <- state, keys <- state, Groups <- {"us", "ru"}
OskKeys == INSTANCE OnScreenKeyboard WITH
  keys <- state, osk <- state, Groups <- {"us", "ru"}
InputSources == INSTANCE InputSources WITH
  is <- state, Ibus <- {"py"}, Lists <- {<<"us", "py">>, <<"py", "de">>},
  Default <- "us", Windows <- {"w"}, MaxPending <- 2
DeferredWork == INSTANCE DeferredWork WITH dw <- state, Works <- {"v", "w"}, MaxQueued <- 3
WpWindows == INSTANCE WindowPicker WITH
  wp <- state, Windows <- {"a", "b"}, Parent <- <<>>, Cells <- CellSizes, MaxCells <- 4
WpChrome == INSTANCE WindowPicker WITH
  wp <- state, Windows <- {"a", "b"}, Parent <- <<>>, Cells <- CellSizes, MaxCells <- 4
WpDialogs == INSTANCE WindowPicker WITH
  wp <- state, Windows <- {"a", "d"}, Parent <- [d |-> "a"], Cells <- CellSizes,
  MaxCells <- 4
WpDrag == INSTANCE WindowPicker WITH
  wp <- state, Windows <- {"a", "d"}, Parent <- [d |-> "a"], Cells <- CellSizes,
  MaxCells <- 4
WpLayout == INSTANCE WindowPicker WITH
  wp <- state, Windows <- {"a"}, Parent <- <<>>, Cells <- CellSizes, MaxCells <- 4
WvScroll == INSTANCE WorkspacesView WITH wv <- state, Ids <- {1, 2, 3}, MaxMonitors <- 2
WvWorkspaces == INSTANCE WorkspacesView WITH wv <- state, Ids <- {1, 2, 3}, MaxMonitors <- 2
WvMonitors == INSTANCE WorkspacesView WITH wv <- state, Ids <- {1, 2, 3}, MaxMonitors <- 2
VsPages == INSTANCE ViewSelector WITH vs <- state, MaxOuts <- 2
VsSearch == INSTANCE ViewSelector WITH vs <- state, MaxOuts <- 2
VsDrag == INSTANCE ViewSelector WITH vs <- state, MaxOuts <- 2
VsPopup == INSTANCE ViewSelector WITH vs <- state, MaxOuts <- 2
BgStart == INSTANCE Backgrounds WITH
  bg <- state, Users <- {"desktop", "overview"}, Slideshows <- {}, Empty <- {},
  MaxMonitors <- 2, MaxMade <- 4
BgSlides == INSTANCE Backgrounds WITH
  bg <- state, Users <- {"desktop"}, Slideshows <- {"s"}, Empty <- {}, MaxMonitors <- 1,
  MaxMade <- 2
BgPictures == INSTANCE Backgrounds WITH
  bg <- state, Users <- {"desktop"}, Slideshows <- {"s", "e"}, Empty <- {"e"},
  MaxMonitors <- 1, MaxMade <- 2
BgMonitors == INSTANCE Backgrounds WITH
  bg <- state, Users <- {"desktop", "overview"}, Slideshows <- {"s"}, Empty <- {},
  MaxMonitors <- 2, MaxMade <- 4
PickFolders == INSTANCE AppPicker WITH
  ap <- state, Apps <- {"a", "b"}, Folders <- {"f", "g"},
  Categories <- [f |-> {}, g |-> {"b"}], MaxWaits <- 2
PickPages == INSTANCE AppPicker WITH
  ap <- state, Apps <- {"a", "b"}, Folders <- {"f", "g"},
  Categories <- [f |-> {}, g |-> {"b"}], MaxWaits <- 2
LyChrome == INSTANCE Layout WITH
  ly <- state, Extras <- {"x"}, MaxWorkspaces <- 2, Threshold <- 4, Timeout <- 2,
  MostPerEvent <- 2
LyKeyboard == INSTANCE Layout WITH
  ly <- state, Extras <- {"x"}, MaxWorkspaces <- 2, Threshold <- 4, Timeout <- 2,
  MostPerEvent <- 2
LyCorner == INSTANCE Layout WITH
  ly <- state, Extras <- {"x"}, MaxWorkspaces <- 2, Threshold <- 4, Timeout <- 2,
  MostPerEvent <- 2
MgView == INSTANCE Magnifier WITH
  mg <- state, Screens <- {Wide}, Points <- Points4, Factors <- {1, 2}, Rest <- 2,
  MaxRegions <- 1
MgScreens == INSTANCE Magnifier WITH
  mg <- state, Screens <- {Wide, Narrow}, Points <- Points4, Factors <- {2}, Rest <- 2,
  MaxRegions <- 1
MgFocus == INSTANCE Magnifier WITH
  mg <- state, Screens <- {Wide}, Points <- Points2, Factors <- {4}, Rest <- 2,
  MaxRegions <- 1
MgRegions == INSTANCE Magnifier WITH
  mg <- state, Screens <- {Wide}, Points <- Points2, Factors <- {2}, Rest <- 2,
  MaxRegions <- 2
MgProxy == INSTANCE Magnifier WITH
  mg <- state, Screens <- {Wide, Narrow}, Points <- Points2, Factors <- {1, 2},
  Rest <- 2, MaxRegions <- 1
MgHairs == INSTANCE Magnifier WITH
  mg <- state, Screens <- {Wide, Narrow}, Points <- Points2, Factors <- {2}, Rest <- 2,
  MaxRegions <- 1

MCInit ==
  \/ subject = "WindowEffects" /\ WindowEffects!EffectsInit
  \/ subject = "WorkspaceSwitch" /\ WorkspaceSwitch!SwitchInit
  \/ subject = "Workspaces" /\ Workspaces!Init
  \/ subject = "Thumbnails" /\ Thumbnails!Init
  \/ subject = "AltTab" /\ AltTab!Init
  \/ subject = "DragAndDrop" /\ DragAndDrop!Init
  \/ subject = "CloseDialog" /\ CloseDialog!DialogInit
  \/ subject = "GrabHelper" /\ GrabHelper!Init
  \/ subject = "OnScreenKeyboard" /\ OnScreenKeyboard!Init
  \/ subject = "OskKeys" /\ OskKeys!KeysInit
  \/ subject = "InputSources" /\ InputSources!Init
  \/ subject = "DeferredWork" /\ DeferredWork!Init
  \/ subject = "WpWindows" /\ WpWindows!Init
  \/ subject = "WpChrome" /\ WpChrome!Init
  \/ subject = "WpDialogs" /\ WpDialogs!Init
  \/ subject = "WpDrag" /\ WpDrag!Init
  \/ subject = "WpLayout" /\ WpLayout!Init
  \/ subject = "WvScroll" /\ WvScroll!Init
  \/ subject = "WvWorkspaces" /\ WvWorkspaces!Init
  \/ subject = "WvMonitors" /\ WvMonitors!Init
  \/ subject = "VsPages" /\ VsPages!Init
  \/ subject = "VsSearch" /\ VsSearch!Init
  \/ subject = "VsDrag" /\ VsDrag!Init
  \/ subject = "VsPopup" /\ VsPopup!Init
  \/ subject = "BgStart" /\ BgStart!Init
  \/ subject = "BgSlides" /\ BgSlides!Init
  \/ subject = "BgPictures" /\ BgPictures!Init
  \/ subject = "BgMonitors" /\ BgMonitors!Init
  \/ subject = "PickFolders" /\ PickFolders!Init
  \/ subject = "PickPages" /\ PickPages!Init
  \/ subject = "LyChrome" /\ LyChrome!Init
  \/ subject = "LyKeyboard" /\ LyKeyboard!Init
  \/ subject = "LyCorner" /\ LyCorner!Init
  \/ subject = "MgView" /\ MgView!Init
  \/ subject = "MgScreens" /\ MgScreens!Init
  \/ subject = "MgFocus" /\ MgFocus!Init
  \/ subject = "MgRegions" /\ MgRegions!Init
  \/ subject = "MgProxy" /\ MgProxy!Init
  \/ subject = "MgHairs" /\ MgHairs!Init

WpWindowsNext ==
  /\ subject = "WpWindows" /\ UNCHANGED subject
  /\ \/ WpWindows!Shown \/ WpWindows!BeforeRedraw \/ WpWindows!RepositionTimeout
     \/ WpWindows!Gone
     \/ \E w \in {"a", "b"} : WpWindows!Created(w) \/ WpWindows!AddIdle(w)
     \/ \E w \in {"a", "b"}, p \in WpWindows!Places :
          \/ WpWindows!Leaves(w, p) \/ WpWindows!Enters(w, p)
     \/ \E w \in {"a", "b"}, first \in BOOLEAN : WpWindows!Unmanaged(w, first)
     \/ \E b \in BOOLEAN : WpWindows!Constructed(b) \/ WpWindows!GeometryLater(b)

WpChromeNext ==
  /\ subject = "WpChrome" /\ UNCHANGED subject
  /\ \/ WpChrome!BeforeRedraw \/ WpChrome!DragEnd \/ WpChrome!Constructed(FALSE)
     \/ \E w \in {"a", "b"} :
          \/ WpChrome!Created(w) \/ WpChrome!IdleHide(w) \/ WpChrome!LongPressCancelled(w)
          \/ WpChrome!LongPressLater(w) \/ WpChrome!Eased(w) \/ WpChrome!Unmanaged(w, FALSE)
     \/ \E to \in {"away", "clone", "title"}, w \in {"a", "b", WpChrome!Nothing} :
          WpChrome!PointerMoves(to, w)
     \/ \E w \in {"a", "b", "entry"} : WpChrome!FocusMoves(w)

WpDialogsNext ==
  /\ subject = "WpDialogs" /\ UNCHANGED subject
  /\ \/ WpDialogs!Shown \/ WpDialogs!Gone \/ WpDialogs!BeforeRedraw
     \/ WpDialogs!GeometryChanges \/ WpDialogs!RepositionTimeout
     \/ WpDialogs!SwitchWorkspace
     \/ \E w \in {"a", "d"} :
          \/ WpDialogs!Created(w) \/ WpDialogs!AddIdle(w) \/ WpDialogs!Eased(w)
          \/ WpDialogs!SizeChanged(w) \/ WpDialogs!Leaves(w, "workspace")
          \/ WpDialogs!Enters(w, "workspace")
     \/ \E w \in {"a", "d"}, first \in BOOLEAN : WpDialogs!Unmanaged(w, first)
     \/ \E b \in BOOLEAN :
          \/ WpDialogs!Constructed(b) \/ WpDialogs!Leave(b) \/ WpDialogs!GeometryLater(b)

WpDragNext ==
  /\ subject = "WpDrag" /\ UNCHANGED subject
  /\ \/ WpDrag!BeforeRedraw \/ WpDrag!DragEnd \/ WpDrag!Constructed(FALSE) \/ WpDrag!Gone
     \/ \E w \in {"a", "d"} :
          \/ WpDrag!Created(w) \/ WpDrag!Activate(w) \/ WpDrag!DeleteAll(w)
          \/ WpDrag!LongPressCancelled(w) \/ WpDrag!LongPressLater(w) \/ WpDrag!AddIdle(w)
          \/ WpDrag!Unmanaged(w, FALSE)
     \/ \E to \in {"away", "clone", "title"}, w \in {"a", WpDrag!Nothing} :
          WpDrag!PointerMoves(to, w)

WpLayoutNext ==
  /\ subject = "WpLayout" /\ UNCHANGED subject
  /\ \/ WpLayout!TryRow \/ WpLayout!LaidOut
     \/ \E cells \in UNION {[1..n -> CellSizes] : n \in 1..4} : WpLayout!TryCells(cells)

WvScrollNext ==
  /\ subject = "WvScroll" /\ UNCHANGED subject
  /\ \/ WvScroll!Hide \/ WvScroll!PanBegin \/ WvScroll!PanEnd \/ WvScroll!GestureCancelled
     \/ WvScroll!Frame \/ WvScroll!Eased \/ WvScroll!Show(2, 1)
     \/ \E i \in 1..3 : WvScroll!Switch(i)
     \/ \E d \in {-1, 1} :
          \/ WvScroll!Pan(d) \/ WvScroll!GestureActivated(d) \/ WvScroll!Motion(d)
     \/ \E b \in BOOLEAN : WvScroll!PageOpacity(b)

WvWorkspacesNext ==
  /\ subject = "WvWorkspaces" /\ UNCHANGED subject
  /\ \/ WvWorkspaces!Hide \/ WvWorkspaces!GestureCancelled \/ WvWorkspaces!Frame
     \/ WvWorkspaces!Eased \/ WvWorkspaces!Show(1, 1)
     \/ \E i \in 1..3 :
          \/ WvWorkspaces!Switch(i) \/ WvWorkspaces!WorkspaceAdded(i)
          \/ WvWorkspaces!Reordered(i)
     \/ \E i, n \in 1..3 : WvWorkspaces!WorkspaceRemoved(i, n)
     \/ \E d \in {-1, 1} : WvWorkspaces!Motion(d)
     \/ \E b \in BOOLEAN : WvWorkspaces!Drag(b)

WvMonitorsNext ==
  /\ subject = "WvMonitors" /\ UNCHANGED subject
  /\ \/ WvMonitors!Hide \/ WvMonitors!OnlyPrimaryChanged \/ WvMonitors!PanBegin
     \/ WvMonitors!PanEnd \/ WvMonitors!Frame \/ WvMonitors!Eased
     \/ \E m, p \in 1..2 : WvMonitors!Show(m, p)
     \/ \E i \in 1..3 : WvMonitors!Switch(i)
     \/ \E d \in {-1, 1} : WvMonitors!Pan(d)
     \/ \E b \in BOOLEAN : WvMonitors!Drag(b)

VsPagesNext ==
  /\ subject = "VsPages" /\ UNCHANGED subject
  /\ \/ VsPages!Show \/ VsPages!Hide \/ VsPages!ShowDone \/ VsPages!HideDone
     \/ VsPages!ToggleAppsPage \/ VsPages!Escape \/ VsPages!Painted \/ VsPages!SpringDone
     \/ VsPages!Frame
     \/ \E p \in VsPages!Pages : VsPages!FadeEnds(p)
     \/ \E d \in VsPages!Sliders : VsPages!SliderArrives(d)

VsSearchNext ==
  /\ subject = "VsSearch" /\ UNCHANGED subject
  /\ \/ VsSearch!Show \/ VsSearch!Hide \/ VsSearch!ShowDone \/ VsSearch!HideDone
     \/ VsSearch!ShowApps \/ VsSearch!EdgeDrag \/ VsSearch!EntryKey \/ VsSearch!IconClicked
     \/ VsSearch!Painted \/ VsSearch!Frame
     \/ \E t \in {"", " ", "term"} : VsSearch!Type(t)
     \/ \E p \in VsSearch!Pages : VsSearch!FadeEnds(p)
     \/ \E d \in VsSearch!Sliders : VsSearch!SliderArrives(d)

VsDragNext ==
  /\ subject = "VsDrag" /\ UNCHANGED subject
  /\ \/ VsDrag!Show \/ VsDrag!ShowDone \/ VsDrag!Frame \/ VsDrag!Type("")
     \/ VsDrag!Type("term")
     \/ \E b \in BOOLEAN :
          \/ VsDrag!ItemDrag(b) \/ VsDrag!WindowDrag(b) \/ VsDrag!Hover(b)
          \/ VsDrag!UseWorkspaces(b)
     \/ \E p \in VsDrag!Pages : VsDrag!FadeEnds(p)
     \/ \E d \in VsDrag!Sliders : VsDrag!SliderArrives(d)

VsPopupNext ==
  /\ subject = "VsPopup" /\ UNCHANGED subject
  /\ \/ VsPopup!Show \/ VsPopup!ShowDone \/ VsPopup!ToggleApps \/ VsPopup!Painted
     \/ VsPopup!SpaceClosed \/ VsPopup!SpringDone \/ VsPopup!Frame \/ VsPopup!PopupOpens
     \/ VsPopup!PopupCloses
     \/ \E p \in VsPopup!Pages : VsPopup!FadeEnds(p)
     \/ \E d \in VsPopup!Sliders : VsPopup!SliderArrives(d)

BgStartNext ==
  /\ subject = "BgStart" /\ UNCHANGED subject
  /\ \/ BgStart!StartupIdle \/ BgStart!StartupEased
     \/ \E f \in BgStart!Files : BgStart!SetPicture(f) \/ BgStart!FileChanged(f)
     \/ \E b \in BgStart!Ids : BgStart!LoadedIdle(b) \/ BgStart!ImageLoaded(b)
     \/ \E warm \in BOOLEAN : BgStart!SystemLoaded(warm)
     \/ \E b \in BgStart!Ids, warm \in BOOLEAN : BgStart!ChangedIdle(b, warm)
     \/ \E n \in 0..2, p \in BgStart!Monitors, warm \in BOOLEAN :
          BgStart!MonitorsChanged(n, p, warm)

BgSlidesNext ==
  /\ subject = "BgSlides" /\ UNCHANGED subject
  /\ \/ BgSlides!StartupIdle \/ BgSlides!StartupEased \/ BgSlides!ZoneChanged
     \/ \E f \in BgSlides!Files : BgSlides!SetPicture(f) \/ BgSlides!FileChanged(f)
     \/ \E b \in BgSlides!Ids :
          \/ BgSlides!LoadedIdle(b) \/ BgSlides!ImageLoaded(b)
          \/ BgSlides!AnimationLoaded("s", b)
     \/ \E warm \in BOOLEAN : BgSlides!SystemLoaded(warm) \/ BgSlides!Resumed(warm)
     \/ \E b \in BgSlides!Ids, warm \in BOOLEAN :
          \/ BgSlides!ChangedIdle(b, warm) \/ BgSlides!AnimationReady(b, warm)
          \/ BgSlides!SlideTimeout(b, warm) \/ BgSlides!StrayTimeout(b, warm)

BgPicturesNext ==
  /\ subject = "BgPictures" /\ UNCHANGED subject
  /\ \/ \E f \in BgPictures!Files : BgPictures!SetPicture(f)
     \/ \E b \in BgPictures!Ids :
          \/ BgPictures!LoadedIdle(b) \/ BgPictures!ImageLoaded(b)
          \/ BgPictures!AnimationLoaded("s", b) \/ BgPictures!AnimationLoaded("e", b)
     \/ \E b \in BgPictures!Ids, warm \in BOOLEAN :
          \/ BgPictures!ChangedIdle(b, warm) \/ BgPictures!AnimationReady(b, warm)
          \/ BgPictures!SlideTimeout(b, warm)

BgMonitorsNext ==
  /\ subject = "BgMonitors" /\ UNCHANGED subject
  /\ \/ BgMonitors!SetPicture("s") \/ BgMonitors!SetPicture("image")
     \/ \E b \in BgMonitors!Ids :
          \/ BgMonitors!LoadedIdle(b) \/ BgMonitors!AnimationLoaded("s", b)
          \/ BgMonitors!ChangedIdle(b, TRUE) \/ BgMonitors!AnimationReady(b, TRUE)
     \/ \E n \in 1..2 : BgMonitors!MonitorsChanged(n, 0, TRUE)

PickFoldersNext ==
  /\ subject = "PickFolders" /\ UNCHANGED subject
  /\ \/ PickFolders!Redisplay \/ PickFolders!Cancel \/ PickFolders!DropOnGrid
     \/ PickFolders!InstalledChanged("a") \/ PickFolders!FolderAdded("g", {})
     \/ \E a \in {"a", "b"} : PickFolders!PreviewTimeout(a)
     \/ \E f \in {"f", "g"} :
          \/ PickFolders!FolderTaken(f) \/ PickFolders!Close(f)
          \/ PickFolders!DropOnFolder(f) \/ PickFolders!Open(f, FALSE, TRUE)
     \/ \E f \in {"f", "g"}, a \in {"a", "b"} :
          \/ PickFolders!DropOnIcon(a, f) \/ PickFolders!DragBegin(a, f)
     \/ \E a \in {"a", "b"} : PickFolders!DragBegin(a, PickFolders!AllView)
     \/ \E under \in SUBSET {"a", "b"} : PickFolders!Hover(under)

PickPagesNext ==
  /\ subject = "PickPages" /\ UNCHANGED subject
  /\ \/ PickPages!Redisplay \/ PickPages!RowsBack \/ PickPages!Leave \/ PickPages!PageGone
     \/ PickPages!Hidden \/ PickPages!Shown \/ PickPages!SetUsage
     \/ PickPages!FolderAdded("f", {"a"}) \/ PickPages!FolderAdded("g", {"b"})
     \/ \E granted \in BOOLEAN : PickPages!SpaceOpened(granted)
     \/ \E f \in {"f", "g"} : PickPages!FolderTaken(f) \/ PickPages!Close(f)
     \/ \E f \in {"f", "g"}, rows, granted \in BOOLEAN : PickPages!Open(f, rows, granted)
     \/ \E v \in PickPages!Views : PickPages!ShowView(v) \/ PickPages!Faded(v)

LyChromeNext ==
  /\ subject = "LyChrome" /\ UNCHANGED subject
  /\ \/ LyChrome!PushModal \/ LyChrome!PopModal \/ LyChrome!PopupChanges
     \/ LyChrome!Restacked \/ LyChrome!BeforeRedraw \/ LyChrome!StartupCompleted
     \/ \E on \in BOOLEAN :
          \/ LyChrome!SetOverview(on) \/ LyChrome!SessionUpdated(on)
          \/ LyChrome!FullscreenChanged(on) \/ LyChrome!StartupPrepared(on)
     \/ LyChrome!Appear("x") \/ LyChrome!Vanish("x") \/ LyChrome!Toggle("x")
     \/ \E n \in LyChrome!Workspaces : LyChrome!WorkspacesChanged(n)
     \/ \E h \in LyChrome!Heights : LyChrome!PanelResized(h)

LyKeyboardNext ==
  /\ subject = "LyKeyboard" /\ UNCHANGED subject
  /\ \/ LyKeyboard!PushModal \/ LyKeyboard!PopModal \/ LyKeyboard!BeforeRedraw
     \/ LyKeyboard!StartupCompleted \/ LyKeyboard!StartupPrepared(FALSE)
     \/ LyKeyboard!ShowKeyboard \/ LyKeyboard!KeyboardEased
     \/ \E on \in BOOLEAN : LyKeyboard!HideKeyboard(on)
     \/ \E h \in LyKeyboard!Heights : LyKeyboard!KeyboardResized(h)

LyCornerNext ==
  /\ subject = "LyCorner" /\ UNCHANGED subject
  /\ \/ LyCorner!PushModal \/ LyCorner!PopModal
     \/ \E on \in BOOLEAN : LyCorner!CornersChanged(on) \/ LyCorner!FullscreenChanged(on)
     \/ \E h \in LyCorner!Heights : LyCorner!PanelResized(h)
     \/ \E b \in LyCorner!Barriers : LyCorner!Left(b)
     \/ \E b \in LyCorner!Barriers, n \in 1..4, along \in {0, 4}, dt \in 0..3, w \in BOOLEAN :
          LyCorner!Hit(b, n, along, dt, w)
     \/ \E to \in {"out", "environs", "corner"}, w \in BOOLEAN :
          LyCorner!PointerMoves(to, w)

MgViewNext ==
  /\ subject = "MgView" /\ UNCHANGED subject
  /\ \/ MgView!Watched \/ MgView!ClampSet \/ MgView!PositionSet("full")
     \/ MgView!PositionSet("left")
     \/ \E b \in BOOLEAN : MgView!Switched(b)
     \/ \E p \in Points4 : MgView!PointerMoves(p)
     \/ \E f \in {1, 2} : MgView!FactorSet(f)
     \/ \E m \in {"none", "push", "centered"} : MgView!MouseModeSet(m)

MgScreensNext ==
  /\ subject = "MgScreens" /\ UNCHANGED subject
  /\ \/ MgScreens!Watched \/ MgScreens!LensSet \/ MgScreens!ClampSet
     \/ \E b \in BOOLEAN : MgScreens!Switched(b)
     \/ \E p \in Points4 :
          \/ MgScreens!PointerMoves(p) \/ MgScreens!MonitorsChanged(Wide, p)
          \/ MgScreens!MonitorsChanged(Narrow, p)
     \/ \E p \in MgScreens!Positions : MgScreens!PositionSet(p)

MgFocusNext ==
  /\ subject = "MgFocus" /\ UNCHANGED subject
  /\ \/ MgFocus!Watched \/ MgFocus!Tick \/ MgFocus!TimerFires(1)
     \/ \E b \in BOOLEAN : MgFocus!Switched(b)
     \/ \E p \in Points2 :
          \/ MgFocus!PointerMoves(p) \/ MgFocus!FocusMoves(1, p) \/ MgFocus!CaretMoves(1, p)
     \/ \E m \in {"none", "push"} : MgFocus!FocusModeSet(m) \/ MgFocus!CaretModeSet(m)

MgRegionsNext ==
  /\ subject = "MgRegions" /\ UNCHANGED subject
  /\ \/ MgRegions!Watched \/ MgRegions!GetZoomRegions \/ MgRegions!ClearAllZoomRegions
     \/ \E b \in BOOLEAN : MgRegions!Switched(b) \/ MgRegions!ShowCursor(b)
     \/ \E p \in Points2 :
          \/ MgRegions!PointerMoves(p)
          \/ MgRegions!CreateZoomRegion([x |-> 2, y |-> 2], p, p, MgRegions!Half(Wide))
     \/ \E i \in MgRegions!Ids : MgRegions!AddZoomRegion(i)

MgProxyNext ==
  /\ subject = "MgProxy" /\ UNCHANGED subject
  /\ \/ MgProxy!Watched \/ MgProxy!GetZoomRegions
     \/ MgProxy!ProxySetsFactor(1, [x |-> 2, y |-> 1])
     \/ \E b \in BOOLEAN : MgProxy!Switched(b)
     \/ \E p \in Points2 : MgProxy!PointerMoves(p) \/ MgProxy!ProxyShifts(1, p)
     \/ \E p \in Points2, screen \in {Wide, Narrow} :
          \/ MgProxy!MonitorsChanged(screen, p)
          \/ MgProxy!ProxyMoves(1, p, MgProxy!Half(screen))
     \/ \E p \in Points2, f \in {1, 2} : MgProxy!ProxySetsRoi(1, p, [x |-> f, y |-> 1])

MgHairsNext ==
  /\ subject = "MgHairs" /\ UNCHANGED subject
  /\ \/ MgHairs!Watched
     \/ \E b \in BOOLEAN : MgHairs!Switched(b)
     \/ \E p \in Points2 :
          \/ MgHairs!PointerMoves(p) \/ MgHairs!MonitorsChanged(Wide, p)
          \/ MgHairs!MonitorsChanged(Narrow, p)
     \/ \E f \in {"brightness", "contrast", "inverted"} : MgHairs!ShadeSet(f)
     \/ \E f \in {"thickness", "length", "clip"}, n \in {0, 8} : MgHairs!HairsSet(f, n)

MCNext ==
  \/ subject = "WindowEffects" /\ WindowEffects!EffectsNext /\ UNCHANGED subject
  \/ subject = "WorkspaceSwitch" /\ WorkspaceSwitch!SwitchNext /\ UNCHANGED subject
  \/ subject = "Workspaces" /\ Workspaces!Next /\ UNCHANGED subject
  \/ subject = "Thumbnails" /\ Thumbnails!Next /\ UNCHANGED subject
  \/ subject = "AltTab" /\ AltTab!Next /\ UNCHANGED subject
  \/ subject = "DragAndDrop" /\ DragAndDrop!Next /\ UNCHANGED subject
  \/ subject = "CloseDialog" /\ CloseDialog!DialogNext /\ UNCHANGED subject
  \/ subject = "GrabHelper" /\ GrabHelper!Next /\ UNCHANGED subject
  \/ subject = "OnScreenKeyboard" /\ OnScreenKeyboard!Next /\ UNCHANGED subject
  \/ subject = "OskKeys" /\ OskKeys!KeysNext /\ UNCHANGED subject
  \/ subject = "InputSources" /\ InputSources!Next /\ UNCHANGED subject
  \/ subject = "DeferredWork" /\ DeferredWork!Next /\ UNCHANGED subject
  \/ WpWindowsNext \/ WpChromeNext \/ WpDialogsNext \/ WpDragNext \/ WpLayoutNext
  \/ WvScrollNext \/ WvWorkspacesNext \/ WvMonitorsNext \/ VsPagesNext \/ VsSearchNext
  \/ VsDragNext \/ VsPopupNext \/ BgStartNext \/ BgSlidesNext \/ BgPicturesNext
  \/ BgMonitorsNext \/ PickFoldersNext \/ PickPagesNext \/ LyChromeNext \/ LyKeyboardNext
  \/ LyCornerNext \/ MgViewNext \/ MgScreensNext \/ MgFocusNext \/ MgRegionsNext
  \/ MgProxyNext \/ MgHairsNext

MCSpec == MCInit /\ [][MCNext]_<<subject, state>>
-----------------------------------------------------------------------------
\* What mutter waits for will be completed, and once; workspaces, thumbnails, the switcher's
\* lists, the clones of windows, the views of the overview and the backgrounds follow what
\* they stand for however changes, animations and timers overlap. Every part is stated, with
\* what it excepts, in its component's module.
WindowsInStep ==
  /\ subject = "WindowEffects" => /\ WindowEffects!EffectsTypeOK
                                  /\ WindowEffects!MutterAgrees
                                  /\ WindowEffects!EffectIsDriven
  /\ subject = "WorkspaceSwitch" => /\ WorkspaceSwitch!SwitchTypeOK
                                    /\ WorkspaceSwitch!SwitchCompletes
                                    /\ WorkspaceSwitch!NoWindowLost
  /\ subject = "Workspaces" => /\ Workspaces!TypeOK
                               /\ Workspaces!OneFreeAtTheEnd
  /\ subject = "Thumbnails" => /\ Thumbnails!TypeOK
                               /\ Thumbnails!ThumbnailsFollow
                               /\ Thumbnails!StepsGoOn
  /\ subject = "AltTab" => /\ AltTab!TypeOK
                           /\ AltTab!SelectionStands
  /\ subject = "CloseDialog" => /\ CloseDialog!DialogTypeOK
                                /\ CloseDialog!FirstButtonsWork
  /\ subject = "WpWindows" => /\ WpWindows!TypeOK
                              /\ WpWindows!ClonesFollow
                              /\ WpWindows!EachInItsSlot
                              /\ WpWindows!ChromeGoes
  /\ subject = "WpChrome" => /\ WpChrome!TypeOK
                             /\ WpChrome!ClonesFollow
                             /\ WpChrome!EachInItsSlot
                             /\ WpChrome!ChromeGoes
  /\ subject = "WpDialogs" => /\ WpDialogs!TypeOK
                              /\ WpDialogs!ClonesFollow
                              /\ WpDialogs!EachInItsSlot
                              /\ WpDialogs!ChromeGoes
  /\ subject = "WpDrag" => /\ WpDrag!TypeOK
                           /\ WpDrag!ClonesFollow
                           /\ WpDrag!EachInItsSlot
                           /\ WpDrag!ChromeGoes
  /\ subject = "WpLayout" => /\ WpLayout!TypeOK
                             /\ WpLayout!LayoutFits
  /\ subject = "WvScroll" => /\ WvScroll!TypeOK
                             /\ WvScroll!ViewsFollow
                             /\ WvScroll!SettlesOnActive
  /\ subject = "WvWorkspaces" => /\ WvWorkspaces!TypeOK
                                 /\ WvWorkspaces!ViewsFollow
                                 /\ WvWorkspaces!SettlesOnActive
  /\ subject = "WvMonitors" => /\ WvMonitors!TypeOK
                               /\ WvMonitors!ViewsFollow
                               /\ WvMonitors!SettlesOnActive
  /\ subject = "VsPages" => /\ VsPages!TypeOK
                            /\ VsPages!PageSettles
                            /\ VsPages!SlidersFollow
  /\ subject = "VsSearch" => /\ VsSearch!TypeOK
                             /\ VsSearch!PageSettles
                             /\ VsSearch!SlidersFollow
  /\ subject = "VsDrag" => /\ VsDrag!TypeOK
                           /\ VsDrag!PageSettles
                           /\ VsDrag!SlidersFollow
  /\ subject = "VsPopup" => /\ VsPopup!TypeOK
                            /\ VsPopup!PageSettles
                            /\ VsPopup!SlidersFollow
  /\ subject = "BgStart" => /\ BgStart!TypeOK
                            /\ BgStart!ManagersFollow
                            /\ BgStart!MonitorsExist
                            /\ BgStart!SecondaryShown
  /\ subject = "BgSlides" => /\ BgSlides!TypeOK
                             /\ BgSlides!ManagersFollow
                             /\ BgSlides!SlidesGoOn
  /\ subject = "BgPictures" => /\ BgPictures!TypeOK
                               /\ BgPictures!ManagersFollow
                               /\ BgPictures!SlidesGoOn
  /\ subject = "BgMonitors" => /\ BgMonitors!TypeOK
                               /\ BgMonitors!ManagersFollow
                               /\ BgMonitors!MonitorsExist
                               /\ BgMonitors!SlidesGoOn

\* Grabs end with what they were for, the keyboards show and type what was asked for, the
\* engine is that of the input source in use, and work that is queued will be done; no drag
\* or popup loses an application, the chrome takes input where it is seen, and what is
\* magnified is where the pointer is.
InputInStep ==
  /\ subject = "DragAndDrop" => /\ DragAndDrop!TypeOK
                                /\ DragAndDrop!GrabEnds
                                /\ DragAndDrop!BeginsAreEnded
  /\ subject = "GrabHelper" => /\ GrabHelper!TypeOK
                               /\ GrabHelper!HelperHoldsGrab
                               /\ GrabHelper!OpenIsGrabbed
  /\ subject = "OnScreenKeyboard" => /\ OnScreenKeyboard!TypeOK
                                     /\ OnScreenKeyboard!SettlesAsAsked
                                     /\ OnScreenKeyboard!WindowGivenBack
  /\ subject = "OskKeys" => /\ OskKeys!KeysTypeOK
                            /\ OskKeys!OnePage
                            /\ OskKeys!TapTypesOnce
  /\ subject = "InputSources" => /\ InputSources!TypeOK
                                 /\ InputSources!CurrentLeads
                                 /\ InputSources!EngineFollows
  /\ subject = "DeferredWork" => /\ DeferredWork!TypeOK
                                 /\ DeferredWork!QueuedWillRun
  /\ subject = "PickFolders" => /\ PickFolders!TypeOK
                                /\ PickFolders!NothingLost
                                /\ PickFolders!PopupsBlock
                                /\ PickFolders!HiddenHoldsNothing
                                /\ PickFolders!DragsEnd
  /\ subject = "PickPages" => /\ PickPages!TypeOK
                              /\ PickPages!NothingLost
                              /\ PickPages!PopupsBlock
                              /\ PickPages!HiddenHoldsNothing
                              /\ PickPages!DragsEnd
  /\ subject = "LyChrome" => /\ LyChrome!TypeOK
                             /\ LyChrome!RegionsFollow
  /\ subject = "LyKeyboard" => /\ LyKeyboard!TypeOK
                               /\ LyKeyboard!KeyboardFits
  /\ subject = "LyCorner" => /\ LyCorner!TypeOK
                             /\ LyCorner!PressureIsOfLate
  /\ subject = "MgView" => /\ MgView!TypeOK
                           /\ MgView!FitsScreen
                           /\ MgView!PointerInPlace
                           /\ MgView!PointerSeen
                           /\ MgView!OneOriginal
  /\ subject = "MgScreens" => /\ MgScreens!TypeOK
                              /\ MgScreens!FitsScreen
                              /\ MgScreens!PointerInPlace
                              /\ MgScreens!PointerSeen
  /\ subject = "MgFocus" => /\ MgFocus!TypeOK
                            /\ MgFocus!FitsScreen
  /\ subject = "MgRegions" => /\ MgRegions!TypeOK
                              /\ MgRegions!FitsScreen
                              /\ MgRegions!OneOriginal
  /\ subject = "MgProxy" => /\ MgProxy!TypeOK
                            /\ MgProxy!FitsScreen
                            /\ MgProxy!PointerInPlace
  /\ subject = "MgHairs" => /\ MgHairs!TypeOK
                            /\ MgHairs!PointerInPlace

\* A check of the workspaces takes none that is in use, and no ease or reorder takes the active
\* one away; leaving a password entry brings the sources back in their order, and a drag leaves
\* the folders that it did not empty.
StepsSpareUse == [][
  /\ subject = "Workspaces" => Workspaces!SparesUse
  /\ subject = "InputSources" => InputSources!Restores
  /\ subject = "WvScroll" => WvScroll!SparesActive
  /\ subject = "WvWorkspaces" => WvWorkspaces!SparesActive
  /\ subject = "WvMonitors" => WvMonitors!SparesActive
  /\ subject = "PickFolders" => PickFolders!SparesFolders
  /\ subject = "PickPages" => PickPages!SparesFolders]_state

=============================================================================
