------------------------------ MODULE MCAgents ------------------------------
(* The agents and the devices, for TLC: the components of Agents, through which the     *)
(* rest of the system asks the user, the greeter, and the menus and dialogs that show   *)
(* what there is. They share no state in the shell, so a behaviour is about one of      *)
(* them, the subject; one run goes through the behaviours of all. Each has as its bound *)
(* what makes two of its callers meet.                                                  *)
EXTENDS Agents

AccessPoints == {"p1", "p2", "q1", "r1"}
NetworkOf == [ap \in AccessPoints |-> CASE ap = "q1" -> "q" [] ap = "r1" -> "r" [] OTHER -> "p"]
StrengthOf == [ap \in AccessPoints |-> CASE ap = "p1" -> 1 [] ap = "p2" -> 3 [] OTHER -> 2]

\* Typing a letter more refines what is found.
TypedTerms == {"a", "ab", "ac", "d"}
LongerTerms == {<<"a", "ab">>, <<"a", "ac">>}
MatchesOf == [t \in TypedTerms |->
  CASE t = "a" -> {"x", "y"} [] t = "ab" -> {"x"} [] t = "ac" -> {"y"} [] t = "d" -> {}]

WirelessDialog == INSTANCE NetworkMenu WITH
  wd <- state, APs <- AccessPoints, NetOf <- NetworkOf, Strength <- StrengthOf,
  Known <- {"p", "r"}, ns <- state, portal <- state, Devices <- {}, Connections <- {},
  Vpns <- {}, Paths <- {}, MaxAsks <- 0
GrSession == INSTANCE Greeter WITH
  gr <- state, Users <- {"u", "v"}, Timed <- "u", Delay <- 4, Threshold <- 2,
  MaxBatches <- 3
GrTimed == INSTANCE Greeter WITH
  gr <- state, Users <- {"u"}, Timed <- "u", Delay <- 4, Threshold <- 2, MaxBatches <- 3
GrSoon == INSTANCE Greeter WITH
  gr <- state, Users <- {"u"}, Timed <- "u", Delay <- 2, Threshold <- 2, MaxBatches <- 3
PmPanel == INSTANCE PanelMenus WITH
  pm <- state, Extra <- {"ext"}, Apps <- {"p", "q"}, Actioned <- {"q"}
PmItems == INSTANCE PanelMenus WITH
  pm <- state, Extra <- {}, Apps <- {"p", "q"}, Actioned <- {"q"}
PmSensitive == INSTANCE PanelMenus WITH
  pm <- state, Extra <- {}, Apps <- {"p", "q"}, Actioned <- {"q"}
PmButton == INSTANCE PanelMenus WITH
  pm <- state, Extra <- {}, Apps <- {"p", "q"}, Actioned <- {"q"}
PmApp == INSTANCE PanelMenus WITH pm <- state, Extra <- {}, Apps <- {"p"}, Actioned <- {"p"}

MCInit ==
  \/ AgentsInit
  \/ subject = "WirelessDialog" /\ WirelessDialog!DialogInit
  \/ subject = "GrSession" /\ GrSession!Init
  \/ subject = "GrTimed" /\ GrTimed!Init
  \/ subject = "GrSoon" /\ GrSoon!Init
  \/ subject = "PmPanel" /\ PmPanel!Init
  \/ subject = "PmItems" /\ PmItems!Init
  \/ subject = "PmSensitive" /\ PmSensitive!Init
  \/ subject = "PmButton" /\ PmButton!Init
  \/ subject = "PmApp" /\ PmApp!Init

GrSessionNext ==
  /\ subject = "GrSession" /\ UNCHANGED subject
  /\ \/ GrSession!StartupComplete \/ GrSession!SettingChanged \/ GrSession!ManagerLoaded
     \/ GrSession!LoadIdle \/ GrSession!NotListed \/ GrSession!VerificationFailed
     \/ GrSession!VerificationComplete \/ GrSession!ToggleMenu \/ GrSession!SelectSession
     \/ GrSession!SessionOpened \/ GrSession!MessagesRead \/ GrSession!Activated
     \/ GrSession!Faded
     \/ \E u \in {"u", "v"} :
          \/ GrSession!UserAdded(u) \/ GrSession!UserRemoved(u) \/ GrSession!UserChanged(u)
          \/ GrSession!PickUser(u) \/ GrSession!NameEntered(u)
     \/ \E b \in BOOLEAN : GrSession!Escape(b) \/ GrSession!VerifierReset(b)
     \/ \E b, m \in BOOLEAN : GrSession!Prompted(b, m)

GrTimedNext ==
  /\ subject = "GrTimed" /\ UNCHANGED subject
  /\ \/ GrTimed!StartupComplete \/ GrTimed!ManagerLoaded \/ GrTimed!TimedLoginRequested
     \/ GrTimed!Pressed \/ GrTimed!Tick \/ GrTimed!Prompted(FALSE, FALSE)
     \/ GrTimed!UserAdded("u") \/ GrTimed!UserRemoved("u") \/ GrTimed!UserChanged("u")
     \/ GrTimed!PickUser("u")
     \/ \E i \in 1..3 : GrTimed!IdleTimeout(i) \/ GrTimed!IndicatorFull(i)

GrSoonNext ==
  /\ subject = "GrSoon" /\ UNCHANGED subject
  /\ \/ GrSoon!StartupComplete \/ GrSoon!ManagerLoaded \/ GrSoon!TimedLoginRequested
     \/ GrSoon!Pressed \/ GrSoon!Tick \/ GrSoon!Prompted(FALSE, FALSE)
     \/ GrSoon!UserAdded("u") \/ GrSoon!UserRemoved("u") \/ GrSoon!UserChanged("u")
     \/ GrSoon!PickUser("u")
     \/ \E i \in 1..3 : GrSoon!IdleTimeout(i) \/ GrSoon!IndicatorFull(i)

PmPanelNext ==
  /\ subject = "PmPanel" /\ UNCHANGED subject
  /\ \/ PmPanel!UserUngrabs \/ PmPanel!CloseCalendar \/ PmPanel!Destroy("ext")
     \/ PmPanel!ShowHide("ext")
     \/ \E b \in BOOLEAN, r \in PmPanel!Roles \ {"appMenu"} :
          \/ PmPanel!Press(r, b) \/ PmPanel!SourceKey(r, b) \/ PmPanel!SourceEnter(r, b)
          \/ PmPanel!KeyBinding(r, b)
     \/ \E m \in PmPanel!Menus \ {"appMenu"} : PmPanel!Pointed(m)
     \/ \E m \in PmPanel!Modes : PmPanel!SetMode(m)
     \/ \E b \in PmPanel!Boxes : PmPanel!AddToStatusArea("ext", b)

PmItemsNext ==
  /\ subject = "PmItems" /\ UNCHANGED subject
  /\ \/ PmItems!UserUngrabs \/ PmItems!HoverLeaves \/ PmItems!FocusLeaves
     \/ PmItems!Press("aggregateMenu", TRUE) \/ PmItems!SetMode("user")
     \/ PmItems!SetMode("gdm") \/ PmItems!Pointed("aggregateMenu")
     \/ \E i \in PmItems!Items :
          \/ PmItems!HoverEnters(i) \/ PmItems!KeyFocus(i) \/ PmItems!ItemActivated(i)
          \/ PmItems!RemoveItem(i) \/ PmItems!AddItem(i)
     \/ \E i \in PmItems!Subs :
          \/ PmItems!LeftKey(i) \/ PmItems!Slid(i) \/ PmItems!Clicked(i, TRUE)
          \/ PmItems!Clicked(i, FALSE)

PmSensitiveNext ==
  /\ subject = "PmSensitive" /\ UNCHANGED subject
  /\ \/ PmSensitive!Press("aggregateMenu", TRUE) \/ PmSensitive!Pointed("aggregateMenu")
     \/ \E i \in PmSensitive!Items :
          \/ PmSensitive!HoverEnters(i) \/ PmSensitive!RemoveItem(i)
          \/ PmSensitive!AddItem(i)
     \/ \E i \in PmSensitive!Subs : PmSensitive!Slid(i) \/ PmSensitive!Clicked(i, FALSE)
     \/ \E i \in PmSensitive!Items, b \in BOOLEAN : PmSensitive!SetSensitive(i, b)
     \/ \E c \in {"menu", "section"}, b \in BOOLEAN : PmSensitive!SetMenuSensitive(c, b)

PmButtonNext ==
  /\ subject = "PmButton" /\ UNCHANGED subject
  /\ \/ PmButton!FadeDone \/ PmButton!OverviewToggles \/ PmButton!Press("appMenu", TRUE)
     \/ PmButton!Pointed("appMenu")
     \/ \E a \in {"p", "q"}, st \in {"stopped", "starting", "running"}, b \in BOOLEAN :
          PmButton!StateChanges(a, st, b)
     \/ \E a \in {"p", "q", PmButton!None}, b \in BOOLEAN : PmButton!FocusAppChanged(a, b)
     \/ \E running \in SUBSET {"p", "q"} : PmButton!SwitchWorkspace(running)

PmAppNext ==
  /\ subject = "PmApp" /\ UNCHANGED subject
  /\ \/ PmApp!UserUngrabs \/ PmApp!FadeDone \/ PmApp!OverviewToggles
     \/ PmApp!InstalledChanged \/ PmApp!DragOver \/ PmApp!Press("appMenu", TRUE)
     \/ PmApp!SetMode("user") \/ PmApp!SetMode("lock-screen") \/ PmApp!Pointed("appMenu")
     \/ PmApp!BusyChanges("p")
     \/ \E st \in {"stopped", "starting", "running"} : PmApp!StateChanges("p", st, TRUE)
     \/ \E a \in {"p", PmApp!None}, b \in BOOLEAN : PmApp!FocusAppChanged(a, b)
     \/ \E b \in BOOLEAN : PmApp!XdndTimeout(b)

MCNext ==
  \/ AgentsNext
  \/ subject = "WirelessDialog" /\ WirelessDialog!DialogNext /\ UNCHANGED subject
  \/ GrSessionNext \/ GrTimedNext \/ GrSoonNext \/ PmPanelNext \/ PmItemsNext
  \/ PmSensitiveNext \/ PmButtonNext \/ PmAppNext

MCSpec == MCInit /\ [][MCNext]_<<subject, state>>
-----------------------------------------------------------------------------
\* What the menus and dialogs offer and mark is what there is, one menu of the panel has the
\* grab and one item is active, in whatever order things come, change and go; the greeter
\* asks or lets choose, starts what it opened, and logs nobody in who is there. Every part is
\* stated, with what it excepts, in its component's module.
MenusFollow ==
  /\ subject = "GrSession" => /\ GrSession!TypeOK
                              /\ GrSession!ListOrPrompt
                              /\ GrSession!OpenedIsStarted
  /\ subject = "GrTimed" => /\ GrTimed!TypeOK
                            /\ GrTimed!ListOrPrompt
                            /\ GrTimed!AutoLoginWaits
  /\ subject = "GrSoon" => /\ GrSoon!TypeOK
                           /\ GrSoon!ListOrPrompt
                           /\ GrSoon!AutoLoginWaits
  /\ subject = "WirelessDialog" => /\ WirelessDialog!DialogTypeOK
                                   /\ WirelessDialog!ListFollows
  /\ subject = "PmPanel" => /\ PmPanel!TypeOK
                            /\ PmPanel!OneMenuGrabs
                            /\ PmPanel!BannerFollows
                            /\ PmPanel!PanelFollowsMode
  /\ subject = "PmItems" => /\ PmItems!TypeOK
                            /\ PmItems!OneMenuGrabs
                            /\ PmItems!ActiveIsOne
                            /\ PmItems!SubmenusFollow
  /\ subject = "PmSensitive" => /\ PmSensitive!TypeOK
                                /\ PmSensitive!ActiveIsOne
                                /\ PmSensitive!SubmenusFollow
  /\ subject = "PmButton" => /\ PmButton!TypeOK
                             /\ PmButton!OneMenuGrabs
                             /\ PmButton!AppMenuFollows
  /\ subject = "PmApp" => /\ PmApp!TypeOK
                          /\ PmApp!OneMenuGrabs
                          /\ PmApp!PanelFollowsMode
                          /\ PmApp!AppMenuFollows
                          /\ PmApp!SeparatorsFit
=============================================================================
