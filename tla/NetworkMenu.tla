---------------------------- MODULE NetworkMenu ----------------------------
(***************************************************************************)
(* The network menu, the logins to captive portals and the dialog that     *)
(* lists the wireless networks, all of status/network.js. They share no    *)
(* state.                                                                  *)
(***************************************************************************)
EXTENDS Integers, SequencesExt, FiniteSets

(***************************************************************************)
(* The devices of the menu and the section of the VPNs: an item for every  *)
(* connection that is valid for a device, and the one that is active       *)
(* marked, while NetworkManager adds, changes and removes devices and      *)
(* connections and activates them.                                         *)
(***************************************************************************)
CONSTANTS Devices,      \* wired and modem devices, of one category
          Connections,  \* those of that category
          Vpns          \* those of VPNs

VARIABLE ns   \* what NetworkManager has, and what the menu shows

nsVars == <<ns>>

None == "none"
Wrapper == [items : SUBSET Connections,
            section : Connections \cup {None},   \* _activeConnection of the section
            marked : SUBSET Connections,         \* the items with one
            failed : BOOLEAN]                    \* history: it was removed while marked
SectionsState ==
  [devices : SUBSET Devices, known : SUBSET (Connections \cup Vpns),
   valid : [Devices -> SUBSET Connections],
   active : [Devices -> Connections \cup {None}],
   vpnsUp : SUBSET Vpns,                  \* NetworkManager's active VPNs
   of : [Devices -> Wrapper], vpnItems : SUBSET Vpns, vpnMarked : SUBSET Vpns,
   vpnStale : BOOLEAN]                    \* history

NoWrapper == [items |-> {}, section |-> None, marked |-> {}, failed |-> FALSE]
SectionsInit == \E valid \in [Devices -> SUBSET Connections] :
  ns = [devices |-> {}, known |-> {}, valid |-> valid, active |-> [d \in Devices |-> None],
        vpnsUp |-> {}, of |-> [d \in Devices |-> NoWrapper], vpnItems |-> {}, vpnMarked |-> {},
        vpnStale |-> FALSE]
-----------------------------------------------------------------------------
\* NMConnectionDevice._sync(): the active connection is taken once it has an item.
Sync(u, d) ==
  IF u.of[d].section = None /\ u.active[d] \in u.of[d].items /\ u.active[d] \in u.known
  THEN [u EXCEPT !.of[d].section = u.active[d], !.of[d].marked = @ \cup {u.active[d]}]
  ELSE u

\* Mutant of Check: an item that is added is not looked at.
CheckOnly(u, d, c) == IF c \in u.valid[d] THEN [u EXCEPT !.of[d].items = @ \cup {c}] ELSE u

\* checkConnection(): one that is no longer valid keeps its item.
Check(u, d, c) ==
  IF c \in u.valid[d] /\ c \notin u.of[d].items
  THEN Sync([u EXCEPT !.of[d].items = @ \cup {c}], d)
  ELSE u

CheckAll(u, c) == [u EXCEPT !.of =
                    [d \in Devices |-> IF d \in u.devices THEN Check(u, d, c).of[d] ELSE @[d]]]

\* _deviceAdded(), _deviceChanged(): every connection there is is checked.
DeviceAdded(d) ==
  /\ d \notin ns.devices
  /\ LET items == ns.known \cap ns.valid[d]
         u == [ns EXCEPT !.devices = @ \cup {d}, !.of[d] = [NoWrapper EXCEPT !.items = items]]
     IN ns' = Sync(u, d)

\* _deviceRemoved()
DeviceRemoved(d) ==
  /\ d \in ns.devices
  /\ ns' = [ns EXCEPT !.devices = @ \ {d}, !.of[d] = NoWrapper, !.active[d] = None]

\* _addConnection() and _updateConnection(): a VPN's item does not look for its connection.
ConnectionAdded(c) ==
  /\ c \notin ns.known
  /\ LET u == [ns EXCEPT !.known = @ \cup {c}]
     IN ns' = IF c \in Vpns THEN [u EXCEPT !.vpnItems = @ \cup {c},
                                           !.vpnStale = @ \/ c \in u.vpnsUp]
              ELSE CheckAll(u, c)

\* _connectionRemoved(), removeConnection(): the section still has it as its active one.
ConnectionRemoved(c) ==
  /\ c \in ns.known
  /\ LET u == [ns EXCEPT !.known = @ \ {c}]
     IN ns' = IF c \in Vpns THEN [u EXCEPT !.vpnItems = @ \ {c}, !.vpnMarked = @ \ {c}]
              ELSE [u EXCEPT !.of = [d \in Devices |->
                      [ns.of[d] EXCEPT !.items = @ \ {c}, !.marked = @ \ {c},
                                       !.failed = @ \/ ns.of[d].section = c]]]

\* A connection's settings change: what devices it is valid for.
ConnectionChanged(c, devices) ==
  /\ c \in ns.known \cap Connections
  /\ LET u == [ns EXCEPT !.valid = [d \in Devices |-> IF d \in devices THEN @[d] \cup {c}
                                                      ELSE @[d] \ {c}]]
     IN ns' = CheckAll(u, c)

\* _activeConnectionChanged(): the item of the former one is told; if it is gone the handler
\* throws, and nothing is looked at any more.
ActiveConnectionChanged(d, c) ==
  /\ d \in ns.devices /\ c # ns.active[d] /\ c \in (ns.known \cap Connections) \cup {None}
  /\ LET u == [ns EXCEPT !.active[d] = c]
     IN ns' = IF ns.of[d].section # None /\ ns.of[d].section \notin ns.of[d].items THEN u
              ELSE Sync([u EXCEPT !.of[d].section = None,
                                  !.of[d].marked = @ \ {ns.of[d].section}], d)

\* _deviceStateChanged()
DeviceStateChanged(d) == d \in ns.devices /\ ns' = Sync(ns, d)

\* _syncVpnConnections(): one without an item throws; those before it are marked.
VpnsChanged(up) ==
  /\ up # ns.vpnsUp /\ up \ ns.vpnsUp \subseteq ns.known
  /\ LET u == [ns EXCEPT !.vpnsUp = up]
     IN ns' \in IF up \subseteq ns.vpnItems
                THEN {[u EXCEPT !.vpnMarked = up, !.vpnStale = FALSE]}
                ELSE {[u EXCEPT !.vpnMarked = m, !.vpnStale = TRUE] :
                        m \in SUBSET (up \cap ns.vpnItems)}

SectionsNext ==
  \/ \E d \in Devices :
       \/ DeviceAdded(d) \/ DeviceRemoved(d) \/ DeviceStateChanged(d)
       \/ \E c \in Connections \cup {None} : ActiveConnectionChanged(d, c)
  \/ \E c \in Connections \cup Vpns : ConnectionAdded(c) \/ ConnectionRemoved(c)
  \/ \E c \in Connections, ds \in SUBSET Devices : ConnectionChanged(c, ds)
  \/ \E up \in SUBSET Vpns : VpnsChanged(up)

SectionsSpec == SectionsInit /\ [][SectionsNext]_nsVars
-----------------------------------------------------------------------------
SectionsTypeOK == ns \in SectionsState

\* The item that is marked is the one of the device's active connection, and that one is
\* marked as soon as it has an item, unless the connection that was marked before was
\* removed while it was active; a VPN is marked when it is up, unless it came up before it
\* was known or another is up that is not known any more.
ActiveIsMarked ==
  /\ \A d \in ns.devices :
       LET w == ns.of[d]
       IN /\ w.marked \subseteq w.items
          /\ ~w.failed => /\ w.marked = IF w.section = None THEN {} ELSE {w.section}
                          /\ w.marked = {ns.active[d]} \cap w.items
  /\ ns.vpnMarked \subseteq ns.vpnItems
  /\ ~ns.vpnStale => ns.vpnMarked = ns.vpnsUp \cap ns.vpnItems
-----------------------------------------------------------------------------
(***************************************************************************)
(* The login to a captive portal (NMApplet): which connections the portal  *)
(* helper was asked about, while the main connection and the connectivity  *)
(* change, the helper's proxy is still made, and the helper answers.       *)
(***************************************************************************)
CONSTANTS Paths,      \* active connections
          MaxAsks     \* bound: the times the helper is asked, or its proxy made

VARIABLE portal   \* NetworkManager's state, the queue and the helper

portalVars == <<portal>>

PortalState ==
  [main : Paths \cup {None}, activated : BOOLEAN, isPortal : BOOLEAN, full : BOOLEAN,
   queue : SUBSET Paths,          \* _connectivityQueue
   proxy : BOOLEAN,               \* _portalHelperProxy
   making : [Paths -> Nat],       \* proxies being made, and for which connection
   working : SUBSET Paths,        \* the logins the helper shows
   rechecks : SUBSET Paths, asks : 0..MaxAsks,
   late : SUBSET Paths, failed : SUBSET Paths, cancelled : SUBSET Paths]   \* history

PortalInit ==
  portal = [main |-> None, activated |-> FALSE, isPortal |-> FALSE, full |-> FALSE,
            queue |-> {}, proxy |-> FALSE, making |-> [p \in Paths |-> 0], working |-> {},
            rechecks |-> {}, asks |-> 0, late |-> {}, failed |-> {},
            cancelled |-> {}]
-----------------------------------------------------------------------------
\* Mutant of Flush: the helper is not told.
FlushQuietly(u) == [u EXCEPT !.queue = {}, !.failed = {}, !.cancelled = {}]

\* _flushConnectivityQueue(): without a proxy nobody is told.
Flush(u) == [u EXCEPT !.queue = {}, !.failed = {}, !.cancelled = {},
                      !.working = IF u.proxy THEN @ \ u.queue ELSE @]

\* _closeConnectivityCheck()
CloseCheck(u, p) == IF p \notin u.queue THEN u
                    ELSE [u EXCEPT !.queue = @ \ {p}, !.failed = @ \ {p}, !.cancelled = @ \ {p},
                                   !.working = IF u.proxy THEN @ \ {p} ELSE @]

\* _syncConnectivity()
SyncConnectivity(u) ==
  IF u.main = None \/ ~u.activated THEN Flush(u)
  ELSE IF ~u.isPortal \/ u.main \in u.queue THEN u
  ELSE LET v == [u EXCEPT !.queue = @ \cup {u.main}, !.asks = @ + 1]
       IN IF u.proxy THEN [v EXCEPT !.working = @ \cup {u.main}]
          ELSE [v EXCEPT !.making[u.main] = @ + 1]

Asking == portal.asks < MaxAsks

\* notify::primary-connection and notify::activating-connection
MainConnection(p, activated) ==
  /\ Asking /\ p # portal.main /\ (p = None => ~activated)
  /\ portal' = SyncConnectivity([portal EXCEPT !.main = p, !.activated = activated])

\* Its state alone is not looked at; notify::state of NetworkManager is.
Activated == /\ portal.main # None /\ ~portal.activated
             /\ portal' = [portal EXCEPT !.activated = TRUE]
NMState == Asking /\ portal' = SyncConnectivity(portal)

\* notify::connectivity
Connectivity(c) ==
  /\ Asking
  /\ portal' = SyncConnectivity([portal EXCEPT !.isPortal = c = "portal", !.full = c = "full"])

\* The proxy is there: the login it was made for begins, whatever happened to it meanwhile.
ProxyMade(p) ==
  /\ portal.making[p] > 0
  /\ portal' = [portal EXCEPT !.making[p] = @ - 1, !.proxy = TRUE, !.working = @ \cup {p},
                              !.late = IF p \in portal.queue THEN @ \ {p} ELSE @ \cup {p}]

ProxyFailed(p) == /\ portal.making[p] > 0
                  /\ portal' = [portal EXCEPT !.making[p] = @ - 1, !.failed = @ \cup {p}]

\* _portalHelperDone(): after a cancellation the connection stays in the queue.
Done(p, result) ==
  /\ p \in portal.working
  /\ LET u == [portal EXCEPT !.working = @ \ {p}, !.late = @ \ {p}]
     IN CASE result = "cancelled" -> portal' = [u EXCEPT
            !.failed = @ \cup {p},
            !.cancelled = IF p \in u.queue /\ u.making[p] = 0 THEN @ \cup {p} ELSE @]
          [] result = "completed" -> portal' = CloseCheck(u, p)
          [] OTHER -> portal' = [portal EXCEPT !.rechecks = @ \cup {p}]

\* The answer of check_connectivity_async()
Rechecked(p, full) ==
  /\ p \in portal.rechecks
  /\ LET u == [portal EXCEPT !.rechecks = @ \ {p}]
     IN portal' = IF full THEN CloseCheck(u, p) ELSE u

PortalNext ==
  \/ \E p \in Paths \cup {None}, a \in BOOLEAN : MainConnection(p, a)
  \/ Activated \/ NMState
  \/ \E c \in {"none", "portal", "full"} : Connectivity(c)
  \/ \E p \in Paths : \/ ProxyMade(p) \/ ProxyFailed(p)
                      \/ \E r \in {"cancelled", "completed", "recheck"} : Done(p, r)
                      \/ \E full \in BOOLEAN : Rechecked(p, full)

PortalSpec == PortalInit /\ [][PortalNext]_portalVars
-----------------------------------------------------------------------------
PortalTypeOK == portal \in PortalState

\* A connection that waits in the queue is being logged in to, or will be when a proxy is
\* there, or the user or the proxy's failure put an end to it; and the helper shows no
\* login that the queue does not have, so that nobody would close it, except one that was
\* begun by a proxy that came late; nor one again that the user cancelled.
QueueIsShown ==
  /\ portal.queue \subseteq portal.working \cup portal.failed
                            \cup {p \in Paths : portal.making[p] > 0}
  /\ portal.working \subseteq portal.queue \cup portal.late
  /\ portal.working \cap portal.cancelled = {}

\* status/network.js on cancelled logins: the queue is flushed once connectivity is full.
FullFlushes == portal.full => portal.queue = {}
-----------------------------------------------------------------------------
(***************************************************************************)
(* The dialog that lists the wireless networks: access points come, with   *)
(* their name or before it, and go; those of one network are one item,     *)
(* inserted by a binary search.  What a network's security and mode add to *)
(* its name is part of NetOf.                                              *)
(***************************************************************************)
CONSTANTS APs, NetOf, Strength,   \* the access points, the network and strength of each
          Known                   \* the networks a connection is saved for

VARIABLE wd   \* the device's access points, and the dialog

wdVars == <<wd>>

\* A network that is remembered: its item may be gone, and another be there for its name.
Nets == Range(NetOf)
NoNetwork == [net |-> "none", stale |-> FALSE]
Remembered == [net : Nets, stale : BOOLEAN] \cup {NoNetwork}
Network == [net : Nets, aps : Seq(APs)]
DialogState == [there : SUBSET APs, named : SUBSET APs,
                waiting : SUBSET APs,          \* those with a handler for their name
                networks : Seq(Network),       \* _networks, the order of the items too
                active : APs \cup {"none"},    \* the device's
                activeNet : Remembered, selected : Remembered,
                open : BOOLEAN, failed : BOOLEAN]   \* history: Connect threw

\* _networkCompare() tells the network of an access point.
FindNetwork(u, ap) == SelectInSeq(u.networks, LAMBDA n : n.net = NetOf[ap])
NetworkOf(u, ap) == IF ap = "none" \/ ap \notin u.named \/ FindNetwork(u, ap) = 0 THEN NoNetwork
                    ELSE [net |-> NetOf[ap], stale |-> FALSE]
Forget(memory, net) == IF memory.net = net THEN [memory EXCEPT !.stale = TRUE] ELSE memory

\* _networkSortFunction(): known ones first, then by the strength of the best.
Before(m, n) == \/ m.net \in Known /\ n.net \notin Known
                \/ /\ (m.net \in Known) = (n.net \in Known)
                   /\ Strength[m.aps[1]] > Strength[n.aps[1]]

\* Mutant of LowerBound: the half is chosen the wrong way around.
UpperBound(s, n) ==
  LET bound[min \in 0..Len(s), max \in 0..Len(s)] ==
        IF min < max - 1
        THEN LET mid == (min + max) \div 2
             IN IF Before(n, s[mid + 1]) THEN bound[mid + 1, max] ELSE bound[min, mid]
        ELSE IF min = max \/ Before(s[min + 1], n) THEN max ELSE min
  IN bound[0, Len(s)]

\* lowerBound() of misc/util.js, as insertSorted() uses it: the place from zero.
LowerBound(s, n) ==
  LET bound[min \in 0..Len(s), max \in 0..Len(s)] ==
        IF min < max - 1
        THEN LET mid == (min + max) \div 2
             IN IF Before(s[mid + 1], n) THEN bound[mid + 1, max] ELSE bound[min, mid]
        ELSE IF min = max \/ Before(s[min + 1], n) THEN max ELSE min
  IN bound[0, Len(s)]

\* The access points of a network, the strongest first; equal ones before those there are.
StrongestAt(aps, ap) == Cardinality({i \in DOMAIN aps : Strength[aps[i]] > Strength[ap]}) + 1

\* _accessPointAdded() of one that has a name
Listing(u, ap) ==
  LET i == FindNetwork(u, ap)
      new == [net |-> NetOf[ap], aps |-> <<ap>>]
  IN IF i # 0
     THEN IF ap \in Range(u.networks[i].aps) THEN u
          ELSE [u EXCEPT !.networks[i].aps = InsertAt(@, StrongestAt(@, ap), ap)]
     ELSE [u EXCEPT !.networks = InsertAt(@, LowerBound(@, new) + 1, new)]

Added(u, ap) == IF ap \in u.named THEN Listing(u, ap) ELSE [u EXCEPT !.waiting = @ \cup {ap}]

\* _activeApChanged()
ActiveApChanged(u) == [u EXCEPT !.activeNet = NetworkOf(u, u.active)]

Unlisted == [there |-> {}, named |-> {}, waiting |-> {}, networks |-> <<>>, active |-> "none",
             activeNet |-> NoNetwork, selected |-> NoNetwork, open |-> TRUE, failed |-> FALSE]
DialogInit == \E there \in SUBSET APs : \E named \in SUBSET there : \E active \in there \cup {"none"} :
  wd = ActiveApChanged(FoldLeft(Added, [Unlisted EXCEPT !.there = there, !.named = named,
                                                        !.active = active], SetToSeq(there)))
-----------------------------------------------------------------------------
AccessPointAdded(ap, named) ==
  /\ wd.open /\ ap \notin wd.there
  /\ wd' = Added([wd EXCEPT !.there = @ \cup {ap}, !.named = IF named THEN @ \cup {ap} ELSE @],
                 ap)

\* _notifySsidCb()
NotifySsid(ap) ==
  /\ wd.open /\ ap \in wd.there \ wd.named
  /\ LET u == [wd EXCEPT !.named = @ \cup {ap}]
     IN wd' = IF ap \in wd.waiting THEN Listing([u EXCEPT !.waiting = @ \ {ap}], ap) ELSE u

\* Mutant of AccessPointRemoved: an item is left without access points.
AccessPointRemovedKeeping(ap) ==
  /\ wd.open /\ ap \in wd.there
  /\ LET i == FindNetwork(wd, ap)
         u == [wd EXCEPT !.there = @ \ {ap}, !.named = @ \ {ap}, !.waiting = @ \ {ap}]
     IN wd' = IF ap \notin wd.named THEN u
              ELSE [u EXCEPT !.networks[i].aps = SelectSeq(@, LAMBDA x : x # ap)]

\* _accessPointRemoved(): one that has no name yet was never added.
AccessPointRemoved(ap) ==
  /\ wd.open /\ ap \in wd.there
  /\ LET i == FindNetwork(wd, ap)
         u == [wd EXCEPT !.there = @ \ {ap}, !.named = @ \ {ap}, !.waiting = @ \ {ap}]
     IN wd' = IF ap \notin wd.named THEN u
              ELSE IF wd.networks[i].aps = <<ap>> THEN [u EXCEPT !.networks = RemoveAt(@, i),
                              !.activeNet = Forget(@, NetOf[ap]),
                              !.selected = Forget(@, NetOf[ap])]
              ELSE [u EXCEPT !.networks[i].aps = SelectSeq(@, LAMBDA x : x # ap)]

NotifyActive(ap) == /\ wd.open /\ ap # wd.active /\ ap \in wd.there \cup {"none"}
                    /\ wd' = ActiveApChanged([wd EXCEPT !.active = ap])

\* _selectNetwork()
Select(i) == /\ wd.open /\ i \in DOMAIN wd.networks
             /\ wd' = [wd EXCEPT !.selected = [net |-> wd.networks[i].net, stale |-> FALSE]]

\* _connect(): a network that is gone and unknown has nothing to connect to, and throws.
Connect ==
  /\ wd.open /\ wd.selected # NoNetwork /\ wd.selected # wd.activeNet
  /\ wd' = IF wd.selected.stale /\ wd.selected.net \notin Known THEN [wd EXCEPT !.failed = TRUE]
           ELSE [wd EXCEPT !.open = FALSE]

CloseDialog == wd.open /\ wd' = [wd EXCEPT !.open = FALSE]

DialogNext == \/ \E ap \in APs : \/ \E named \in BOOLEAN : AccessPointAdded(ap, named)
                                 \/ NotifySsid(ap) \/ AccessPointRemoved(ap)
              \/ \E ap \in APs \cup {"none"} : NotifyActive(ap)
              \/ \E i \in 1..Cardinality(APs) : Select(i)
              \/ Connect \/ CloseDialog

DialogSpec == DialogInit /\ [][DialogNext]_wdVars
-----------------------------------------------------------------------------
DialogTypeOK == wd \in DialogState

\* Every access point that is there and has a name is in the one item of its network, and
\* an item has none but those, at least one, and the known networks come first although the
\* list is not sorted again when a network's best access point changes.
ListFollows == wd.open =>
  LET aps(i) == Range(wd.networks[i].aps)
  IN /\ \A i \in DOMAIN wd.networks : /\ aps(i) # {}
                                      /\ aps(i) = {ap \in wd.named : NetOf[ap] = wd.networks[i].net}
     /\ \A ap \in wd.named : FindNetwork(wd, ap) # 0
     /\ \A i, j \in DOMAIN wd.networks :
          /\ wd.networks[i].net = wd.networks[j].net => i = j
          /\ wd.networks[j].net \in Known /\ i < j => wd.networks[i].net \in Known

\* Connect can be pressed only for a network that is there.
ConnectHasNetwork == wd.open => ~wd.selected.stale /\ ~wd.failed
=============================================================================
