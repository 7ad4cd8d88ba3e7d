----------------------------- MODULE AgentProofs -----------------------------
(* Proofs about the agents that ask the user for others: whoever asks is answered or is   *)
(* still being asked, by the dialog of what waits, for every number of requests,          *)
(* attempts, calls and connections. One inductive invariant for each agent, on the record *)
(* that is its state: RequestGood, PortalGood, VolumeGood and HandlerGood, and, of the    *)
(* network menu and the search, SectionsGood and SearchGood; a lemma for each operation   *)
(* that several actions share, and one for each action. The parts of the extensions and   *)
(* of GDM's verifier, ExtensionGood and VerifierGood, are proved in the modules below.    *)
EXTENDS VerifierProofs
-----------------------------------------------------------------------------
(* The network agent. *)

USE DEF NetworkAgent!Asks

Asks == NetworkAgent!Asks

\* What the state of a request says of its notification, dialog and helper.
Untouched(u) ==
  /\ u.live <= u.asked
  /\ \A g \in Asks : g > u.asked =>
       u.note[g] = "none" /\ u.dialog[g] = "none" /\ u.helper[g] = "none"
Kinds(u) ==
  /\ u.external => u.vpn
  /\ u.vpn => u.dialogKey = 0
  /\ ~u.vpn => \A g \in Asks : u.helper[g] = "none"
  /\ u.vpn /\ ~u.external => \A g \in Asks : u.dialog[g] = "none"
  /\ u.dialogKey # 0 => u.dialog[u.dialogKey] # "none"
  /\ u.noteKey # 0 => u.note[u.noteKey] = "shown"
Turns(u) ==
  /\ u.searching => /\ u.live # 0 /\ u.note[u.live] = "none"
                    /\ u.dialog[u.live] = "none" /\ u.helper[u.live] = "none"
  /\ \A g \in Asks : u.note[g] = "shown" => u.dialog[g] = "none" /\ u.helper[g] = "none"
  /\ \A g \in Asks : u.helper[g] \in {"running", "cancelled"} => u.dialog[g] = "none"
RequestBase(u) == u \in NetworkAgent!State /\ Untouched(u) /\ Kinds(u) /\ Turns(u)

\* Until a stray has acted, what is on screen or runs is of the request in the table and is
\* what _cancelUI() finds; once that has been at it, there is nothing (Clear).
Keyed(u) == ~u.stray => \A g \in Asks :
  /\ u.dialog[g] = "open" => u.live = g /\ g = IF u.vpn THEN u.vpnKey ELSE u.dialogKey
  /\ u.helper[g] = "running" => u.live = g /\ g = u.vpnKey
  /\ u.helper[g] = "cancelled" => u.live # g
Clear(u) == ~u.stray => \A g \in Asks :
  /\ u.dialog[g] # "open" /\ u.helper[g] # "running"
  /\ u.helper[g] = "cancelled" => u.live # g
\* Somebody has yet to answer the request in the table.
Served(u) == u.live # 0 =>
  \/ u.searching \/ u.note[u.live] = "shown" \/ u.helper[u.live] = "running"
  \/ u.dialog[u.live] \in {"open", "refused"}
RequestGood(u) == RequestBase(u) /\ Keyed(u) /\ Served(u)
-----------------------------------------------------------------------------
\* The types of the fields, and of what the operations set them to.
LEMMA RequestFields ==
  ASSUME NEW u \in NetworkAgent!State
  PROVE  /\ u.vpn \in BOOLEAN /\ u.external \in BOOLEAN /\ u.enabled \in BOOLEAN
         /\ u.searching \in BOOLEAN /\ u.stray \in BOOLEAN
         /\ u.asked \in 0..NetworkAsks /\ u.live \in 0..NetworkAsks
         /\ u.noteKey \in 0..NetworkAsks /\ u.dialogKey \in 0..NetworkAsks
         /\ u.vpnKey \in 0..NetworkAsks
         /\ u.note \in [Asks -> {"none", "shown", "gone"}]
         /\ u.dialog \in [Asks -> {"none", "refused", "open", "closing", "gone"}]
         /\ u.helper \in [Asks -> {"none", "running", "cancelled", "ended"}]
BY DEF NetworkAgent!State, Asks

LEMMA RequestSetting ==
  ASSUME NEW u \in NetworkAgent!State
  PROVE  /\ \A x \in BOOLEAN : /\ [u EXCEPT !.enabled = x] \in NetworkAgent!State
                               /\ [u EXCEPT !.searching = x] \in NetworkAgent!State
                               /\ [u EXCEPT !.stray = x] \in NetworkAgent!State
         /\ \A x \in 0..NetworkAsks : /\ [u EXCEPT !.asked = x] \in NetworkAgent!State
                                      /\ [u EXCEPT !.live = x] \in NetworkAgent!State
                                      /\ [u EXCEPT !.noteKey = x] \in NetworkAgent!State
                                      /\ [u EXCEPT !.dialogKey = x] \in NetworkAgent!State
                                      /\ [u EXCEPT !.vpnKey = x] \in NetworkAgent!State
<1>1. ASSUME NEW x \in BOOLEAN PROVE [u EXCEPT !.enabled = x] \in NetworkAgent!State
  BY DEF NetworkAgent!State
<1>2. ASSUME NEW x \in BOOLEAN PROVE [u EXCEPT !.searching = x] \in NetworkAgent!State
  BY DEF NetworkAgent!State
<1>3. ASSUME NEW x \in BOOLEAN PROVE [u EXCEPT !.stray = x] \in NetworkAgent!State
  BY DEF NetworkAgent!State
<1>4. ASSUME NEW x \in 0..NetworkAsks PROVE [u EXCEPT !.asked = x] \in NetworkAgent!State
  BY DEF NetworkAgent!State
<1>5. ASSUME NEW x \in 0..NetworkAsks PROVE [u EXCEPT !.live = x] \in NetworkAgent!State
  BY DEF NetworkAgent!State
<1>6. ASSUME NEW x \in 0..NetworkAsks PROVE [u EXCEPT !.noteKey = x] \in NetworkAgent!State
  BY DEF NetworkAgent!State
<1>7. ASSUME NEW x \in 0..NetworkAsks PROVE [u EXCEPT !.dialogKey = x] \in NetworkAgent!State
  BY DEF NetworkAgent!State
<1>8. ASSUME NEW x \in 0..NetworkAsks PROVE [u EXCEPT !.vpnKey = x] \in NetworkAgent!State
  BY DEF NetworkAgent!State
<1> QED BY <1>1, <1>2, <1>3, <1>4, <1>5, <1>6, <1>7, <1>8

LEMMA RequestMarking ==
  ASSUME NEW u \in NetworkAgent!State, NEW g \in Asks
  PROVE  /\ \A x \in {"none", "shown", "gone"} : [u EXCEPT !.note[g] = x] \in NetworkAgent!State
         /\ \A x \in {"none", "refused", "open", "closing", "gone"} :
              [u EXCEPT !.dialog[g] = x] \in NetworkAgent!State
         /\ \A x \in {"none", "running", "cancelled", "ended"} :
              [u EXCEPT !.helper[g] = x] \in NetworkAgent!State
         /\ \A x \in {"none", "secrets", "userCanceled", "failed", "canceled"} :
              [u EXCEPT !.answer[g] = x] \in NetworkAgent!State
<1>1. ASSUME NEW x \in {"none", "shown", "gone"} PROVE [u EXCEPT !.note[g] = x] \in NetworkAgent!State
  BY DEF NetworkAgent!State, Asks
<1>2. ASSUME NEW x \in {"none", "refused", "open", "closing", "gone"}
      PROVE [u EXCEPT !.dialog[g] = x] \in NetworkAgent!State
  BY DEF NetworkAgent!State, Asks
<1>3. ASSUME NEW x \in {"none", "running", "cancelled", "ended"}
      PROVE [u EXCEPT !.helper[g] = x] \in NetworkAgent!State
  BY DEF NetworkAgent!State, Asks
<1>4. ASSUME NEW x \in {"none", "secrets", "userCanceled", "failed", "canceled"}
      PROVE [u EXCEPT !.answer[g] = x] \in NetworkAgent!State
  BY DEF NetworkAgent!State, Asks
<1> QED BY <1>1, <1>2, <1>3, <1>4

Answers == {"secrets", "userCanceled", "failed", "canceled"}

LEMMA Zero == 0 \in 0..NetworkAsks
BY AgentsAssumption

\* What the operations that the actions share leave of the invariant.
LEMMA ReturnTyped ==
  ASSUME NEW u \in NetworkAgent!State, u.live \in Asks, NEW a \in Answers
  PROVE  NetworkAgent!Return(u, a) \in NetworkAgent!State
<1> DEFINE v == [u EXCEPT !.answer[u.live] = a]
           w == [v EXCEPT !.live = 0]
<1>1. v \in NetworkAgent!State
  BY RequestMarking DEF Answers
<1> HIDE DEF v
<1>2. w \in NetworkAgent!State
  BY <1>1, RequestSetting, Zero
<1> HIDE DEF w
<1>3. [w EXCEPT !.searching = FALSE] \in NetworkAgent!State
  BY <1>2, RequestSetting
<1> QED BY <1>3 DEF v, w, NetworkAgent!Return

LEMMA DestroyHelperTyped ==
  ASSUME NEW u \in NetworkAgent!State, NEW g \in Asks
  PROVE  NetworkAgent!DestroyHelper(u, g) \in NetworkAgent!State
<1> DEFINE w == [u EXCEPT !.vpnKey = 0]
<1>1. w \in NetworkAgent!State
  BY RequestSetting, Zero
<1> HIDE DEF w
<1>2. w.helper[g] \in {"none", "running", "cancelled", "ended"}
  BY <1>1, RequestFields
<1>3. [w EXCEPT !.helper[g] = IF w.helper[g] = "running" THEN "cancelled" ELSE w.helper[g]]
        \in NetworkAgent!State
  BY <1>1, <1>2, RequestMarking
<1> QED BY <1>3 DEF w, NetworkAgent!DestroyHelper

LEMMA CancelHelperTyped ==
  ASSUME NEW u \in NetworkAgent!State, NEW g \in Asks
  PROVE  NetworkAgent!CancelHelper(u, g) \in NetworkAgent!State
<1> DEFINE v == [u EXCEPT !.dialog[g] = IF u.dialog[g] = "none" THEN u.dialog[g] ELSE "gone"]
<1>1. v \in NetworkAgent!State
  BY RequestMarking
<1> HIDE DEF v
<1>2. NetworkAgent!DestroyHelper(v, g) \in NetworkAgent!State
  BY <1>1, DestroyHelperTyped
<1> QED BY <1>2 DEF v, NetworkAgent!CancelHelper
-----------------------------------------------------------------------------
LEMMA AfterReturn ==
  ASSUME NEW u, RequestBase(u), u.live # 0, NEW a \in Answers
  PROVE  LET v == NetworkAgent!Return(u, a)
         IN RequestBase(v) /\ v.live = 0 /\ (Clear(u) => RequestGood(v))
<1> DEFINE v == NetworkAgent!Return(u, a)
<1>1. u \in NetworkAgent!State /\ u.live \in Asks
  BY RequestFields DEF RequestBase, Asks
<1>2. v \in NetworkAgent!State
  BY <1>1, ReturnTyped
<1>3. /\ v.vpn = u.vpn /\ v.external = u.external /\ v.asked = u.asked /\ v.live = 0
      /\ v.searching = FALSE /\ v.note = u.note /\ v.dialog = u.dialog
      /\ v.helper = u.helper /\ v.dialogKey = u.dialogKey 
  BY <1>1 DEF NetworkAgent!State, NetworkAgent!Return
<1>4. /\ v.stray = u.stray /\ v.noteKey = u.noteKey
  BY <1>1 DEF NetworkAgent!State, NetworkAgent!Return
<1> HIDE DEF v
<1>5. RequestBase(v)
  BY <1>1, <1>2, <1>3, <1>4, AgentsAssumption DEF RequestBase, Untouched, Kinds, Turns, NetworkAgent!State
<1>6. Clear(u) => Keyed(v) /\ Served(v)
  BY <1>3, <1>4 DEF Clear, Keyed, Served, Asks
<1> QED BY <1>3, <1>5, <1>6 DEF v, RequestGood

LEMMA AfterCancelHelper ==
  ASSUME NEW u, RequestBase(u), NEW g \in Asks
  PROVE  LET v == NetworkAgent!CancelHelper(u, g)
         IN /\ RequestBase(v) /\ v.live = u.live /\ v.asked = u.asked /\ v.stray = u.stray
            /\ v.vpn = u.vpn /\ v.dialogKey = u.dialogKey /\ v.noteKey = u.noteKey
            /\ v.dialog = [u.dialog EXCEPT ![g] = IF @ = "none" THEN @ ELSE "gone"]
            /\ v.helper = [u.helper EXCEPT ![g] = IF @ = "running" THEN "cancelled" ELSE @]
<1> DEFINE v == NetworkAgent!CancelHelper(u, g)
<1>1. u \in NetworkAgent!State
  BY DEF RequestBase
<1>2. v \in NetworkAgent!State
  BY <1>1, CancelHelperTyped
<1>3. /\ v.vpn = u.vpn /\ v.external = u.external /\ v.asked = u.asked /\ v.live = u.live
      /\ v.searching = u.searching /\ v.note = u.note /\ v.stray = u.stray
  BY <1>1 DEF NetworkAgent!State, NetworkAgent!CancelHelper, NetworkAgent!DestroyHelper
<1>4. /\ v.dialogKey = u.dialogKey /\ v.noteKey = u.noteKey
      /\ v.dialog = [u.dialog EXCEPT ![g] = IF @ = "none" THEN @ ELSE "gone"]
      /\ v.helper = [u.helper EXCEPT ![g] = IF @ = "running" THEN "cancelled" ELSE @]
  BY <1>1 DEF NetworkAgent!State, NetworkAgent!CancelHelper, NetworkAgent!DestroyHelper
<1> HIDE DEF v
<1>5. /\ u.dialog \in [Asks -> {"none", "refused", "open", "closing", "gone"}]
      /\ u.helper \in [Asks -> {"none", "running", "cancelled", "ended"}]
      /\ u.dialogKey \in 0..NetworkAsks /\ u.live \in 0..NetworkAsks
  BY <1>1, RequestFields
<1>6. \A h \in Asks : /\ v.dialog[h] = "none" <=> u.dialog[h] = "none"
                      /\ v.helper[h] = "none" <=> u.helper[h] = "none"
                      /\ v.helper[h] \in {"running", "cancelled"}
                           => u.helper[h] \in {"running", "cancelled"}
  BY <1>4, <1>5
<1>7. Untouched(v)
  BY <1>3, <1>6 DEF RequestBase, Untouched
<1>8. Kinds(v)
  <2>1. u.dialogKey # 0 => u.dialogKey \in Asks
    BY <1>5, AgentsAssumption DEF Asks
  <2> QED BY <1>3, <1>4, <1>6, <2>1 DEF RequestBase, Kinds
<1>9. Turns(v)
  <2>1. u.live # 0 => u.live \in Asks
    BY <1>5, AgentsAssumption DEF Asks
  <2> QED BY <1>3, <1>6, <2>1 DEF RequestBase, Turns
<1> QED BY <1>2, <1>3, <1>4, <1>7, <1>8, <1>9 DEF v, RequestBase

LEMMA AnyRespond ==
  ASSUME NEW u, RequestBase(u), NEW a \in Answers
  PROVE  LET v == NetworkAgent!Respond(u, a)
         IN /\ RequestBase(v) /\ v.live = 0 /\ v.stray = u.stray /\ v.vpn = u.vpn
            /\ v.dialog = u.dialog /\ v.helper = u.helper /\ v.note = u.note
            /\ v.vpnKey = u.vpnKey /\ v.dialogKey = u.dialogKey
<1> DEFINE v == NetworkAgent!Respond(u, a)
<1>1. CASE u.live = 0
  BY <1>1 DEF NetworkAgent!Respond
<1>2. CASE u.live # 0
  <2>1. v = NetworkAgent!Return(u, a)
    BY <1>2 DEF NetworkAgent!Respond
  <2>2. u \in NetworkAgent!State
    BY DEF RequestBase
  <2>3. /\ v.dialog = u.dialog /\ v.helper = u.helper /\ v.stray = u.stray /\ v.vpn = u.vpn
        /\ v.note = u.note /\ v.vpnKey = u.vpnKey /\ v.dialogKey = u.dialogKey
    BY <2>1, <2>2 DEF NetworkAgent!Return, NetworkAgent!State
  <2> HIDE DEF v
  <2> QED BY <1>2, <2>1, <2>3, AfterReturn DEF v
<1> QED BY <1>1, <1>2

LEMMA AfterRespond ==
  ASSUME NEW u, RequestBase(u), Clear(u), NEW a \in Answers
  PROVE  LET v == NetworkAgent!Respond(u, a)
         IN RequestGood(v) /\ Clear(v) /\ v.live = 0 /\ v.helper = u.helper
<1> DEFINE v == NetworkAgent!Respond(u, a)
<1>1. /\ RequestBase(v) /\ v.live = 0 /\ v.stray = u.stray
      /\ v.dialog = u.dialog /\ v.helper = u.helper
  BY AnyRespond
<1> HIDE DEF v
<1>2. Clear(v) /\ Keyed(v) /\ Served(v)
  BY <1>1 DEF Clear, Keyed, Served, Asks
<1> QED BY <1>1, <1>2 DEF v, RequestGood

\* Something that was put on screen for g acts: nothing but the history changes.
LEMMA AfterActs ==
  ASSUME NEW u, RequestGood(u), NEW g \in Asks
  PROVE  LET v == NetworkAgent!Acts(u, g)
         IN /\ RequestBase(v) /\ (~v.stray => ~u.stray /\ u.live = g)
            /\ v.dialog = u.dialog /\ v.helper = u.helper /\ v.note = u.note
            /\ v.vpn = u.vpn /\ v.external = u.external /\ v.live = u.live
            /\ v.vpnKey = u.vpnKey /\ v.asked = u.asked
<1> DEFINE v == NetworkAgent!Acts(u, g)
<1>1. u \in NetworkAgent!State
  BY DEF RequestGood, RequestBase
<1>2. v \in NetworkAgent!State
  BY <1>1, RequestSetting, RequestFields DEF NetworkAgent!Acts
<1>3. /\ v.stray = (u.stray \/ u.live # g)
      /\ v.vpn = u.vpn /\ v.external = u.external /\ v.asked = u.asked
      /\ v.live = u.live /\ v.searching = u.searching /\ v.dialog = u.dialog
  BY <1>1 DEF NetworkAgent!State, NetworkAgent!Acts
<1>4. /\ v.dialogKey = u.dialogKey /\ v.helper = u.helper /\ v.note = u.note
      /\ v.noteKey = u.noteKey /\ v.vpnKey = u.vpnKey
  BY <1>1 DEF NetworkAgent!State, NetworkAgent!Acts
<1> HIDE DEF v
<1>5. RequestBase(v)
  BY <1>2, <1>3, <1>4 DEF RequestGood, RequestBase, Untouched, Kinds, Turns
<1> QED BY <1>3, <1>4, <1>5 DEF v

\* What is on screen for the request in the table goes, unless a stray has been at it.
LEMMA AfterCancelUI ==
  ASSUME NEW u, RequestGood(u)
  PROVE  LET v == NetworkAgent!CancelUI(u)
         IN RequestBase(v) /\ v.live = u.live /\ v.asked = u.asked
            /\ (~v.stray => \A g \in Asks : v.dialog[g] # "open" /\ v.helper[g] # "running")
<1> DEFINE v == NetworkAgent!CancelUI(u)
<1>0. u \in NetworkAgent!State
  BY DEF RequestGood, RequestBase
<1>f. /\ u.dialog \in [Asks -> {"none", "refused", "open", "closing", "gone"}]
      /\ u.helper \in [Asks -> {"none", "running", "cancelled", "ended"}]
      /\ u.dialogKey \in 0..NetworkAsks /\ u.live \in 0..NetworkAsks
      /\ u.vpnKey \in 0..NetworkAsks /\ u.vpn \in BOOLEAN /\ u.asked \in 0..NetworkAsks
  BY <1>0, RequestFields
<1>1. CASE u.dialogKey # 0
  <2> DEFINE w == [u EXCEPT !.dialog[u.dialogKey] = "gone"]
  <2>1. w \in NetworkAgent!State
    <3>1. u.dialogKey \in Asks
      BY <1>1, <1>f DEF Asks
    <3> QED BY <1>0, <3>1, RequestMarking
  <2>2. v = [w EXCEPT !.dialogKey = 0]
    BY <1>1 DEF NetworkAgent!CancelUI
  <2> HIDE DEF w
  <2>3. v \in NetworkAgent!State
    BY <2>1, <2>2, RequestSetting, Zero
  <2>4. /\ v.vpn = u.vpn /\ v.external = u.external /\ v.asked = u.asked /\ v.live = u.live
        /\ v.searching = u.searching /\ v.note = u.note /\ v.stray = u.stray
    BY <1>0, <2>2 DEF w, NetworkAgent!State
  <2>5. /\ v.dialogKey = 0 /\ v.noteKey = u.noteKey /\ v.helper = u.helper
        /\ v.dialog = [u.dialog EXCEPT ![u.dialogKey] = "gone"]
    BY <1>0, <2>2 DEF w, NetworkAgent!State
  <2> HIDE DEF v
  <2>6. Untouched(v) /\ Kinds(v) /\ Turns(v)
    BY <1>1, <1>f, <2>4, <2>5, AgentsAssumption DEF RequestGood, RequestBase, Untouched, Kinds, Turns, Asks
  <2>7. ~v.stray => \A g \in Asks : v.dialog[g] # "open" /\ v.helper[g] # "running"
    BY <1>1, <1>f, <2>4, <2>5 DEF RequestGood, RequestBase, Kinds, Keyed, Asks
  <2> QED BY <2>3, <2>4, <2>6, <2>7 DEF v, RequestBase
<1>2. CASE u.dialogKey = 0 /\ u.vpnKey # 0
  <2> DEFINE w == NetworkAgent!CancelHelper(u, u.vpnKey)
  <2>1. v = w
    BY <1>2 DEF NetworkAgent!CancelUI
  <2>2. u.vpnKey \in Asks
    BY <1>2, <1>f DEF Asks
  <2>3. /\ RequestBase(w) /\ w.live = u.live /\ w.asked = u.asked /\ w.stray = u.stray
        /\ w.dialog = [u.dialog EXCEPT ![u.vpnKey] = IF @ = "none" THEN @ ELSE "gone"]
        /\ w.helper = [u.helper EXCEPT ![u.vpnKey] = IF @ = "running" THEN "cancelled" ELSE @]
    BY <2>2, AfterCancelHelper DEF RequestGood
  <2> HIDE DEF w, v
  <2>4. ~w.stray => \A g \in Asks : w.dialog[g] # "open" /\ w.helper[g] # "running"
    <3>1. ~u.stray => \A g \in Asks :
            /\ u.dialog[g] = "open" => g = u.vpnKey
            /\ u.helper[g] = "running" => g = u.vpnKey
      BY <1>2, <1>f DEF RequestGood, Keyed, Asks
    <3> QED BY <1>f, <2>2, <2>3, <3>1
  <2> QED BY <2>1, <2>3, <2>4 DEF v
<1>3. CASE u.dialogKey = 0 /\ u.vpnKey = 0
  <2>1. v = u
    BY <1>3 DEF NetworkAgent!CancelUI
  <2>2. ~u.stray => \A g \in Asks : u.dialog[g] # "open" /\ u.helper[g] # "running"
    BY <1>3, <1>f DEF RequestGood, Keyed, Asks
  <2> QED BY <2>1, <2>2 DEF RequestGood
<1> QED BY <1>1, <1>2, <1>3

\* The whole cancellation, that of a request that is replaced included.
LEMMA AfterCancel ==
  ASSUME NEW u, RequestGood(u)
  PROVE  LET v == NetworkAgent!CancelRequest(u)
         IN RequestGood(v) /\ v.live = 0 /\ v.asked = u.asked /\ Clear(v)
<1> DEFINE v == NetworkAgent!CancelRequest(u)
<1>0. u \in NetworkAgent!State
  BY DEF RequestGood, RequestBase
<1>1. CASE u.live = 0
  <2>1. v = u
    BY <1>1 DEF NetworkAgent!CancelRequest
  <2>2. Clear(u)
    BY <1>1 DEF RequestGood, Keyed, Clear, Asks
  <2> QED BY <1>1, <2>1, <2>2
<1>2. CASE u.live # 0
  <2> DEFINE w == NetworkAgent!CancelUI(u)
  <2>1. /\ RequestBase(w) /\ w.live = u.live /\ w.asked = u.asked
        /\ (~w.stray => \A g \in Asks : w.dialog[g] # "open" /\ w.helper[g] # "running")
    BY AfterCancelUI
  <2>2. v = NetworkAgent!Return(w, "canceled")
    BY <1>2 DEF NetworkAgent!CancelRequest
  <2> HIDE DEF w
  <2>3. RequestBase(v) /\ v.live = 0
    BY <1>2, <2>1, <2>2, AfterReturn DEF Answers
  <2>4. w \in NetworkAgent!State
    BY <2>1 DEF RequestBase
  <2>5. v.dialog = w.dialog /\ v.helper = w.helper /\ v.stray = w.stray /\ v.asked = w.asked
    BY <2>2, <2>4 DEF NetworkAgent!Return, NetworkAgent!State
  <2> HIDE DEF v
  <2>6. Clear(v)
    BY <2>1, <2>3, <2>5 DEF Clear, Asks
  <2>7. Keyed(v) /\ Served(v)
    BY <2>1, <2>3, <2>5 DEF Keyed, Served, Asks
  <2> QED BY <2>1, <2>3, <2>5, <2>6, <2>7 DEF v, RequestGood
<1> QED BY <1>1, <1>2
-----------------------------------------------------------------------------
\* Request g can be put on screen.
Ready(u, g) ==
  /\ RequestBase(u) /\ Clear(u) /\ g <= u.asked
  /\ u.note[g] # "shown" /\ u.dialog[g] = "none" /\ u.helper[g] = "none"
  /\ ~u.stray => u.live = g
  /\ u.searching => u.live # g
  /\ u.live # g => Served(u)

\* A request put on screen by itself is served, be its grab refused.
LEMMA AfterHandle ==
  ASSUME NEW u, NEW g \in Asks, Ready(u, g), NEW v \in NetworkAgent!HandleRequest(u, g)
  PROVE  RequestGood(v)
<1>0. u \in NetworkAgent!State
  BY DEF Ready, RequestBase
<1>f. /\ u.dialog \in [Asks -> {"none", "refused", "open", "closing", "gone"}]
      /\ u.helper \in [Asks -> {"none", "running", "cancelled", "ended"}]
      /\ u.dialogKey \in 0..NetworkAsks /\ u.live \in 0..NetworkAsks
      /\ u.noteKey \in 0..NetworkAsks
      /\ u.vpnKey \in 0..NetworkAsks /\ u.vpn \in BOOLEAN /\ u.asked \in 0..NetworkAsks
  BY <1>0, RequestFields
<1>g. g \in 0..NetworkAsks
  BY AgentsAssumption DEF Asks
<1>1. CASE v = [u EXCEPT !.helper[g] = "running", !.vpnKey = g] /\ u.vpn
  <2> DEFINE w == [u EXCEPT !.helper[g] = "running"]
  <2>1. w \in NetworkAgent!State
    BY <1>0, RequestMarking
  <2>2. v = [w EXCEPT !.vpnKey = g]
    BY <1>1
  <2> HIDE DEF w
  <2>3. v \in NetworkAgent!State
    BY <2>1, <2>2, <1>g, RequestSetting
  <2>4. /\ v.vpn = u.vpn /\ v.external = u.external /\ v.asked = u.asked /\ v.live = u.live
        /\ v.searching = u.searching /\ v.note = u.note /\ v.stray = u.stray
    BY <1>0, <2>2 DEF w, NetworkAgent!State
  <2>5. /\ v.dialogKey = u.dialogKey /\ v.noteKey = u.noteKey /\ v.dialog = u.dialog
        /\ v.helper = [u.helper EXCEPT ![g] = "running"] /\ v.vpnKey = g
    BY <1>0, <2>2 DEF w, NetworkAgent!State
  <2>6. Untouched(v) /\ Kinds(v) /\ Turns(v)
    <3>1. NetworkAsks \in Nat
      BY AgentsAssumption
    <3>2. Untouched(v)
      BY <1>1, <1>f, <2>4, <2>5, <3>1 DEF Ready, RequestBase, Untouched, Asks
    <3>3. Kinds(v)
      BY <1>1, <1>f, <2>4, <2>5, <3>1 DEF Ready, RequestBase, Kinds, Asks
    <3>4. Turns(v)
      BY <1>1, <1>f, <2>4, <2>5, <3>1 DEF Ready, RequestBase, Turns, Asks
    <3> QED BY <3>2, <3>3, <3>4
  <2>7. Keyed(v)
    BY <1>1, <1>f, <2>4, <2>5 DEF Ready, Clear, Keyed
  <2>8. Served(v)
    <3>1. CASE u.live = g
      BY <1>f, <2>4, <2>5, <3>1 DEF Served
    <3>2. CASE u.live # g
      BY <1>f, <2>4, <2>5, <3>2 DEF Ready, Served
    <3> QED BY <3>1, <3>2
  <2> QED BY <2>3, <2>6, <2>7, <2>8 DEF RequestGood, RequestBase
<1>2. CASE v = NetworkAgent!Respond(u, "failed")
  BY <1>2, AfterRespond DEF Ready, Answers
\* A handler whose helper did not start, or was dropped at once.
<1>4. ASSUME u.vpn, NEW h \in {"none", "cancelled"},
             v = [[NetworkAgent!Respond(u, "failed") EXCEPT !.helper[g] = h] EXCEPT !.vpnKey = g]
      PROVE  RequestGood(v)
  <2> DEFINE r == NetworkAgent!Respond(u, "failed")
             w == [r EXCEPT !.helper[g] = h]
  <2>1. /\ RequestBase(r) /\ r.live = 0 /\ r.stray = u.stray /\ r.vpn = u.vpn
        /\ r.dialog = u.dialog /\ r.helper = u.helper /\ r.note = u.note
    BY AnyRespond DEF Ready, Answers
  <2>2. r.asked = u.asked
    BY <1>0 DEF NetworkAgent!Respond, NetworkAgent!Return, NetworkAgent!State
  <2> HIDE DEF r
  <2>3. r \in NetworkAgent!State
    BY <2>1 DEF RequestBase
  <2>4. w \in NetworkAgent!State
    BY <2>3, RequestMarking
  <2>5. v = [w EXCEPT !.vpnKey = g]
    BY <1>4 DEF r
  <2>6. /\ w.vpn = r.vpn /\ w.external = r.external /\ w.asked = r.asked /\ w.live = 0
        /\ w.searching = r.searching /\ w.note = r.note /\ w.stray = r.stray
    BY <2>1, <2>3 DEF NetworkAgent!State
  <2>7. /\ w.dialogKey = r.dialogKey /\ w.noteKey = r.noteKey /\ w.dialog = r.dialog
        /\ w.helper = [r.helper EXCEPT ![g] = h]
    BY <2>3 DEF NetworkAgent!State
  <2> HIDE DEF w
  <2>8. v \in NetworkAgent!State
    BY <2>4, <2>5, <1>g, RequestSetting
  <2>9. /\ v.vpn = r.vpn /\ v.external = r.external /\ v.asked = r.asked /\ v.live = 0
        /\ v.searching = r.searching /\ v.note = r.note /\ v.stray = r.stray
    BY <2>4, <2>5, <2>6 DEF NetworkAgent!State
  <2>10. /\ v.dialogKey = r.dialogKey /\ v.noteKey = r.noteKey /\ v.dialog = r.dialog
         /\ v.helper = [r.helper EXCEPT ![g] = h]
    BY <2>4, <2>5, <2>7 DEF NetworkAgent!State
  <2>11. /\ r.helper \in [Asks -> {"none", "running", "cancelled", "ended"}]
         /\ r.live \in 0..NetworkAsks /\ r.asked \in 0..NetworkAsks
    BY <2>3, RequestFields
  <2>12. /\ g <= r.asked /\ r.dialog[g] = "none" /\ r.note[g] # "shown" /\ r.vpn
    BY <1>4, <2>1, <2>2 DEF Ready
  <2>13. NetworkAsks \in Nat
    BY AgentsAssumption
  <2>14. Untouched(v)
    BY <2>1, <2>9, <2>10, <2>11, <2>12, <2>13 DEF RequestBase, Untouched, Asks
  <2>15. Kinds(v)
    BY <2>1, <2>9, <2>10, <2>12 DEF RequestBase, Kinds
  <2>16. Turns(v)
    BY <2>1, <2>9, <2>10, <2>11, <2>12 DEF RequestBase, Turns
  <2>17. Keyed(v)
    <3>1. ~r.stray => \A k \in Asks : r.dialog[k] # "open" /\ r.helper[k] # "running"
      BY <2>1 DEF Ready, Clear
    <3>2. \A k \in Asks : v.live # k
      BY <2>9 DEF Asks
    <3> QED BY <2>9, <2>10, <2>11, <3>1, <3>2 DEF Keyed
  <2>18. Served(v)
    BY <2>9 DEF Served
  <2> QED BY <2>8, <2>14, <2>15, <2>16, <2>17, <2>18 DEF RequestGood, RequestBase
<1>3. CASE /\ ~u.vpn
           /\ \E s \in {"open", "refused"} : v = [[u EXCEPT !.dialog[g] = s] EXCEPT !.dialogKey = g]
  <2> PICK s \in {"open", "refused"} : v = [[u EXCEPT !.dialog[g] = s] EXCEPT !.dialogKey = g]
    BY <1>3
  <2> DEFINE w == [u EXCEPT !.dialog[g] = s]
  <2>1. w \in NetworkAgent!State
    BY <1>0, RequestMarking
  <2>2. v = [w EXCEPT !.dialogKey = g]
    OBVIOUS
  <2> HIDE DEF w
  <2>3. v \in NetworkAgent!State
    <3>1. [w EXCEPT !.dialogKey = g] \in NetworkAgent!State
      BY <2>1, <1>g, RequestSetting
    <3> QED BY <2>2, <3>1
  <2>4. /\ v.vpn = u.vpn /\ v.external = u.external /\ v.asked = u.asked /\ v.live = u.live
        /\ v.searching = u.searching /\ v.note = u.note /\ v.stray = u.stray
    BY <1>0, <2>2 DEF w, NetworkAgent!State
  <2>5. /\ v.dialogKey = g /\ v.noteKey = u.noteKey /\ v.helper = u.helper
        /\ v.dialog = [u.dialog EXCEPT ![g] = s] /\ v.vpnKey = u.vpnKey
    BY <1>0, <2>2 DEF w, NetworkAgent!State
  <2>6. Untouched(v) /\ Kinds(v) /\ Turns(v)
    <3>1. NetworkAsks \in Nat
      BY AgentsAssumption
    <3>2. Untouched(v)
      BY <1>3, <1>f, <2>4, <2>5, <3>1 DEF Ready, RequestBase, Untouched, Asks
    <3>3. Kinds(v)
      BY <1>3, <1>f, <2>4, <2>5, <3>1 DEF Ready, RequestBase, Kinds, Asks
    <3>4. Turns(v)
      BY <1>3, <1>f, <2>4, <2>5, <3>1 DEF Ready, RequestBase, Turns, Asks
    <3> QED BY <3>2, <3>3, <3>4
  <2>7. Keyed(v)
    BY <1>3, <1>f, <2>4, <2>5 DEF Ready, Clear, Keyed
  <2>8. Served(v)
    <3>1. CASE u.live = g
      BY <1>f, <2>4, <2>5, <3>1 DEF Served
    <3>2. CASE u.live # g
      BY <1>f, <2>4, <2>5, <3>2 DEF Ready, Served
    <3> QED BY <3>1, <3>2
  <2> QED BY <2>3, <2>6, <2>7, <2>8 DEF RequestGood, RequestBase
<1>5. CASE u.vpn
  <2> DEFINE r == NetworkAgent!Respond(u, "failed")
  <2>1. \/ v = [u EXCEPT !.helper[g] = "running", !.vpnKey = g]
        \/ v = r
        \/ v = [r EXCEPT !.vpnKey = g]
        \/ v = [r EXCEPT !.helper[g] = "cancelled", !.vpnKey = g]
    BY <1>5 DEF NetworkAgent!HandleRequest, NetworkAgent!StartHelper
  <2>2. RequestBase(r) /\ r.helper = u.helper
    BY AnyRespond DEF Ready, Answers
  <2> HIDE DEF r
  <2>3. r = [r EXCEPT !.helper[g] = "none"]
    <3>1. r \in NetworkAgent!State /\ r.helper[g] = "none"
      BY <2>2 DEF RequestBase, Ready
    <3>2. r.helper = [r.helper EXCEPT ![g] = "none"]
      BY <3>1, RequestFields
    <3> QED BY <3>1, <3>2 DEF NetworkAgent!State
  <2>4. CASE v = [r EXCEPT !.vpnKey = g]
    BY <1>4, <1>5, <2>3, <2>4 DEF r
  <2>5. CASE v = [r EXCEPT !.helper[g] = "cancelled", !.vpnKey = g]
    BY <1>4, <1>5, <2>5 DEF r
  <2> QED BY <1>1, <1>2, <1>5, <2>1, <2>4, <2>5 DEF r
<1>6. CASE ~u.vpn
  BY <1>3, <1>6 DEF NetworkAgent!HandleRequest, NetworkAgent!OpenDialog
<1> QED BY <1>5, <1>6

LEMMA AfterNew ==
  ASSUME NEW u, u.live \in Asks, Ready(u, u.live), ~u.searching,
         NEW v \in NetworkAgent!NewRequest(u)
  PROVE  RequestGood(v)
<1>0. u \in NetworkAgent!State
  BY DEF Ready, RequestBase
<1>f. /\ u.note \in [Asks -> {"none", "shown", "gone"}] /\ u.live \in 0..NetworkAsks
      /\ u.noteKey \in 0..NetworkAsks /\ u.asked \in 0..NetworkAsks
  BY <1>0, RequestFields
<1>1. CASE v = [u EXCEPT !.note[u.live] = "shown", !.noteKey = u.live]
  <2> DEFINE w == [u EXCEPT !.note[u.live] = "shown"]
  <2>1. w \in NetworkAgent!State
    BY <1>0, RequestMarking
  <2>2. v = [w EXCEPT !.noteKey = u.live]
    BY <1>1
  <2> HIDE DEF w
  <2>3. v \in NetworkAgent!State
    BY <2>1, <2>2, <1>f, RequestSetting
  <2>4. /\ v.vpn = u.vpn /\ v.external = u.external /\ v.asked = u.asked /\ v.live = u.live
        /\ v.searching = u.searching /\ v.dialog = u.dialog /\ v.stray = u.stray
    BY <1>0, <2>2 DEF w, NetworkAgent!State
  <2>5. /\ v.dialogKey = u.dialogKey /\ v.noteKey = u.live /\ v.helper = u.helper
        /\ v.note = [u.note EXCEPT ![u.live] = "shown"] /\ v.vpnKey = u.vpnKey
    BY <1>0, <2>2 DEF w, NetworkAgent!State
  <2>6. Untouched(v) /\ Kinds(v) /\ Turns(v)
    BY <1>f, <2>4, <2>5, AgentsAssumption
    DEF Ready, RequestBase, Untouched, Kinds, Turns, Asks
  <2>7. Keyed(v) /\ Served(v)
    BY <1>f, <2>4, <2>5 DEF Ready, Clear, Keyed, Served, Asks
  <2> QED BY <2>3, <2>6, <2>7 DEF RequestGood, RequestBase
<1>2. CASE v \in NetworkAgent!HandleRequest(u, u.live)
  BY <1>2, AfterHandle
<1>3. CASE v = NetworkAgent!Respond(u, "failed")
  BY <1>3, AfterRespond DEF Ready, Answers
<1> QED BY <1>1, <1>2, <1>3 DEF NetworkAgent!NewRequest
-----------------------------------------------------------------------------
\* Each action keeps the invariant.
LEMMA GetSecretsGood ==
  ASSUME RequestGood(state), NetworkAgent!GetSecrets
  PROVE  RequestGood(state')
<1> DEFINE c == NetworkAgent!CancelRequest(state)
           n == state.asked + 1
           w == [c EXCEPT !.asked = n]
           u == [w EXCEPT !.live = n]
<1>1. RequestGood(c) /\ c.live = 0 /\ c.asked = state.asked /\ Clear(c)
  BY AfterCancel
<1>2. state' \in {[u EXCEPT !.searching = TRUE]} \cup NetworkAgent!NewRequest(u)
  <2>1. u = [c EXCEPT !.asked = @ + 1, !.live = state.asked + 1]
    BY <1>1
  <2> QED BY <2>1 DEF NetworkAgent!GetSecrets
<1>3. n \in 0..NetworkAsks /\ n \in Asks /\ state.asked \in 0..NetworkAsks
  <2>1. state.asked \in 0..NetworkAsks /\ state.asked < NetworkAsks
    BY RequestFields DEF NetworkAgent!GetSecrets, RequestGood, RequestBase
  <2> QED BY <2>1, AgentsAssumption DEF Asks
<1> HIDE DEF c
<1>4. c \in NetworkAgent!State
  BY <1>1 DEF RequestGood, RequestBase
<1>5. w \in NetworkAgent!State
  BY <1>3, <1>4, RequestSetting
<1>6. w.asked = n /\ w.live = c.live
  BY <1>4 DEF NetworkAgent!State
<1> HIDE DEF w
<1>7. u \in NetworkAgent!State
  BY <1>3, <1>5, RequestSetting
<1>8. /\ u.vpn = c.vpn /\ u.external = c.external /\ u.asked = n /\ u.live = n
      /\ u.searching = c.searching /\ u.dialog = c.dialog /\ u.stray = c.stray
  BY <1>4 DEF w, NetworkAgent!State
<1>9. /\ u.dialogKey = c.dialogKey /\ u.noteKey = c.noteKey /\ u.helper = c.helper
      /\ u.note = c.note /\ u.vpnKey = c.vpnKey
  BY <1>4 DEF w, NetworkAgent!State
<1> HIDE DEF u
<1>10. /\ ~c.searching
       /\ c.note[n] = "none" /\ c.dialog[n] = "none" /\ c.helper[n] = "none"
  BY <1>1, <1>3, AgentsAssumption DEF RequestGood, RequestBase, Untouched, Turns, Asks
<1>11. Untouched(u) /\ Kinds(u) /\ Turns(u)
  BY <1>1, <1>3, <1>8, <1>9, <1>10 DEF RequestGood, RequestBase, Untouched, Kinds, Turns, Asks
<1>12. Clear(u)
  BY <1>1, <1>3, <1>8, <1>9, <1>10 DEF Clear, Asks
<1> HIDE DEF n
<1>13. CASE state' = [u EXCEPT !.searching = TRUE]
  <2>1. state' \in NetworkAgent!State
    BY <1>7, <1>13, RequestSetting
  <2>2. /\ state'.vpn = u.vpn /\ state'.external = u.external /\ state'.asked = u.asked
        /\ state'.live = u.live /\ state'.searching = TRUE /\ state'.dialog = u.dialog
        /\ state'.stray = u.stray
    BY <1>7, <1>13 DEF NetworkAgent!State
  <2>3. /\ state'.dialogKey = u.dialogKey /\ state'.noteKey = u.noteKey
        /\ state'.helper = u.helper /\ state'.note = u.note /\ state'.vpnKey = u.vpnKey
    BY <1>7, <1>13 DEF NetworkAgent!State
  <2>4. Untouched(state') /\ Kinds(state')
    BY <1>11, <2>2, <2>3 DEF Untouched, Kinds
  <2>5. Turns(state')
    BY <1>3, <1>8, <1>9, <1>10, <1>11, <2>2, <2>3, AgentsAssumption DEF Turns, Asks
  <2>6. Keyed(state') /\ Served(state')
    BY <1>12, <2>2, <2>3 DEF Clear, Keyed, Served
  <2> QED BY <2>1, <2>4, <2>5, <2>6 DEF RequestGood, RequestBase
<1>14. CASE state' \in NetworkAgent!NewRequest(u)
  <2>1. Ready(u, u.live)
    BY <1>3, <1>7, <1>8, <1>9, <1>10, <1>11, <1>12, AgentsAssumption DEF Ready, RequestBase
  <2> QED BY <1>3, <1>8, <1>10, <1>14, <2>1, AfterNew
<1> QED BY <1>2, <1>13, <1>14

LEMMA SearchedGood ==
  ASSUME RequestGood(state), NetworkAgent!Searched
  PROVE  RequestGood(state')
<1> DEFINE u == [state EXCEPT !.searching = FALSE]
<1>1. state \in NetworkAgent!State /\ state.searching
  BY DEF RequestGood, RequestBase, NetworkAgent!Searched
<1>2. u \in NetworkAgent!State
  BY <1>1, RequestSetting
<1>3. \/ state' \in NetworkAgent!NewRequest(u)
      \/ \E a \in Answers : state' = NetworkAgent!Return(u, a)
  BY DEF NetworkAgent!Searched, Answers
<1>4. /\ u.vpn = state.vpn /\ u.external = state.external /\ u.asked = state.asked
      /\ u.live = state.live /\ u.searching = FALSE /\ u.dialog = state.dialog
      /\ u.stray = state.stray
  BY <1>1 DEF NetworkAgent!State
<1>5. /\ u.dialogKey = state.dialogKey /\ u.noteKey = state.noteKey
      /\ u.helper = state.helper /\ u.note = state.note /\ u.vpnKey = state.vpnKey
  BY <1>1 DEF NetworkAgent!State
<1> HIDE DEF u
<1>6. Untouched(u) /\ Kinds(u) /\ Turns(u)
  BY <1>4, <1>5 DEF RequestGood, RequestBase, Untouched, Kinds, Turns
<1>7. /\ u.live \in Asks /\ u.live <= u.asked
      /\ u.note[u.live] = "none" /\ u.dialog[u.live] = "none" /\ u.helper[u.live] = "none"
  <2>1. u.live # 0 /\ u.live \in 0..NetworkAsks
    BY <1>1, <1>2, <1>4, RequestFields DEF RequestGood, RequestBase, Turns
  <2> QED BY <1>1, <1>4, <1>5, <2>1, AgentsAssumption DEF RequestGood, RequestBase, Untouched, Turns, Asks
<1>8. Clear(u)
  BY <1>4, <1>5, <1>7 DEF RequestGood, Keyed, Clear, Asks
<1>9. CASE state' \in NetworkAgent!NewRequest(u)
  <2>1. Ready(u, u.live)
    BY <1>2, <1>4, <1>6, <1>7, <1>8 DEF Ready, RequestBase
  <2> QED BY <1>4, <1>7, <1>9, <2>1, AfterNew
<1>10. ASSUME NEW a \in Answers, state' = NetworkAgent!Return(u, a) PROVE RequestGood(state')
  <2>1. RequestBase(u) /\ u.live # 0
    BY <1>2, <1>6, <1>7, AgentsAssumption DEF RequestBase, Asks
  <2> QED BY <1>8, <1>10, <2>1, AfterReturn
<1> QED BY <1>3, <1>9, <1>10

\* The notification g acts: what it leaves is ready for a dialog, or to be answered.
LEMMA AfterNote ==
  ASSUME RequestGood(state), NEW g \in Asks, state.note[g] = "shown"
  PROVE  Ready([NetworkAgent!Acts(state, g) EXCEPT !.note[g] = "gone", !.noteKey = 0], g)
<1> DEFINE s == [state EXCEPT !.stray = @ \/ state.live # g]
           w == [s EXCEPT !.note[g] = "gone"]
           u == [w EXCEPT !.noteKey = 0]
<1>1. state \in NetworkAgent!State
  BY DEF RequestGood, RequestBase
<1>2. s \in NetworkAgent!State
  BY <1>1, RequestSetting, RequestFields
<1>3. u = [NetworkAgent!Acts(state, g) EXCEPT !.note[g] = "gone", !.noteKey = 0]
  BY DEF NetworkAgent!Acts
<1>4. s.stray = (state.stray \/ state.live # g)
  BY <1>1 DEF NetworkAgent!State
<1>5. /\ s.vpn = state.vpn /\ s.external = state.external /\ s.asked = state.asked
      /\ s.live = state.live /\ s.searching = state.searching /\ s.dialog = state.dialog
  BY <1>1 DEF NetworkAgent!State
<1>6. /\ s.dialogKey = state.dialogKey /\ s.helper = state.helper /\ s.note = state.note
  BY <1>1 DEF NetworkAgent!State
<1> HIDE DEF s
<1>7. w \in NetworkAgent!State
  BY <1>2, RequestMarking
<1> HIDE DEF w
<1>8. u \in NetworkAgent!State
  BY <1>7, RequestSetting, Zero
<1>9. /\ u.vpn = s.vpn /\ u.external = s.external /\ u.asked = s.asked
      /\ u.live = s.live /\ u.searching = s.searching /\ u.dialog = s.dialog
      /\ u.stray = s.stray
  BY <1>2 DEF w, NetworkAgent!State
<1>10. /\ u.dialogKey = s.dialogKey /\ u.noteKey = 0 /\ u.helper = s.helper
       /\ u.note = [s.note EXCEPT ![g] = "gone"]
  BY <1>2 DEF w, NetworkAgent!State
<1> HIDE DEF u
<1>11. state.note \in [Asks -> {"none", "shown", "gone"}] /\ state.live \in 0..NetworkAsks
       /\ state.asked \in 0..NetworkAsks
  BY <1>1, RequestFields
<1>12. /\ g <= state.asked /\ state.dialog[g] = "none" /\ state.helper[g] = "none"
       /\ state.searching => state.live # g
  BY <1>11, AgentsAssumption DEF RequestGood, RequestBase, Untouched, Turns, Asks
<1>13. Untouched(u) /\ Kinds(u) /\ Turns(u)
  BY <1>5, <1>6, <1>9, <1>10, <1>11, <1>12 DEF RequestGood, RequestBase, Untouched, Kinds, Turns, Asks
<1>14. Clear(u)
  <2>1. ~u.stray => ~state.stray /\ state.live = g
    BY <1>4, <1>9
  <2>2. u.dialog = state.dialog /\ u.helper = state.helper /\ u.live = state.live
    BY <1>5, <1>6, <1>9, <1>10
  <2> QED BY <1>12, <2>1, <2>2 DEF RequestGood, Keyed, Clear
<1>15. u.live # g => Served(u)
  <2>1. ASSUME u.live # g, u.live # 0 PROVE u.note[u.live] = state.note[state.live]
    BY <1>5, <1>6, <1>9, <1>10, <1>11, <2>1, AgentsAssumption DEF Asks
  <2>2. Served(state)
    BY DEF RequestGood
  <2> QED BY <1>5, <1>6, <1>9, <1>10, <2>1, <2>2 DEF Served
<1>16. RequestBase(u)
  BY <1>8, <1>13 DEF RequestBase
<1>17. u.note[g] = "gone" /\ u.dialog[g] = "none" /\ u.helper[g] = "none"
  BY <1>5, <1>6, <1>9, <1>10, <1>11, <1>12
<1>18. g <= u.asked /\ (~u.stray => u.live = g) /\ (u.searching => u.live # g)
  BY <1>4, <1>5, <1>9, <1>12
<1> QED
  BY <1>3, <1>14, <1>15, <1>16, <1>17, <1>18 DEF Ready

LEMMA NoteGood ==
  ASSUME RequestGood(state), NEW g \in Asks, NetworkAgent!Activate(g) \/ NetworkAgent!Dismiss(g)
  PROVE  RequestGood(state')
<1> DEFINE u == [NetworkAgent!Acts(state, g) EXCEPT !.note[g] = "gone", !.noteKey = 0]
<1>1. Ready(u, g)
  BY AfterNote DEF NetworkAgent!Activate, NetworkAgent!Dismiss
<1>2. \/ state' \in NetworkAgent!HandleRequest(u, g)
      \/ state' = NetworkAgent!Respond(u, "userCanceled")
  BY DEF NetworkAgent!Activate, NetworkAgent!Dismiss
<1> HIDE DEF u
<1> QED BY <1>1, <1>2, AfterHandle, AfterRespond DEF Ready, Answers

LEMMA PressGood ==
  ASSUME RequestGood(state), NEW g \in Asks, NEW a \in {"secrets", "userCanceled"},
         NetworkAgent!Press(g, a)
  PROVE  RequestGood(state')
<1> DEFINE s == [state EXCEPT !.stray = @ \/ state.live # g]
           r == NetworkAgent!Respond(s, a)
<1>1. state \in NetworkAgent!State /\ state.dialog[g] = "open"
  BY DEF RequestGood, RequestBase, NetworkAgent!Press
<1>2. s \in NetworkAgent!State
  BY <1>1, RequestSetting, RequestFields
<1>3. state' = [r EXCEPT !.dialog[g] = "closing"]
  BY DEF NetworkAgent!Press, NetworkAgent!Acts
<1>4. /\ s.stray = (state.stray \/ state.live # g)
      /\ s.vpn = state.vpn /\ s.external = state.external /\ s.asked = state.asked
      /\ s.live = state.live /\ s.searching = state.searching /\ s.dialog = state.dialog
  BY <1>1 DEF NetworkAgent!State
<1>5. /\ s.dialogKey = state.dialogKey /\ s.helper = state.helper /\ s.note = state.note
      /\ s.noteKey = state.noteKey
  BY <1>1 DEF NetworkAgent!State
<1> HIDE DEF s
<1>6. RequestBase(s)
  BY <1>2, <1>4, <1>5 DEF RequestGood, RequestBase, Untouched, Kinds, Turns
<1>7. RequestBase(r) /\ r.live = 0 /\ r.dialog = s.dialog /\ r.helper = s.helper /\ r.stray = s.stray
  <2>1. CASE s.live = 0
    BY <1>6, <2>1 DEF NetworkAgent!Respond
  <2>2. CASE s.live # 0
    <3>1. r = NetworkAgent!Return(s, a)
      BY <2>2 DEF NetworkAgent!Respond
    <3>2. r.dialog = s.dialog /\ r.helper = s.helper /\ r.stray = s.stray
      BY <1>2, <3>1 DEF NetworkAgent!Return, NetworkAgent!State
    <3> HIDE DEF r
    <3> QED BY <1>6, <2>2, <3>1, <3>2, AfterReturn DEF Answers
  <2> QED BY <2>1, <2>2
<1> HIDE DEF r
<1>8. r \in NetworkAgent!State
  BY <1>7 DEF RequestBase
<1>9. state' \in NetworkAgent!State
  BY <1>3, <1>8, RequestMarking
<1>10. /\ state'.vpn = r.vpn /\ state'.external = r.external /\ state'.asked = r.asked
       /\ state'.live = 0 /\ state'.searching = r.searching /\ state'.stray = r.stray
       /\ state'.dialog = [r.dialog EXCEPT ![g] = "closing"]
  BY <1>3, <1>7, <1>8 DEF NetworkAgent!State
<1>11. /\ state'.dialogKey = r.dialogKey /\ state'.noteKey = r.noteKey
       /\ state'.helper = r.helper /\ state'.note = r.note
  BY <1>3, <1>8 DEF NetworkAgent!State
<1>12. /\ r.dialog \in [Asks -> {"none", "refused", "open", "closing", "gone"}]
       /\ r.dialogKey \in 0..NetworkAsks /\ r.dialog[g] = "open"
  BY <1>1, <1>4, <1>7, <1>8, RequestFields
<1> HIDE DEF s
<1>13. Untouched(state') /\ Kinds(state') /\ Turns(state')
  BY <1>7, <1>10, <1>11, <1>12 DEF RequestBase, Untouched, Kinds, Turns, Asks
<1>14. Keyed(state') /\ Served(state')
  <2>1. ~s.stray => ~state.stray /\ state.live = g
    BY <1>4
  <2>2. ~s.stray => \A h \in Asks : /\ r.dialog[h] = "open" => h = g
                                    /\ r.helper[h] # "running"
    BY <1>1, <1>4, <1>5, <1>7, <2>1 DEF RequestGood, RequestBase, Turns, Keyed
  <2> QED BY <1>7, <1>10, <1>11, <1>12, <2>2, AgentsAssumption DEF Keyed, Served, Asks
<1> QED BY <1>9, <1>13, <1>14 DEF RequestGood, RequestBase

LEMMA ClosedGood ==
  ASSUME RequestGood(state), NEW g \in Asks, NetworkAgent!Closed(g)
  PROVE  RequestGood(state')
<1> DEFINE u == [state EXCEPT !.dialog[g] = "gone"]
<1>1. state \in NetworkAgent!State /\ state.dialog[g] = "closing"
  BY DEF RequestGood, RequestBase, NetworkAgent!Closed
<1>2. u \in NetworkAgent!State
  BY <1>1, RequestMarking
<1>3. state' = IF state.vpn THEN u
               ELSE [u EXCEPT !.dialogKey = 0,
                              !.stray = u.stray \/ state.dialogKey \notin {0, g}]
  BY DEF NetworkAgent!Closed
<1>4. /\ u.vpn = state.vpn /\ u.external = state.external /\ u.asked = state.asked
      /\ u.live = state.live /\ u.searching = state.searching /\ u.stray = state.stray
      /\ u.dialog = [state.dialog EXCEPT ![g] = "gone"]
  BY <1>1 DEF NetworkAgent!State
<1>5. /\ u.dialogKey = state.dialogKey /\ u.noteKey = state.noteKey /\ u.vpnKey = state.vpnKey
      /\ u.helper = state.helper /\ u.note = state.note
  BY <1>1 DEF NetworkAgent!State
<1> HIDE DEF u
<1>6. /\ state.dialog \in [Asks -> {"none", "refused", "open", "closing", "gone"}]
      /\ state.dialogKey \in 0..NetworkAsks /\ state.live \in 0..NetworkAsks
      /\ state.vpn \in BOOLEAN
  BY <1>1, RequestFields
<1>7. Untouched(u) /\ Kinds(u) /\ Turns(u)
  BY <1>1, <1>4, <1>5, <1>6 DEF RequestGood, RequestBase, Untouched, Kinds, Turns, Asks
<1>8. Served(u)
  <2>1. Served(state)
    BY DEF RequestGood
  <2>2. ASSUME u.live # 0, u.dialog[u.live] \notin {"open", "refused"}
        PROVE  state.dialog[state.live] \notin {"open", "refused"}
    BY <1>1, <1>4, <1>6, <2>2, AgentsAssumption DEF Asks
  <2> QED BY <1>4, <1>5, <2>1, <2>2 DEF Served
<1>9. CASE state.vpn
  <2>1. Keyed(u)
    BY <1>1, <1>4, <1>5, <1>6 DEF RequestGood, Keyed
  <2> QED BY <1>2, <1>3, <1>7, <1>8, <1>9, <2>1 DEF RequestGood, RequestBase
<1>10. CASE ~state.vpn
  <2> DEFINE w == [u EXCEPT !.dialogKey = 0]
  <2>1. w \in NetworkAgent!State
    BY <1>2, RequestSetting, Zero
  <2>2. w.stray = u.stray /\ w.stray \in BOOLEAN
    BY <1>2, RequestFields DEF NetworkAgent!State
  <2>3. state' = [w EXCEPT !.stray = u.stray \/ state.dialogKey \notin {0, g}]
    BY <1>3, <1>10
  <2>4. /\ w.vpn = u.vpn /\ w.external = u.external /\ w.asked = u.asked
        /\ w.live = u.live /\ w.searching = u.searching /\ w.dialog = u.dialog
        /\ w.dialogKey = 0
    BY <1>2 DEF NetworkAgent!State
  <2>5. w.noteKey = u.noteKey /\ w.helper = u.helper /\ w.note = u.note
    BY <1>2 DEF NetworkAgent!State
  <2> HIDE DEF w
  <2>6. state' \in NetworkAgent!State
    BY <2>1, <2>2, <2>3, RequestSetting
  <2>7. /\ state'.vpn = w.vpn /\ state'.external = w.external /\ state'.asked = w.asked
        /\ state'.live = w.live /\ state'.searching = w.searching
        /\ state'.dialog = w.dialog
        /\ state'.stray = (u.stray \/ state.dialogKey \notin {0, g})
    BY <2>1, <2>3 DEF NetworkAgent!State
  <2>8. /\ state'.dialogKey = 0 /\ state'.noteKey = w.noteKey
        /\ state'.helper = w.helper /\ state'.note = w.note
    BY <2>1, <2>3, <2>4 DEF NetworkAgent!State
  <2>9. Untouched(state') /\ Kinds(state') /\ Turns(state') /\ Served(state')
    BY <1>7, <1>8, <2>4, <2>5, <2>7, <2>8 DEF Untouched, Kinds, Turns, Served
  <2>10. Keyed(state')
    <3>1. ~state'.stray => ~state.stray /\ state.dialogKey \in {0, g}
      BY <1>4, <2>7
    <3>2. ~state'.stray => \A h \in Asks : state.dialog[h] # "open"
      BY <1>1, <1>10, <3>1 DEF RequestGood, Keyed, Asks
    <3>3. \A h \in Asks : state.helper[h] = "none"
      BY <1>10 DEF RequestGood, RequestBase, Kinds
    <3> QED BY <1>4, <1>5, <1>6, <2>4, <2>5, <2>7, <2>8, <3>2, <3>3 DEF Keyed
  <2> QED BY <2>6, <2>9, <2>10 DEF RequestGood, RequestBase
<1> QED BY <1>6, <1>9, <1>10

LEMMA AfterDestroy ==
  ASSUME NEW u, RequestBase(u), Clear(u), u.live = 0, NEW g \in Asks, u.helper[g] = "ended"
  PROVE  RequestGood(NetworkAgent!DestroyHelper(u, g))
<1> DEFINE v == NetworkAgent!DestroyHelper(u, g)
<1>1. u \in NetworkAgent!State
  BY DEF RequestBase
<1>2. v \in NetworkAgent!State
  BY <1>1, DestroyHelperTyped
<1>3. /\ v.vpn = u.vpn /\ v.external = u.external /\ v.asked = u.asked /\ v.live = u.live
      /\ v.searching = u.searching /\ v.note = u.note /\ v.stray = u.stray
  BY <1>1 DEF NetworkAgent!State, NetworkAgent!DestroyHelper
<1>4. /\ v.dialogKey = u.dialogKey /\ v.noteKey = u.noteKey /\ v.dialog = u.dialog
      /\ v.helper = [u.helper EXCEPT ![g] = IF @ = "running" THEN "cancelled" ELSE @]
  BY <1>1 DEF NetworkAgent!State, NetworkAgent!DestroyHelper
<1> HIDE DEF v
<1>5. v.helper = u.helper
  BY <1>1, <1>4, RequestFields
<1>6. RequestBase(v)
  BY <1>2, <1>3, <1>4, <1>5 DEF RequestBase, Untouched, Kinds, Turns
<1>7. Keyed(v) /\ Served(v)
  BY <1>3, <1>4, <1>5 DEF Clear, Keyed, Served
<1> QED BY <1>6, <1>7 DEF v, RequestGood

LEMMA ExitedGood ==
  ASSUME RequestGood(state), NEW g \in Asks, NetworkAgent!Exited(g)
  PROVE  RequestGood(state')
<1> DEFINE s == NetworkAgent!Acts(state, g)
<1>1. PICK a \in {"secrets", "userCanceled", "failed"} :
        state' = NetworkAgent!DestroyHelper(
                   [NetworkAgent!Respond(s, a) EXCEPT !.helper[g] = "ended"], g)
  BY DEF NetworkAgent!Exited
<1> DEFINE r == NetworkAgent!Respond(s, a)
           w == [r EXCEPT !.helper[g] = "ended"]
<1>2. /\ RequestBase(s) /\ (~s.stray => ~state.stray /\ state.live = g)
      /\ s.dialog = state.dialog /\ s.helper = state.helper
      /\ s.vpn = state.vpn /\ s.external = state.external
  BY AfterActs
<1>3. ~state.external /\ state.helper[g] = "running"
  BY DEF NetworkAgent!Exited
<1> HIDE DEF s
<1>4. /\ RequestBase(r) /\ r.live = 0 /\ r.stray = s.stray /\ r.vpn = s.vpn
      /\ r.dialog = s.dialog /\ r.helper = s.helper
  BY <1>2, AnyRespond DEF Answers
<1> HIDE DEF r
<1>5. r \in NetworkAgent!State
  BY <1>4 DEF RequestBase
<1>6. w \in NetworkAgent!State
  BY <1>5, RequestMarking
<1>7. /\ w.vpn = r.vpn /\ w.external = r.external /\ w.asked = r.asked /\ w.live = 0
      /\ w.searching = r.searching /\ w.note = r.note /\ w.stray = r.stray
  BY <1>4, <1>5 DEF NetworkAgent!State
<1>8. /\ w.dialogKey = r.dialogKey /\ w.noteKey = r.noteKey /\ w.dialog = r.dialog
      /\ w.helper = [r.helper EXCEPT ![g] = "ended"]
  BY <1>5 DEF NetworkAgent!State
<1>9. state' = NetworkAgent!DestroyHelper(w, g)
  BY <1>1 DEF r
<1> HIDE DEF w
<1>10. /\ r.helper \in [Asks -> {"none", "running", "cancelled", "ended"}]
       /\ r.helper[g] = "running" /\ r.live \in 0..NetworkAsks
  BY <1>2, <1>3, <1>4, <1>5, RequestFields
<1>11. RequestBase(w)
  BY <1>4, <1>6, <1>7, <1>8, <1>10 DEF RequestBase, Untouched, Kinds, Turns
<1>12. Clear(w)
  <2>1. \A h \in Asks : state.dialog[h] = "none"
    BY <1>3 DEF RequestGood, RequestBase, Kinds
  <2>2. ~s.stray => \A h \in Asks : state.helper[h] = "running" => h = g
    BY <1>2 DEF RequestGood, Keyed
  <2>3. w.dialog = state.dialog /\ \A h \in Asks :
          w.helper[h] = "running" => h # g /\ state.helper[h] = "running"
    BY <1>2, <1>4, <1>8, <1>10
  <2>4. \A h \in Asks : w.live # h
    BY <1>7 DEF Asks
  <2> QED BY <1>4, <1>7, <2>1, <2>2, <2>3, <2>4 DEF Clear
<1> QED BY <1>7, <1>8, <1>9, <1>10, <1>11, <1>12, AfterDestroy

LEMMA ShowNewStyleGood ==
  ASSUME RequestGood(state), NEW g \in Asks, NetworkAgent!ShowNewStyle(g)
  PROVE  RequestGood(state')
<1> DEFINE s == NetworkAgent!Acts(state, g)
           u == [s EXCEPT !.helper[g] = "ended"]
<1>1. state.external /\ state.helper[g] \in {"running", "cancelled"}
  BY DEF NetworkAgent!ShowNewStyle
<1>2. \/ state' \in NetworkAgent!OpenDialog(u, g)
      \/ \E a \in Answers : \/ state' = NetworkAgent!Respond(u, a)
                            \/ state' = NetworkAgent!DestroyHelper(NetworkAgent!Respond(u, a), g)
  BY DEF NetworkAgent!ShowNewStyle, Answers
<1>3. /\ RequestBase(s) /\ (~s.stray => ~state.stray /\ state.live = g)
      /\ s.dialog = state.dialog /\ s.helper = state.helper /\ s.note = state.note
      /\ s.vpn = state.vpn /\ s.external = state.external /\ s.live = state.live
      /\ s.vpnKey = state.vpnKey /\ s.asked = state.asked
  BY AfterActs
<1> HIDE DEF s
<1>4. s \in NetworkAgent!State
  BY <1>3 DEF RequestBase
<1>5. u \in NetworkAgent!State
  BY <1>4, RequestMarking
<1>6. /\ u.vpn = s.vpn /\ u.external = s.external /\ u.asked = s.asked /\ u.live = s.live
      /\ u.searching = s.searching /\ u.note = s.note /\ u.stray = s.stray
  BY <1>4 DEF NetworkAgent!State
<1>7. /\ u.dialogKey = s.dialogKey /\ u.noteKey = s.noteKey /\ u.dialog = s.dialog
      /\ u.vpnKey = s.vpnKey /\ u.helper = [s.helper EXCEPT ![g] = "ended"]
  BY <1>4 DEF NetworkAgent!State
<1> HIDE DEF u
<1>8. /\ s.helper \in [Asks -> {"none", "running", "cancelled", "ended"}]
      /\ s.dialog \in [Asks -> {"none", "refused", "open", "closing", "gone"}]
      /\ s.helper[g] \in {"running", "cancelled"} /\ s.live \in 0..NetworkAsks
      /\ s.asked \in 0..NetworkAsks /\ s.dialogKey \in 0..NetworkAsks
  BY <1>1, <1>3, <1>4, RequestFields
<1>9. g <= u.asked /\ u.note[g] # "shown" /\ u.dialog[g] = "none" /\ u.vpn /\ u.external
  BY <1>1, <1>3, <1>6, <1>7, <1>8, AgentsAssumption DEF RequestBase, Untouched, Kinds, Turns, Asks
<1>10. RequestBase(u)
  BY <1>3, <1>5, <1>6, <1>7, <1>8 DEF RequestBase, Untouched, Kinds, Turns
<1>11. Clear(u) /\ (~u.stray => u.live = g /\ g = u.vpnKey)
  <2>1. ~u.stray => ~state.stray /\ state.live = g
    BY <1>3, <1>6
  <2>2. ~u.stray => /\ state.helper[g] = "running" /\ g = state.vpnKey
                    /\ \A h \in Asks : h # g => /\ state.dialog[h] # "open"
                                                /\ state.helper[h] # "running"
    BY <1>1, <2>1 DEF RequestGood, Keyed
  <2> QED BY <1>3, <1>6, <1>7, <1>8, <1>9, <2>1, <2>2 DEF Clear
<1>12. CASE state' \in NetworkAgent!OpenDialog(u, g)
  <2> PICK x \in {"open", "refused"} : state' = [u EXCEPT !.dialog[g] = x]
    BY <1>12 DEF NetworkAgent!OpenDialog
  <2>1. state' \in NetworkAgent!State
    BY <1>5, RequestMarking
  <2>2. /\ state'.vpn = u.vpn /\ state'.external = u.external /\ state'.asked = u.asked
        /\ state'.live = u.live /\ state'.searching = u.searching /\ state'.note = u.note
        /\ state'.stray = u.stray
    BY <1>5 DEF NetworkAgent!State
  <2>3. /\ state'.dialogKey = u.dialogKey /\ state'.noteKey = u.noteKey
        /\ state'.dialog = [u.dialog EXCEPT ![g] = x]
        /\ state'.vpnKey = u.vpnKey /\ state'.helper = u.helper
    BY <1>5 DEF NetworkAgent!State
  <2>4. Untouched(state') /\ Kinds(state')
    <3>1. \A h \in Asks : h # g => state'.dialog[h] = u.dialog[h]
      BY <1>7, <1>8, <2>3
    <3>2. Untouched(u) /\ Kinds(u)
      BY <1>10 DEF RequestBase
    <3>3. g \in 1..NetworkAsks /\ u.asked \in 0..NetworkAsks /\ ~(g > u.asked)
      BY <1>6, <1>8, <1>9, AgentsAssumption DEF Asks
    <3>4. Untouched(state')
      BY <2>2, <2>3, <3>1, <3>2, <3>3 DEF Untouched
    <3>5. Kinds(state')
      BY <1>9, <2>2, <2>3, <3>2 DEF Kinds
    <3> QED BY <3>4, <3>5
  <2>5. Turns(state')
    <3>1. u.helper[g] = "ended" /\ Turns(u)
      BY <1>7, <1>8, <1>10 DEF RequestBase
    <3>2. u.dialog \in [Asks -> {"none", "refused", "open", "closing", "gone"}]
      BY <1>3, <1>7, <1>8
    <3>3. \A h \in Asks : h # g => state'.dialog[h] = u.dialog[h]
      BY <2>3, <3>2
    <3>4. u.searching => u.live \in Asks /\ u.live # g
      BY <1>3, <1>6, <1>8, <3>1, AgentsAssumption DEF Turns, Asks
    <3> QED BY <1>9, <2>2, <2>3, <3>1, <3>3, <3>4 DEF Turns
  <2>6. Keyed(state')
    BY <1>7, <1>8, <1>9, <1>11, <2>2, <2>3 DEF Clear, Keyed
  <2>7. Served(state')
    <3>1. CASE state'.live = g
      BY <1>7, <1>8, <2>2, <2>3, <3>1 DEF Served
    <3>2. CASE state'.live # g
      <4>1. Served(state)
        BY DEF RequestGood
      <4>2. ASSUME state'.live # 0
            PROVE  /\ state'.helper[state'.live] = state.helper[state.live]
                   /\ state'.dialog[state'.live] = state.dialog[state.live]
        <5>1. state'.live = s.live /\ state.live = s.live /\ s.live \in Asks /\ s.live # g
          BY <1>3, <1>6, <1>8, <2>2, <3>2, <4>2, AgentsAssumption DEF Asks
        <5>2. /\ state'.helper[s.live] = s.helper[s.live]
              /\ state'.dialog[s.live] = s.dialog[s.live]
          BY <1>7, <1>8, <2>3, <5>1
        <5> QED BY <1>3, <5>1, <5>2
      <4>3. state'.searching = state.searching
        BY <1>6, <2>2 DEF s, NetworkAgent!Acts, NetworkAgent!State, RequestGood, RequestBase
      <4> QED BY <1>3, <1>6, <2>2, <4>1, <4>2, <4>3 DEF Served
    <3> QED BY <3>1, <3>2
  <2> QED BY <2>1, <2>4, <2>5, <2>6, <2>7 DEF RequestGood, RequestBase
<1>13. ASSUME NEW a \in Answers,
              \/ state' = NetworkAgent!Respond(u, a)
              \/ state' = NetworkAgent!DestroyHelper(NetworkAgent!Respond(u, a), g)
       PROVE  RequestGood(state')
  <2> DEFINE r == NetworkAgent!Respond(u, a)
  <2>1. RequestGood(r) /\ Clear(r) /\ r.live = 0 /\ r.helper = u.helper
    BY <1>10, <1>11, AfterRespond
  <2> HIDE DEF r
  <2>2. r.helper[g] = "ended"
    BY <1>7, <1>8, <2>1
  <2>3. RequestGood(NetworkAgent!DestroyHelper(r, g))
    BY <2>1, <2>2, AfterDestroy DEF RequestGood
  <2> QED BY <1>13, <2>1, <2>3 DEF r
<1> QED BY <1>2, <1>12, <1>13

\* Each loop of disable() keeps the invariant.
LEMMA AfterEndDialog ==
  ASSUME NEW x, RequestGood(x)
  PROVE  RequestGood(NetworkAgent!EndDialog(x)) /\ NetworkAgent!EndDialog(x).dialogKey = 0
<1> DEFINE r == NetworkAgent!Respond(x, "userCanceled")
           v == NetworkAgent!EndDialog(x)
<1>1. CASE x.dialogKey = 0
  BY <1>1 DEF NetworkAgent!EndDialog
<1>2. CASE x.dialogKey # 0
  <2> DEFINE k == x.dialogKey
             y == [r EXCEPT !.dialogKey = 0]
  <2>1. /\ RequestBase(r) /\ r.live = 0 /\ r.stray = x.stray /\ r.vpn = x.vpn
        /\ r.dialog = x.dialog /\ r.helper = x.helper /\ r.note = x.note
        /\ r.vpnKey = x.vpnKey /\ r.dialogKey = x.dialogKey
    BY AnyRespond DEF RequestGood, Answers
  <2> HIDE DEF r
  <2>2. r \in NetworkAgent!State
    BY <2>1 DEF RequestBase
  <2>3. /\ r.dialog \in [Asks -> {"none", "refused", "open", "closing", "gone"}]
        /\ k \in Asks
    <3>1. k \in 0..NetworkAsks
      BY <2>1, <2>2, RequestFields
    <3> QED BY <1>2, <2>2, <3>1, RequestFields DEF Asks
  <2>4. y \in NetworkAgent!State
    BY <2>2, RequestSetting, Zero
  <2>5. y.dialog[k] = r.dialog[k]
    BY <2>2 DEF NetworkAgent!State
  <2>6. v = [y EXCEPT !.dialog[k] = IF y.dialog[k] = "open" THEN "closing" ELSE y.dialog[k]]
    BY <1>2 DEF NetworkAgent!EndDialog, r
  <2>7. /\ y.vpn = r.vpn /\ y.external = r.external /\ y.asked = r.asked
        /\ y.live = 0 /\ y.searching = r.searching /\ y.note = r.note /\ y.stray = r.stray
    BY <2>1, <2>2 DEF NetworkAgent!State
  <2>8. /\ y.dialogKey = 0 /\ y.noteKey = r.noteKey /\ y.dialog = r.dialog
        /\ y.helper = r.helper
    BY <2>2 DEF NetworkAgent!State
  <2> HIDE DEF y, v, k
  <2>9. v \in NetworkAgent!State
    BY <2>3, <2>4, <2>5, <2>6, RequestMarking
  <2>10. /\ v.vpn = y.vpn /\ v.external = y.external /\ v.asked = y.asked
         /\ v.live = y.live /\ v.searching = y.searching /\ v.note = y.note
         /\ v.stray = y.stray
    BY <2>4, <2>6 DEF NetworkAgent!State
  <2>11. /\ v.dialogKey = y.dialogKey /\ v.noteKey = y.noteKey /\ v.helper = y.helper
         /\ v.dialog = [y.dialog EXCEPT ![k] = IF @ = "open" THEN "closing" ELSE @]
    BY <2>4, <2>6 DEF NetworkAgent!State
  <2>12. ~r.vpn /\ r.dialog[k] # "none" /\ \A h \in Asks : r.helper[h] = "none"
    BY <1>2, <2>1, <2>3 DEF RequestBase, Kinds, k
  <2>13. Untouched(v) /\ Kinds(v) /\ Turns(v)
    BY <2>1, <2>3, <2>7, <2>8, <2>10, <2>11, <2>12 DEF RequestBase, Untouched, Kinds, Turns
  <2>14. ~x.stray => \A h \in Asks : r.dialog[h] = "open" => h = k
    BY <2>1, <2>12 DEF RequestGood, Keyed, k
  <2>15. Keyed(v) /\ Served(v)
    BY <2>1, <2>3, <2>7, <2>8, <2>10, <2>11, <2>12, <2>14 DEF Keyed, Served
  <2> QED BY <2>8, <2>9, <2>11, <2>13, <2>15 DEF v, RequestGood, RequestBase
<1> QED BY <1>1, <1>2

LEMMA AfterEndHelper ==
  ASSUME NEW v, RequestGood(v), v.dialogKey = 0
  PROVE  RequestGood(NetworkAgent!EndHelper(v))
<1> DEFINE w == NetworkAgent!EndHelper(v)
<1>1. CASE v.vpnKey = 0
  BY <1>1 DEF NetworkAgent!EndHelper
<1>2. CASE v.vpnKey # 0
  <2> DEFINE k == v.vpnKey
             y == NetworkAgent!Respond(v, "userCanceled")
  <2>1. /\ RequestBase(y) /\ y.live = 0 /\ y.stray = v.stray /\ y.vpn = v.vpn
        /\ y.dialog = v.dialog /\ y.helper = v.helper
    BY AnyRespond DEF RequestGood, Answers
  <2>2. w = NetworkAgent!CancelHelper(y, k)
    BY <1>2 DEF NetworkAgent!EndHelper
  <2> HIDE DEF y, w
  <2>3. y \in NetworkAgent!State /\ v \in NetworkAgent!State
    BY <2>1 DEF RequestGood, RequestBase
  <2>4. k \in Asks
    <3>1. k \in 0..NetworkAsks
      BY <2>3, RequestFields
    <3> QED BY <1>2, <3>1 DEF Asks
  <2>5. /\ y.dialog \in [Asks -> {"none", "refused", "open", "closing", "gone"}]
        /\ y.helper \in [Asks -> {"none", "running", "cancelled", "ended"}]
    BY <2>3, RequestFields
  <2> HIDE DEF k
  <2>6. /\ RequestBase(w) /\ w.live = y.live /\ w.stray = y.stray
        /\ w.dialog = [y.dialog EXCEPT ![k] = IF @ = "none" THEN @ ELSE "gone"]
        /\ w.helper = [y.helper EXCEPT ![k] = IF @ = "running" THEN "cancelled" ELSE @]
    BY <2>1, <2>2, <2>4, AfterCancelHelper
  <2>7. ~v.stray => \A h \in Asks : /\ v.dialog[h] = "open" => h = k
                                    /\ v.helper[h] = "running" => h = k
    <3>1. \A h \in Asks : h # 0
      BY DEF Asks
    <3> QED BY <3>1 DEF RequestGood, Keyed, k
  <2>8. \A h \in Asks : w.live # h
    BY <2>1, <2>6 DEF Asks
  <2>9. Keyed(w)
    BY <2>1, <2>4, <2>5, <2>6, <2>7, <2>8 DEF Keyed
  <2>10. Served(w)
    BY <2>1, <2>6 DEF Served
  <2> QED BY <2>6, <2>9, <2>10 DEF w, RequestGood
<1> QED BY <1>1, <1>2

LEMMA AfterEndNote ==
  ASSUME NEW w, RequestGood(w)
  PROVE  RequestGood(NetworkAgent!EndNote(w))
<1> DEFINE e == NetworkAgent!EndNote(w)
<1>1. CASE w.noteKey = 0
  BY <1>1 DEF NetworkAgent!EndNote
<1>2. CASE w.noteKey # 0
  <2> DEFINE k == w.noteKey
             s == NetworkAgent!Acts(w, k)
             y == NetworkAgent!Respond(s, "userCanceled")
             z == [y EXCEPT !.note[k] = "gone"]
  <2>1. w \in NetworkAgent!State
    BY DEF RequestGood, RequestBase
  <2>2. k \in Asks
    <3>1. k \in 0..NetworkAsks
      BY <2>1, RequestFields
    <3> QED BY <1>2, <3>1 DEF Asks
  <2>3. w.note[k] = "shown" /\ w.dialog[k] = "none" /\ w.helper[k] = "none"
    BY <1>2, <2>2 DEF RequestGood, RequestBase, Kinds, Turns
  <2>4. e = [z EXCEPT !.noteKey = 0]
    BY <1>2 DEF NetworkAgent!EndNote
  <2> HIDE DEF k, e
  <2>5. /\ RequestBase(s) /\ (~s.stray => ~w.stray /\ w.live = k)
        /\ s.dialog = w.dialog /\ s.helper = w.helper /\ s.note = w.note
    BY <2>2, AfterActs
  <2> HIDE DEF s
  <2>6. /\ RequestBase(y) /\ y.live = 0 /\ y.stray = s.stray
        /\ y.dialog = s.dialog /\ y.helper = s.helper /\ y.note = s.note
    BY <2>5, AnyRespond DEF Answers
  <2> HIDE DEF y
  <2>7. y \in NetworkAgent!State
    BY <2>6 DEF RequestBase
  <2>8. z \in NetworkAgent!State
    BY <2>2, <2>7, RequestMarking
  <2>9. /\ z.vpn = y.vpn /\ z.external = y.external /\ z.asked = y.asked
        /\ z.live = 0 /\ z.searching = y.searching /\ z.stray = y.stray
        /\ z.note = [y.note EXCEPT ![k] = "gone"]
    BY <2>6, <2>7 DEF NetworkAgent!State
  <2>10. z.dialogKey = y.dialogKey /\ z.dialog = y.dialog /\ z.helper = y.helper
    BY <2>7 DEF NetworkAgent!State
  <2> HIDE DEF z
  <2>11. e \in NetworkAgent!State
    BY <2>4, <2>8, RequestSetting, Zero
  <2>12. /\ e.vpn = z.vpn /\ e.external = z.external /\ e.asked = z.asked
         /\ e.live = z.live /\ e.searching = z.searching
         /\ e.stray = z.stray /\ e.note = z.note
    BY <2>4, <2>8 DEF NetworkAgent!State
  <2>13. /\ e.dialogKey = z.dialogKey /\ e.dialog = z.dialog
         /\ e.helper = z.helper /\ e.noteKey = 0
    BY <2>4, <2>8 DEF NetworkAgent!State
  <2>14. y.note \in [Asks -> {"none", "shown", "gone"}] /\ y.note[k] = "shown"
    BY <2>3, <2>5, <2>6, <2>7, RequestFields
  <2>15. Untouched(e) /\ Kinds(e) /\ Turns(e)
    BY <2>2, <2>6, <2>9, <2>10, <2>12, <2>13, <2>14 DEF RequestBase, Untouched, Kinds, Turns
  <2>16. \A h \in Asks : e.live # h
    BY <2>9, <2>12 DEF Asks
  <2>17. ~s.stray => \A h \in Asks : w.dialog[h] # "open" /\ w.helper[h] # "running"
    BY <2>3, <2>5 DEF RequestGood, Keyed
  <2>18. Keyed(e) /\ Served(e)
    BY <2>5, <2>6, <2>9, <2>10, <2>12, <2>13, <2>16, <2>17 DEF Keyed, Served
  <2> QED BY <2>11, <2>15, <2>18 DEF e, RequestGood, RequestBase
<1> QED BY <1>1, <1>2

LEMMA AfterSwitch ==
  ASSUME NEW w, RequestGood(w)
  PROVE  RequestGood([w EXCEPT !.enabled = FALSE])
<1> DEFINE x == [w EXCEPT !.enabled = FALSE]
<1>1. w \in NetworkAgent!State
  BY DEF RequestGood, RequestBase
<1>2. x \in NetworkAgent!State
  BY <1>1, RequestSetting
<1>3. /\ x.vpn = w.vpn /\ x.external = w.external /\ x.asked = w.asked
      /\ x.live = w.live /\ x.searching = w.searching /\ x.note = w.note
      /\ x.stray = w.stray
  BY <1>1 DEF NetworkAgent!State
<1>4. /\ x.dialogKey = w.dialogKey /\ x.noteKey = w.noteKey
      /\ x.dialog = w.dialog /\ x.vpnKey = w.vpnKey /\ x.helper = w.helper
  BY <1>1 DEF NetworkAgent!State
<1> HIDE DEF x
<1> QED
  BY <1>2, <1>3, <1>4 DEF x, RequestGood, RequestBase, Untouched, Kinds, Turns, Keyed, Served

LEMMA DisableGood ==
  ASSUME RequestGood(state), NetworkAgent!Disable
  PROVE  RequestGood(state')
<1> DEFINE u == NetworkAgent!EndDialog(state)
           v == NetworkAgent!EndHelper(u)
           x == [v EXCEPT !.enabled = FALSE]
<1>1. state' \in {u, v, NetworkAgent!EndNote(x)}
  BY DEF NetworkAgent!Disable
<1>2. RequestGood(u) /\ u.dialogKey = 0
  BY AfterEndDialog
<1> HIDE DEF u
<1>3. RequestGood(v)
  BY <1>2, AfterEndHelper
<1> HIDE DEF v
<1>4. RequestGood(x)
  BY <1>3, AfterSwitch
<1> HIDE DEF x
<1>5. RequestGood(NetworkAgent!EndNote(x))
  BY <1>4, AfterEndNote
<1> QED BY <1>1, <1>2, <1>3, <1>5

LEMMA EnableGood ==
  ASSUME RequestGood(state), NetworkAgent!Enable
  PROVE  RequestGood(state')
<1>1. state \in NetworkAgent!State /\ state' = [state EXCEPT !.enabled = TRUE]
  BY DEF RequestGood, RequestBase, NetworkAgent!Enable
<1>2. state' \in NetworkAgent!State
  BY <1>1, RequestSetting
<1>3. /\ state'.vpn = state.vpn /\ state'.external = state.external
      /\ state'.asked = state.asked /\ state'.live = state.live
      /\ state'.searching = state.searching /\ state'.note = state.note
      /\ state'.stray = state.stray
  BY <1>1 DEF NetworkAgent!State
<1>4. /\ state'.dialogKey = state.dialogKey /\ state'.noteKey = state.noteKey
      /\ state'.dialog = state.dialog /\ state'.vpnKey = state.vpnKey
      /\ state'.helper = state.helper
  BY <1>1 DEF NetworkAgent!State
<1> QED BY <1>2, <1>3, <1>4 DEF RequestGood, RequestBase, Untouched, Kinds, Turns, Keyed, Served

LEMMA CancelGetSecretsGood ==
  ASSUME RequestGood(state), NetworkAgent!CancelGetSecrets
  PROVE  RequestGood(state')
BY AfterCancel DEF NetworkAgent!CancelGetSecrets

LEMMA RequestInitGood == NetworkAgent!Init => RequestGood(state)
<1> SUFFICES ASSUME NetworkAgent!Init PROVE RequestGood(state)
  OBVIOUS
<1>1. state \in NetworkAgent!State
  BY Zero DEF NetworkAgent!Init, NetworkAgent!State
<1>2. /\ state.asked = 0 /\ state.live = 0 /\ state.noteKey = 0 /\ state.dialogKey = 0
      /\ state.searching = FALSE /\ (state.external => state.vpn)
  BY DEF NetworkAgent!Init
<1>3. \A g \in Asks : state.note[g] = "none" /\ state.dialog[g] = "none"
                      /\ state.helper[g] = "none"
  BY DEF NetworkAgent!Init, Asks
<1> QED BY <1>1, <1>2, <1>3
        DEF RequestGood, RequestBase, Untouched, Kinds, Turns, Keyed, Served

\* Every step of the agent keeps the invariant.
LEMMA RequestStep ==
  ASSUME RequestGood(state), NetworkAgent!Next
  PROVE  RequestGood(state')
BY GetSecretsGood, SearchedGood, CancelGetSecretsGood, DisableGood, EnableGood, NoteGood,
   ClosedGood, ExitedGood, ShowNewStyleGood, PressGood
   DEF NetworkAgent!Next, Asks

\* The invariant gives what AgentsAnswer says of the agent.
LEMMA RequestAnswers ==
  ASSUME RequestGood(state)
  PROVE  NetworkAgent!TypeOK /\ NetworkAgent!LiveIsAsked /\ NetworkAgent!DialogIsLive
BY DEF RequestGood, RequestBase, Keyed, Served, Asks, NetworkAgent!TypeOK,
       NetworkAgent!LiveIsAsked, NetworkAgent!DialogIsLive
-----------------------------------------------------------------------------
(* The logins to captive portals. *)

\* What the queue, the helper and its proxy say of one another; a login that the user
\* cancelled is not made again by a proxy that comes late, and without a proxy the helper
\* shows none.
Waiting(u) == {p \in PortalPaths : u.making[p] > 0}
Queued(u) == /\ u.working \subseteq u.queue \cup u.late
             /\ u.working \cap u.cancelled = {} /\ u.cancelled \subseteq u.queue
             /\ u.cancelled \cap Waiting(u) = {}
             /\ ~u.proxy => u.working = {}
PortalGood(u) == /\ u \in NetworkMenu!PortalState /\ Queued(u)
                 /\ u.queue \subseteq u.working \cup u.failed \cup Waiting(u)

\* The types of the fields, and of what the operations set them to.
LEMMA PortalFields ==
  ASSUME NEW u \in NetworkMenu!PortalState
  PROVE  /\ u.main \in PortalPaths \cup {NetworkMenu!None} /\ u.proxy \in BOOLEAN
         /\ u.queue \subseteq PortalPaths /\ u.working \subseteq PortalPaths
         /\ u.late \subseteq PortalPaths /\ u.failed \subseteq PortalPaths
         /\ u.cancelled \subseteq PortalPaths /\ u.rechecks \subseteq PortalPaths
         /\ u.making \in [PortalPaths -> Nat] /\ u.asks \in 0..PortalAsks
BY DEF NetworkMenu!PortalState

LEMMA PortalSetting ==
  ASSUME NEW u \in NetworkMenu!PortalState
  PROVE  /\ \A x \in SUBSET PortalPaths :
              /\ [u EXCEPT !.queue = x] \in NetworkMenu!PortalState
              /\ [u EXCEPT !.working = x] \in NetworkMenu!PortalState
              /\ [u EXCEPT !.late = x] \in NetworkMenu!PortalState
              /\ [u EXCEPT !.failed = x] \in NetworkMenu!PortalState
              /\ [u EXCEPT !.cancelled = x] \in NetworkMenu!PortalState
              /\ [u EXCEPT !.rechecks = x] \in NetworkMenu!PortalState
         /\ \A x \in BOOLEAN :
              /\ [u EXCEPT !.proxy = x] \in NetworkMenu!PortalState
              /\ [u EXCEPT !.activated = x] \in NetworkMenu!PortalState
              /\ [u EXCEPT !.isPortal = x] \in NetworkMenu!PortalState
              /\ [u EXCEPT !.full = x] \in NetworkMenu!PortalState
         /\ \A x \in PortalPaths \cup {NetworkMenu!None} :
              [u EXCEPT !.main = x] \in NetworkMenu!PortalState
         /\ \A x \in 0..PortalAsks : [u EXCEPT !.asks = x] \in NetworkMenu!PortalState
         /\ \A p \in PortalPaths, x \in Nat :
              [u EXCEPT !.making[p] = x] \in NetworkMenu!PortalState
<1>1. ASSUME NEW x \in SUBSET PortalPaths
      PROVE  /\ [u EXCEPT !.queue = x] \in NetworkMenu!PortalState
             /\ [u EXCEPT !.working = x] \in NetworkMenu!PortalState
             /\ [u EXCEPT !.late = x] \in NetworkMenu!PortalState
  BY DEF NetworkMenu!PortalState
<1>2. ASSUME NEW x \in SUBSET PortalPaths
      PROVE  /\ [u EXCEPT !.failed = x] \in NetworkMenu!PortalState
             /\ [u EXCEPT !.cancelled = x] \in NetworkMenu!PortalState
             /\ [u EXCEPT !.rechecks = x] \in NetworkMenu!PortalState
  BY DEF NetworkMenu!PortalState
<1>3. ASSUME NEW x \in BOOLEAN
      PROVE  /\ [u EXCEPT !.proxy = x] \in NetworkMenu!PortalState
             /\ [u EXCEPT !.activated = x] \in NetworkMenu!PortalState
             /\ [u EXCEPT !.isPortal = x] \in NetworkMenu!PortalState
             /\ [u EXCEPT !.full = x] \in NetworkMenu!PortalState
  BY DEF NetworkMenu!PortalState
<1>4. ASSUME NEW x \in PortalPaths \cup {NetworkMenu!None}
      PROVE  [u EXCEPT !.main = x] \in NetworkMenu!PortalState
  BY DEF NetworkMenu!PortalState
<1>5. ASSUME NEW x \in 0..PortalAsks PROVE [u EXCEPT !.asks = x] \in NetworkMenu!PortalState
  BY DEF NetworkMenu!PortalState
<1>6. ASSUME NEW p \in PortalPaths, NEW x \in Nat
      PROVE  [u EXCEPT !.making[p] = x] \in NetworkMenu!PortalState
  BY DEF NetworkMenu!PortalState
<1> QED BY <1>1, <1>2, <1>3, <1>4, <1>5, <1>6

\* Without an active connection nothing is queued, and the helper keeps only what came late.
LEMMA AfterFlush ==
  ASSUME NEW u \in NetworkMenu!PortalState, Queued(u)
  PROVE  PortalGood(NetworkMenu!Flush(u))
<1> DEFINE v == NetworkMenu!Flush(u)
           a == [u EXCEPT !.queue = {}]
           b == [a EXCEPT !.failed = {}]
           c == [b EXCEPT !.cancelled = {}]
           w == IF u.proxy THEN u.working \ u.queue ELSE u.working
<1>1. v = [c EXCEPT !.working = w]
  BY DEF NetworkMenu!Flush
<1>2. /\ v.queue = {} /\ v.failed = {} /\ v.cancelled = {} /\ v.working = w
      /\ v.proxy = u.proxy /\ v.late = u.late /\ v.making = u.making
  BY DEF NetworkMenu!Flush, NetworkMenu!PortalState
<1>3. w \in SUBSET PortalPaths
  BY PortalFields
<1> HIDE DEF v, w
<1>4. a \in NetworkMenu!PortalState
  BY PortalSetting
<1> HIDE DEF a
<1>5. b \in NetworkMenu!PortalState
  BY <1>4, PortalSetting
<1> HIDE DEF b
<1>6. c \in NetworkMenu!PortalState
  BY <1>5, PortalSetting
<1> HIDE DEF c
<1>7. v \in NetworkMenu!PortalState
  BY <1>1, <1>3, <1>6, PortalSetting
<1> QED BY <1>2, <1>7 DEF PortalGood, Queued, Waiting, v, w

\* A login that is done takes its connection off the queue.
LEMMA AfterCloseCheck ==
  ASSUME NEW u \in NetworkMenu!PortalState, Queued(u), NEW p \in PortalPaths,
         u.queue \ {p} \subseteq u.working \cup u.failed \cup Waiting(u)
  PROVE  PortalGood(NetworkMenu!CloseCheck(u, p))
<1> DEFINE v == NetworkMenu!CloseCheck(u, p)
<1>1. CASE p \notin u.queue
  BY <1>1 DEF PortalGood, NetworkMenu!CloseCheck
<1>2. CASE p \in u.queue
  <2> DEFINE a == [u EXCEPT !.queue = u.queue \ {p}]
             b == [a EXCEPT !.failed = u.failed \ {p}]
             c == [b EXCEPT !.cancelled = u.cancelled \ {p}]
             w == IF u.proxy THEN u.working \ {p} ELSE u.working
  <2>1. v = [c EXCEPT !.working = w]
    BY <1>2 DEF NetworkMenu!CloseCheck
  <2>2. /\ v.queue = u.queue \ {p} /\ v.failed = u.failed \ {p}
        /\ v.cancelled = u.cancelled \ {p} /\ v.working = w
        /\ v.proxy = u.proxy /\ v.late = u.late /\ v.making = u.making
    BY <1>2 DEF NetworkMenu!CloseCheck, NetworkMenu!PortalState
  <2>3. w \in SUBSET PortalPaths /\ u.queue \ {p} \in SUBSET PortalPaths
        /\ u.failed \ {p} \in SUBSET PortalPaths /\ u.cancelled \ {p} \in SUBSET PortalPaths
    BY PortalFields
  <2> HIDE DEF v, w
  <2>4. a \in NetworkMenu!PortalState
    BY <2>3, PortalSetting
  <2> HIDE DEF a
  <2>5. b \in NetworkMenu!PortalState
    BY <2>3, <2>4, PortalSetting
  <2> HIDE DEF b
  <2>6. c \in NetworkMenu!PortalState
    BY <2>3, <2>5, PortalSetting
  <2> HIDE DEF c
  <2>7. v \in NetworkMenu!PortalState
    BY <2>1, <2>3, <2>6, PortalSetting
  <2>8. Waiting(v) = Waiting(u)
    BY <2>2 DEF Waiting
  <2>9. Queued(v)
    BY <2>2, <2>8 DEF Queued, w
  <2>10. v.queue \subseteq v.working \cup v.failed \cup Waiting(v)
    BY <2>2, <2>8 DEF w
  <2> QED BY <2>7, <2>9, <2>10 DEF PortalGood, v
<1> QED BY <1>1, <1>2

\* The connection is queued, and the helper is asked at once or when its proxy is there.
LEMMA AfterSync ==
  ASSUME NEW u, PortalGood(u), u.asks < PortalAsks
  PROVE  PortalGood(NetworkMenu!SyncConnectivity(u))
<1> DEFINE m == u.main
           v == NetworkMenu!SyncConnectivity(u)
<1>1. u \in NetworkMenu!PortalState /\ Queued(u)
  BY DEF PortalGood
<1>2. CASE m = NetworkMenu!None \/ ~u.activated
  BY <1>1, <1>2, AfterFlush DEF NetworkMenu!SyncConnectivity
<1>3. CASE ~(m = NetworkMenu!None \/ ~u.activated) /\ (~u.isPortal \/ m \in u.queue)
  BY <1>3 DEF NetworkMenu!SyncConnectivity
<1>4. CASE ~(m = NetworkMenu!None \/ ~u.activated) /\ ~(~u.isPortal \/ m \in u.queue)
  <2> DEFINE a == [u EXCEPT !.queue = u.queue \cup {m}]
             b == [a EXCEPT !.asks = u.asks + 1]
  <2>1. m \in PortalPaths /\ m \notin u.queue
    BY <1>1, <1>4, PortalFields
  <2>2. u.asks + 1 \in 0..PortalAsks /\ u.making[m] \in Nat /\ u.making[m] + 1 \in Nat
    BY <1>1, <2>1, PortalFields, AgentsAssumption
  <2>3. u.queue \cup {m} \in SUBSET PortalPaths /\ u.working \cup {m} \in SUBSET PortalPaths
    BY <1>1, <2>1, PortalFields
  <2>4. v = IF u.proxy THEN [b EXCEPT !.working = u.working \cup {m}]
            ELSE [b EXCEPT !.making[m] = u.making[m] + 1]
    BY <1>1, <1>4 DEF NetworkMenu!SyncConnectivity, NetworkMenu!PortalState
  <2> HIDE DEF m
  <2>5. a \in NetworkMenu!PortalState
    BY <1>1, <2>3, PortalSetting
  <2>6. a.queue = u.queue \cup {m} /\ a.working = u.working /\ a.making = u.making
        /\ a.failed = u.failed /\ a.late = u.late /\ a.cancelled = u.cancelled
        /\ a.proxy = u.proxy
    BY <1>1 DEF NetworkMenu!PortalState
  <2> HIDE DEF a
  <2>7. b \in NetworkMenu!PortalState
    BY <2>2, <2>5, PortalSetting
  <2>8. b.queue = a.queue /\ b.working = a.working /\ b.making = a.making
        /\ b.failed = a.failed /\ b.late = a.late /\ b.cancelled = a.cancelled
        /\ b.proxy = a.proxy
    BY <2>5 DEF NetworkMenu!PortalState
  <2> HIDE DEF b, v
  <2>9. CASE u.proxy
    <3>1. v \in NetworkMenu!PortalState
      BY <2>3, <2>4, <2>7, <2>9, PortalSetting
    <3>2. v.queue = b.queue /\ v.working = u.working \cup {m} /\ v.making = b.making
          /\ v.failed = b.failed /\ v.late = b.late /\ v.cancelled = b.cancelled
          /\ v.proxy = b.proxy
      BY <2>4, <2>7, <2>9 DEF NetworkMenu!PortalState
    <3>3. Waiting(v) = Waiting(u)
      BY <2>6, <2>8, <3>2 DEF Waiting
    <3>4. Queued(v)
      BY <1>1, <2>1, <2>6, <2>8, <2>9, <3>2, <3>3 DEF Queued
    <3>5. v.queue \subseteq v.working \cup v.failed \cup Waiting(v)
      BY <2>6, <2>8, <3>2, <3>3 DEF PortalGood
    <3> QED BY <3>1, <3>4, <3>5 DEF PortalGood, v
  <2>10. CASE ~u.proxy
    <3>1. v \in NetworkMenu!PortalState
      BY <2>1, <2>2, <2>4, <2>7, <2>10, PortalSetting
    <3>2. v.queue = b.queue /\ v.working = b.working
          /\ v.making = [b.making EXCEPT ![m] = u.making[m] + 1]
          /\ v.failed = b.failed /\ v.late = b.late /\ v.cancelled = b.cancelled
          /\ v.proxy = b.proxy
      BY <2>4, <2>7, <2>10 DEF NetworkMenu!PortalState
    <3>3. Waiting(v) = Waiting(u) \cup {m}
      <4>1. u.making \in [PortalPaths -> Nat]
        BY <1>1, PortalFields
      <4> QED BY <2>1, <2>2, <2>6, <2>8, <3>2, <4>1 DEF Waiting
    <3>4. Queued(v)
      BY <1>1, <2>1, <2>6, <2>8, <2>10, <3>2, <3>3 DEF Queued
    <3>5. v.queue \subseteq v.working \cup v.failed \cup Waiting(v)
      BY <2>6, <2>8, <3>2, <3>3 DEF PortalGood
    <3> QED BY <3>1, <3>4, <3>5 DEF PortalGood, v
  <2> QED BY <2>9, <2>10
<1> QED BY <1>2, <1>3, <1>4

\* What NetworkManager says changes nothing that the invariant speaks of.
LEMMA SaysOnly ==
  ASSUME NEW u, PortalGood(u), NEW v \in NetworkMenu!PortalState,
         v.queue = u.queue, v.working = u.working, v.making = u.making,
         v.failed = u.failed, v.late = u.late, v.cancelled = u.cancelled,
         v.proxy = u.proxy
  PROVE  PortalGood(v)
BY DEF PortalGood, Queued, Waiting

\* Each action keeps the invariant.
LEMMA MainConnectionGood ==
  ASSUME PortalGood(state), NEW p \in PortalPaths \cup {NetworkMenu!None}, NEW a \in BOOLEAN,
         NetworkMenu!MainConnection(p, a)
  PROVE  PortalGood(state')
<1> DEFINE x == [state EXCEPT !.main = p]
           v == [x EXCEPT !.activated = a]
<1>1. state \in NetworkMenu!PortalState /\ state.asks < PortalAsks
      /\ state' = NetworkMenu!SyncConnectivity(v)
  BY DEF PortalGood, NetworkMenu!MainConnection, NetworkMenu!Asking
<1>2. x \in NetworkMenu!PortalState
  BY <1>1, PortalSetting
<1>3. v \in NetworkMenu!PortalState
  BY <1>2, PortalSetting
<1>4. v.queue = state.queue /\ v.working = state.working /\ v.making = state.making
      /\ v.failed = state.failed /\ v.late = state.late /\ v.cancelled = state.cancelled
      /\ v.proxy = state.proxy /\ v.asks = state.asks
  BY <1>1 DEF NetworkMenu!PortalState
<1> HIDE DEF v
<1>5. PortalGood(v)
  BY <1>3, <1>4, SaysOnly
<1> QED BY <1>1, <1>4, <1>5, AfterSync

LEMMA ActivatedGood ==
  ASSUME PortalGood(state), NetworkMenu!Activated
  PROVE  PortalGood(state')
<1>1. state \in NetworkMenu!PortalState /\ state' = [state EXCEPT !.activated = TRUE]
  BY DEF PortalGood, NetworkMenu!Activated
<1>2. state' \in NetworkMenu!PortalState
  BY <1>1, PortalSetting
<1>3. state'.queue = state.queue /\ state'.working = state.working
      /\ state'.making = state.making /\ state'.failed = state.failed
      /\ state'.late = state.late /\ state'.cancelled = state.cancelled
      /\ state'.proxy = state.proxy
  BY <1>1 DEF NetworkMenu!PortalState
<1> QED BY <1>2, <1>3, SaysOnly

LEMMA NMStateGood ==
  ASSUME PortalGood(state), NetworkMenu!NMState
  PROVE  PortalGood(state')
BY AfterSync DEF NetworkMenu!NMState, NetworkMenu!Asking

LEMMA ConnectivityGood ==
  ASSUME PortalGood(state), NEW c, NetworkMenu!Connectivity(c)
  PROVE  PortalGood(state')
<1> DEFINE x == [state EXCEPT !.isPortal = (c = "portal")]
           v == [x EXCEPT !.full = (c = "full")]
<1>1. state \in NetworkMenu!PortalState /\ state.asks < PortalAsks
      /\ state' = NetworkMenu!SyncConnectivity(v)
  BY DEF PortalGood, NetworkMenu!Connectivity, NetworkMenu!Asking
<1>2. x \in NetworkMenu!PortalState
  BY <1>1, PortalSetting
<1>3. v \in NetworkMenu!PortalState
  BY <1>2, PortalSetting
<1>4. v.queue = state.queue /\ v.working = state.working /\ v.making = state.making
      /\ v.failed = state.failed /\ v.late = state.late /\ v.cancelled = state.cancelled
      /\ v.proxy = state.proxy /\ v.asks = state.asks
  BY <1>1 DEF NetworkMenu!PortalState
<1> HIDE DEF v
<1>5. PortalGood(v)
  BY <1>3, <1>4, SaysOnly
<1> QED BY <1>1, <1>4, <1>5, AfterSync

\* A proxy that comes late begins its login, which nobody cancelled: it was not shown yet.
LEMMA ProxyMadeGood ==
  ASSUME PortalGood(state), NEW p \in PortalPaths, NetworkMenu!ProxyMade(p)
  PROVE  PortalGood(state')
<1> DEFINE l == IF p \in state.queue THEN state.late \ {p} ELSE state.late \cup {p}
           a == [state EXCEPT !.making[p] = state.making[p] - 1]
           b == [a EXCEPT !.proxy = TRUE]
           c == [b EXCEPT !.working = state.working \cup {p}]
<1>1. state \in NetworkMenu!PortalState /\ Queued(state) /\ state.making[p] > 0
  BY DEF PortalGood, NetworkMenu!ProxyMade
<1>2. state.making \in [PortalPaths -> Nat] /\ state.making[p] - 1 \in Nat
  BY <1>1, PortalFields
<1>3. l \in SUBSET PortalPaths /\ state.working \cup {p} \in SUBSET PortalPaths
  BY <1>1, PortalFields
<1>4. state' = [c EXCEPT !.late = l]
  BY DEF NetworkMenu!ProxyMade
<1>5. state'.queue = state.queue /\ state'.working = state.working \cup {p}
      /\ state'.making = [state.making EXCEPT ![p] = state.making[p] - 1]
      /\ state'.failed = state.failed /\ state'.late = l
      /\ state'.cancelled = state.cancelled /\ state'.proxy = TRUE
  BY <1>1 DEF NetworkMenu!ProxyMade, NetworkMenu!PortalState
<1> HIDE DEF l
<1>6. a \in NetworkMenu!PortalState
  BY <1>1, <1>2, PortalSetting
<1> HIDE DEF a
<1>7. b \in NetworkMenu!PortalState
  BY <1>6, PortalSetting
<1> HIDE DEF b
<1>8. c \in NetworkMenu!PortalState
  BY <1>3, <1>7, PortalSetting
<1> HIDE DEF c
<1>9. state' \in NetworkMenu!PortalState
  BY <1>3, <1>4, <1>8, PortalSetting
<1>10. p \in Waiting(state) /\ Waiting(state') \subseteq Waiting(state)
       /\ Waiting(state) \ {p} \subseteq Waiting(state')
  BY <1>1, <1>2, <1>5 DEF Waiting
<1>11. Queued(state')
  BY <1>1, <1>5, <1>10 DEF Queued, l
<1>12. state'.queue \subseteq state'.working \cup state'.failed \cup Waiting(state')
  BY <1>5, <1>10 DEF PortalGood
<1> QED BY <1>9, <1>11, <1>12 DEF PortalGood

LEMMA ProxyFailedGood ==
  ASSUME PortalGood(state), NEW p \in PortalPaths, NetworkMenu!ProxyFailed(p)
  PROVE  PortalGood(state')
<1> DEFINE a == [state EXCEPT !.making[p] = state.making[p] - 1]
<1>1. state \in NetworkMenu!PortalState /\ Queued(state) /\ state.making[p] > 0
  BY DEF PortalGood, NetworkMenu!ProxyFailed
<1>2. state.making \in [PortalPaths -> Nat] /\ state.making[p] - 1 \in Nat
      /\ state.failed \cup {p} \in SUBSET PortalPaths
  BY <1>1, PortalFields
<1>3. state' = [a EXCEPT !.failed = state.failed \cup {p}]
  BY DEF NetworkMenu!ProxyFailed
<1>4. state'.queue = state.queue /\ state'.working = state.working
      /\ state'.making = [state.making EXCEPT ![p] = state.making[p] - 1]
      /\ state'.failed = state.failed \cup {p} /\ state'.late = state.late
      /\ state'.cancelled = state.cancelled /\ state'.proxy = state.proxy
  BY <1>1 DEF NetworkMenu!ProxyFailed, NetworkMenu!PortalState
<1>5. a \in NetworkMenu!PortalState
  BY <1>1, <1>2, PortalSetting
<1> HIDE DEF a
<1>6. state' \in NetworkMenu!PortalState
  BY <1>2, <1>3, <1>5, PortalSetting
<1>7. Waiting(state') \subseteq Waiting(state) /\ Waiting(state) \ {p} \subseteq Waiting(state')
  BY <1>1, <1>2, <1>4 DEF Waiting
<1>8. Queued(state')
  BY <1>1, <1>4, <1>7 DEF Queued
<1>9. state'.queue \subseteq state'.working \cup state'.failed \cup Waiting(state')
  BY <1>4, <1>7 DEF PortalGood
<1> QED BY <1>6, <1>8, <1>9 DEF PortalGood

\* The helper is done with a login: a cancelled one stays in the queue.
LEMMA DoneGood ==
  ASSUME PortalGood(state), NEW p \in PortalPaths,
         NEW r \in {"cancelled", "completed", "recheck"}, NetworkMenu!Done(p, r)
  PROVE  PortalGood(state')
<1> DEFINE x == [state EXCEPT !.working = state.working \ {p}]
           u == [x EXCEPT !.late = state.late \ {p}]
<1>1. state \in NetworkMenu!PortalState /\ Queued(state)
  BY DEF PortalGood
<1>2. x \in NetworkMenu!PortalState
  BY <1>1, PortalSetting, PortalFields
<1>3. u \in NetworkMenu!PortalState
  <2>1. state.late \ {p} \in SUBSET PortalPaths
    BY <1>1, PortalFields
  <2> HIDE DEF x
  <2> QED BY <1>2, <2>1, PortalSetting
<1>4. u.queue = state.queue /\ u.working = state.working \ {p} /\ u.making = state.making
      /\ u.failed = state.failed /\ u.late = state.late \ {p}
      /\ u.cancelled = state.cancelled /\ u.proxy = state.proxy
  BY <1>1 DEF NetworkMenu!PortalState
<1>5. Waiting(u) = Waiting(state)
  BY <1>4 DEF Waiting
<1>6. Queued(u) /\ u.queue \ {p} \subseteq u.working \cup u.failed \cup Waiting(u)
  BY <1>1, <1>4, <1>5 DEF Queued, PortalGood
<1>7. CASE r = "cancelled"
  <2> DEFINE c == IF p \in u.queue /\ u.making[p] = 0 THEN u.cancelled \cup {p}
                  ELSE u.cancelled
             y == [u EXCEPT !.failed = u.failed \cup {p}]
  <2>1. state' = [y EXCEPT !.cancelled = c]
    BY <1>7 DEF NetworkMenu!Done
  <2> HIDE DEF u
  <2>2. u.failed \cup {p} \in SUBSET PortalPaths /\ c \in SUBSET PortalPaths
        /\ u.making \in [PortalPaths -> Nat]
    BY <1>3, PortalFields
  <2>3. y \in NetworkMenu!PortalState
    BY <1>3, <2>2, PortalSetting
  <2>4. state'.queue = u.queue /\ state'.working = u.working /\ state'.making = u.making
        /\ state'.failed = u.failed \cup {p} /\ state'.late = u.late
        /\ state'.cancelled = c /\ state'.proxy = u.proxy
    BY <1>3, <2>1 DEF NetworkMenu!PortalState
  <2> HIDE DEF c, y
  <2>5. state' \in NetworkMenu!PortalState
    BY <2>1, <2>2, <2>3, PortalSetting
  <2>6. Waiting(state') = Waiting(u) /\ (u.making[p] = 0 => p \notin Waiting(u))
    BY <2>2, <2>4 DEF Waiting
  <2>7. Queued(state')
    BY <1>4, <1>6, <2>4, <2>6 DEF Queued, c
  <2>8. state'.queue \subseteq state'.working \cup state'.failed \cup Waiting(state')
    BY <1>6, <2>4, <2>6
  <2> QED BY <2>5, <2>7, <2>8 DEF PortalGood
<1>8. CASE r = "completed"
  <2>1. state' = NetworkMenu!CloseCheck(u, p)
    BY <1>8 DEF NetworkMenu!Done
  <2> HIDE DEF u
  <2> QED BY <1>3, <1>6, <2>1, AfterCloseCheck
<1>9. CASE r = "recheck"
  <2>1. state' = [state EXCEPT !.rechecks = state.rechecks \cup {p}]
    BY <1>9 DEF NetworkMenu!Done
  <2>2. state' \in NetworkMenu!PortalState
    BY <1>1, <2>1, PortalSetting, PortalFields
  <2>3. state'.queue = state.queue /\ state'.working = state.working
        /\ state'.making = state.making /\ state'.failed = state.failed
        /\ state'.late = state.late /\ state'.cancelled = state.cancelled
        /\ state'.proxy = state.proxy
    BY <1>1, <2>1 DEF NetworkMenu!PortalState
  <2> QED BY <2>2, <2>3, SaysOnly
<1> QED BY <1>7, <1>8, <1>9

LEMMA RecheckedGood ==
  ASSUME PortalGood(state), NEW p \in PortalPaths, NEW full \in BOOLEAN,
         NetworkMenu!Rechecked(p, full)
  PROVE  PortalGood(state')
<1> DEFINE u == [state EXCEPT !.rechecks = state.rechecks \ {p}]
<1>1. state \in NetworkMenu!PortalState
      /\ state' = IF full THEN NetworkMenu!CloseCheck(u, p) ELSE u
  BY DEF PortalGood, NetworkMenu!Rechecked
<1>2. u \in NetworkMenu!PortalState
  BY <1>1, PortalSetting, PortalFields
<1>3. u.queue = state.queue /\ u.working = state.working /\ u.making = state.making
      /\ u.failed = state.failed /\ u.late = state.late
      /\ u.cancelled = state.cancelled /\ u.proxy = state.proxy
  BY <1>1 DEF NetworkMenu!PortalState
<1> HIDE DEF u
<1>4. PortalGood(u)
  BY <1>2, <1>3, SaysOnly
<1>5. PortalGood(NetworkMenu!CloseCheck(u, p))
  BY <1>4, AfterCloseCheck DEF PortalGood
<1> QED BY <1>1, <1>4, <1>5

LEMMA PortalInitGood == NetworkMenu!PortalInit => PortalGood(state)
<1>1. 0 \in 0..PortalAsks /\ 0 \in Nat
  BY AgentsAssumption
<1>2. SUFFICES ASSUME NetworkMenu!PortalInit PROVE PortalGood(state)
  OBVIOUS
<1>3. state \in NetworkMenu!PortalState
  BY <1>1, <1>2 DEF NetworkMenu!PortalInit, NetworkMenu!PortalState
<1>4. Queued(state) /\ state.queue = {}
  BY <1>2 DEF NetworkMenu!PortalInit, Queued
<1> QED BY <1>3, <1>4 DEF PortalGood

\* Every step of the queue keeps the invariant, which gives what AgentsAnswer says of it.
LEMMA PortalStep ==
  ASSUME PortalGood(state), NetworkMenu!PortalNext
  PROVE  PortalGood(state')
BY MainConnectionGood, ActivatedGood, NMStateGood, ConnectivityGood, ProxyMadeGood,
   ProxyFailedGood, DoneGood, RecheckedGood
   DEF NetworkMenu!PortalNext

LEMMA PortalAnswers ==
  ASSUME PortalGood(state)
  PROVE  NetworkMenu!PortalTypeOK /\ NetworkMenu!QueueIsShown
BY DEF PortalGood, Queued, Waiting, NetworkMenu!PortalTypeOK, NetworkMenu!QueueIsShown
-----------------------------------------------------------------------------
(* A volume that is mounted by itself. *)

Tries == 1..VolumeTries
Ended(u) == {a \in Tries : u.run[a] = "done"}

\* Every attempt that ended and every look at the volume starts one expiration.
Counted(u) == /\ u.timers <= VolumeTries + Cardinality(Ended(u))
              /\ u.expireId => u.timers > 0
\* An attempt to come has no past.
Fresh(u) == \A a \in Tries : a > u.tries => u.run[a] = "none" /\ u.shown[a] = 0
Offered(u) == /\ u.source \/ u.look = "guessing" => u.mount = "mounted" \/ u.missed
              /\ u.mount = "removed" /\ u.look = "waiting" => u.missed
Kept(u) == u \in Automount!VolumeState /\ Counted(u) /\ Fresh(u) /\ Offered(u)

\* One attempt at a time: the last one runs, has the place in the table, and asks on the
\* only dialog there is, its own or the one that it borrowed.
Alone(u) == \A a \in Tries : u.run[a] \in {"none", "done"} \/ a = u.tries
Tabled(u) ==
  /\ u.withOp[u.tries] /\ u.run[u.tries] # "done" => u.entry = u.tries
  /\ u.run[u.tries] = "mounting" => u.shown[u.tries] = 0
  /\ u.shown[u.tries] # 0 => u.existing[u.tries] \in {0, u.shown[u.tries]}
Asked(u) ==
  u.run[u.tries] = "asking" =>
    /\ u.shown[u.tries] # 0 /\ u.handler[u.shown[u.tries]] = u.tries
    /\ u.dialog[u.shown[u.tries]] \in {"open", "refused"}
Opened(u) == \A d \in Tries : u.dialog[d] = "open" =>
  /\ u.tries # 0 /\ u.run[u.tries] # "done" /\ u.withOp[u.tries]
  /\ \/ d = u.shown[u.tries] /\ u.handler[d] = u.tries
     \/ d = u.existing[u.tries] /\ u.shown[u.tries] = 0
Attempt(u) == ~u.stranded => /\ Alone(u) /\ Opened(u)
                             /\ u.tries # 0 => Tabled(u) /\ Asked(u)
VolumeGood(u) == Kept(u) /\ Attempt(u)
-----------------------------------------------------------------------------
\* The types of the fields, and of what the operations set them to.
LEMMA VolumeFields ==
  ASSUME NEW u \in Automount!VolumeState
  PROVE  /\ u.tries \in 0..VolumeTries /\ u.entry \in -1..VolumeTries
         /\ u.timers \in 0..(2 * VolumeTries)
         /\ u.withOp \in [Tries -> BOOLEAN]
         /\ u.run \in [Tries -> {"none", "mounting", "asking", "replied", "canceled",
                                 "mounted", "done"}]
         /\ u.dialog \in [Tries -> {"none", "open", "refused", "closing", "gone"}]
         /\ u.shown \in [Tries -> 0..VolumeTries] /\ u.existing \in [Tries -> 0..VolumeTries]
         /\ u.handler \in [Tries -> 0..VolumeTries]
         /\ u.stranded \in BOOLEAN /\ u.allow \in BOOLEAN /\ u.enabled \in BOOLEAN
         /\ u.missed \in BOOLEAN /\ u.source \in BOOLEAN /\ u.expireId \in BOOLEAN
BY DEF Automount!VolumeState, Automount!Tries, Automount!NoEntry, Tries

LEMMA VolumeSwitching ==
  ASSUME NEW u \in Automount!VolumeState, NEW x \in BOOLEAN
  PROVE  /\ [u EXCEPT !.enabled = x] \in Automount!VolumeState
         /\ [u EXCEPT !.idle = x] \in Automount!VolumeState
         /\ [u EXCEPT !.allow = x] \in Automount!VolumeState
         /\ [u EXCEPT !.expireId = x] \in Automount!VolumeState
         /\ [u EXCEPT !.source = x] \in Automount!VolumeState
         /\ [u EXCEPT !.stranded = x] \in Automount!VolumeState
         /\ [u EXCEPT !.missed = x] \in Automount!VolumeState
<1>1. /\ [u EXCEPT !.enabled = x] \in Automount!VolumeState
      /\ [u EXCEPT !.idle = x] \in Automount!VolumeState
      /\ [u EXCEPT !.allow = x] \in Automount!VolumeState
  BY DEF Automount!VolumeState
<1>2. /\ [u EXCEPT !.expireId = x] \in Automount!VolumeState
      /\ [u EXCEPT !.source = x] \in Automount!VolumeState
  BY DEF Automount!VolumeState
<1>3. /\ [u EXCEPT !.stranded = x] \in Automount!VolumeState
      /\ [u EXCEPT !.missed = x] \in Automount!VolumeState
  BY DEF Automount!VolumeState
<1> QED BY <1>1, <1>2, <1>3

LEMMA VolumeSetting ==
  ASSUME NEW u \in Automount!VolumeState
  PROVE  /\ \A x \in 0..VolumeTries : [u EXCEPT !.tries = x] \in Automount!VolumeState
         /\ \A x \in -1..VolumeTries : [u EXCEPT !.entry = x] \in Automount!VolumeState
         /\ \A x \in 0..(2 * VolumeTries) : [u EXCEPT !.timers = x] \in Automount!VolumeState
         /\ \A x \in {"absent", "present", "removed"} :
              [u EXCEPT !.volume = x] \in Automount!VolumeState
         /\ \A x \in {"none", "mounted", "removed"} :
              [u EXCEPT !.mount = x] \in Automount!VolumeState
         /\ \A x \in {"waiting", "guessing", "done"} :
              [u EXCEPT !.look = x] \in Automount!VolumeState
<1>1. ASSUME NEW x \in 0..VolumeTries PROVE [u EXCEPT !.tries = x] \in Automount!VolumeState
  BY DEF Automount!VolumeState
<1>2. ASSUME NEW x \in -1..VolumeTries PROVE [u EXCEPT !.entry = x] \in Automount!VolumeState
  BY DEF Automount!VolumeState, Automount!NoEntry
<1>3. ASSUME NEW x \in 0..(2 * VolumeTries)
      PROVE  [u EXCEPT !.timers = x] \in Automount!VolumeState
  BY DEF Automount!VolumeState
<1>4. ASSUME NEW x \in {"absent", "present", "removed"}
      PROVE  [u EXCEPT !.volume = x] \in Automount!VolumeState
  BY DEF Automount!VolumeState
<1>5. ASSUME NEW x \in {"none", "mounted", "removed"}
      PROVE  [u EXCEPT !.mount = x] \in Automount!VolumeState
  BY DEF Automount!VolumeState
<1>6. ASSUME NEW x \in {"waiting", "guessing", "done"}
      PROVE  [u EXCEPT !.look = x] \in Automount!VolumeState
  BY DEF Automount!VolumeState
<1> QED BY <1>1, <1>2, <1>3, <1>4, <1>5, <1>6

LEMMA VolumeMarking ==
  ASSUME NEW u \in Automount!VolumeState, NEW a \in Tries
  PROVE  /\ \A x \in BOOLEAN : [u EXCEPT !.withOp[a] = x] \in Automount!VolumeState
         /\ \A x \in {"none", "mounting", "asking", "replied", "canceled", "mounted", "done"} :
              [u EXCEPT !.run[a] = x] \in Automount!VolumeState
         /\ \A x \in {"none", "open", "refused", "closing", "gone"} :
              [u EXCEPT !.dialog[a] = x] \in Automount!VolumeState
         /\ \A x \in 0..VolumeTries : /\ [u EXCEPT !.shown[a] = x] \in Automount!VolumeState
                                      /\ [u EXCEPT !.existing[a] = x] \in Automount!VolumeState
                                      /\ [u EXCEPT !.handler[a] = x] \in Automount!VolumeState
<1> USE DEF Automount!Tries, Tries
<1>1. ASSUME NEW x \in BOOLEAN PROVE [u EXCEPT !.withOp[a] = x] \in Automount!VolumeState
  BY DEF Automount!VolumeState
<1>2. ASSUME NEW x \in {"none", "mounting", "asking", "replied", "canceled", "mounted", "done"}
      PROVE  [u EXCEPT !.run[a] = x] \in Automount!VolumeState
  BY DEF Automount!VolumeState
<1>3. ASSUME NEW x \in {"none", "open", "refused", "closing", "gone"}
      PROVE  [u EXCEPT !.dialog[a] = x] \in Automount!VolumeState
  BY DEF Automount!VolumeState
<1>4. ASSUME NEW x \in 0..VolumeTries PROVE [u EXCEPT !.shown[a] = x] \in Automount!VolumeState
  BY DEF Automount!VolumeState
<1>5. ASSUME NEW x \in 0..VolumeTries
      PROVE  [u EXCEPT !.existing[a] = x] \in Automount!VolumeState
  BY DEF Automount!VolumeState
<1>6. ASSUME NEW x \in 0..VolumeTries
      PROVE  [u EXCEPT !.handler[a] = x] \in Automount!VolumeState
  BY DEF Automount!VolumeState
<1> QED BY <1>1, <1>2, <1>3, <1>4, <1>5, <1>6

\* The attempts that ended can be counted, and there are no more of them than attempts.
LEMMA EndedCounts ==
  ASSUME NEW u
  PROVE  /\ IsFiniteSet(Ended(u)) /\ Cardinality(Ended(u)) \in Nat
         /\ Cardinality(Ended(u)) <= VolumeTries
<1>1. IsFiniteSet(Tries) /\ Cardinality(Tries) <= VolumeTries
  BY FS_Interval, AgentsAssumption DEF Tries
<1>2. Ended(u) \in SUBSET Tries
  BY DEF Ended
<1>3. IsFiniteSet(Ended(u)) /\ Cardinality(Ended(u)) <= Cardinality(Tries)
  BY <1>1, <1>2, FS_Subset
<1>4. Cardinality(Ended(u)) \in Nat /\ Cardinality(Tries) \in Nat
  BY <1>1, <1>3, FS_CardinalityType
<1> QED BY <1>1, <1>3, <1>4, AgentsAssumption

\* What happens beside the attempts leaves them as they are.
LEMMA Beside ==
  ASSUME NEW u, VolumeGood(u), NEW v,
         v.tries = u.tries, v.run = u.run, v.withOp = u.withOp, v.dialog = u.dialog,
         v.shown = u.shown, v.existing = u.existing, v.handler = u.handler,
         v.entry = u.entry, v.stranded = u.stranded
  PROVE  /\ Fresh(v) /\ Attempt(v) /\ Ended(v) = Ended(u)
         /\ Counted(u) /\ Offered(u) /\ u \in Automount!VolumeState
BY DEF VolumeGood, Kept, Fresh, Attempt, Ended, Alone, Tabled, Asked, Opened
-----------------------------------------------------------------------------
\* What the operations that the actions share leave of the invariant.
LEMMA AfterExpiring ==
  ASSUME NEW u \in Automount!VolumeState, u.timers < 2 * VolumeTries
  PROVE  LET v == Automount!Expiring(u)
         IN /\ v \in Automount!VolumeState /\ v.timers = u.timers + 1 /\ v.expireId = TRUE
            /\ v.tries = u.tries /\ v.run = u.run /\ v.withOp = u.withOp
            /\ v.dialog = u.dialog /\ v.shown = u.shown /\ v.existing = u.existing
            /\ v.handler = u.handler /\ v.entry = u.entry /\ v.stranded = u.stranded
            /\ v.mount = u.mount /\ v.look = u.look /\ v.source = u.source
            /\ v.missed = u.missed
<1> DEFINE v == Automount!Expiring(u)
           x == [u EXCEPT !.timers = u.timers + 1]
<1>1. u.timers + 1 \in 0..(2 * VolumeTries)
  BY VolumeFields, AgentsAssumption
<1>2. v = [x EXCEPT !.expireId = TRUE]
  BY DEF Automount!Expiring
<1>3. /\ v.timers = u.timers + 1 /\ v.expireId = TRUE
      /\ v.tries = u.tries /\ v.run = u.run /\ v.withOp = u.withOp
      /\ v.dialog = u.dialog /\ v.shown = u.shown
  BY DEF Automount!Expiring, Automount!VolumeState
<1>4. /\ v.existing = u.existing
      /\ v.handler = u.handler /\ v.entry = u.entry /\ v.stranded = u.stranded
      /\ v.mount = u.mount /\ v.look = u.look /\ v.source = u.source
      /\ v.missed = u.missed
  BY DEF Automount!Expiring, Automount!VolumeState
<1>5. x \in Automount!VolumeState
  BY <1>1, VolumeSetting
<1> HIDE DEF x, v
<1>6. v \in Automount!VolumeState
  BY <1>2, <1>5, VolumeSwitching
<1> QED BY <1>3, <1>4, <1>6 DEF v

\* A new attempt takes the place in the table. What was on screen is its own now.
LEMMA AfterMount ==
  ASSUME NEW u, Kept(u), NEW w \in BOOLEAN, NEW e \in 0..VolumeTries,
         ~u.stranded /\ Automount!Busy(u) = {} =>
           \A d \in Tries : u.dialog[d] = "open" => w /\ d = e,
         NEW v \in Automount!MountVolume(u, w, e)
  PROVE  VolumeGood(v)
<1> DEFINE n == u.tries + 1
           b == u.stranded \/ Automount!Busy(u) # {}
           p == [u EXCEPT !.tries = n]
           q == [p EXCEPT !.withOp[n] = w]
           r == [q EXCEPT !.run[n] = "mounting"]
           s == [r EXCEPT !.existing[n] = e]
           t == [s EXCEPT !.entry = IF w THEN n ELSE 0]
<1>1. u \in Automount!VolumeState
  BY DEF Kept
<1>2. u.tries # VolumeTries
  BY DEF Automount!MountVolume
<1>3. n \in Tries /\ n \in 0..VolumeTries /\ u.tries \in Nat /\ n # 0
      /\ \A a \in Tries : (a > n => a > u.tries /\ a # n)
                          /\ (a \in 1..u.tries \/ a = n \/ a > n)
  <2>1. u.tries \in 0..VolumeTries
    BY <1>1, VolumeFields
  <2> QED BY <1>2, <2>1, AgentsAssumption DEF Tries
<1>4. v = [t EXCEPT !.stranded = b]
  BY <1>2 DEF Automount!MountVolume
<1>5. /\ v.tries = n /\ v.withOp = [u.withOp EXCEPT ![n] = w]
      /\ v.run = [u.run EXCEPT ![n] = "mounting"]
      /\ v.existing = [u.existing EXCEPT ![n] = e]
      /\ v.entry = (IF w THEN n ELSE 0) /\ v.stranded = b
  BY <1>1, <1>4 DEF Automount!VolumeState
<1>6. /\ v.dialog = u.dialog /\ v.shown = u.shown /\ v.handler = u.handler
      /\ v.timers = u.timers /\ v.expireId = u.expireId
  BY <1>1, <1>4 DEF Automount!VolumeState
<1>7. /\ v.mount = u.mount /\ v.look = u.look
      /\ v.source = u.source /\ v.missed = u.missed
  BY <1>1, <1>4 DEF Automount!VolumeState
<1>8. b \in BOOLEAN /\ (IF w THEN n ELSE 0) \in -1..VolumeTries
  <2>1. u.stranded \in BOOLEAN
    BY <1>1, VolumeFields
  <2>2. b \in BOOLEAN
    BY <2>1
  <2>3. n \in -1..VolumeTries /\ 0 \in -1..VolumeTries
    BY <1>3, AgentsAssumption
  <2> QED BY <2>2, <2>3
<1>9. /\ u.run \in [Tries -> {"none", "mounting", "asking", "replied", "canceled",
                              "mounted", "done"}]
      /\ u.withOp \in [Tries -> BOOLEAN] /\ u.existing \in [Tries -> 0..VolumeTries]
  BY <1>1, VolumeFields
<1>10. b \in BOOLEAN /\ (~b => ~u.stranded /\ \A a \in 1..u.tries : u.run[a] = "done")
  BY <1>8 DEF Automount!Busy
<1> HIDE DEF n, b
<1>11. p \in Automount!VolumeState
  BY <1>1, <1>3, VolumeSetting
<1> HIDE DEF p
<1>12. q \in Automount!VolumeState
  BY <1>3, <1>11, VolumeMarking
<1> HIDE DEF q
<1>13. r \in Automount!VolumeState
  BY <1>3, <1>12, VolumeMarking
<1> HIDE DEF r
<1>14. s \in Automount!VolumeState
  BY <1>3, <1>13, VolumeMarking
<1> HIDE DEF s
<1>15. t \in Automount!VolumeState
  BY <1>8, <1>14, VolumeSetting
<1> HIDE DEF t
<1>16. v \in Automount!VolumeState
  BY <1>4, <1>8, <1>15, VolumeSwitching
<1>17. Fresh(u) /\ Counted(u) /\ Offered(u)
  BY DEF Kept
<1>18. u.run[n] = "none" /\ u.shown[n] = 0
  BY <1>3, <1>17 DEF Fresh, n
<1>19. Ended(v) = Ended(u)
  BY <1>3, <1>5, <1>9, <1>18 DEF Ended
<1>20. Counted(v) /\ Offered(v)
  BY <1>6, <1>7, <1>17, <1>19 DEF Counted, Offered
<1>21. Fresh(v)
  BY <1>3, <1>5, <1>6, <1>9, <1>17 DEF Fresh
<1>22. ASSUME ~v.stranded PROVE Alone(v) /\ Tabled(v) /\ Asked(v) /\ Opened(v)
  <2>1. ~u.stranded /\ Automount!Busy(u) = {} /\ \A a \in 1..u.tries : u.run[a] = "done"
    BY <1>5, <1>10, <1>22 DEF b
  <2>2. v.run[n] = "mounting" /\ v.withOp[n] = w /\ v.existing[n] = e /\ v.shown[n] = 0
    BY <1>3, <1>5, <1>6, <1>9, <1>18
  <2>3. Alone(v)
    BY <1>3, <1>5, <1>9, <1>17, <2>1 DEF Alone, Fresh
  <2>4. Tabled(v) /\ Asked(v)
    BY <1>3, <1>5, <2>2 DEF Tabled, Asked
  <2>5. Opened(v)
    BY <1>3, <1>5, <1>6, <2>1, <2>2 DEF Opened
  <2> QED BY <2>3, <2>4, <2>5
<1> QED BY <1>16, <1>20, <1>21, <1>22 DEF VolumeGood, Kept, Attempt

LEMMA AfterCheck ==
  ASSUME NEW u, VolumeGood(u), NEW w \in BOOLEAN, NEW l \in BOOLEAN,
         NEW v \in Automount!CheckAndMount(u, w, l)
  PROVE  VolumeGood(v)
<1> DEFINE x == [u EXCEPT !.allow = TRUE]
           y == [u EXCEPT !.allow = u.allow \/ l]
<1>1. u \in Automount!VolumeState /\ Counted(u) /\ Offered(u)
  BY DEF VolumeGood, Kept
<1>2. \/ v = u
      \/ u.timers < VolumeTries /\ v = Automount!Expiring(x)
      \/ v \in Automount!MountVolume(y, w, 0)
  BY DEF Automount!CheckAndMount
<1>3. CASE u.timers < VolumeTries /\ v = Automount!Expiring(x)
  <2>1. x \in Automount!VolumeState
    BY <1>1, VolumeSwitching
  <2>2. /\ x.tries = u.tries /\ x.run = u.run /\ x.withOp = u.withOp /\ x.dialog = u.dialog
        /\ x.shown = u.shown /\ x.existing = u.existing /\ x.handler = u.handler
        /\ x.entry = u.entry /\ x.stranded = u.stranded
    BY <1>1 DEF Automount!VolumeState
  <2>3. /\ x.timers = u.timers
        /\ x.mount = u.mount /\ x.look = u.look /\ x.source = u.source /\ x.missed = u.missed
    BY <1>1 DEF Automount!VolumeState
  <2> HIDE DEF x
  <2>4. u.timers \in Nat /\ x.timers < 2 * VolumeTries
    BY <1>1, <1>3, <2>3, VolumeFields, AgentsAssumption
  <2>5. /\ v \in Automount!VolumeState /\ v.timers = x.timers + 1 /\ v.expireId = TRUE
        /\ v.tries = x.tries /\ v.run = x.run /\ v.withOp = x.withOp
        /\ v.dialog = x.dialog /\ v.shown = x.shown /\ v.existing = x.existing
        /\ v.handler = x.handler /\ v.entry = x.entry /\ v.stranded = x.stranded
        /\ v.mount = x.mount /\ v.look = x.look /\ v.source = x.source
        /\ v.missed = x.missed
    BY <1>3, <2>1, <2>4, AfterExpiring
  <2>6. Fresh(v) /\ Attempt(v)
    BY <2>2, <2>5, Beside
  <2>7. Counted(v)
    BY <1>3, <2>3, <2>4, <2>5, EndedCounts, AgentsAssumption DEF Counted
  <2>8. Offered(v)
    BY <1>1, <2>3, <2>5 DEF Offered
  <2> QED BY <2>5, <2>6, <2>7, <2>8 DEF VolumeGood, Kept
<1>4. CASE v \in Automount!MountVolume(y, w, 0)
  <2>1. y \in Automount!VolumeState
    BY <1>1, VolumeSwitching, VolumeFields
  <2>2. /\ y.tries = u.tries /\ y.run = u.run /\ y.withOp = u.withOp /\ y.dialog = u.dialog
        /\ y.shown = u.shown /\ y.existing = u.existing /\ y.handler = u.handler
        /\ y.entry = u.entry /\ y.stranded = u.stranded
    BY <1>1 DEF Automount!VolumeState
  <2>3. /\ y.timers = u.timers /\ y.expireId = u.expireId
        /\ y.mount = u.mount /\ y.look = u.look /\ y.source = u.source /\ y.missed = u.missed
    BY <1>1 DEF Automount!VolumeState
  <2> HIDE DEF y
  <2>4. Fresh(y) /\ Attempt(y) /\ Ended(y) = Ended(u)
    BY <2>2, Beside
  <2>5. Counted(y) /\ Offered(y)
    BY <1>1, <2>3, <2>4 DEF Counted, Offered
  <2>6. ~y.stranded /\ Automount!Busy(y) = {} => \A d \in Tries : y.dialog[d] # "open"
    <3>1. y.tries \in 0..VolumeTries
      BY <2>1, VolumeFields
    <3>2. y.tries # 0 => y.tries \in 1..y.tries
      BY <3>1
    <3> QED BY <2>4, <3>2 DEF Attempt, Opened, Automount!Busy
  <2>7. 0 \in 0..VolumeTries
    BY AgentsAssumption
  <2> QED BY <1>4, <2>1, <2>4, <2>5, <2>6, <2>7, AfterMount DEF Kept
<1> QED BY <1>2, <1>3, <1>4

\* A dialog that is closed fades; whatever else is open stays.
LEMMA AfterClosing ==
  ASSUME NEW u \in Automount!VolumeState, NEW d \in 0..VolumeTries
  PROVE  LET v == Automount!CloseDialog(u, d)
         IN /\ v \in Automount!VolumeState
            /\ \A e \in Tries : v.dialog[e] = "open" => u.dialog[e] = "open" /\ e # d
            /\ v.tries = u.tries /\ v.run = u.run /\ v.withOp = u.withOp
            /\ v.shown = u.shown /\ v.existing = u.existing /\ v.handler = u.handler
            /\ v.entry = u.entry /\ v.stranded = u.stranded
            /\ v.timers = u.timers /\ v.expireId = u.expireId
            /\ v.mount = u.mount /\ v.look = u.look /\ v.source = u.source
            /\ v.missed = u.missed
<1> DEFINE v == Automount!CloseDialog(u, d)
<1>1. CASE ~(d # 0 /\ u.dialog[d] = "open")
  <2>1. v = u
    BY <1>1 DEF Automount!CloseDialog
  <2>2. \A e \in Tries : e # 0
    BY DEF Tries
  <2> QED BY <1>1, <2>1, <2>2
<1>2. CASE d # 0 /\ u.dialog[d] = "open"
  <2>1. v = [u EXCEPT !.dialog[d] = "closing"]
    BY <1>2 DEF Automount!CloseDialog
  <2>2. d \in Tries
    BY <1>2 DEF Tries
  <2> HIDE DEF v
  <2>3. v \in Automount!VolumeState
    BY <2>1, <2>2, VolumeMarking
  <2>4. /\ v.dialog = [u.dialog EXCEPT ![d] = "closing"]
        /\ v.tries = u.tries /\ v.run = u.run /\ v.withOp = u.withOp
        /\ v.shown = u.shown /\ v.existing = u.existing /\ v.handler = u.handler
    BY <2>1 DEF Automount!VolumeState
  <2>5. /\ v.entry = u.entry /\ v.stranded = u.stranded
        /\ v.timers = u.timers /\ v.expireId = u.expireId
        /\ v.mount = u.mount /\ v.look = u.look /\ v.source = u.source
        /\ v.missed = u.missed
    BY <2>1 DEF Automount!VolumeState
  <2>6. \A e \in Tries : v.dialog[e] = "open" => u.dialog[e] = "open" /\ e # d
    BY <2>2, <2>4, VolumeFields
  <2> QED BY <2>3, <2>4, <2>5, <2>6 DEF v
<1> QED BY <1>1, <1>2

\* An operation that is closed closes the dialog it shows and the one it borrowed.
ClosedOf(u, v, a) ==
  /\ \A e \in Tries : v.dialog[e] = "open" =>
       u.dialog[e] = "open" /\ e # u.shown[a] /\ e # u.existing[a]
  /\ v.shown = [u.shown EXCEPT ![a] = 0] /\ v.existing = [u.existing EXCEPT ![a] = 0]
  /\ v.tries = u.tries /\ v.run = u.run /\ v.withOp = u.withOp /\ v.handler = u.handler
  /\ v.entry = u.entry /\ v.stranded = u.stranded /\ v.timers = u.timers
  /\ v.expireId = u.expireId /\ v.mount = u.mount /\ v.look = u.look /\ v.source = u.source
  /\ v.missed = u.missed

LEMMA AfterCloseOf ==
  ASSUME NEW u \in Automount!VolumeState, NEW a \in Tries
  PROVE  /\ Automount!CloseOf(u, a) \in Automount!VolumeState
         /\ ClosedOf(u, Automount!CloseOf(u, a), a)
<1> DEFINE v == Automount!CloseOf(u, a)
           x == Automount!CloseDialog(u, u.existing[a])
           y == Automount!CloseDialog(x, u.shown[a])
           z == [y EXCEPT !.existing[a] = 0]
<1>1. u.existing[a] \in 0..VolumeTries /\ u.shown[a] \in 0..VolumeTries /\ 0 \in 0..VolumeTries
  BY VolumeFields, AgentsAssumption
<1>2. v = [z EXCEPT !.shown[a] = 0]
  BY DEF Automount!CloseOf
<1>3. /\ x \in Automount!VolumeState
      /\ \A e \in Tries : x.dialog[e] = "open" => u.dialog[e] = "open" /\ e # u.existing[a]
      /\ x.tries = u.tries /\ x.run = u.run /\ x.withOp = u.withOp
      /\ x.shown = u.shown /\ x.existing = u.existing /\ x.handler = u.handler
      /\ x.entry = u.entry /\ x.stranded = u.stranded
      /\ x.timers = u.timers /\ x.expireId = u.expireId
      /\ x.mount = u.mount /\ x.look = u.look /\ x.source = u.source
      /\ x.missed = u.missed
  BY <1>1, AfterClosing
<1> HIDE DEF x
<1>4. /\ y \in Automount!VolumeState
      /\ \A e \in Tries : y.dialog[e] = "open" => x.dialog[e] = "open" /\ e # u.shown[a]
      /\ y.tries = x.tries /\ y.run = x.run /\ y.withOp = x.withOp
      /\ y.shown = x.shown /\ y.existing = x.existing /\ y.handler = x.handler
      /\ y.entry = x.entry /\ y.stranded = x.stranded
      /\ y.timers = x.timers /\ y.expireId = x.expireId
      /\ y.mount = x.mount /\ y.look = x.look /\ y.source = x.source
      /\ y.missed = x.missed
  BY <1>1, <1>3, AfterClosing
<1> HIDE DEF y
<1>5. z \in Automount!VolumeState
  BY <1>1, <1>4, VolumeMarking
<1>6. /\ v.shown = [y.shown EXCEPT ![a] = 0] /\ v.existing = [y.existing EXCEPT ![a] = 0]
      /\ v.tries = y.tries /\ v.run = y.run /\ v.withOp = y.withOp
      /\ v.handler = y.handler /\ v.dialog = y.dialog
  BY <1>2, <1>4 DEF Automount!VolumeState
<1>7. /\ v.entry = y.entry /\ v.stranded = y.stranded
      /\ v.timers = y.timers /\ v.expireId = y.expireId
      /\ v.mount = y.mount /\ v.look = y.look /\ v.source = y.source
      /\ v.missed = y.missed
  BY <1>2, <1>4 DEF Automount!VolumeState
<1> HIDE DEF z, v
<1>8. v \in Automount!VolumeState
  BY <1>1, <1>2, <1>5, VolumeMarking
<1>9. ClosedOf(u, v, a)
  BY <1>3, <1>4, <1>6, <1>7 DEF ClosedOf
<1> QED BY <1>8, <1>9 DEF v
-----------------------------------------------------------------------------
\* Each action keeps the invariant.
LEMMA VolumeAddedGood ==
  ASSUME VolumeGood(state), Automount!VolumeAdded
  PROVE  VolumeGood(state')
<1> DEFINE u == [state EXCEPT !.volume = "present"]
<1>1. /\ state \in Automount!VolumeState
      /\ state' = u \/ state' \in Automount!CheckAndMount(u, TRUE, TRUE)
  BY DEF VolumeGood, Kept, Automount!VolumeAdded
<1>2. u \in Automount!VolumeState
  BY <1>1, VolumeSetting
<1>3. /\ u.tries = state.tries /\ u.run = state.run /\ u.withOp = state.withOp
      /\ u.dialog = state.dialog /\ u.shown = state.shown /\ u.existing = state.existing
      /\ u.handler = state.handler /\ u.entry = state.entry /\ u.stranded = state.stranded
  BY <1>1 DEF Automount!VolumeState
<1>4. /\ u.timers = state.timers /\ u.expireId = state.expireId
      /\ u.mount = state.mount /\ u.look = state.look /\ u.source = state.source
      /\ u.missed = state.missed
  BY <1>1 DEF Automount!VolumeState
<1> HIDE DEF u
<1>5. VolumeGood(u)
  BY <1>2, <1>3, <1>4, Beside DEF VolumeGood, Kept, Counted, Offered
<1> QED BY <1>1, <1>5, AfterCheck

LEMMA VolumeSwitchedGood ==
  ASSUME VolumeGood(state), Automount!Enable \/ Automount!Disable
  PROVE  VolumeGood(state')
<1> PICK x \in BOOLEAN, y \in BOOLEAN : state' = [state EXCEPT !.enabled = x, !.idle = y]
  BY DEF Automount!Enable, Automount!Disable
<1> DEFINE v == [state EXCEPT !.enabled = x]
<1>1. state \in Automount!VolumeState /\ state' = [v EXCEPT !.idle = y]
  BY DEF VolumeGood, Kept
<1>2. /\ state'.tries = state.tries /\ state'.run = state.run
      /\ state'.withOp = state.withOp /\ state'.dialog = state.dialog
      /\ state'.shown = state.shown /\ state'.existing = state.existing
      /\ state'.handler = state.handler
  BY <1>1 DEF Automount!VolumeState
<1>3. /\ state'.entry = state.entry /\ state'.stranded = state.stranded
      /\ state'.timers = state.timers /\ state'.expireId = state.expireId
      /\ state'.mount = state.mount /\ state'.look = state.look
      /\ state'.source = state.source /\ state'.missed = state.missed
  BY <1>1 DEF Automount!VolumeState
<1>4. v \in Automount!VolumeState
  BY <1>1, VolumeSwitching
<1> HIDE DEF v
<1>5. state' \in Automount!VolumeState
  BY <1>1, <1>4, VolumeSwitching
<1> QED BY <1>2, <1>3, <1>5, Beside DEF VolumeGood, Kept, Counted, Offered

LEMMA StartupMountAllGood ==
  ASSUME VolumeGood(state), Automount!StartupMountAll
  PROVE  VolumeGood(state')
<1> DEFINE u == [state EXCEPT !.idle = FALSE]
<1>1. /\ state \in Automount!VolumeState
      /\ state' = u \/ state' \in Automount!CheckAndMount(u, FALSE, FALSE)
  BY DEF VolumeGood, Kept, Automount!StartupMountAll
<1>2. u \in Automount!VolumeState
  BY <1>1, VolumeSwitching
<1>3. /\ u.tries = state.tries /\ u.run = state.run /\ u.withOp = state.withOp
      /\ u.dialog = state.dialog /\ u.shown = state.shown /\ u.existing = state.existing
      /\ u.handler = state.handler /\ u.entry = state.entry /\ u.stranded = state.stranded
  BY <1>1 DEF Automount!VolumeState
<1>4. /\ u.timers = state.timers /\ u.expireId = state.expireId
      /\ u.mount = state.mount /\ u.look = state.look /\ u.source = state.source
      /\ u.missed = state.missed
  BY <1>1 DEF Automount!VolumeState
<1> HIDE DEF u
<1>5. VolumeGood(u)
  BY <1>2, <1>3, <1>4, Beside DEF VolumeGood, Kept, Counted, Offered
<1> QED BY <1>1, <1>5, AfterCheck

\* What an attempt does before it ends leaves the count, the offer and the future alone.
LEMMA Going ==
  ASSUME NEW u, Kept(u), NEW v \in Automount!VolumeState, NEW a \in Tries, a <= u.tries,
         u.run[a] # "done", \E x : x # "done" /\ v.run = [u.run EXCEPT ![a] = x],
         v.shown = u.shown \/ \E y : v.shown = [u.shown EXCEPT ![a] = y],
         v.tries = u.tries, v.timers = u.timers, v.expireId = u.expireId,
         v.mount = u.mount \/ (u.mount = "none" /\ v.mount = "mounted"),
         v.look = u.look, v.source = u.source, v.missed = u.missed
  PROVE  Kept(v)
<1>1. u.run \in [Tries -> {"none", "mounting", "asking", "replied", "canceled",
                           "mounted", "done"}]
      /\ u.shown \in [Tries -> 0..VolumeTries] /\ u.tries \in 0..VolumeTries
  BY VolumeFields DEF Kept
<1>2. Ended(v) = Ended(u)
  BY <1>1 DEF Ended
<1>3. \A c \in Tries : c > u.tries => c # a
  BY <1>1 DEF Tries
<1>4. Fresh(v)
  BY <1>1, <1>3 DEF Kept, Fresh
<1>5. Counted(v) /\ Offered(v)
  BY <1>2 DEF Kept, Counted, Offered
<1> QED BY <1>4, <1>5 DEF Kept

LEMMA Begun ==
  ASSUME NEW u, Kept(u), NEW a \in Tries, u.run[a] # "none"
  PROVE  a <= u.tries /\ u.tries \in Nat /\ u.tries # 0
<1>1. u.tries \in 0..VolumeTries
  BY VolumeFields DEF Kept
<1>2. ~(a > u.tries)
  BY DEF Kept, Fresh
<1> QED BY <1>1, <1>2, AgentsAssumption DEF Tries

LEMMA AskPasswordGood ==
  ASSUME VolumeGood(state), NEW a \in Tries, Automount!AskPassword(a)
  PROVE  VolumeGood(state')
<1> DEFINE d == IF state.existing[a] # 0 THEN state.existing[a] ELSE a
           p == [state EXCEPT !.run[a] = "asking"]
           q == [p EXCEPT !.shown[a] = d]
           u == [q EXCEPT !.handler[d] = a]
<1>1. /\ state.run[a] = "mounting" /\ state.withOp[a]
      /\ IF state.dialog[d] = "open" THEN state' = u
         ELSE \E s \in {"open", "refused"} : state' = [u EXCEPT !.dialog[d] = s]
  BY DEF Automount!AskPassword
<1>2. Kept(state) /\ state \in Automount!VolumeState /\ Attempt(state)
  BY DEF VolumeGood, Kept
<1>3. a <= state.tries /\ state.tries # 0
  BY <1>1, <1>2, Begun
<1>4. d \in Tries /\ d \in 0..VolumeTries /\ a \in 0..VolumeTries /\ d # 0
      /\ (state.existing[a] # 0 => d = state.existing[a])
  <2>1. state.existing[a] \in 0..VolumeTries
    BY <1>2, VolumeFields
  <2> QED BY <2>1, AgentsAssumption DEF Tries
<1> HIDE DEF d
<1>5. p \in Automount!VolumeState
  BY <1>2, VolumeMarking
<1> HIDE DEF p
<1>6. q \in Automount!VolumeState
  BY <1>4, <1>5, VolumeMarking
<1> HIDE DEF q
<1>7. u \in Automount!VolumeState
  BY <1>4, <1>6, VolumeMarking
<1>8. /\ u.run = [state.run EXCEPT ![a] = "asking"]
      /\ u.shown = [state.shown EXCEPT ![a] = d]
      /\ u.handler = [state.handler EXCEPT ![d] = a]
      /\ u.tries = state.tries /\ u.withOp = state.withOp
      /\ u.dialog = state.dialog /\ u.existing = state.existing
  BY <1>2 DEF Automount!VolumeState, p, q
<1>9. /\ u.entry = state.entry /\ u.stranded = state.stranded
      /\ u.timers = state.timers /\ u.expireId = state.expireId
      /\ u.mount = state.mount /\ u.look = state.look
      /\ u.source = state.source /\ u.missed = state.missed
  BY <1>2 DEF Automount!VolumeState, p, q
<1> HIDE DEF u
<1>10. /\ state' \in Automount!VolumeState
       /\ state'.dialog[d] \in {"open", "refused"}
       /\ \A e \in Tries : e # d => state'.dialog[e] = state.dialog[e]
       /\ state'.run = u.run /\ state'.shown = u.shown /\ state'.handler = u.handler
       /\ state'.tries = u.tries /\ state'.withOp = u.withOp
       /\ state'.existing = u.existing
       /\ state'.entry = u.entry /\ state'.stranded = u.stranded
       /\ state'.timers = u.timers /\ state'.expireId = u.expireId
       /\ state'.mount = u.mount /\ state'.look = u.look
       /\ state'.source = u.source /\ state'.missed = u.missed
  <2>1. CASE state.dialog[d] = "open"
    BY <1>1, <1>7, <1>8, <2>1
  <2>2. CASE state.dialog[d] # "open"
    <3> PICK s \in {"open", "refused"} : state' = [u EXCEPT !.dialog[d] = s]
      BY <1>1, <2>2
    <3>1. state' \in Automount!VolumeState
      BY <1>4, <1>7, VolumeMarking
    <3>2. /\ state'.dialog = [u.dialog EXCEPT ![d] = s]
          /\ state'.run = u.run /\ state'.shown = u.shown /\ state'.handler = u.handler
          /\ state'.tries = u.tries /\ state'.withOp = u.withOp
          /\ state'.existing = u.existing
      BY <1>7 DEF Automount!VolumeState
    <3>3. /\ state'.entry = u.entry /\ state'.stranded = u.stranded
          /\ state'.timers = u.timers /\ state'.expireId = u.expireId
          /\ state'.mount = u.mount /\ state'.look = u.look
          /\ state'.source = u.source /\ state'.missed = u.missed
      BY <1>7 DEF Automount!VolumeState
    <3>4. /\ state'.dialog[d] \in {"open", "refused"}
          /\ \A e \in Tries : e # d => state'.dialog[e] = state.dialog[e]
      BY <1>4, <1>7, <1>8, <3>2, VolumeFields
    <3> QED BY <3>1, <3>2, <3>3, <3>4
  <2> QED BY <2>1, <2>2
<1>11. Kept(state')
  <2>1. /\ \E x : x # "done" /\ state'.run = [state.run EXCEPT ![a] = x]
        /\ \E y : state'.shown = [state.shown EXCEPT ![a] = y]
    BY <1>8, <1>10
  <2>2. /\ state'.tries = state.tries /\ state'.timers = state.timers
        /\ state'.expireId = state.expireId /\ state'.mount = state.mount
        /\ state'.look = state.look /\ state'.source = state.source
        /\ state'.missed = state.missed
    BY <1>8, <1>9, <1>10
  <2> QED BY <1>1, <1>2, <1>3, <1>10, <2>1, <2>2, Going
<1>12. ASSUME ~state'.stranded
       PROVE  Alone(state') /\ Opened(state') /\ Tabled(state') /\ Asked(state')
  <2>1. Alone(state) /\ Opened(state) /\ Tabled(state)
    BY <1>2, <1>3, <1>9, <1>10, <1>12 DEF Attempt
  <2>2. a = state.tries
    BY <1>1, <2>1 DEF Alone
  <2>3. /\ state.run \in [Tries -> {"none", "mounting", "asking", "replied", "canceled",
                                    "mounted", "done"}]
        /\ state.shown \in [Tries -> 0..VolumeTries]
        /\ state.handler \in [Tries -> 0..VolumeTries]
    BY <1>2, VolumeFields
  <2>4. /\ state'.run[a] = "asking" /\ state'.shown[a] = d /\ state'.handler[d] = a
        /\ \A c \in Tries : c # a => state'.run[c] = state.run[c]
    BY <1>4, <1>8, <1>10, <2>3
  <2>5. Alone(state')
    BY <1>8, <1>10, <2>1, <2>2, <2>4 DEF Alone
  <2>6. Tabled(state') /\ Asked(state')
    BY <1>1, <1>4, <1>8, <1>9, <1>10, <2>1, <2>2, <2>4 DEF Tabled, Asked
  <2>7. \A e \in Tries : state'.dialog[e] = "open" => e = d
    <3>1. state.shown[a] = 0
      BY <1>1, <2>1, <2>2 DEF Tabled
    <3>2. \A e \in Tries : state.dialog[e] = "open" => e = state.existing[a] /\ e # 0
      BY <2>1, <2>2, <3>1 DEF Opened, Tries
    <3> QED BY <1>4, <1>10, <3>2
  <2>8. Opened(state')
    BY <1>1, <1>3, <1>8, <1>10, <2>2, <2>4, <2>7 DEF Opened
  <2> QED BY <2>5, <2>6, <2>8
<1> QED BY <1>11, <1>12 DEF VolumeGood, Attempt

\* An answer, or the mount itself: the attempt goes on without a question.
Went(u, v, a, x) ==
  /\ v.run = [u.run EXCEPT ![a] = x] /\ v.tries = u.tries /\ v.withOp = u.withOp
  /\ v.dialog = u.dialog /\ v.shown = u.shown /\ v.existing = u.existing
  /\ v.handler = u.handler /\ v.entry = u.entry /\ v.stranded = u.stranded
  /\ v.timers = u.timers /\ v.expireId = u.expireId
  /\ v.mount = u.mount \/ (u.mount = "none" /\ v.mount = "mounted")
  /\ v.look = u.look /\ v.source = u.source /\ v.missed = u.missed

LEMMA WentOn ==
  ASSUME VolumeGood(state), NEW a \in Tries, state.run[a] \notin {"none", "done"},
         NEW x \in {"replied", "canceled", "mounted"},
         state' \in Automount!VolumeState, Went(state, state', a, x)
  PROVE  VolumeGood(state')
<1>1. Kept(state) /\ state \in Automount!VolumeState /\ Attempt(state)
  BY DEF VolumeGood, Kept
<1>2. /\ state'.run = [state.run EXCEPT ![a] = x] /\ state'.tries = state.tries
      /\ state'.withOp = state.withOp /\ state'.dialog = state.dialog
      /\ state'.shown = state.shown /\ state'.existing = state.existing
      /\ state'.handler = state.handler /\ state'.entry = state.entry
      /\ state'.stranded = state.stranded /\ state'.timers = state.timers
      /\ state'.expireId = state.expireId
      /\ state'.mount = state.mount \/ (state.mount = "none" /\ state'.mount = "mounted")
      /\ state'.look = state.look /\ state'.source = state.source
      /\ state'.missed = state.missed
  BY DEF Went
<1>3. a <= state.tries /\ state.tries # 0
  BY <1>1, Begun
<1>4. Kept(state')
  <2>1. x # "done"
    OBVIOUS
  <2>2. \E y : y # "done" /\ state'.run = [state.run EXCEPT ![a] = y]
    BY <1>2, <2>1
  <2>3. /\ state'.shown = state.shown \/ \E y : state'.shown = [state.shown EXCEPT ![a] = y]
        /\ state'.mount = state.mount \/ (state.mount = "none" /\ state'.mount = "mounted")
    BY <1>2
  <2>4. /\ state'.tries = state.tries /\ state'.timers = state.timers
        /\ state'.expireId = state.expireId /\ state'.look = state.look
        /\ state'.source = state.source /\ state'.missed = state.missed
    BY <1>2
  <2> QED BY <1>1, <1>3, <2>2, <2>3, <2>4, Going
<1>5. ASSUME ~state'.stranded
      PROVE  Alone(state') /\ Opened(state') /\ Tabled(state') /\ Asked(state')
  <2>1. Alone(state) /\ Opened(state) /\ Tabled(state)
    BY <1>1, <1>2, <1>3, <1>5 DEF Attempt
  <2>2. a = state.tries
    BY <2>1 DEF Alone
  <2>3. state'.run[a] = x /\ \A c \in Tries : c # a => state'.run[c] = state.run[c]
    BY <1>1, <1>2, VolumeFields
  <2> QED BY <1>2, <2>1, <2>2, <2>3 DEF Alone, Opened, Tabled, Asked
<1> QED BY <1>4, <1>5 DEF VolumeGood, Attempt

LEMMA VolumePressGood ==
  ASSUME VolumeGood(state), NEW d \in Tries, NEW h \in {"replied", "canceled"},
         Automount!Press(d, h)
  PROVE  VolumeGood(state')
<1> DEFINE a == state.handler[d]
<1>1. /\ a # 0 /\ state.run[a] = "asking" /\ state' = [state EXCEPT !.run[a] = h]
      /\ state \in Automount!VolumeState
  BY DEF VolumeGood, Kept, Automount!Press
<1>2. a \in Tries
  <2>1. a \in 0..VolumeTries
    BY <1>1, VolumeFields
  <2> QED BY <1>1, <2>1 DEF Tries
<1> HIDE DEF a
<1>3. state' \in Automount!VolumeState
  BY <1>1, <1>2, VolumeMarking
<1>4. /\ state'.run = [state.run EXCEPT ![a] = h]
      /\ state'.tries = state.tries /\ state'.withOp = state.withOp
      /\ state'.dialog = state.dialog /\ state'.shown = state.shown
      /\ state'.existing = state.existing /\ state'.handler = state.handler
  BY <1>1 DEF Automount!VolumeState
<1>5. /\ state'.entry = state.entry /\ state'.stranded = state.stranded
      /\ state'.timers = state.timers /\ state'.expireId = state.expireId
      /\ state'.mount = state.mount /\ state'.look = state.look
      /\ state'.source = state.source /\ state'.missed = state.missed
  BY <1>1 DEF Automount!VolumeState
<1>6. Went(state, state', a, h)
  BY <1>4, <1>5 DEF Went
<1> QED BY <1>1, <1>2, <1>3, <1>6, WentOn

LEMMA MountDoneGood ==
  ASSUME VolumeGood(state), NEW a \in Tries, Automount!MountDone(a)
  PROVE  VolumeGood(state')
<1> DEFINE u == [state EXCEPT !.run[a] = "mounted"]
<1>1. /\ state.run[a] \in {"mounting", "replied"} /\ state.mount = "none"
      /\ state' = [u EXCEPT !.mount = "mounted"] /\ state \in Automount!VolumeState
  BY DEF VolumeGood, Kept, Automount!MountDone
<1>2. /\ state'.run = [state.run EXCEPT ![a] = "mounted"]
      /\ state'.tries = state.tries /\ state'.withOp = state.withOp
      /\ state'.dialog = state.dialog /\ state'.shown = state.shown
      /\ state'.existing = state.existing /\ state'.handler = state.handler
  BY <1>1 DEF Automount!VolumeState
<1>3. /\ state'.entry = state.entry /\ state'.stranded = state.stranded
      /\ state'.timers = state.timers /\ state'.expireId = state.expireId
      /\ state'.mount = "mounted" /\ state'.look = state.look
      /\ state'.source = state.source /\ state'.missed = state.missed
  BY <1>1 DEF Automount!VolumeState
<1>4. u \in Automount!VolumeState
  BY <1>1, VolumeMarking
<1> HIDE DEF u
<1>5. state' \in Automount!VolumeState
  BY <1>1, <1>4, VolumeSetting
<1>6. Went(state, state', a, "mounted")
  BY <1>1, <1>2, <1>3 DEF Went
<1> QED BY <1>1, <1>5, <1>6, WentOn

LEMMA AbortedGood ==
  ASSUME VolumeGood(state), NEW a \in Tries, Automount!Aborted(a)
  PROVE  VolumeGood(state')
<1> DEFINE v == Automount!CloseOf(state, a)
<1>1. /\ state.run[a] = "asking" /\ state' = [v EXCEPT !.run[a] = "canceled"]
      /\ Kept(state) /\ Attempt(state) /\ state \in Automount!VolumeState
  BY DEF VolumeGood, Kept, Automount!Aborted
<1>2. a <= state.tries /\ state.tries # 0
  BY <1>1, Begun
<1>3. /\ v \in Automount!VolumeState
      /\ \A e \in Tries : v.dialog[e] = "open" =>
           state.dialog[e] = "open" /\ e # state.shown[a] /\ e # state.existing[a]
      /\ v.shown = [state.shown EXCEPT ![a] = 0]
      /\ v.existing = [state.existing EXCEPT ![a] = 0]
      /\ v.tries = state.tries /\ v.run = state.run /\ v.withOp = state.withOp
      /\ v.handler = state.handler /\ v.entry = state.entry
      /\ v.stranded = state.stranded
      /\ v.timers = state.timers /\ v.expireId = state.expireId
      /\ v.mount = state.mount /\ v.look = state.look /\ v.source = state.source
      /\ v.missed = state.missed
  <2>1. v \in Automount!VolumeState /\ ClosedOf(state, v, a)
    BY <1>1, AfterCloseOf
  <2> HIDE DEF v
  <2> QED BY <2>1 DEF ClosedOf
<1> HIDE DEF v
<1>4. state' \in Automount!VolumeState
  BY <1>1, <1>3, VolumeMarking
<1>5. /\ state'.run = [v.run EXCEPT ![a] = "canceled"]
      /\ state'.tries = v.tries /\ state'.withOp = v.withOp
      /\ state'.dialog = v.dialog /\ state'.shown = v.shown
      /\ state'.existing = v.existing /\ state'.handler = v.handler
  BY <1>1, <1>3 DEF Automount!VolumeState
<1>6. /\ state'.entry = v.entry /\ state'.stranded = v.stranded
      /\ state'.timers = v.timers /\ state'.expireId = v.expireId
      /\ state'.mount = v.mount /\ state'.look = v.look
      /\ state'.source = v.source /\ state'.missed = v.missed
  BY <1>1, <1>3 DEF Automount!VolumeState
<1>7. Kept(state')
  <2>1. /\ \E x : x # "done" /\ state'.run = [state.run EXCEPT ![a] = x]
        /\ \E y : state'.shown = [state.shown EXCEPT ![a] = y]
    BY <1>3, <1>5
  <2>2. /\ state'.tries = state.tries /\ state'.timers = state.timers
        /\ state'.expireId = state.expireId /\ state'.mount = state.mount
        /\ state'.look = state.look /\ state'.source = state.source
        /\ state'.missed = state.missed
    BY <1>3, <1>5, <1>6
  <2>3. Kept(state) /\ a <= state.tries /\ state.run[a] # "done"
    BY <1>1, <1>2
  <2> QED BY <1>4, <2>1, <2>2, <2>3, Going
<1>8. ASSUME ~state'.stranded
      PROVE  Alone(state') /\ Opened(state') /\ Tabled(state') /\ Asked(state')
  <2>1. Alone(state) /\ Opened(state) /\ Tabled(state)
    BY <1>1, <1>2, <1>3, <1>6, <1>8 DEF Attempt
  <2>2. a = state.tries
    BY <1>1, <2>1 DEF Alone
  <2>3. /\ state.run \in [Tries -> {"none", "mounting", "asking", "replied", "canceled",
                                    "mounted", "done"}]
        /\ state.shown \in [Tries -> 0..VolumeTries]
        /\ state.existing \in [Tries -> 0..VolumeTries]
    BY <1>1, VolumeFields
  <2>4. /\ state'.run[a] = "canceled" /\ state'.shown[a] = 0
        /\ \A c \in Tries : c # a => state'.run[c] = state.run[c]
    BY <1>3, <1>5, <2>3
  <2>5. \A e \in Tries : state'.dialog[e] # "open"
    BY <1>3, <1>5, <2>1, <2>2 DEF Opened
  <2>6. Alone(state') /\ Opened(state')
    BY <1>3, <1>5, <2>1, <2>2, <2>4, <2>5 DEF Alone, Opened
  <2>7. Tabled(state') /\ Asked(state')
    BY <1>1, <1>3, <1>5, <1>6, <2>1, <2>2, <2>4 DEF Tabled, Asked
  <2> QED BY <2>6, <2>7
<1> QED BY <1>7, <1>8 DEF VolumeGood, Attempt

LEMMA VolumeFadedGood ==
  ASSUME VolumeGood(state), NEW d \in Tries, Automount!Faded(d)
  PROVE  VolumeGood(state')
<1>1. /\ state.dialog[d] = "closing" /\ state' = [state EXCEPT !.dialog[d] = "gone"]
      /\ Kept(state) /\ Attempt(state) /\ state \in Automount!VolumeState
  BY DEF VolumeGood, Kept, Automount!Faded
<1>2. state' \in Automount!VolumeState
  BY <1>1, VolumeMarking
<1>3. /\ state'.dialog = [state.dialog EXCEPT ![d] = "gone"]
      /\ state'.tries = state.tries /\ state'.withOp = state.withOp
      /\ state'.run = state.run /\ state'.shown = state.shown
      /\ state'.existing = state.existing /\ state'.handler = state.handler
  BY <1>1 DEF Automount!VolumeState
<1>4. /\ state'.entry = state.entry /\ state'.stranded = state.stranded
      /\ state'.timers = state.timers /\ state'.expireId = state.expireId
      /\ state'.mount = state.mount /\ state'.look = state.look
      /\ state'.source = state.source /\ state'.missed = state.missed
  BY <1>1 DEF Automount!VolumeState
<1>5. Kept(state')
  BY <1>1, <1>2, <1>3, <1>4 DEF Kept, Counted, Ended, Fresh, Offered
<1>6. state'.dialog[d] = "gone" /\ \A e \in Tries : e # d => state'.dialog[e] = state.dialog[e]
  BY <1>1, <1>3, VolumeFields
<1>7. state.tries \in 0..VolumeTries /\ state.shown \in [Tries -> 0..VolumeTries]
  BY <1>1, VolumeFields
<1>8. ASSUME ~state'.stranded
      PROVE  Alone(state') /\ Opened(state')
             /\ (state'.tries # 0 => Tabled(state') /\ Asked(state'))
  <2>1. Alone(state) /\ Opened(state) /\ (state.tries # 0 => Tabled(state) /\ Asked(state))
    BY <1>1, <1>4, <1>8 DEF Attempt
  <2>2. Alone(state') /\ Opened(state')
    BY <1>3, <1>6, <2>1 DEF Alone, Opened
  <2>3. ASSUME state'.tries # 0 PROVE Tabled(state') /\ Asked(state')
    <3> DEFINE k == state.shown[state.tries]
    <3>1. state.tries \in Tries
      BY <1>3, <1>7, <2>3 DEF Tries
    <3>2. k # 0 => k \in Tries
      <4>1. k \in 0..VolumeTries
        BY <1>7, <3>1
      <4> QED BY <4>1 DEF Tries
    <3>3. Tabled(state')
      BY <1>3, <1>4, <2>1, <2>3 DEF Tabled
    <3>4. Asked(state')
      BY <1>1, <1>3, <1>6, <2>1, <2>3, <3>2 DEF Asked
    <3> QED BY <3>3, <3>4
  <2> QED BY <2>2, <2>3
<1> QED BY <1>5, <1>8 DEF VolumeGood, Attempt

\* One that ends without having asked anew closes what it showed.
LEMMA AfterCloseOperation ==
  ASSUME NEW u \in Automount!VolumeState, Counted(u), Fresh(u), Offered(u),
         ~u.stranded => /\ \A a \in Tries : u.run[a] \in {"none", "done"}
                        /\ \A d \in Tries : u.dialog[d] = "open" =>
                             /\ u.entry \in Tries
                             /\ d = u.shown[u.entry] \/ d = u.existing[u.entry]
                        /\ u.tries # 0 => u.run[u.tries] = "done" /\ Tabled(u)
  PROVE  VolumeGood(Automount!CloseOperation(u))
<1> DEFINE k == u.entry
           v == Automount!CloseOf(u, k)
           w == Automount!CloseOperation(u)
<1>1. k \in -1..VolumeTries /\ u.tries \in 0..VolumeTries
      /\ u.run \in [Tries -> {"none", "mounting", "asking", "replied", "canceled",
                              "mounted", "done"}]
      /\ u.shown \in [Tries -> 0..VolumeTries] /\ u.existing \in [Tries -> 0..VolumeTries]
  BY VolumeFields
<1>2. k \in {-1, 0} \/ k \in Tries
  BY <1>1, AgentsAssumption DEF Tries
<1>3. u.tries # 0 => u.tries \in Tries
  BY <1>1 DEF Tries
<1>4. CASE k \in {-1, 0}
  <2>1. w = u
    BY <1>4 DEF Automount!CloseOperation, Automount!NoEntry
  <2>2. k \notin Tries
    BY <1>4 DEF Tries
  <2>3. ~u.stranded => Alone(u) /\ Opened(u)
    BY <2>2 DEF Alone, Opened
  <2>4. ~u.stranded /\ u.tries # 0 => Asked(u)
    BY <1>3 DEF Asked
  <2> QED BY <2>1, <2>3, <2>4 DEF VolumeGood, Kept, Attempt
<1>5. CASE k \in Tries
  <2>1. w = [v EXCEPT !.entry = -1]
    <3>1. k \notin {-1, 0}
      BY <1>5 DEF Tries
    <3> QED BY <3>1 DEF Automount!CloseOperation, Automount!NoEntry
  <2>2. /\ v \in Automount!VolumeState
        /\ \A e \in Tries : v.dialog[e] = "open" =>
             u.dialog[e] = "open" /\ e # u.shown[k] /\ e # u.existing[k]
        /\ v.shown = [u.shown EXCEPT ![k] = 0]
        /\ v.existing = [u.existing EXCEPT ![k] = 0]
        /\ v.tries = u.tries /\ v.run = u.run /\ v.withOp = u.withOp
        /\ v.handler = u.handler /\ v.entry = u.entry /\ v.stranded = u.stranded
        /\ v.timers = u.timers /\ v.expireId = u.expireId
        /\ v.mount = u.mount /\ v.look = u.look /\ v.source = u.source
        /\ v.missed = u.missed
    <3>1. v \in Automount!VolumeState /\ ClosedOf(u, v, k)
      BY <1>5, AfterCloseOf
    <3> HIDE DEF v
    <3> QED BY <3>1 DEF ClosedOf
  <2> HIDE DEF v, w
  <2>3. w \in Automount!VolumeState
    <3>1. -1 \in -1..VolumeTries
      BY AgentsAssumption
    <3> QED BY <2>1, <2>2, <3>1, VolumeSetting
  <2>4. /\ w.dialog = v.dialog /\ w.shown = v.shown /\ w.existing = v.existing
        /\ w.tries = v.tries /\ w.run = v.run /\ w.withOp = v.withOp
    BY <2>1, <2>2 DEF Automount!VolumeState
  <2>5. /\ w.handler = v.handler /\ w.stranded = v.stranded
        /\ w.timers = v.timers /\ w.expireId = v.expireId
        /\ w.mount = v.mount /\ w.look = v.look /\ w.source = v.source
        /\ w.missed = v.missed
    BY <2>1, <2>2 DEF Automount!VolumeState
  <2>6. \A a \in Tries : /\ w.shown[a] = IF a = k THEN 0 ELSE u.shown[a]
                         /\ w.existing[a] = IF a = k THEN 0 ELSE u.existing[a]
                         /\ w.run[a] = u.run[a]
    BY <1>1, <1>5, <2>2, <2>4
  <2>7. Fresh(w) /\ Ended(w) = Ended(u)
    BY <2>2, <2>4, <2>6 DEF Fresh, Ended
  <2>8. Counted(w) /\ Offered(w)
    BY <2>2, <2>5, <2>7 DEF Counted, Offered
  <2>9. ~w.stranded => Alone(w) /\ Opened(w)
    BY <2>2, <2>4, <2>5, <2>6 DEF Alone, Opened
  <2>10. ~w.stranded /\ w.tries # 0 => Tabled(w) /\ Asked(w)
    <3> SUFFICES ASSUME ~w.stranded, w.tries # 0 PROVE Tabled(w) /\ Asked(w)
      OBVIOUS
    <3>1. u.tries \in Tries /\ w.tries = u.tries /\ Tabled(u) /\ ~u.stranded
      BY <1>3, <2>2, <2>4, <2>5
    <3>2. u.run[u.tries] = "done"
      BY <2>2, <2>4, <3>1, <1>3
    <3>3. w.run[u.tries] = "done"
      BY <2>6, <3>1, <3>2
    <3>4. Asked(w)
      BY <3>1, <3>3 DEF Asked
    <3>5. w.shown[w.tries] # 0 => w.existing[w.tries] \in {0, w.shown[w.tries]}
      BY <2>6, <3>1 DEF Tabled
    <3> QED BY <3>1, <3>3, <3>4, <3>5 DEF Tabled
  <2> QED BY <2>3, <2>7, <2>8, <2>9, <2>10 DEF VolumeGood, Kept, Attempt, w
<1> QED BY <1>2, <1>4, <1>5

\* A wrong password: the next attempt borrows the dialog that the last one showed. A
\* dialog that was lent to an attempt that has not asked on it strands.
LEMMA AfterReask ==
  ASSUME NEW u \in Automount!VolumeState, Counted(u), Fresh(u), Offered(u),
         ~u.stranded => \A d \in Tries : u.dialog[d] = "open" =>
                          /\ u.entry \in Tries
                          /\ \/ d = u.shown[u.entry]
                             \/ d = u.existing[u.entry] /\ u.shown[u.entry] = 0,
         NEW w \in Automount!ReaskPassword(u)
  PROVE  VolumeGood(w)
<1> DEFINE k == u.entry
           d == IF k \in {-1, 0} THEN 0 ELSE u.shown[k]
           b == u.stranded \/ (k > 0 /\ u.existing[k] # 0)
           v == IF d # 0 THEN [u EXCEPT !.handler[d] = 0] ELSE [u EXCEPT !.stranded = b]
<1>1. w \in Automount!MountVolume(v, TRUE, d)
  BY DEF Automount!ReaskPassword, Automount!NoEntry
<1>2. k \in -1..VolumeTries
      /\ u.shown \in [Tries -> 0..VolumeTries] /\ u.existing \in [Tries -> 0..VolumeTries]
  BY VolumeFields
<1>3. k \in {-1, 0} \/ k \in Tries
  BY <1>2, AgentsAssumption DEF Tries
<1>4. d \in 0..VolumeTries
  BY <1>2, <1>3, AgentsAssumption
<1>5. /\ v \in Automount!VolumeState
      /\ v.dialog = u.dialog /\ v.shown = u.shown /\ v.existing = u.existing
      /\ v.tries = u.tries /\ v.run = u.run
      /\ v.timers = u.timers /\ v.expireId = u.expireId
      /\ v.mount = u.mount /\ v.look = u.look /\ v.source = u.source
      /\ v.missed = u.missed
      /\ v.stranded = IF d # 0 THEN u.stranded ELSE b
  <2> HIDE DEF d
  <2>1. CASE d # 0
    <3>1. v = [u EXCEPT !.handler[d] = 0]
      BY <2>1
    <3>2. d \in Tries /\ 0 \in 0..VolumeTries
      BY <1>4, <2>1, AgentsAssumption DEF Tries
    <3> HIDE DEF v
    <3>3. v \in Automount!VolumeState
      BY <3>1, <3>2, VolumeMarking
    <3>4. /\ v.dialog = u.dialog /\ v.shown = u.shown /\ v.existing = u.existing
          /\ v.tries = u.tries /\ v.run = u.run /\ v.stranded = u.stranded
      BY <3>1 DEF Automount!VolumeState
    <3>5. /\ v.timers = u.timers /\ v.expireId = u.expireId
          /\ v.mount = u.mount /\ v.look = u.look /\ v.source = u.source
          /\ v.missed = u.missed
      BY <3>1 DEF Automount!VolumeState
    <3> QED BY <2>1, <3>3, <3>4, <3>5
  <2>2. CASE d = 0
    <3>1. v = [u EXCEPT !.stranded = b]
      BY <2>2
    <3>2. b \in BOOLEAN
      <4>1. u.stranded \in BOOLEAN
        BY VolumeFields
      <4> QED BY <4>1
    <3> HIDE DEF v, b
    <3>3. v \in Automount!VolumeState
      BY <3>1, <3>2, VolumeSwitching
    <3>4. /\ v.dialog = u.dialog /\ v.shown = u.shown /\ v.existing = u.existing
          /\ v.tries = u.tries /\ v.run = u.run /\ v.stranded = b
      BY <3>1 DEF Automount!VolumeState
    <3>5. /\ v.timers = u.timers /\ v.expireId = u.expireId
          /\ v.mount = u.mount /\ v.look = u.look /\ v.source = u.source
          /\ v.missed = u.missed
      BY <3>1 DEF Automount!VolumeState
    <3> QED BY <2>2, <3>3, <3>4, <3>5
  <2> QED BY <2>1, <2>2
<1> HIDE DEF v
<1>6. Kept(v)
  <2>1. Ended(v) = Ended(u) /\ Fresh(v)
    BY <1>5 DEF Ended, Fresh
  <2> QED BY <1>5, <2>1 DEF Kept, Counted, Offered
<1>7. ASSUME ~v.stranded, NEW e \in Tries, v.dialog[e] = "open" PROVE e = d
  <2>1. ~u.stranded
    BY <1>5, <1>7
  <2>2. k \in Tries /\ k > 0 /\ k \notin {-1, 0}
    BY <1>5, <1>7, <2>1 DEF Tries
  <2>3. d = u.shown[k]
    BY <2>2
  <2>4. CASE e = u.shown[k]
    BY <2>3, <2>4
  <2>5. CASE e = u.existing[k] /\ u.shown[k] = 0
    <3>1. e # 0
      BY DEF Tries
    <3>2. d = 0 /\ b
      BY <2>2, <2>3, <2>5, <3>1
    <3> HIDE DEF b, d
    <3> QED BY <1>5, <1>7, <3>2
  <2> QED BY <1>5, <1>7, <2>1, <2>4, <2>5
<1> QED BY <1>1, <1>4, <1>6, <1>7, AfterMount

LEMMA VolumeMountedGood ==
  ASSUME VolumeGood(state), NEW a \in Tries, Automount!VolumeMounted(a)
  PROVE  VolumeGood(state')
<1> DEFINE x == [state EXCEPT !.run[a] = "done"]
           u == Automount!Expiring(x)
<1>1. /\ state.run[a] \in {"mounting", "replied", "canceled", "mounted"}
      /\ state' = Automount!CloseOperation(u) \/ state' \in Automount!ReaskPassword(u)
      /\ Kept(state) /\ Attempt(state) /\ state \in Automount!VolumeState
  BY DEF VolumeGood, Kept, Automount!VolumeMounted
<1>2. a <= state.tries /\ state.tries # 0
  BY <1>1, Begun
<1>3. x \in Automount!VolumeState
  BY <1>1, VolumeMarking
<1>4. /\ x.run = [state.run EXCEPT ![a] = "done"]
      /\ x.tries = state.tries /\ x.withOp = state.withOp
      /\ x.dialog = state.dialog /\ x.shown = state.shown
      /\ x.existing = state.existing /\ x.handler = state.handler
  BY <1>1 DEF Automount!VolumeState
<1>5. /\ x.entry = state.entry /\ x.stranded = state.stranded
      /\ x.timers = state.timers /\ x.mount = state.mount /\ x.look = state.look
      /\ x.source = state.source /\ x.missed = state.missed
  BY <1>1 DEF Automount!VolumeState
<1> HIDE DEF x
<1>6. /\ state.run \in [Tries -> {"none", "mounting", "asking", "replied", "canceled",
                                  "mounted", "done"}]
      /\ state.tries \in 0..VolumeTries /\ state.timers \in 0..(2 * VolumeTries)
  BY <1>1, VolumeFields
<1>7. x.run[a] = "done" /\ \A c \in Tries : c # a => x.run[c] = state.run[c]
  BY <1>4, <1>6
<1>8. Ended(x) = Ended(state) \cup {a} /\ a \notin Ended(state)
  BY <1>1, <1>7 DEF Ended
<1>9. Cardinality(Ended(x)) = Cardinality(Ended(state)) + 1
  BY <1>8, EndedCounts, FS_AddElement
<1>10. x.timers < 2 * VolumeTries /\ x.timers + 1 <= VolumeTries + Cardinality(Ended(x))
  <2>1. state.timers <= VolumeTries + Cardinality(Ended(state))
    BY <1>1 DEF Kept, Counted
  <2>2. Cardinality(Ended(state)) \in Nat /\ Cardinality(Ended(x)) <= VolumeTries
    BY EndedCounts
  <2> QED BY <1>5, <1>6, <1>9, <2>1, <2>2, AgentsAssumption
<1>11. /\ u \in Automount!VolumeState /\ u.timers = x.timers + 1 /\ u.expireId = TRUE
       /\ u.tries = x.tries /\ u.run = x.run /\ u.withOp = x.withOp
       /\ u.dialog = x.dialog /\ u.shown = x.shown /\ u.existing = x.existing
       /\ u.handler = x.handler /\ u.entry = x.entry /\ u.stranded = x.stranded
       /\ u.mount = x.mount /\ u.look = x.look /\ u.source = x.source
       /\ u.missed = x.missed
  BY <1>3, <1>10, AfterExpiring
<1> HIDE DEF u
<1>12. Counted(u)
  <2>1. Ended(u) = Ended(x)
    BY <1>11 DEF Ended
  <2>2. u.timers > 0
    BY <1>5, <1>6, <1>11
  <2> QED BY <1>10, <1>11, <2>1, <2>2 DEF Counted
<1>13. Offered(u)
  BY <1>1, <1>5, <1>11 DEF Kept, Offered
<1>14. Fresh(u)
  <2>1. \A c \in Tries : c > state.tries => c # a
    BY <1>2, <1>6 DEF Tries
  <2> QED BY <1>1, <1>4, <1>7, <1>11, <2>1 DEF Kept, Fresh
<1>15. ASSUME ~u.stranded
       PROVE  /\ \A c \in Tries : u.run[c] \in {"none", "done"}
              /\ \A d \in Tries : u.dialog[d] = "open" =>
                   /\ u.entry \in Tries
                   /\ \/ d = u.shown[u.entry]
                      \/ d = u.existing[u.entry] /\ u.shown[u.entry] = 0
              /\ u.run[u.tries] = "done" /\ Tabled(u)
  <2>1. Alone(state) /\ Opened(state) /\ Tabled(state)
    BY <1>1, <1>2, <1>5, <1>11, <1>15 DEF Attempt
  <2>2. a = state.tries
    BY <1>1, <2>1 DEF Alone
  <2>3. \A c \in Tries : u.run[c] \in {"none", "done"}
    BY <1>7, <1>11, <2>1, <2>2 DEF Alone
  <2>4. \A d \in Tries : u.dialog[d] = "open" =>
          /\ u.entry = a
          /\ d = u.shown[a] \/ (d = u.existing[a] /\ u.shown[a] = 0)
    BY <1>4, <1>5, <1>11, <2>1, <2>2 DEF Opened, Tabled
  <2>5. u.run[u.tries] = "done" /\ u.tries = a
    BY <1>4, <1>7, <1>11, <2>2
  <2>6. Tabled(u)
    BY <1>4, <1>5, <1>11, <2>1, <2>2, <2>5 DEF Tabled
  <2> QED BY <2>3, <2>4, <2>5, <2>6
<1>16. CASE state' = Automount!CloseOperation(u)
  BY <1>11, <1>12, <1>13, <1>14, <1>15, <1>16, AfterCloseOperation
<1>17. CASE state' \in Automount!ReaskPassword(u)
  BY <1>11, <1>12, <1>13, <1>14, <1>15, <1>17, AfterReask
<1> QED BY <1>1, <1>16, <1>17
-----------------------------------------------------------------------------
\* The mount that autorun offers.
LEMMA MountAddedGood ==
  ASSUME VolumeGood(state), Automount!MountAdded
  PROVE  VolumeGood(state')
<1> PICK x \in {"guessing", "done"} : state' = [state EXCEPT !.look = x]
  BY DEF Automount!MountAdded
<1>1. /\ state \in Automount!VolumeState /\ Counted(state) /\ Offered(state)
      /\ state.mount # "none" /\ state.look = "waiting"
  BY DEF VolumeGood, Kept, Automount!MountAdded
<1>2. state' \in Automount!VolumeState
  BY <1>1, VolumeSetting
<1>3. /\ state'.tries = state.tries /\ state'.run = state.run
      /\ state'.withOp = state.withOp /\ state'.dialog = state.dialog
      /\ state'.shown = state.shown /\ state'.existing = state.existing
      /\ state'.handler = state.handler
  BY <1>1 DEF Automount!VolumeState
<1>4. /\ state'.entry = state.entry /\ state'.stranded = state.stranded
      /\ state'.timers = state.timers /\ state'.expireId = state.expireId
      /\ state'.mount = state.mount /\ state'.look = x
      /\ state'.source = state.source /\ state'.missed = state.missed
  BY <1>1 DEF Automount!VolumeState
<1>5. state.mount \in {"mounted", "removed"}
  BY <1>1 DEF Automount!VolumeState
<1>6. Fresh(state') /\ Attempt(state') /\ Ended(state') = Ended(state)
  BY <1>3, <1>4, Beside
<1>7. Counted(state') /\ Offered(state')
  BY <1>1, <1>4, <1>5, <1>6 DEF Counted, Offered
<1> QED BY <1>2, <1>6, <1>7 DEF VolumeGood, Kept

LEMMA AddMountGood ==
  ASSUME VolumeGood(state), Automount!AddMount
  PROVE  VolumeGood(state')
<1> DEFINE u == [state EXCEPT !.look = "done"]
<1>1. /\ state \in Automount!VolumeState /\ Counted(state) /\ Offered(state)
      /\ state.look = "guessing"
      /\ state' = u \/ state' = [u EXCEPT !.source = TRUE]
  BY DEF VolumeGood, Kept, Automount!AddMount
<1>2. u \in Automount!VolumeState
  BY <1>1, VolumeSetting
<1>3. /\ state'.tries = state.tries /\ state'.run = state.run
      /\ state'.withOp = state.withOp /\ state'.dialog = state.dialog
      /\ state'.shown = state.shown /\ state'.existing = state.existing
      /\ state'.handler = state.handler
  BY <1>1 DEF Automount!VolumeState
<1>4. /\ state'.entry = state.entry /\ state'.stranded = state.stranded
      /\ state'.timers = state.timers /\ state'.expireId = state.expireId
      /\ state'.mount = state.mount /\ state'.look = "done"
      /\ state'.missed = state.missed
  BY <1>1 DEF Automount!VolumeState
<1> HIDE DEF u
<1>5. state' \in Automount!VolumeState
  BY <1>1, <1>2, VolumeSwitching
<1>6. Fresh(state') /\ Attempt(state') /\ Ended(state') = Ended(state)
  BY <1>3, <1>4, Beside
<1>7. Counted(state') /\ Offered(state')
  BY <1>1, <1>4, <1>6 DEF Counted, Offered
<1> QED BY <1>5, <1>6, <1>7 DEF VolumeGood, Kept

\* A mount that goes takes its offer along, or nobody was looking.
LEMMA MountRemovedGood ==
  ASSUME VolumeGood(state), Automount!MountRemoved
  PROVE  VolumeGood(state')
<1> DEFINE s == state.source /\ ~state.enabled
           m == ~state.enabled \/ state.look # "done"
           p == [state EXCEPT !.mount = "removed"]
           q == [p EXCEPT !.source = s]
<1>1. /\ state \in Automount!VolumeState /\ Counted(state)
      /\ state' = [q EXCEPT !.missed = m]
  BY DEF VolumeGood, Kept, Automount!MountRemoved
<1>2. s \in BOOLEAN /\ m \in BOOLEAN
  OBVIOUS
<1>3. /\ state'.tries = state.tries /\ state'.run = state.run
      /\ state'.withOp = state.withOp /\ state'.dialog = state.dialog
      /\ state'.shown = state.shown /\ state'.existing = state.existing
      /\ state'.handler = state.handler
  BY <1>1 DEF Automount!VolumeState
<1>4. /\ state'.entry = state.entry /\ state'.stranded = state.stranded
      /\ state'.timers = state.timers /\ state'.expireId = state.expireId
      /\ state'.mount = "removed" /\ state'.look = state.look
      /\ state'.source = s /\ state'.missed = m
  BY <1>1 DEF Automount!VolumeState
<1> HIDE DEF s, m
<1>5. p \in Automount!VolumeState
  BY <1>1, VolumeSetting
<1> HIDE DEF p
<1>6. q \in Automount!VolumeState
  BY <1>2, <1>5, VolumeSwitching
<1> HIDE DEF q
<1>7. state' \in Automount!VolumeState
  BY <1>1, <1>2, <1>6, VolumeSwitching
<1>8. Fresh(state') /\ Attempt(state') /\ Ended(state') = Ended(state)
  BY <1>3, <1>4, Beside
<1>9. Counted(state')
  BY <1>1, <1>4, <1>8 DEF Counted
<1>10. Offered(state')
  BY <1>4 DEF Offered, s, m
<1> QED BY <1>7, <1>8, <1>9, <1>10 DEF VolumeGood, Kept

LEMMA TakeOfferGood ==
  ASSUME VolumeGood(state), Automount!TakeOffer
  PROVE  VolumeGood(state')
<1>1. /\ state \in Automount!VolumeState /\ Counted(state) /\ Offered(state)
      /\ state' = [state EXCEPT !.source = FALSE]
  BY DEF VolumeGood, Kept, Automount!TakeOffer
<1>2. state' \in Automount!VolumeState
  BY <1>1, VolumeSwitching
<1>3. /\ state'.tries = state.tries /\ state'.run = state.run
      /\ state'.withOp = state.withOp /\ state'.dialog = state.dialog
      /\ state'.shown = state.shown /\ state'.existing = state.existing
      /\ state'.handler = state.handler
  BY <1>1 DEF Automount!VolumeState
<1>4. /\ state'.entry = state.entry /\ state'.stranded = state.stranded
      /\ state'.timers = state.timers /\ state'.expireId = state.expireId
      /\ state'.mount = state.mount /\ state'.look = state.look
      /\ state'.source = FALSE /\ state'.missed = state.missed
  BY <1>1 DEF Automount!VolumeState
<1>5. Fresh(state') /\ Attempt(state') /\ Ended(state') = Ended(state)
  BY <1>3, <1>4, Beside
<1>6. Counted(state') /\ Offered(state')
  BY <1>1, <1>4, <1>5 DEF Counted, Offered
<1> QED BY <1>2, <1>5, <1>6 DEF VolumeGood, Kept

LEMMA VolumeRemovedGood ==
  ASSUME VolumeGood(state), Automount!VolumeRemoved
  PROVE  VolumeGood(state')
<1> DEFINE u == [state EXCEPT !.volume = "removed"]
           w == [u EXCEPT !.expireId = FALSE]
<1>1. /\ state \in Automount!VolumeState /\ Counted(state) /\ Offered(state)
      /\ \/ u.enabled /\ u.expireId /\ state' = [w EXCEPT !.timers = u.timers - 1]
         \/ state' = u
  <2>1. state' = u \/ (u.enabled /\ u.expireId
                       /\ state' = [u EXCEPT !.expireId = FALSE, !.timers = u.timers - 1])
    BY DEF Automount!VolumeRemoved
  <2> QED BY <2>1 DEF VolumeGood, Kept
<1>2. u \in Automount!VolumeState
  BY <1>1, VolumeSetting
<1>3. /\ u.tries = state.tries /\ u.run = state.run /\ u.withOp = state.withOp
      /\ u.dialog = state.dialog /\ u.shown = state.shown /\ u.existing = state.existing
      /\ u.handler = state.handler /\ u.entry = state.entry /\ u.stranded = state.stranded
  BY <1>1 DEF Automount!VolumeState
<1>4. /\ u.timers = state.timers /\ u.expireId = state.expireId
      /\ u.mount = state.mount /\ u.look = state.look /\ u.source = state.source
      /\ u.missed = state.missed
  BY <1>1 DEF Automount!VolumeState
<1> HIDE DEF u
<1>5. VolumeGood(u)
  BY <1>1, <1>2, <1>3, <1>4, Beside DEF VolumeGood, Kept, Counted, Offered
<1>6. CASE u.expireId /\ state' = [w EXCEPT !.timers = u.timers - 1]
  <2>1. u.timers \in 0..(2 * VolumeTries) /\ u.timers > 0 /\ Offered(u) /\ Counted(u)
    BY <1>2, <1>5, <1>6, VolumeFields DEF VolumeGood, Kept, Counted
  <2>2. u.timers - 1 \in 0..(2 * VolumeTries) /\ u.timers - 1 <= u.timers
    BY <2>1, AgentsAssumption
  <2>3. w \in Automount!VolumeState
    BY <1>2, VolumeSwitching
  <2>4. state' \in Automount!VolumeState
    <3> HIDE DEF w
    <3> QED BY <1>6, <2>2, <2>3, VolumeSetting
  <2>5. /\ state'.tries = u.tries /\ state'.run = u.run /\ state'.withOp = u.withOp
        /\ state'.dialog = u.dialog /\ state'.shown = u.shown
        /\ state'.existing = u.existing /\ state'.handler = u.handler
    BY <1>2, <1>6 DEF Automount!VolumeState
  <2>6. /\ state'.entry = u.entry /\ state'.stranded = u.stranded
        /\ state'.timers = u.timers - 1 /\ state'.expireId = FALSE
        /\ state'.mount = u.mount /\ state'.look = u.look /\ state'.source = u.source
        /\ state'.missed = u.missed
    BY <1>2, <1>6 DEF Automount!VolumeState
  <2>7. Fresh(state') /\ Attempt(state') /\ Ended(state') = Ended(u)
    BY <1>5, <2>5, <2>6, Beside
  <2>8. Counted(state')
    BY <2>1, <2>6, <2>7, EndedCounts, AgentsAssumption DEF Counted
  <2>9. Offered(state')
    BY <2>1, <2>6 DEF Offered
  <2> QED BY <2>4, <2>7, <2>8, <2>9 DEF VolumeGood, Kept
<1> QED BY <1>1, <1>5, <1>6

LEMMA ExpireGood ==
  ASSUME VolumeGood(state), Automount!Expire
  PROVE  VolumeGood(state')
<1> DEFINE p == [state EXCEPT !.timers = state.timers - 1]
           q == [p EXCEPT !.allow = FALSE]
<1>1. /\ state \in Automount!VolumeState /\ Counted(state) /\ Offered(state)
      /\ state.timers > 0 /\ state' = [q EXCEPT !.expireId = FALSE]
  BY DEF VolumeGood, Kept, Automount!Expire
<1>2. state.timers \in 0..(2 * VolumeTries) /\ state.timers - 1 \in 0..(2 * VolumeTries)
  BY <1>1, VolumeFields, AgentsAssumption
<1>3. /\ state'.tries = state.tries /\ state'.run = state.run
      /\ state'.withOp = state.withOp /\ state'.dialog = state.dialog
      /\ state'.shown = state.shown /\ state'.existing = state.existing
      /\ state'.handler = state.handler
  BY <1>1 DEF Automount!VolumeState
<1>4. /\ state'.entry = state.entry /\ state'.stranded = state.stranded
      /\ state'.timers = state.timers - 1 /\ state'.expireId = FALSE
      /\ state'.mount = state.mount /\ state'.look = state.look
      /\ state'.source = state.source /\ state'.missed = state.missed
  BY <1>1 DEF Automount!VolumeState
<1>5. p \in Automount!VolumeState
  BY <1>1, <1>2, VolumeSetting
<1> HIDE DEF p
<1>6. q \in Automount!VolumeState
  BY <1>5, VolumeSwitching
<1> HIDE DEF q
<1>7. state' \in Automount!VolumeState
  BY <1>1, <1>6, VolumeSwitching
<1>8. Fresh(state') /\ Attempt(state') /\ Ended(state') = Ended(state)
  BY <1>3, <1>4, Beside
<1>9. Counted(state')
  BY <1>1, <1>2, <1>4, <1>8, EndedCounts, AgentsAssumption DEF Counted
<1>10. Offered(state')
  BY <1>1, <1>4 DEF Offered
<1> QED BY <1>7, <1>8, <1>9, <1>10 DEF VolumeGood, Kept
-----------------------------------------------------------------------------
\* Every behaviour of the volume has the invariant, which gives what AgentsAnswer says of it.
LEMMA VolumeInitGood == Automount!VolumeInit => VolumeGood(state)
<1> SUFFICES ASSUME Automount!VolumeInit PROVE VolumeGood(state)
  OBVIOUS
<1>1. 0 \in 0..VolumeTries /\ 0 \in 0..(2 * VolumeTries) /\ -1 \in -1..VolumeTries
  BY AgentsAssumption
<1>2. state \in Automount!VolumeState
  BY <1>1 DEF Automount!VolumeInit, Automount!VolumeState, Automount!NoEntry
<1>3. /\ state.tries = 0 /\ state.timers = 0 /\ state.expireId = FALSE
      /\ state.source = FALSE /\ state.look = "waiting" /\ state.mount = "none"
      /\ \A a \in Tries : /\ state.run[a] = "none" /\ state.shown[a] = 0
                          /\ state.dialog[a] = "none"
  BY DEF Automount!VolumeInit, Automount!Tries, Tries
<1>4. Counted(state)
  BY <1>3, EndedCounts, AgentsAssumption DEF Counted
<1>5. Fresh(state) /\ Offered(state) /\ Attempt(state)
  BY <1>3 DEF Fresh, Offered, Attempt, Alone, Opened
<1> QED BY <1>2, <1>4, <1>5 DEF VolumeGood, Kept

LEMMA VolumeStep ==
  ASSUME VolumeGood(state), Automount!VolumeNext
  PROVE  VolumeGood(state')
BY VolumeAddedGood, VolumeSwitchedGood, StartupMountAllGood, MountAddedGood, AddMountGood,
   MountRemovedGood, TakeOfferGood, VolumeRemovedGood, ExpireGood, AskPasswordGood,
   AbortedGood, VolumeFadedGood, MountDoneGood, VolumeMountedGood, VolumePressGood
   DEF Automount!VolumeNext, Automount!Tries, Tries

LEMMA VolumeAnswers ==
  ASSUME VolumeGood(state)
  PROVE  /\ Automount!VolumeTypeOK /\ Automount!DialogHasAttempt
         /\ Automount!AskingIsAnswerable /\ Automount!OfferIsMounted
<1>1. state \in Automount!VolumeState /\ Attempt(state) /\ Fresh(state) /\ Offered(state)
  BY DEF VolumeGood, Kept
<1>2. state.tries \in 0..VolumeTries /\ state.shown \in [Tries -> 0..VolumeTries]
  BY <1>1, VolumeFields
<1>3. state.tries # 0 => state.tries \in 1..state.tries /\ state.tries \in Tries
  BY <1>2 DEF Tries
<1>4. Automount!DialogHasAttempt
  <2> SUFFICES ASSUME ~state.stranded, NEW d \in Tries, state.dialog[d] = "open"
               PROVE  \E a \in Automount!Busy(state) :
                        state.handler[d] = a \/ state.existing[a] = d
    BY DEF Automount!DialogHasAttempt, Automount!Tries, Tries
  <2>1. /\ state.tries # 0 /\ state.run[state.tries] # "done"
        /\ state.handler[d] = state.tries \/ state.existing[state.tries] = d
    BY <1>1 DEF Attempt, Opened
  <2>2. state.tries \in Automount!Busy(state)
    BY <1>3, <2>1 DEF Automount!Busy
  <2> QED BY <2>1, <2>2
<1>5. Automount!AskingIsAnswerable
  <2> SUFFICES ASSUME ~state.stranded, NEW a \in Tries, state.run[a] = "asking"
               PROVE  /\ state.shown[a] # 0 /\ state.handler[state.shown[a]] = a
                      /\ state.dialog[state.shown[a]] \in {"open", "refused"}
                      /\ \A d \in Tries : state.dialog[d] = "open" => d = state.shown[a]
    BY DEF Automount!AskingIsAnswerable, Automount!Tries, Tries
  <2>1. a = state.tries /\ state.tries # 0
    BY <1>1 DEF Attempt, Alone, Tries
  <2>2. Asked(state) /\ Opened(state)
    BY <1>1, <2>1 DEF Attempt
  <2> QED BY <2>1, <2>2 DEF Asked, Opened
<1> QED BY <1>1, <1>4, <1>5 DEF Offered, Automount!VolumeTypeOK, Automount!OfferIsMounted
-----------------------------------------------------------------------------
(* The handler of other applications' mount operations. *)

Calls == 1..MountAsks

\* The calls made so far: one is current, the others are answered.
Lined(u) ==
  /\ u.current <= u.asked /\ u.dialog <= u.asked
  /\ \A n \in Calls : u.by[n] <= u.asked /\ (u.by[n] # 0 => n <= u.asked)
  /\ \A n \in Calls : n > u.asked => u.state[n] = "none" /\ u.answer[n] = "none"
  /\ \A n \in Calls : n <= u.asked => (u.answer[n] = "none" <=> n = u.current)
\* The dialog on screen is the handler's, and of the current call's operation and kind.
OnScreen(u) ==
  /\ \A e \in Calls : u.state[e] = "open" => e = u.dialog
  /\ u.dialog # 0 => u.state[u.dialog] \in {"open", "refused"}
Current(u) ==
  u.current # 0 => /\ u.dialog # 0 /\ u.id[u.dialog] = u.id[u.current]
                   /\ u.type[u.dialog] = u.type[u.current]
Fits(u) == \A n \in Calls : u.by[n] # 0 =>
  u.id[u.by[n]] = u.id[n] /\ u.type[u.by[n]] = u.type[n]
HandlerGood(u) ==
  u \in MountHandler!HandlerState /\ Lined(u) /\ OnScreen(u) /\ Current(u) /\ Fits(u)

\* The types of the fields, and of what the operations set them to.
LEMMA HandlerFields ==
  ASSUME NEW u \in MountHandler!HandlerState
  PROVE  /\ u.asked \in 0..MountAsks /\ u.current \in 0..MountAsks /\ u.dialog \in 0..MountAsks
         /\ u.id \in [Calls -> MountIds \cup {MountHandler!NoId}]
         /\ u.type \in [Calls -> MountHandler!Types \cup {"NONE"}]
         /\ u.state \in [Calls -> {"none", "open", "refused", "closing", "gone"}]
         /\ u.answer \in [Calls -> {"none", "HANDLED", "ABORTED", "UNHANDLED"}]
         /\ u.by \in [Calls -> 0..MountAsks]
BY DEF MountHandler!HandlerState, MountHandler!Asks, Calls

LEMMA HandlerSetting ==
  ASSUME NEW u \in MountHandler!HandlerState
  PROVE  \A x \in 0..MountAsks : /\ [u EXCEPT !.asked = x] \in MountHandler!HandlerState
                                 /\ [u EXCEPT !.current = x] \in MountHandler!HandlerState
                                 /\ [u EXCEPT !.dialog = x] \in MountHandler!HandlerState
<1>1. ASSUME NEW x \in 0..MountAsks PROVE [u EXCEPT !.asked = x] \in MountHandler!HandlerState
  BY DEF MountHandler!HandlerState
<1>2. ASSUME NEW x \in 0..MountAsks PROVE [u EXCEPT !.current = x] \in MountHandler!HandlerState
  BY DEF MountHandler!HandlerState
<1>3. ASSUME NEW x \in 0..MountAsks PROVE [u EXCEPT !.dialog = x] \in MountHandler!HandlerState
  BY DEF MountHandler!HandlerState
<1> QED BY <1>1, <1>2, <1>3

LEMMA HandlerMarking ==
  ASSUME NEW u \in MountHandler!HandlerState, NEW n \in Calls
  PROVE  /\ \A x \in MountIds : [u EXCEPT !.id[n] = x] \in MountHandler!HandlerState
         /\ \A x \in MountHandler!Types : [u EXCEPT !.type[n] = x] \in MountHandler!HandlerState
         /\ \A x \in {"none", "open", "refused", "closing", "gone"} :
              [u EXCEPT !.state[n] = x] \in MountHandler!HandlerState
         /\ \A x \in {"none", "HANDLED", "ABORTED", "UNHANDLED"} :
              [u EXCEPT !.answer[n] = x] \in MountHandler!HandlerState
         /\ \A x \in 0..MountAsks : [u EXCEPT !.by[n] = x] \in MountHandler!HandlerState
<1>1. ASSUME NEW x \in MountIds PROVE [u EXCEPT !.id[n] = x] \in MountHandler!HandlerState
  BY DEF MountHandler!HandlerState, MountHandler!Asks, Calls
<1>2. ASSUME NEW x \in MountHandler!Types PROVE [u EXCEPT !.type[n] = x] \in MountHandler!HandlerState
  BY DEF MountHandler!HandlerState, MountHandler!Asks, Calls
<1>3. ASSUME NEW x \in {"none", "open", "refused", "closing", "gone"}
      PROVE [u EXCEPT !.state[n] = x] \in MountHandler!HandlerState
  BY DEF MountHandler!HandlerState, MountHandler!Asks, Calls
<1>4. ASSUME NEW x \in {"none", "HANDLED", "ABORTED", "UNHANDLED"}
      PROVE [u EXCEPT !.answer[n] = x] \in MountHandler!HandlerState
  BY DEF MountHandler!HandlerState, MountHandler!Asks, Calls
<1>5. ASSUME NEW x \in 0..MountAsks PROVE [u EXCEPT !.by[n] = x] \in MountHandler!HandlerState
  BY DEF MountHandler!HandlerState, MountHandler!Asks, Calls
<1> QED BY <1>1, <1>2, <1>3, <1>4, <1>5

\* What the operations that the actions share leave of the invariant.
LEMMA AfterClear ==
  ASSUME NEW u, HandlerGood(u), NEW a \in {"HANDLED", "ABORTED", "UNHANDLED"},
         NEW d \in 0..MountAsks, d # 0 => d = u.dialog
  PROVE  LET v == MountHandler!ClearCurrentRequest(u, a, d)
         IN /\ HandlerGood(v) /\ v.current = 0 /\ v.asked = u.asked /\ v.dialog = u.dialog
            /\ v.id = u.id /\ v.type = u.type /\ v.state = u.state
<1> DEFINE v == MountHandler!ClearCurrentRequest(u, a, d)
<1>1. CASE u.current = 0
  BY <1>1 DEF MountHandler!ClearCurrentRequest
<1>2. CASE u.current # 0
  <2> DEFINE x == [u EXCEPT !.answer[u.current] = a]
             y == [x EXCEPT !.by[u.current] = d]
  <2>1. u \in MountHandler!HandlerState
    BY DEF HandlerGood
  <2>2. u.current \in Calls
    <3>1. u.current \in 0..MountAsks
      BY <2>1, HandlerFields
    <3> QED BY <1>2, <3>1 DEF Calls
  <2>3. v = [y EXCEPT !.current = 0]
    <3>1. x.current = u.current
      BY <2>1 DEF MountHandler!HandlerState
    <3> QED BY <1>2, <3>1 DEF MountHandler!ClearCurrentRequest
  <2>4. x \in MountHandler!HandlerState
    BY <2>1, <2>2, HandlerMarking
  <2>5. /\ x.asked = u.asked /\ x.dialog = u.dialog /\ x.id = u.id /\ x.type = u.type
        /\ x.state = u.state /\ x.answer = [u.answer EXCEPT ![u.current] = a] /\ x.by = u.by
    BY <2>1 DEF MountHandler!HandlerState
  <2> HIDE DEF x
  <2>6. y \in MountHandler!HandlerState
    BY <2>2, <2>4, HandlerMarking
  <2>7. /\ y.asked = x.asked /\ y.dialog = x.dialog /\ y.id = x.id /\ y.type = x.type
        /\ y.state = x.state /\ y.answer = x.answer /\ y.by = [x.by EXCEPT ![u.current] = d]
    BY <2>4 DEF MountHandler!HandlerState
  <2> HIDE DEF y, v
  <2>8. 0 \in 0..MountAsks
    BY AgentsAssumption
  <2>9. v \in MountHandler!HandlerState
    BY <2>3, <2>6, <2>8, HandlerSetting
  <2>10. /\ v.asked = y.asked /\ v.dialog = y.dialog /\ v.id = y.id /\ v.type = y.type
         /\ v.state = y.state /\ v.answer = y.answer /\ v.by = y.by /\ v.current = 0
    BY <2>3, <2>6 DEF MountHandler!HandlerState
  <2>11. /\ u.answer \in [Calls -> {"none", "HANDLED", "ABORTED", "UNHANDLED"}]
         /\ u.by \in [Calls -> 0..MountAsks] /\ u.asked \in 0..MountAsks
         /\ u.dialog \in 0..MountAsks
    BY <2>1, HandlerFields
  <2>12. Lined(v)
    <3>1. Lined(u)
      BY DEF HandlerGood
    <3>2. \A n \in Calls :
            /\ v.answer[n] = (IF n = u.current THEN a ELSE u.answer[n])
            /\ v.by[n] = (IF n = u.current THEN d ELSE u.by[n])
            /\ v.state[n] = u.state[n]
      <4>1. v.answer = [u.answer EXCEPT ![u.current] = a] /\ v.state = u.state
        BY <2>5, <2>7, <2>10
      <4>2. v.by = [u.by EXCEPT ![u.current] = d]
        BY <2>5, <2>7, <2>10
      <4>3. \A n \in Calls : v.answer[n] = IF n = u.current THEN a ELSE u.answer[n]
        BY <2>2, <2>11, <4>1
      <4>4. \A n \in Calls : v.by[n] = IF n = u.current THEN d ELSE u.by[n]
        BY <2>2, <2>11, <4>2
      <4> QED BY <4>1, <4>3, <4>4
    <3>3. v.current = 0 /\ v.asked = u.asked /\ v.dialog = u.dialog
      BY <2>5, <2>7, <2>10
    <3>4. \A n \in Calls : n # 0 /\ n \in Nat
      BY DEF Calls
    <3>5. d <= u.asked /\ u.current <= u.asked /\ 0 <= u.asked
      BY <2>11, <3>1 DEF Lined
    <3>6. \A n \in Calls : v.by[n] <= v.asked /\ (v.by[n] # 0 => n <= v.asked)
      BY <3>1, <3>2, <3>3, <3>5 DEF Lined
    <3>7. \A n \in Calls : n > v.asked => n # u.current
      BY <2>2, <2>11, <3>3, <3>5 DEF Calls
    <3>8. \A n \in Calls : n > v.asked => v.state[n] = "none" /\ v.answer[n] = "none"
      BY <3>1, <3>2, <3>3, <3>7 DEF Lined
    <3>9. \A n \in Calls : n <= v.asked => (v.answer[n] = "none" <=> n = v.current)
      BY <3>1, <3>2, <3>3, <3>4 DEF Lined
    <3> QED BY <3>1, <3>3, <3>5, <3>6, <3>8, <3>9 DEF Lined
  <2>13. OnScreen(v) /\ Current(v)
    BY <2>5, <2>7, <2>10 DEF HandlerGood, OnScreen, Current
  <2>14. Fits(v)
    BY <1>2, <2>2, <2>5, <2>7, <2>10, <2>11 DEF HandlerGood, Fits, Current
  <2> QED BY <2>5, <2>7, <2>9, <2>10, <2>12, <2>13, <2>14 DEF v, HandlerGood
<1> QED BY <1>1, <1>2

LEMMA AfterCloseDialog ==
  ASSUME NEW u \in MountHandler!HandlerState, OnScreen(u)
  PROVE  LET v == MountHandler!CloseRequestDialog(u)
         IN /\ v \in MountHandler!HandlerState /\ v.dialog = 0 /\ OnScreen(v)
            /\ v.asked = u.asked /\ v.current = u.current /\ v.id = u.id /\ v.type = u.type
            /\ v.answer = u.answer /\ v.by = u.by
            /\ \A n \in Calls : v.state[n] = "none" <=> u.state[n] = "none"
<1> DEFINE v == MountHandler!CloseRequestDialog(u)
<1>1. CASE u.dialog = 0
  BY <1>1 DEF MountHandler!CloseRequestDialog
<1>2. CASE u.dialog # 0
  <2> DEFINE k == u.dialog
             x == [u EXCEPT !.state[k] = IF u.state[k] = "open" THEN "closing" ELSE u.state[k]]
  <2>1. u.state \in [Calls -> {"none", "open", "refused", "closing", "gone"}] /\ k \in Calls
    <3>1. k \in 0..MountAsks
      BY HandlerFields
    <3> QED BY <1>2, <3>1, HandlerFields DEF Calls
  <2>2. v = [x EXCEPT !.dialog = 0]
    BY <1>2 DEF MountHandler!CloseRequestDialog
  <2>3. x \in MountHandler!HandlerState
    <3>1. u.state[k] \in {"none", "open", "refused", "closing", "gone"}
      BY <2>1
    <3> QED BY <2>1, <3>1, HandlerMarking
  <2>4. /\ x.asked = u.asked /\ x.current = u.current /\ x.id = u.id /\ x.type = u.type
        /\ x.answer = u.answer /\ x.by = u.by
        /\ x.state = [u.state EXCEPT ![k] = IF @ = "open" THEN "closing" ELSE @]
    BY DEF MountHandler!HandlerState
  <2> HIDE DEF x, v
  <2>5. 0 \in 0..MountAsks
    BY AgentsAssumption
  <2>6. v \in MountHandler!HandlerState
    BY <2>2, <2>3, <2>5, HandlerSetting
  <2>7. /\ v.asked = x.asked /\ v.current = x.current /\ v.id = x.id /\ v.type = x.type
        /\ v.answer = x.answer /\ v.by = x.by /\ v.state = x.state /\ v.dialog = 0
    BY <2>2, <2>3 DEF MountHandler!HandlerState
  <2>8. OnScreen(v) /\ \A n \in Calls : v.state[n] = "none" <=> u.state[n] = "none"
    BY <2>1, <2>4, <2>7 DEF OnScreen
  <2> QED BY <2>4, <2>6, <2>7, <2>8 DEF v
<1> QED BY <1>1, <1>2

\* A call takes the dialog over from the one before it, or gets its own.
LEMMA AskGood ==
  ASSUME HandlerGood(state), NEW i \in MountIds, NEW t \in MountHandler!Types,
         MountHandler!Ask(i, t)
  PROVE  HandlerGood(state')
<1> DEFINE c == MountHandler!ClearCurrentRequest(state, "UNHANDLED", 0)
           n == state.asked + 1
           p == [c EXCEPT !.asked = n]
           q == [p EXCEPT !.current = n]
           r == [q EXCEPT !.id[n] = i]
           u == [r EXCEPT !.type[n] = t]
<1>1. IF MountHandler!SameRequest(state, i, t) THEN state' = u
      ELSE \E s \in {"open", "refused"} :
             state' = [[MountHandler!CloseRequestDialog(u) EXCEPT !.dialog = n]
                         EXCEPT !.state[n] = s]
  BY DEF MountHandler!Ask
<1>2. /\ HandlerGood(c) /\ c.current = 0 /\ c.asked = state.asked /\ c.dialog = state.dialog
      /\ c.id = state.id /\ c.type = state.type /\ c.state = state.state
  BY AfterClear, AgentsAssumption
<1> HIDE DEF c
<1>3. c \in MountHandler!HandlerState /\ state \in MountHandler!HandlerState
  BY <1>2 DEF HandlerGood
<1>4. n \in Calls /\ n \in 0..MountAsks /\ n \in Nat /\ state.asked \in Nat
  <2>1. state.asked \in 0..MountAsks /\ state.asked < MountAsks
    BY <1>3, HandlerFields DEF MountHandler!Ask
  <2> QED BY <2>1, AgentsAssumption DEF Calls
<1>5. \A m \in Calls : m <= n <=> m <= state.asked \/ m = n
  BY <1>4 DEF Calls
<1>6. n > state.asked /\ \A m \in 0..MountAsks : m <= state.asked => m # n /\ m <= n
  BY <1>4
<1> HIDE DEF n
<1>7. p \in MountHandler!HandlerState
  BY <1>3, <1>4, HandlerSetting
<1>8. q \in MountHandler!HandlerState
  BY <1>4, <1>7, HandlerSetting
<1>9. /\ q.asked = n /\ q.current = n /\ q.dialog = c.dialog /\ q.id = c.id
      /\ q.type = c.type /\ q.state = c.state /\ q.answer = c.answer /\ q.by = c.by
  BY <1>3 DEF MountHandler!HandlerState
<1> HIDE DEF p, q
<1>10. r \in MountHandler!HandlerState
  BY <1>4, <1>8, HandlerMarking
<1>11. u \in MountHandler!HandlerState
  BY <1>4, <1>10, HandlerMarking
<1>12. /\ u.asked = q.asked /\ u.current = q.current /\ u.dialog = q.dialog
       /\ u.id = [q.id EXCEPT ![n] = i] /\ u.type = [q.type EXCEPT ![n] = t]
       /\ u.state = q.state /\ u.answer = q.answer /\ u.by = q.by
  BY <1>8 DEF MountHandler!HandlerState
<1> HIDE DEF r, u
<1>13. /\ c.id \in [Calls -> MountIds \cup {MountHandler!NoId}]
       /\ c.type \in [Calls -> MountHandler!Types \cup {"NONE"}]
       /\ c.answer \in [Calls -> {"none", "HANDLED", "ABORTED", "UNHANDLED"}]
       /\ c.by \in [Calls -> 0..MountAsks] /\ c.dialog \in 0..MountAsks
       /\ c.state \in [Calls -> {"none", "open", "refused", "closing", "gone"}]
  BY <1>3, HandlerFields
<1>14. u.asked = n /\ u.current = n /\ \A m \in Calls :
         /\ u.id[m] = IF m = n THEN i ELSE c.id[m]
         /\ u.type[m] = IF m = n THEN t ELSE c.type[m]
         /\ u.state[m] = c.state[m] /\ u.answer[m] = c.answer[m] /\ u.by[m] = c.by[m]
  BY <1>9, <1>12, <1>13
<1>15. Lined(c) /\ OnScreen(c) /\ Fits(c)
  BY <1>2 DEF HandlerGood
<1>16. /\ c.by[n] = 0 /\ c.answer[n] = "none" /\ c.state[n] = "none" /\ c.dialog # n
       /\ \A m \in Calls : c.by[m] <= state.asked
       /\ c.dialog <= state.asked
  BY <1>2, <1>4, <1>6, <1>13, <1>15 DEF Lined
<1>17. /\ \A m \in Calls : u.by[m] <= u.asked /\ (u.by[m] # 0 => m <= u.asked)
       /\ \A m \in Calls : m > u.asked => u.state[m] = "none" /\ u.answer[m] = "none"
       /\ \A m \in Calls : m <= u.asked => (u.answer[m] = "none" <=> m = u.current)
  <2>1. \A m \in Calls : c.by[m] <= n /\ (c.by[m] # 0 => m <= n)
    BY <1>2, <1>5, <1>6, <1>13, <1>15, <1>16 DEF Lined
  <2>2. \A m \in Calls : m > n => c.state[m] = "none" /\ c.answer[m] = "none"
    BY <1>2, <1>4, <1>15 DEF Lined, Calls, n
  <2>3. \A m \in Calls : m <= n => (c.answer[m] = "none" <=> m = n)
    <3>1. \A m \in Calls : m # 0
      BY DEF Calls
    <3> QED BY <1>2, <1>5, <1>15, <1>16, <3>1 DEF Lined
  <2> QED BY <1>14, <2>1, <2>2, <2>3
<1>18. Fits(u)
  <2>1. \A m \in Calls : u.by[m] # 0 => u.by[m] # n /\ m # n /\ u.by[m] \in Calls
    <3>1. \A m \in Calls : c.by[m] \in 0..MountAsks /\ c.by[m] # n
      BY <1>6, <1>13, <1>16
    <3>2. \A m \in Calls : c.by[m] # 0 => m # n /\ c.by[m] \in Calls
      BY <1>16, <3>1 DEF Calls
    <3> QED BY <1>14, <3>1, <3>2
  <2> QED BY <1>14, <1>15, <2>1 DEF Fits
<1>19. CASE MountHandler!SameRequest(state, i, t)
  <2>1. state' = u
    BY <1>1, <1>19
  <2>2. OnScreen(u) /\ u.dialog = c.dialog /\ u.dialog <= u.asked
    BY <1>4, <1>9, <1>12, <1>13, <1>14, <1>15, <1>16 DEF OnScreen, n
  <2>3. Current(u)
    <3>1. /\ state.dialog # 0 /\ state.current # 0
          /\ state.id[state.current] = i /\ state.type[state.current] = t
      BY <1>19 DEF MountHandler!SameRequest
    <3>2. state.id[state.dialog] = i /\ state.type[state.dialog] = t
      BY <3>1 DEF HandlerGood, Current
    <3>3. c.dialog \in Calls /\ c.dialog # n
      BY <1>2, <1>13, <1>16, <3>1 DEF Calls
    <3> QED BY <1>2, <1>4, <1>14, <2>2, <3>1, <3>2, <3>3 DEF Current
  <2> QED BY <1>4, <1>11, <1>14, <1>17, <1>18, <2>1, <2>2, <2>3 DEF HandlerGood, Lined
<1>20. CASE ~MountHandler!SameRequest(state, i, t)
  <2> DEFINE w == MountHandler!CloseRequestDialog(u)
             x == [w EXCEPT !.dialog = n]
  <2> PICK s \in {"open", "refused"} : state' = [x EXCEPT !.state[n] = s]
    BY <1>1, <1>20
  <2>1. OnScreen(u)
    BY <1>9, <1>12, <1>15 DEF OnScreen
  <2>2. /\ w \in MountHandler!HandlerState /\ w.dialog = 0 /\ OnScreen(w)
        /\ w.asked = u.asked /\ w.current = u.current /\ w.id = u.id /\ w.type = u.type
        /\ w.answer = u.answer /\ w.by = u.by
        /\ \A m \in Calls : w.state[m] = "none" <=> u.state[m] = "none"
    BY <1>11, <2>1, AfterCloseDialog
  <2> HIDE DEF w
  <2>3. x \in MountHandler!HandlerState
    BY <1>4, <2>2, HandlerSetting
  <2>4. state' \in MountHandler!HandlerState
    BY <1>4, <2>3, HandlerMarking
  <2>5. /\ state'.asked = w.asked /\ state'.current = w.current /\ state'.dialog = n
        /\ state'.id = w.id /\ state'.type = w.type /\ state'.answer = w.answer
        /\ state'.by = w.by /\ state'.state = [w.state EXCEPT ![n] = s]
    BY <2>2 DEF MountHandler!HandlerState
  <2>6. w.state \in [Calls -> {"none", "open", "refused", "closing", "gone"}]
    BY <2>2, HandlerFields
  <2>7. OnScreen(state')
    <3>1. \A e \in Calls : w.state[e] # "open"
      <4>1. \A e \in Calls : e # 0
        BY DEF Calls
      <4> QED BY <2>2, <4>1 DEF OnScreen
    <3> QED BY <1>4, <2>5, <2>6, <3>1 DEF OnScreen
  <2>8. Current(state')
    BY <1>14, <2>2, <2>5 DEF Current
  <2>9. Fits(state')
    BY <1>18, <2>2, <2>5 DEF Fits
  <2>10. Lined(state')
    <3>1. \A m \in Calls : m > u.asked => m # n
      BY <1>4, <1>14 DEF Calls
    <3>2. \A m \in Calls : m > u.asked => state'.state[m] = "none"
      BY <1>17, <2>2, <2>5, <2>6, <3>1
    <3>3. n <= n
      BY <1>4
    <3> QED BY <1>14, <1>17, <2>2, <2>5, <3>2, <3>3 DEF Lined
  <2> QED BY <2>4, <2>7, <2>8, <2>9, <2>10 DEF HandlerGood
<1> QED BY <1>19, <1>20

LEMMA AnswerGood ==
  ASSUME HandlerGood(state), NEW d \in Calls, NEW a \in {"HANDLED", "ABORTED"},
         MountHandler!Respond(d, a)
  PROVE  HandlerGood(state')
<1>1. d = state.dialog /\ d \in 0..MountAsks
  BY AgentsAssumption DEF MountHandler!Respond, HandlerGood, OnScreen, Calls
<1>2. state' = MountHandler!ClearCurrentRequest(state, a, d)
  BY DEF MountHandler!Respond
<1> QED BY <1>1, <1>2, AfterClear

LEMMA CloseGood ==
  ASSUME HandlerGood(state), MountHandler!Close
  PROVE  HandlerGood(state')
<1> DEFINE c == MountHandler!ClearCurrentRequest(state, "UNHANDLED", 0)
<1>1. HandlerGood(c) /\ c.current = 0
  BY AfterClear, AgentsAssumption
<1>2. state' = MountHandler!CloseRequestDialog(c)
  BY DEF MountHandler!Close
<1> HIDE DEF c
<1>3. /\ state' \in MountHandler!HandlerState /\ state'.dialog = 0 /\ OnScreen(state')
      /\ state'.asked = c.asked /\ state'.current = c.current /\ state'.id = c.id
      /\ state'.type = c.type /\ state'.answer = c.answer /\ state'.by = c.by
      /\ \A n \in Calls : state'.state[n] = "none" <=> c.state[n] = "none"
  BY <1>1, <1>2, AfterCloseDialog DEF HandlerGood
<1>4. 0 <= c.asked
  BY <1>1, HandlerFields DEF HandlerGood
<1> QED BY <1>1, <1>3, <1>4 DEF HandlerGood, Lined, Current, Fits

LEMMA FadedGood ==
  ASSUME HandlerGood(state), NEW d \in Calls, MountHandler!RequestFaded(d)
  PROVE  HandlerGood(state')
<1>1. /\ state.state[d] = "closing" /\ state' = [state EXCEPT !.state[d] = "gone"]
      /\ state \in MountHandler!HandlerState
  BY DEF MountHandler!RequestFaded, HandlerGood
<1>2. state' \in MountHandler!HandlerState
  BY <1>1, HandlerMarking
<1>3. /\ state'.asked = state.asked /\ state'.current = state.current
      /\ state'.dialog = state.dialog /\ state'.id = state.id /\ state'.type = state.type
      /\ state'.answer = state.answer /\ state'.by = state.by
      /\ state'.state = [state.state EXCEPT ![d] = "gone"]
  BY <1>1 DEF MountHandler!HandlerState
<1>4. /\ state.state \in [Calls -> {"none", "open", "refused", "closing", "gone"}]
      /\ state.dialog \in 0..MountAsks
  BY <1>1, HandlerFields
<1> QED BY <1>1, <1>2, <1>3, <1>4 DEF HandlerGood, Lined, OnScreen, Current, Fits, Calls

\* Every behaviour of the handler has the invariant, which gives what AgentsAnswer says of it.
LEMMA HandlerInitGood == MountHandler!HandlerInit => HandlerGood(state)
<1> SUFFICES ASSUME MountHandler!HandlerInit PROVE HandlerGood(state)
  OBVIOUS
<1>1. 0 \in 0..MountAsks
  BY AgentsAssumption
<1>2. state \in MountHandler!HandlerState
  BY <1>1 DEF MountHandler!HandlerInit, MountHandler!HandlerState
<1>3. /\ state.asked = 0 /\ state.current = 0 /\ state.dialog = 0
      /\ \A n \in Calls : /\ state.by[n] = 0 /\ state.state[n] = "none"
                          /\ state.answer[n] = "none"
  BY DEF MountHandler!HandlerInit, MountHandler!Asks, Calls
<1>4. \A n \in Calls : ~(n <= 0)
  BY DEF Calls
<1> QED BY <1>2, <1>3, <1>4 DEF HandlerGood, Lined, OnScreen, Current, Fits

LEMMA HandlerStep ==
  ASSUME HandlerGood(state), MountHandler!HandlerNext
  PROVE  HandlerGood(state')
BY AskGood, AnswerGood, CloseGood, FadedGood
   DEF MountHandler!HandlerNext, MountHandler!Asks, Calls

LEMMA HandlerAnswers ==
  ASSUME HandlerGood(state)
  PROVE  /\ MountHandler!HandlerTypeOK /\ MountHandler!WaitingIsOnScreen
         /\ MountHandler!AnswerFitsQuestion
<1>1. /\ state \in MountHandler!HandlerState /\ Lined(state) /\ OnScreen(state)
      /\ Current(state) /\ Fits(state)
  BY DEF HandlerGood
<1>2. state.asked \in 0..MountAsks
  BY <1>1, HandlerFields
<1>3. \A n \in 1..state.asked : n \in Calls /\ n <= state.asked /\ n # 0
  BY <1>2, AgentsAssumption DEF Calls
<1>4. MountHandler!WaitingIsOnScreen
  BY <1>1, <1>3 DEF Lined, OnScreen, Current, MountHandler!WaitingIsOnScreen,
                    MountHandler!Asks, Calls
<1> QED BY <1>1, <1>4 DEF Fits, MountHandler!HandlerTypeOK,
                          MountHandler!AnswerFitsQuestion, MountHandler!Asks, Calls
-----------------------------------------------------------------------------
(* The sections of the network menu. *)

\* What a device's section and its items say of one another, and of what is active. Half is
\* what is left while the items or the active connection have just changed.
Marks(w) == w.marked = IF w.section = NetworkMenu!None THEN {} ELSE {w.section}
Half(w, a) ==
  /\ w.marked \subseteq w.items
  /\ ~w.failed => /\ Marks(w)
                  /\ w.section # NetworkMenu!None => w.marked = {a} \cap w.items
Whole(w, a) ==
  /\ w.marked \subseteq w.items
  /\ ~w.failed => Marks(w) /\ w.marked = {a} \cap w.items
Sections(u) == \A d \in u.devices :
  Whole(u.of[d], u.active[d]) /\ u.of[d].items \subseteq u.known
VpnSection(u) == /\ u.vpnMarked \subseteq u.vpnItems
                 /\ ~u.vpnStale => u.vpnMarked = u.vpnsUp \cap u.vpnItems
SectionsGood(u) == u \in NetworkMenu!SectionsState /\ Sections(u) /\ VpnSection(u)

LEMMA SectionFields ==
  ASSUME NEW u \in NetworkMenu!SectionsState
  PROVE  /\ u.devices \subseteq DeviceIds /\ u.known \subseteq ConnectionIds \cup VpnIds
         /\ u.valid \in [DeviceIds -> SUBSET ConnectionIds]
         /\ u.active \in [DeviceIds -> ConnectionIds \cup {NetworkMenu!None}]
         /\ u.vpnsUp \subseteq VpnIds /\ u.vpnItems \subseteq VpnIds
         /\ u.vpnMarked \subseteq VpnIds /\ u.vpnStale \in BOOLEAN
         /\ u.of \in [DeviceIds -> NetworkMenu!Wrapper]
BY DEF NetworkMenu!SectionsState

LEMMA WrapperFields ==
  ASSUME NEW w \in NetworkMenu!Wrapper
  PROVE  /\ w.items \subseteq ConnectionIds /\ w.section \in ConnectionIds \cup {NetworkMenu!None}
         /\ w.marked \subseteq ConnectionIds /\ w.failed \in BOOLEAN
         /\ w = [items |-> w.items, section |-> w.section, marked |-> w.marked,
                 failed |-> w.failed]
BY DEF NetworkMenu!Wrapper

\* The section of one device is set, and nothing else.
LEMMA WrapperSetting ==
  ASSUME NEW u \in NetworkMenu!SectionsState, NEW d \in DeviceIds, NEW w \in NetworkMenu!Wrapper
  PROVE  LET v == [u EXCEPT !.of[d] = w]
         IN /\ v \in NetworkMenu!SectionsState /\ v.of = [u.of EXCEPT ![d] = w]
            /\ v.of[d] = w /\ \A e \in DeviceIds : e # d => v.of[e] = u.of[e]
            /\ v.devices = u.devices /\ v.known = u.known /\ v.valid = u.valid
            /\ v.active = u.active /\ v.vpnsUp = u.vpnsUp /\ v.vpnItems = u.vpnItems
            /\ v.vpnMarked = u.vpnMarked /\ v.vpnStale = u.vpnStale
BY DEF NetworkMenu!SectionsState

\* _sync() makes half of it whole.
LEMMA SyncFits ==
  ASSUME NEW u \in NetworkMenu!SectionsState, NEW d \in DeviceIds,
         Half(u.of[d], u.active[d]), u.of[d].items \subseteq u.known
  PROVE  \E w \in NetworkMenu!Wrapper :
           /\ NetworkMenu!Sync(u, d) = [u EXCEPT !.of[d] = w]
           /\ w.items = u.of[d].items /\ Whole(w, u.active[d])
<1> DEFINE o == u.of[d]
           a == u.active[d]
<1>1. /\ o \in NetworkMenu!Wrapper /\ a \in ConnectionIds \cup {NetworkMenu!None}
      /\ NetworkMenu!None \notin ConnectionIds
  BY SectionFields, SectionsAssumption DEF NetworkMenu!None
<1>2. CASE o.section = NetworkMenu!None /\ a \in o.items /\ a \in u.known
  <2> DEFINE w == [o EXCEPT !.section = a, !.marked = @ \cup {a}]
  <2>1. NetworkMenu!Sync(u, d) = [u EXCEPT !.of[d] = w]
    <3>1. NetworkMenu!Sync(u, d)
          = [u EXCEPT !.of[d].section = a, !.of[d].marked = @ \cup {a}]
      BY <1>2 DEF NetworkMenu!Sync
    <3> QED BY <3>1, <1>1, SectionFields DEF NetworkMenu!SectionsState, NetworkMenu!Wrapper
  <2>2. w \in NetworkMenu!Wrapper /\ w.items = o.items /\ w.section = a
        /\ w.marked = o.marked \cup {a} /\ w.failed = o.failed
    BY <1>1, <1>2, WrapperFields DEF NetworkMenu!Wrapper
  <2>3. Whole(w, a)
    BY <1>1, <1>2, <2>2, WrapperFields DEF Whole, Half, Marks
  <2> QED BY <2>1, <2>2, <2>3
<1>3. CASE ~(o.section = NetworkMenu!None /\ a \in o.items /\ a \in u.known)
  <2>1. NetworkMenu!Sync(u, d) = u
    BY <1>3 DEF NetworkMenu!Sync
  <2>2. u = [u EXCEPT !.of[d] = o]
    BY SectionFields DEF NetworkMenu!SectionsState
  <2>3. Whole(o, a)
    BY <1>1, <1>3, WrapperFields DEF Whole, Half, Marks
  <2> QED BY <1>1, <2>1, <2>2, <2>3
<1> QED BY <1>2, <1>3

\* checkConnection() of a connection that there is.
LEMMA CheckFits ==
  ASSUME NEW u \in NetworkMenu!SectionsState, NEW d \in DeviceIds, NEW c \in u.known,
         Whole(u.of[d], u.active[d]), u.of[d].items \subseteq u.known
  PROVE  LET v == NetworkMenu!Check(u, d, c)
         IN /\ v.of[d] \in NetworkMenu!Wrapper /\ v.of[d].items \subseteq u.known
            /\ Whole(v.of[d], u.active[d])
<1> DEFINE o == u.of[d]
           x == [o EXCEPT !.items = @ \cup {c}]
           s == [u EXCEPT !.of[d] = x]
<1>1. /\ o \in NetworkMenu!Wrapper /\ u.valid[d] \subseteq ConnectionIds
      /\ NetworkMenu!None \notin ConnectionIds
  BY SectionFields, SectionsAssumption DEF NetworkMenu!None
<1>2. CASE c \in u.valid[d] /\ c \notin o.items
  <2>1. NetworkMenu!Check(u, d, c) = NetworkMenu!Sync(s, d)
    <3>1. [u EXCEPT !.of[d].items = @ \cup {c}] = s
      BY <1>1, SectionFields DEF NetworkMenu!SectionsState, NetworkMenu!Wrapper
    <3> QED BY <3>1, <1>2 DEF NetworkMenu!Check
  <2>2. /\ x \in NetworkMenu!Wrapper /\ x.items = o.items \cup {c} /\ x.section = o.section
        /\ x.marked = o.marked /\ x.failed = o.failed
    BY <1>1, <1>2, WrapperFields DEF NetworkMenu!Wrapper
  <2>3. /\ s \in NetworkMenu!SectionsState /\ s.of[d] = x /\ s.active = u.active
        /\ s.known = u.known
    <3> HIDE DEF x
    <3> QED BY <2>2, WrapperSetting
  <2>4. Half(x, u.active[d])
    <3>1. x.marked \subseteq x.items
      BY <2>2 DEF Whole
    <3>2. ASSUME ~x.failed, x.section # NetworkMenu!None
          PROVE  x.marked = {u.active[d]} \cap x.items
      <4>1. o.marked = {o.section} /\ o.marked = {u.active[d]} \cap o.items
        BY <3>2, <2>2 DEF Whole, Marks
      <4> QED BY <4>1, <2>2
    <3>3. ~x.failed => Marks(x)
      BY <2>2 DEF Whole, Marks
    <3> QED BY <3>1, <3>2, <3>3 DEF Half
  <2> HIDE DEF x, s
  <2>5. PICK w \in NetworkMenu!Wrapper :
          /\ NetworkMenu!Sync(s, d) = [s EXCEPT !.of[d] = w]
          /\ w.items = x.items /\ Whole(w, u.active[d])
    BY <2>2, <2>3, <2>4, SyncFits
  <2>6. [s EXCEPT !.of[d] = w].of[d] = w
    BY <2>3, <2>5, WrapperSetting
  <2> QED BY <2>1, <2>2, <2>5, <2>6
<1>3. CASE ~(c \in u.valid[d] /\ c \notin o.items)
  BY <1>1, <1>3 DEF NetworkMenu!Check
<1> QED BY <1>2, <1>3

LEMMA CheckAllFits ==
  ASSUME NEW u \in NetworkMenu!SectionsState, NEW c \in u.known, Sections(u), VpnSection(u)
  PROVE  SectionsGood(NetworkMenu!CheckAll(u, c))
<1> DEFINE f == [d \in DeviceIds |-> IF d \in u.devices THEN NetworkMenu!Check(u, d, c).of[d]
                                     ELSE u.of[d]]
           v == NetworkMenu!CheckAll(u, c)
<1>1. v = [u EXCEPT !.of = f]
  BY DEF NetworkMenu!CheckAll, NetworkMenu!SectionsState
<1>2. \A d \in u.devices : /\ f[d] \in NetworkMenu!Wrapper /\ f[d].items \subseteq u.known
                           /\ Whole(f[d], u.active[d])
  BY CheckFits, SectionFields DEF Sections
<1>3. f \in [DeviceIds -> NetworkMenu!Wrapper]
  <2>1. ASSUME NEW d \in DeviceIds PROVE f[d] \in NetworkMenu!Wrapper
    BY <1>2, SectionFields
  <2> QED BY <2>1
<1> HIDE DEF f
<1>4. /\ v \in NetworkMenu!SectionsState /\ v.of = f /\ v.devices = u.devices
      /\ v.known = u.known /\ v.active = u.active /\ v.vpnMarked = u.vpnMarked
      /\ v.vpnItems = u.vpnItems /\ v.vpnStale = u.vpnStale /\ v.vpnsUp = u.vpnsUp
  BY <1>1, <1>3 DEF NetworkMenu!SectionsState
<1> HIDE DEF v
<1>5. Sections(v)
  BY <1>2, <1>4 DEF Sections
<1>6. VpnSection(v)
  BY <1>4 DEF VpnSection
<1>7. SectionsGood(v)
  BY <1>4, <1>5, <1>6 DEF SectionsGood
<1> QED BY <1>7 DEF v

LEMMA DeviceAddedGood ==
  ASSUME SectionsGood(state), NEW d \in DeviceIds, NetworkMenu!DeviceAdded(d)
  PROVE  SectionsGood(state')
<1> DEFINE items == state.known \cap state.valid[d]
           o == [NetworkMenu!NoWrapper EXCEPT !.items = items]
           t == [state EXCEPT !.devices = @ \cup {d}]
           s == [t EXCEPT !.of[d] = o]
<1>1. state \in NetworkMenu!SectionsState /\ Sections(state) /\ VpnSection(state)
  BY DEF SectionsGood
<1>2. /\ d \notin state.devices /\ state.devices \subseteq DeviceIds
      /\ items \subseteq ConnectionIds /\ state.active[d] \in ConnectionIds \cup {NetworkMenu!None}
  BY <1>1, SectionFields DEF NetworkMenu!DeviceAdded
<1>3. /\ o \in NetworkMenu!Wrapper /\ o.items = items /\ o.marked = {} /\ ~o.failed
      /\ o.section = NetworkMenu!None
  BY <1>2 DEF NetworkMenu!Wrapper, NetworkMenu!NoWrapper
<1>4. state' = NetworkMenu!Sync(s, d)
  BY DEF NetworkMenu!DeviceAdded
<1> HIDE DEF o
<1>5. /\ t \in NetworkMenu!SectionsState /\ t.devices = state.devices \cup {d}
      /\ t.of = state.of /\ t.active = state.active /\ t.known = state.known
      /\ t.vpnMarked = state.vpnMarked /\ t.vpnItems = state.vpnItems
      /\ t.vpnStale = state.vpnStale /\ t.vpnsUp = state.vpnsUp
  BY <1>1, <1>2 DEF NetworkMenu!SectionsState
<1> HIDE DEF t
<1>6. /\ s \in NetworkMenu!SectionsState /\ s.of[d] = o /\ s.active = t.active
      /\ s.known = t.known
  BY <1>3, <1>5, WrapperSetting
<1>7. Half(s.of[d], s.active[d]) /\ s.of[d].items \subseteq s.known
  BY <1>3, <1>5, <1>6 DEF Half, Marks
<1>8. PICK w \in NetworkMenu!Wrapper :
        /\ NetworkMenu!Sync(s, d) = [s EXCEPT !.of[d] = w]
        /\ w.items = items /\ Whole(w, state.active[d])
  <2> HIDE DEF s
  <2> QED BY <1>3, <1>5, <1>6, <1>7, SyncFits
<1>9. state' = [t EXCEPT !.of[d] = w]
  BY <1>4, <1>5, <1>8 DEF NetworkMenu!SectionsState
<1>10. /\ state' \in NetworkMenu!SectionsState /\ state'.of[d] = w
       /\ \A e \in DeviceIds : e # d => state'.of[e] = state.of[e]
       /\ state'.devices = state.devices \cup {d} /\ state'.active = state.active
       /\ state'.known = state.known /\ state'.vpnMarked = state.vpnMarked
       /\ state'.vpnItems = state.vpnItems /\ state'.vpnStale = state.vpnStale
       /\ state'.vpnsUp = state.vpnsUp
  BY <1>5, <1>8, <1>9, WrapperSetting
<1>11. Sections(state')
  BY <1>1, <1>2, <1>8, <1>10 DEF Sections
<1> QED BY <1>1, <1>10, <1>11 DEF SectionsGood, VpnSection

LEMMA DeviceRemovedGood ==
  ASSUME SectionsGood(state), NEW d \in DeviceIds, NetworkMenu!DeviceRemoved(d)
  PROVE  SectionsGood(state')
<1>1. state \in NetworkMenu!SectionsState /\ Sections(state) /\ VpnSection(state)
  BY DEF SectionsGood
<1>2. NetworkMenu!NoWrapper \in NetworkMenu!Wrapper
  BY DEF NetworkMenu!NoWrapper, NetworkMenu!Wrapper
<1>3. state' = [state EXCEPT !.devices = @ \ {d}, !.of[d] = NetworkMenu!NoWrapper,
                             !.active[d] = NetworkMenu!None]
  BY DEF NetworkMenu!DeviceRemoved
<1>4. /\ state' \in NetworkMenu!SectionsState /\ state'.devices = state.devices \ {d}
      /\ \A e \in DeviceIds : e # d => /\ state'.of[e] = state.of[e]
                                       /\ state'.active[e] = state.active[e]
      /\ state'.known = state.known /\ state'.vpnMarked = state.vpnMarked
      /\ state'.vpnItems = state.vpnItems /\ state'.vpnStale = state.vpnStale
      /\ state'.vpnsUp = state.vpnsUp
  BY <1>1, <1>2, <1>3 DEF NetworkMenu!SectionsState
<1>5. Sections(state')
  BY <1>1, <1>4, SectionFields DEF Sections
<1> QED BY <1>1, <1>4, <1>5 DEF SectionsGood, VpnSection

LEMMA ConnectionAddedGood ==
  ASSUME SectionsGood(state), NEW c \in ConnectionIds \cup VpnIds, NetworkMenu!ConnectionAdded(c)
  PROVE  SectionsGood(state')
<1> DEFINE u == [state EXCEPT !.known = @ \cup {c}]
<1>1. state \in NetworkMenu!SectionsState /\ Sections(state) /\ VpnSection(state)
  BY DEF SectionsGood
<1>2. /\ u \in NetworkMenu!SectionsState /\ u.known = state.known \cup {c}
      /\ u.devices = state.devices /\ u.of = state.of /\ u.active = state.active
      /\ u.vpnMarked = state.vpnMarked /\ u.vpnItems = state.vpnItems
      /\ u.vpnStale = state.vpnStale /\ u.vpnsUp = state.vpnsUp
  BY <1>1 DEF NetworkMenu!SectionsState
<1>3. state' = IF c \in VpnIds
               THEN [u EXCEPT !.vpnItems = @ \cup {c}, !.vpnStale = @ \/ c \in u.vpnsUp]
               ELSE NetworkMenu!CheckAll(u, c)
  BY DEF NetworkMenu!ConnectionAdded
<1> HIDE DEF u
<1>4. Sections(u) /\ VpnSection(u)
  BY <1>1, <1>2 DEF Sections, VpnSection
<1>5. CASE c \in VpnIds
  <2>1. u.vpnStale \in BOOLEAN
    BY <1>2, SectionFields
  <2>2. /\ state' \in NetworkMenu!SectionsState /\ state'.known = u.known
        /\ state'.devices = u.devices /\ state'.of = u.of /\ state'.active = u.active
        /\ state'.vpnMarked = u.vpnMarked /\ state'.vpnItems = u.vpnItems \cup {c}
        /\ (state'.vpnStale <=> u.vpnStale \/ c \in u.vpnsUp) /\ state'.vpnsUp = u.vpnsUp
    BY <1>2, <1>3, <1>5, <2>1 DEF NetworkMenu!SectionsState
  <2>3. Sections(state')
    BY <1>4, <2>2 DEF Sections
  <2>4. VpnSection(state')
    BY <1>4, <2>2 DEF VpnSection
  <2> QED BY <2>2, <2>3, <2>4 DEF SectionsGood
<1>6. CASE c \notin VpnIds
  <2>1. c \in u.known
    BY <1>2
  <2> QED BY <1>2, <1>3, <1>4, <1>6, <2>1, CheckAllFits
<1> QED BY <1>5, <1>6

LEMMA ConnectionRemovedGood ==
  ASSUME SectionsGood(state), NEW c \in ConnectionIds \cup VpnIds,
         NetworkMenu!ConnectionRemoved(c)
  PROVE  SectionsGood(state')
<1> DEFINE u == [state EXCEPT !.known = @ \ {c}]
           f == [d \in DeviceIds |->
                   [state.of[d] EXCEPT !.items = @ \ {c}, !.marked = @ \ {c},
                                       !.failed = @ \/ state.of[d].section = c]]
<1>1. state \in NetworkMenu!SectionsState /\ Sections(state) /\ VpnSection(state)
  BY DEF SectionsGood
<1>2. /\ u \in NetworkMenu!SectionsState /\ u.known = state.known \ {c}
      /\ u.devices = state.devices /\ u.of = state.of /\ u.active = state.active
      /\ u.vpnMarked = state.vpnMarked /\ u.vpnItems = state.vpnItems
      /\ u.vpnStale = state.vpnStale /\ u.vpnsUp = state.vpnsUp
  BY <1>1 DEF NetworkMenu!SectionsState
<1>3. ASSUME NEW d \in DeviceIds
      PROVE  /\ f[d] \in NetworkMenu!Wrapper /\ f[d].items = state.of[d].items \ {c}
             /\ f[d].marked = state.of[d].marked \ {c} /\ f[d].section = state.of[d].section
             /\ f[d].failed <=> state.of[d].failed \/ state.of[d].section = c
  <2> DEFINE o == state.of[d]
             b == (o.section = c)
  <2>1. o \in NetworkMenu!Wrapper /\ b \in BOOLEAN
    BY <1>1, SectionFields
  <2>2. f[d] = [o EXCEPT !.items = @ \ {c}, !.marked = @ \ {c}, !.failed = @ \/ b]
    OBVIOUS
  <2> HIDE DEF f, b
  <2>3. /\ f[d] \in NetworkMenu!Wrapper /\ f[d].items = o.items \ {c}
        /\ f[d].marked = o.marked \ {c} /\ f[d].section = o.section
        /\ f[d].failed = (o.failed \/ b)
    BY <2>1, <2>2 DEF NetworkMenu!Wrapper
  <2> QED BY <2>3 DEF b
<1>4. CASE c \in VpnIds
  <2>1. state' = [u EXCEPT !.vpnItems = @ \ {c}, !.vpnMarked = @ \ {c}]
    BY <1>4 DEF NetworkMenu!ConnectionRemoved
  <2> HIDE DEF u
  <2>2. /\ state' \in NetworkMenu!SectionsState /\ state'.known = u.known
        /\ state'.devices = u.devices /\ state'.of = u.of /\ state'.active = u.active
        /\ state'.vpnMarked = u.vpnMarked \ {c} /\ state'.vpnItems = u.vpnItems \ {c}
        /\ state'.vpnStale = u.vpnStale /\ state'.vpnsUp = u.vpnsUp
    BY <1>2, <2>1 DEF NetworkMenu!SectionsState
  <2>3. Sections(state')
    <3>1. ASSUME NEW d \in state.devices
          PROVE  state.of[d].items \subseteq state.known \ {c}
      <4>1. state.of[d].items \subseteq ConnectionIds
        BY <1>1, SectionFields, WrapperFields
      <4> QED BY <1>1, <1>4, <4>1, SectionsAssumption DEF Sections
    <3> QED BY <1>1, <1>2, <2>2, <3>1 DEF Sections
  <2>4. VpnSection(state')
    BY <1>1, <1>2, <2>2 DEF VpnSection
  <2> QED BY <2>2, <2>3, <2>4 DEF SectionsGood
<1>5. CASE c \notin VpnIds
  <2>1. state' = [u EXCEPT !.of = f]
    BY <1>5 DEF NetworkMenu!ConnectionRemoved
  <2> HIDE DEF u
  <2>2. f \in [DeviceIds -> NetworkMenu!Wrapper]
    BY <1>3
  <2> HIDE DEF f
  <2>3. /\ state' \in NetworkMenu!SectionsState /\ state'.known = u.known
        /\ state'.devices = u.devices /\ state'.of = f /\ state'.active = u.active
        /\ state'.vpnMarked = u.vpnMarked /\ state'.vpnItems = u.vpnItems
        /\ state'.vpnStale = u.vpnStale /\ state'.vpnsUp = u.vpnsUp
    BY <1>2, <2>1, <2>2 DEF NetworkMenu!SectionsState
  <2>4. ASSUME NEW d \in state.devices
        PROVE  Whole(f[d], state.active[d]) /\ f[d].items \subseteq u.known
    <3> DEFINE o == state.of[d]
               a == state.active[d]
    <3>1. d \in DeviceIds
      BY <1>1, SectionFields
    <3>2. Whole(o, a) /\ o.items \subseteq state.known
      BY <1>1 DEF Sections
    <3>3. f[d].marked \subseteq f[d].items /\ f[d].items \subseteq u.known
      BY <1>2, <1>3, <3>1, <3>2 DEF Whole
    <3>4. ASSUME ~f[d].failed
          PROVE  Marks(f[d]) /\ f[d].marked = {a} \cap f[d].items
      <4> DEFINE w == f[d]
      <4>1. /\ ~o.failed /\ o.section # c /\ w.section = o.section
            /\ w.items = o.items \ {c} /\ w.marked = o.marked \ {c}
        BY <1>3, <3>1, <3>4
      <4> HIDE DEF w
      <4>2. Marks(o) /\ o.marked = {a} \cap o.items
        BY <3>2, <4>1 DEF Whole
      <4>3. c \notin o.marked
        BY <4>1, <4>2 DEF Marks
      <4>4. w.marked = o.marked
        BY <4>1, <4>3
      <4>5. Marks(w)
        BY <4>1, <4>2, <4>4 DEF Marks
      <4>6. w.marked = {a} \cap w.items
        BY <4>1, <4>2, <4>3, <4>4
      <4> QED BY <4>5, <4>6 DEF w
    <3> QED BY <3>3, <3>4 DEF Whole
  <2>5. Sections(state')
    BY <1>2, <2>3, <2>4 DEF Sections
  <2>6. VpnSection(state')
    BY <1>1, <1>2, <2>3 DEF VpnSection
  <2> QED BY <2>3, <2>5, <2>6 DEF SectionsGood
<1> QED BY <1>4, <1>5

LEMMA ConnectionChangedGood ==
  ASSUME SectionsGood(state), NEW c \in ConnectionIds, NEW ds \in SUBSET DeviceIds,
         NetworkMenu!ConnectionChanged(c, ds)
  PROVE  SectionsGood(state')
<1> DEFINE g == [d \in DeviceIds |-> IF d \in ds THEN state.valid[d] \cup {c}
                                     ELSE state.valid[d] \ {c}]
           u == [state EXCEPT !.valid = g]
<1>1. state \in NetworkMenu!SectionsState /\ Sections(state) /\ VpnSection(state)
  BY DEF SectionsGood
<1>2. g \in [DeviceIds -> SUBSET ConnectionIds]
  BY <1>1, SectionFields
<1>3. /\ u \in NetworkMenu!SectionsState /\ u.known = state.known
      /\ u.devices = state.devices /\ u.of = state.of /\ u.active = state.active
      /\ u.vpnMarked = state.vpnMarked /\ u.vpnItems = state.vpnItems
      /\ u.vpnStale = state.vpnStale /\ u.vpnsUp = state.vpnsUp
  <2> HIDE DEF g
  <2> QED BY <1>1, <1>2 DEF NetworkMenu!SectionsState
<1>4. c \in state.known /\ state' = NetworkMenu!CheckAll(u, c)
  BY DEF NetworkMenu!ConnectionChanged
<1> HIDE DEF u
<1>5. Sections(u) /\ VpnSection(u)
  BY <1>1, <1>3 DEF Sections, VpnSection
<1> QED BY <1>3, <1>4, <1>5, CheckAllFits

\* A section that is whole stays so when it is looked at again.
LEMMA SyncedGood ==
  ASSUME NEW u \in NetworkMenu!SectionsState, NEW d \in u.devices, VpnSection(u),
         \A e \in u.devices : /\ u.of[e].items \subseteq u.known
                              /\ e # d => Whole(u.of[e], u.active[e]),
         Half(u.of[d], u.active[d])
  PROVE  SectionsGood(NetworkMenu!Sync(u, d))
<1>1. d \in DeviceIds /\ u.devices \subseteq DeviceIds
  BY SectionFields
<1>2. PICK w \in NetworkMenu!Wrapper :
        /\ NetworkMenu!Sync(u, d) = [u EXCEPT !.of[d] = w]
        /\ w.items = u.of[d].items /\ Whole(w, u.active[d])
  BY <1>1, SyncFits
<1> DEFINE v == [u EXCEPT !.of[d] = w]
<1>3. /\ v \in NetworkMenu!SectionsState /\ v.of[d] = w
      /\ \A e \in DeviceIds : e # d => v.of[e] = u.of[e]
      /\ v.devices = u.devices /\ v.known = u.known /\ v.active = u.active
      /\ v.vpnsUp = u.vpnsUp /\ v.vpnItems = u.vpnItems /\ v.vpnMarked = u.vpnMarked
      /\ v.vpnStale = u.vpnStale
  BY <1>1, WrapperSetting
<1> HIDE DEF v
<1>4. Sections(v)
  BY <1>1, <1>2, <1>3 DEF Sections
<1>5. VpnSection(v)
  BY <1>3 DEF VpnSection
<1>6. SectionsGood(v)
  BY <1>3, <1>4, <1>5 DEF SectionsGood
<1> QED BY <1>2, <1>6 DEF v

LEMMA DeviceStateChangedGood ==
  ASSUME SectionsGood(state), NEW d \in DeviceIds, NetworkMenu!DeviceStateChanged(d)
  PROVE  SectionsGood(state')
<1>1. d \in state.devices /\ state' = NetworkMenu!Sync(state, d)
  BY DEF NetworkMenu!DeviceStateChanged
<1>2. Half(state.of[d], state.active[d])
  BY <1>1 DEF SectionsGood, Sections, Whole, Half
<1> QED BY <1>1, <1>2, SyncedGood DEF SectionsGood, Sections

LEMMA ActiveConnectionChangedGood ==
  ASSUME SectionsGood(state), NEW d \in DeviceIds,
         NEW c \in ConnectionIds \cup {NetworkMenu!None},
         NetworkMenu!ActiveConnectionChanged(d, c)
  PROVE  SectionsGood(state')
<1> DEFINE o == state.of[d]
           u == [state EXCEPT !.active[d] = c]
           x == [o EXCEPT !.section = NetworkMenu!None, !.marked = @ \ {o.section}]
           s == [u EXCEPT !.of[d] = x]
<1>1. /\ state \in NetworkMenu!SectionsState /\ Sections(state) /\ VpnSection(state)
      /\ d \in state.devices /\ o \in NetworkMenu!Wrapper
  BY SectionFields DEF SectionsGood, NetworkMenu!ActiveConnectionChanged
<1>2. /\ u \in NetworkMenu!SectionsState /\ u.of = state.of
      /\ u.active = [state.active EXCEPT ![d] = c]
      /\ u.known = state.known /\ u.devices = state.devices
      /\ u.vpnMarked = state.vpnMarked /\ u.vpnItems = state.vpnItems
      /\ u.vpnStale = state.vpnStale /\ u.vpnsUp = state.vpnsUp
  BY <1>1 DEF NetworkMenu!SectionsState
<1>3. /\ u.active[d] = c /\ \A e \in DeviceIds : e # d => u.active[e] = state.active[e]
      /\ state.devices \subseteq DeviceIds
  BY <1>1, <1>2, SectionFields
<1>4. VpnSection(u)
  BY <1>1, <1>2 DEF VpnSection
<1>5. Whole(o, state.active[d]) /\ o.items \subseteq state.known
  BY <1>1 DEF Sections
<1>6. CASE o.section # NetworkMenu!None /\ o.section \notin o.items
  <2>1. state' = u
    BY <1>6 DEF NetworkMenu!ActiveConnectionChanged
  <2>2. o.failed
    BY <1>5, <1>6 DEF Whole, Marks
  <2>3. Whole(o, c)
    BY <1>5, <2>2 DEF Whole
  <2> HIDE DEF u, o
  <2>4. Sections(u)
    BY <1>1, <1>2, <1>3, <2>3 DEF Sections, o
  <2> QED BY <1>2, <1>4, <2>1, <2>4 DEF SectionsGood
<1>7. CASE ~(o.section # NetworkMenu!None /\ o.section \notin o.items)
  <2>1. state' = NetworkMenu!Sync(s, d)
    <3>1. [u EXCEPT !.of[d].section = NetworkMenu!None, !.of[d].marked = @ \ {o.section}] = s
      <4> HIDE DEF u
      <4> QED BY <1>1, <1>2, SectionFields DEF NetworkMenu!SectionsState, NetworkMenu!Wrapper
    <3> QED BY <3>1, <1>7 DEF NetworkMenu!ActiveConnectionChanged
  <2>2. /\ x \in NetworkMenu!Wrapper /\ x.section = NetworkMenu!None /\ x.items = o.items
        /\ x.marked = o.marked \ {o.section} /\ x.failed = o.failed
    BY <1>1 DEF NetworkMenu!Wrapper
  <2>3. Half(x, c)
    BY <1>5, <2>2 DEF Whole, Half, Marks
  <2> HIDE DEF x, u, o
  <2>4. /\ s \in NetworkMenu!SectionsState /\ s.of[d] = x
        /\ \A e \in DeviceIds : e # d => s.of[e] = u.of[e]
        /\ s.devices = u.devices /\ s.known = u.known /\ s.active = u.active
        /\ s.vpnsUp = u.vpnsUp /\ s.vpnItems = u.vpnItems /\ s.vpnMarked = u.vpnMarked
        /\ s.vpnStale = u.vpnStale
    BY <1>2, <2>2, WrapperSetting
  <2> HIDE DEF s
  <2>5. VpnSection(s)
    BY <1>4, <2>4 DEF VpnSection
  <2>6. ASSUME NEW e \in s.devices
        PROVE  s.of[e].items \subseteq s.known /\ (e # d => Whole(s.of[e], s.active[e]))
    <3>1. CASE e = d
      BY <1>2, <1>5, <2>2, <2>4, <3>1
    <3>2. CASE e # d
      BY <1>1, <1>2, <1>3, <2>4, <3>2 DEF Sections
    <3> QED BY <3>1, <3>2
  <2>7. d \in s.devices /\ Half(s.of[d], s.active[d])
    BY <1>1, <1>2, <1>3, <2>3, <2>4
  <2> QED BY <2>1, <2>4, <2>5, <2>6, <2>7, SyncedGood
<1> QED BY <1>6, <1>7

LEMMA VpnsChangedGood ==
  ASSUME SectionsGood(state), NEW up \in SUBSET VpnIds, NetworkMenu!VpnsChanged(up)
  PROVE  SectionsGood(state')
<1>1. state \in NetworkMenu!SectionsState /\ Sections(state) /\ VpnSection(state)
  BY DEF SectionsGood
<1>2. state.vpnItems \subseteq VpnIds
  BY <1>1, SectionFields
<1>3. PICK m \in SUBSET (up \cap state.vpnItems), b \in BOOLEAN :
        /\ state' = [state EXCEPT !.vpnsUp = up, !.vpnMarked = m, !.vpnStale = b]
        /\ ~b => m = up
  <2> DEFINE u == [state EXCEPT !.vpnsUp = up]
  <2>1. u.vpnItems = state.vpnItems
    BY <1>1 DEF NetworkMenu!SectionsState
  <2>2. CASE up \subseteq state.vpnItems
    BY <2>1, <2>2 DEF NetworkMenu!VpnsChanged
  <2>3. CASE ~(up \subseteq state.vpnItems)
    BY <2>1, <2>3 DEF NetworkMenu!VpnsChanged
  <2> QED BY <2>2, <2>3
<1>4. /\ state' \in NetworkMenu!SectionsState /\ state'.known = state.known
      /\ state'.devices = state.devices /\ state'.of = state.of /\ state'.active = state.active
      /\ state'.vpnMarked = m /\ state'.vpnItems = state.vpnItems
      /\ state'.vpnStale = b /\ state'.vpnsUp = up
  BY <1>1, <1>2, <1>3 DEF NetworkMenu!SectionsState
<1>5. Sections(state')
  BY <1>1, <1>4 DEF Sections
<1>6. VpnSection(state')
  BY <1>3, <1>4 DEF VpnSection
<1> QED BY <1>4, <1>5, <1>6 DEF SectionsGood

LEMMA SectionsInitGood == NetworkMenu!SectionsInit => SectionsGood(state)
<1> SUFFICES ASSUME NetworkMenu!SectionsInit PROVE SectionsGood(state)
  OBVIOUS
<1>1. NetworkMenu!NoWrapper \in NetworkMenu!Wrapper
  BY DEF NetworkMenu!NoWrapper, NetworkMenu!Wrapper
<1>2. state \in NetworkMenu!SectionsState
  BY <1>1 DEF NetworkMenu!SectionsInit, NetworkMenu!SectionsState
<1>3. state.devices = {} /\ state.vpnMarked = {} /\ state.vpnItems = {}
  BY DEF NetworkMenu!SectionsInit
<1> QED BY <1>2, <1>3 DEF SectionsGood, Sections, VpnSection

LEMMA SectionsStep ==
  ASSUME SectionsGood(state), NetworkMenu!SectionsNext
  PROVE  SectionsGood(state')
BY DeviceAddedGood, DeviceRemovedGood, DeviceStateChangedGood, ActiveConnectionChangedGood,
   ConnectionAddedGood, ConnectionRemovedGood, ConnectionChangedGood, VpnsChangedGood
   DEF NetworkMenu!SectionsNext

LEMMA SectionsAnswers ==
  ASSUME SectionsGood(state)
  PROVE  NetworkMenu!SectionsTypeOK /\ NetworkMenu!ActiveIsMarked
BY DEF SectionsGood, Sections, VpnSection, Whole, Marks, NetworkMenu!SectionsTypeOK,
       NetworkMenu!ActiveIsMarked
-----------------------------------------------------------------------------
(* The search. *)

\* The search of a time: while the timer runs nothing is asked, then one search is, and of
\* the answers at most one waits to be delivered.
SentIsNow(u) == \A c \in u.calls : c.state = "sent" => ~u.timer /\ c.terms = u.terms
OneOf(calls, s) == \A c, d \in calls : c.state = s /\ d.state = s => c = d
CallsKept(u) == /\ u.starting = u.timer /\ (u.timer => u.terms # Search!NoTerms)
                /\ SentIsNow(u) /\ OneOf(u.calls, "sent") /\ OneOf(u.calls, "answered")

\* What is shown is asked for once; what was cancelled has a later one behind it, or the
\* view was cleared and nothing is displayed.
CurrentMeta(u) == \E m \in u.metas : m.state = "current"
MetasKept(u) == /\ OneOf(u.metas, "current")
                /\ (\E m \in u.metas : m.state = "cancelled")
                     => CurrentMeta(u) \/ u.displays = {}

\* The results are those of their terms.
Exact(f) == f.terms \in SearchTerms /\ f.ids = MatchesFor[f.terms]
AllExact(u) == /\ u.results = Search!Nothing \/ Exact(u.results)
               /\ \A c \in u.calls : MatchesFor[c.terms] \subseteq c.among
               /\ \A m \in u.metas : Exact(m.found)

\* The search for the terms is under way, with the last of the answers; or it has been
\* answered, and what it found is shown or will be.
Pending(u) == \E c \in u.calls :
  /\ c.terms = u.terms
  /\ c.state = "sent" \/ (c.state = "answered" /\ \A d \in u.calls : d.state # "sent")
Shown(u, ids) == ~u.busy /\ u.shown = ids /\ (u.metas # {} => ids = {})
Answered(u) == /\ u.results.terms = u.terms
               /\ \A c \in u.calls : c.state = "withdrawn"
               /\ CurrentMeta(u) \/ Shown(u, MatchesFor[u.terms])

SearchKept(u) == u \in Search!State /\ CallsKept(u) /\ MetasKept(u)
Searching(u) == ~u.astray =>
  /\ AllExact(u)
  /\ u.terms # Search!NoTerms /\ ~u.timer => Pending(u) \/ Answered(u)
SearchGood(u) == SearchKept(u) /\ Searching(u)

LEMMA SearchFields ==
  ASSUME NEW u \in Search!State
  PROVE  /\ u.typed \in 0..SearchKeys /\ u.terms \in SearchTerms \cup {Search!NoTerms}
         /\ u.sub \in BOOLEAN /\ u.starting \in BOOLEAN /\ u.timer \in BOOLEAN
         /\ u.busy \in BOOLEAN /\ u.results \in Search!Found /\ u.calls \subseteq Search!Call
         /\ u.metas \subseteq [found : Search!Found, state : {"current", "cancelled"}]
         /\ u.displays \subseteq SearchIds /\ u.shown \subseteq SearchIds
         /\ u.astray \in BOOLEAN
BY DEF Search!State

\* The search begins.
LEMMA SearchSetting ==
  ASSUME NEW u \in Search!State, NEW b \in BOOLEAN
  PROVE  [u EXCEPT !.starting = FALSE, !.timer = FALSE, !.busy = TRUE, !.astray = b]
           \in Search!State
BY DEF Search!State

LEMMA CallFields ==
  ASSUME NEW c \in Search!Call
  PROVE  /\ c.terms \in SearchTerms /\ c.base \in SearchTerms \cup {Search!NoTerms}
         /\ c.among \subseteq SearchIds /\ c.state \in {"sent", "answered", "withdrawn"}
         /\ \A s \in {"sent", "answered", "withdrawn"} :
              LET d == [c EXCEPT !.state = s]
              IN d \in Search!Call /\ d.terms = c.terms /\ d.among = c.among /\ d.state = s
BY DEF Search!Call

LEMMA FoundFields ==
  ASSUME NEW f \in Search!Found
  PROVE  f.terms \in SearchTerms \cup {Search!NoTerms} /\ f.ids \subseteq SearchIds
BY DEF Search!Found

\* The calls of the search before are cancelled: what is left are the answers.
LEMMA CancelledCalls ==
  ASSUME NEW u \in Search!State
  PROVE  \E k \in SUBSET Search!Call :
           /\ Search!CancelCalls(u) = [u EXCEPT !.calls = k]
           /\ \A c \in k : c.state # "sent"
           /\ OneOf(u.calls, "answered") => OneOf(k, "answered")
           /\ (\A c \in u.calls : MatchesFor[c.terms] \subseteq c.among)
                => \A c \in k : MatchesFor[c.terms] \subseteq c.among
<1> DEFINE g(c) == IF c.state = "sent" THEN [c EXCEPT !.state = "withdrawn"] ELSE c
           k == {g(c) : c \in u.calls}
<1>1. \A c \in u.calls : c \in Search!Call
  BY SearchFields
<1>2. \A c \in u.calls : /\ g(c) \in Search!Call /\ g(c).state # "sent"
                         /\ g(c).terms = c.terms /\ g(c).among = c.among
                         /\ g(c).state = "answered" => g(c) = c
  BY <1>1, CallFields
<1>3. Search!CancelCalls(u) = [u EXCEPT !.calls = k]
  BY DEF Search!CancelCalls
<1> HIDE DEF g
<1>4. k \in SUBSET Search!Call /\ \A c \in k : c.state # "sent"
  BY <1>2
<1>5. OneOf(u.calls, "answered") => OneOf(k, "answered")
  BY <1>2 DEF OneOf
<1>6. (\A c \in u.calls : MatchesFor[c.terms] \subseteq c.among)
        => \A c \in k : MatchesFor[c.terms] \subseteq c.among
  BY <1>2
<1> QED BY <1>3, <1>4, <1>5, <1>6

\* What is asked for is cancelled.
LEMMA CancelledMetas ==
  ASSUME NEW u \in Search!State
  PROVE  \E k \in SUBSET [found : Search!Found, state : {"current", "cancelled"}] :
           /\ Search!CancelMetas(u) = [u EXCEPT !.metas = k]
           /\ \A m \in k : m.state = "cancelled"
           /\ (\A m \in u.metas : Exact(m.found)) => \A m \in k : Exact(m.found)
<1> DEFINE g(m) == [m EXCEPT !.state = "cancelled"]
           k == {g(m) : m \in u.metas}
<1>1. \A m \in u.metas : m \in [found : Search!Found, state : {"current", "cancelled"}]
  BY SearchFields
<1>2. \A m \in u.metas : /\ g(m) \in [found : Search!Found, state : {"current", "cancelled"}]
                         /\ g(m).state = "cancelled" /\ g(m).found = m.found
  BY <1>1
<1>3. Search!CancelMetas(u) = [u EXCEPT !.metas = k]
  BY DEF Search!CancelMetas
<1> HIDE DEF g
<1>4. /\ k \in SUBSET [found : Search!Found, state : {"current", "cancelled"}]
      /\ \A m \in k : m.state = "cancelled"
  BY <1>2
<1>5. (\A m \in u.metas : Exact(m.found)) => \A m \in k : Exact(m.found)
  BY <1>2
<1> QED BY <1>3, <1>4, <1>5

\* updateSearch() of the results f, which the view has taken: they are shown, or will be.
LEMMA UpdateShows ==
  ASSUME NEW u \in Search!State, NEW f \in Search!Found, MetasKept(u), u.results = f
  PROVE  LET w == Search!UpdateSearch(u, f)
         IN /\ w \in Search!State /\ MetasKept(w)
            /\ w.calls = u.calls /\ w.terms = u.terms /\ w.timer = u.timer
            /\ w.starting = u.starting /\ w.results = f /\ w.astray = u.astray
            /\ CurrentMeta(w) \/ Shown(w, f.ids)
            /\ (\A m \in u.metas : Exact(m.found)) /\ Exact(f) => \A m \in w.metas : Exact(m.found)
<1> DEFINE w == Search!UpdateSearch(u, f)
<1>1. f.ids \subseteq SearchIds
  BY FoundFields
<1>2. CASE f.ids = {}
  <2>1. w = [u EXCEPT !.shown = {}, !.busy = FALSE]
    BY <1>2 DEF Search!UpdateSearch
  <2>2. /\ w \in Search!State /\ w.calls = u.calls /\ w.terms = u.terms /\ w.timer = u.timer
        /\ w.starting = u.starting /\ w.results = u.results /\ w.astray = u.astray
        /\ w.metas = u.metas /\ w.displays = u.displays /\ w.shown = {} /\ w.busy = FALSE
    BY <2>1 DEF Search!State
  <2> HIDE DEF w
  <2>3. MetasKept(w) /\ Shown(w, f.ids)
    BY <1>2, <2>2 DEF MetasKept, CurrentMeta, Shown
  <2> QED BY <2>2, <2>3 DEF w
<1>3. CASE f.ids # {} /\ f.ids \subseteq u.displays
  <2>1. w = [u EXCEPT !.shown = f.ids, !.busy = FALSE, !.astray = @ \/ f.terms # u.results.terms]
    BY <1>3 DEF Search!UpdateSearch, Search!Show
  <2>2. /\ w \in Search!State /\ w.calls = u.calls /\ w.terms = u.terms /\ w.timer = u.timer
        /\ w.starting = u.starting /\ w.results = u.results /\ w.astray = u.astray
        /\ w.metas = u.metas /\ w.displays = u.displays /\ w.shown = f.ids /\ w.busy = FALSE
    BY <1>1, <2>1 DEF Search!State
  <2> HIDE DEF w
  <2>3. MetasKept(w)
    BY <2>2 DEF MetasKept, CurrentMeta
  <2>4. ASSUME ~CurrentMeta(w) PROVE Shown(w, f.ids)
    <3>1. \A m \in u.metas : m.state \in {"current", "cancelled"}
      BY SearchFields
    <3>2. w.metas = {}
      BY <1>3, <2>2, <2>4, <3>1 DEF MetasKept, CurrentMeta
    <3> QED BY <2>2, <3>2 DEF Shown
  <2> QED BY <2>2, <2>3, <2>4 DEF w
<1>4. CASE ~(f.ids \subseteq u.displays)
  <2>1. PICK k \in SUBSET [found : Search!Found, state : {"current", "cancelled"}] :
          /\ Search!CancelMetas(u) = [u EXCEPT !.metas = k]
          /\ \A m \in k : m.state = "cancelled"
          /\ (\A m \in u.metas : Exact(m.found)) => \A m \in k : Exact(m.found)
    BY CancelledMetas
  <2> DEFINE n == [found |-> f, state |-> "current"]
             v == [u EXCEPT !.metas = k]
  <2>2. /\ v \in Search!State /\ v.calls = u.calls /\ v.terms = u.terms /\ v.timer = u.timer
        /\ v.starting = u.starting /\ v.results = u.results /\ v.astray = u.astray
        /\ v.displays = u.displays /\ v.metas = k
    BY <2>1 DEF Search!State
  <2>3. w = [v EXCEPT !.metas = @ \cup {n}]
    BY <1>4, <2>1 DEF Search!UpdateSearch
  <2>4. n \in [found : Search!Found, state : {"current", "cancelled"}]
    OBVIOUS
  <2> HIDE DEF v, w
  <2>5. /\ w \in Search!State /\ w.calls = v.calls /\ w.terms = v.terms /\ w.timer = v.timer
        /\ w.starting = v.starting /\ w.results = v.results /\ w.astray = v.astray
        /\ w.displays = v.displays /\ w.metas = k \cup {n}
    <3> HIDE DEF n
    <3> QED BY <2>1, <2>2, <2>3, <2>4 DEF Search!State
  <2>6. n.state = "current" /\ n.found = f
    OBVIOUS
  <2> HIDE DEF n
  <2>7. MetasKept(w) /\ CurrentMeta(w)
    BY <2>1, <2>5, <2>6 DEF MetasKept, CurrentMeta, OneOf
  <2>8. (\A m \in u.metas : Exact(m.found)) /\ Exact(f) => \A m \in w.metas : Exact(m.found)
    BY <2>1, <2>5, <2>6
  <2> QED BY <2>2, <2>5, <2>7, <2>8 DEF w
<1> QED BY <1>2, <1>3, <1>4

LEMMA SetTermsGood ==
  ASSUME SearchGood(state), NEW t \in SearchTerms \cup {Search!NoTerms}, Search!SetTerms(t)
  PROVE  SearchGood(state')
<1> DEFINE s == [state EXCEPT !.typed = @ + 1, !.starting = TRUE]
           u == Search!CancelCalls(s)
<1>1. /\ state \in Search!State /\ CallsKept(state) /\ MetasKept(state) /\ Searching(state)
      /\ state.typed < SearchKeys
  BY DEF SearchGood, SearchKept, Search!SetTerms
<1>2. state' = IF t = Search!NoTerms THEN Search!Reset(u)
               ELSE [u EXCEPT !.terms = t, !.sub = <<state.terms, t>> \in LongerThan,
                              !.timer = TRUE]
  BY DEF Search!SetTerms
<1>3. /\ s \in Search!State /\ s.starting = TRUE /\ s.calls = state.calls
      /\ s.metas = state.metas /\ s.displays = state.displays /\ s.results = state.results
      /\ s.astray = state.astray
  <2>1. state.typed + 1 \in 0..SearchKeys
    BY <1>1, SearchFields, SearchAssumption
  <2> QED BY <1>1, <2>1 DEF Search!State
<1>4. PICK k \in SUBSET Search!Call :
        /\ u = [s EXCEPT !.calls = k] /\ \A c \in k : c.state # "sent"
        /\ OneOf(s.calls, "answered") => OneOf(k, "answered")
        /\ (\A c \in s.calls : MatchesFor[c.terms] \subseteq c.among)
             => \A c \in k : MatchesFor[c.terms] \subseteq c.among
  <2> HIDE DEF s
  <2> QED BY <1>3, CancelledCalls
<1> HIDE DEF s, u
<1>5. /\ u \in Search!State /\ u.starting = TRUE /\ u.calls = k
      /\ u.metas = state.metas /\ u.displays = state.displays /\ u.results = state.results
      /\ u.astray = state.astray
  BY <1>3, <1>4 DEF Search!State
<1>6. /\ \A c \in k : c.state # "sent" /\ OneOf(k, "sent") /\ OneOf(k, "answered")
      /\ ~state.astray => \A c \in k : MatchesFor[c.terms] \subseteq c.among
  BY <1>1, <1>3, <1>4 DEF CallsKept, Searching, AllExact, OneOf
<1>7. CASE t # Search!NoTerms
  <2> DEFINE b == <<state.terms, t>> \in LongerThan
  <2>1. b \in BOOLEAN
    OBVIOUS
  <2>2. state' = [u EXCEPT !.terms = t, !.sub = b, !.timer = TRUE]
    BY <1>2, <1>7
  <2> HIDE DEF b
  <2>3. /\ state' \in Search!State /\ state'.starting = TRUE /\ state'.timer = TRUE
        /\ state'.terms = t /\ state'.calls = k /\ state'.metas = state.metas
        /\ state'.displays = state.displays /\ state'.results = state.results
        /\ state'.astray = state.astray
    BY <1>5, <2>1, <2>2 DEF Search!State
  <2>4. CallsKept(state')
    BY <1>6, <1>7, <2>3 DEF CallsKept, SentIsNow, OneOf
  <2>5. MetasKept(state')
    BY <1>1, <2>3 DEF MetasKept, CurrentMeta
  <2>6. Searching(state')
    BY <1>1, <1>6, <2>3 DEF Searching, AllExact
  <2> QED BY <2>3, <2>4, <2>5, <2>6 DEF SearchGood, SearchKept
<1>8. CASE t = Search!NoTerms
  <2>1. PICK j \in SUBSET [found : Search!Found, state : {"current", "cancelled"}] :
          /\ Search!CancelMetas(u) = [u EXCEPT !.metas = j]
          /\ \A m \in j : m.state = "cancelled"
          /\ (\A m \in u.metas : Exact(m.found)) => \A m \in j : Exact(m.found)
    BY <1>5, CancelledMetas
  <2> DEFINE v == [u EXCEPT !.metas = j]
  <2>2. state' = [v EXCEPT !.terms = Search!NoTerms, !.results = Search!Nothing, !.timer = FALSE,
                           !.starting = FALSE, !.displays = {}, !.shown = {}]
    BY <1>2, <1>8, <2>1 DEF Search!Reset
  <2>3. v \in Search!State /\ v.calls = k /\ v.metas = j /\ v.astray = state.astray
    BY <1>5, <2>1 DEF Search!State
  <2> HIDE DEF v
  <2>4. Search!Nothing \in Search!Found
    BY DEF Search!Nothing, Search!Found
  <2>5. /\ state' \in Search!State /\ state'.starting = FALSE /\ state'.timer = FALSE
        /\ state'.terms = Search!NoTerms /\ state'.calls = k /\ state'.metas = j
        /\ state'.displays = {} /\ state'.results = Search!Nothing
        /\ state'.astray = state.astray
    BY <2>2, <2>3, <2>4 DEF Search!State
  <2>6. CallsKept(state')
    BY <1>6, <2>5 DEF CallsKept, SentIsNow, OneOf
  <2>7. MetasKept(state')
    BY <2>1, <2>5 DEF MetasKept, OneOf
  <2>8. Searching(state')
    BY <1>1, <1>5, <1>6, <2>1, <2>5 DEF Searching, AllExact
  <2> QED BY <2>5, <2>6, <2>7, <2>8 DEF SearchGood, SearchKept
<1> QED BY <1>7, <1>8

LEMMA DoSearchGood ==
  ASSUME SearchGood(state), state.timer, state' = Search!DoSearch(state)
  PROVE  SearchGood(state')
<1> DEFINE refine == state.sub /\ state.results.terms # Search!NoTerms
           lost == refine /\ ~Search!Refines(state.results.terms, state.terms)
           c == [terms |-> state.terms, state |-> "sent",
                 base |-> IF refine THEN state.results.terms ELSE Search!NoTerms,
                 among |-> IF refine THEN state.results.ids ELSE SearchIds]
<1>1. /\ state \in Search!State /\ CallsKept(state) /\ MetasKept(state) /\ Searching(state)
  BY DEF SearchGood, SearchKept
<1>2. state' = [state EXCEPT !.starting = FALSE, !.timer = FALSE, !.busy = TRUE,
                             !.results = Search!Nothing, !.calls = @ \cup {c},
                             !.astray = @ \/ lost]
  BY DEF Search!DoSearch
<1>3. state.terms \in SearchTerms /\ state.results \in Search!Found
  BY <1>1, SearchFields DEF CallsKept
<1>4. /\ c \in Search!Call /\ c.terms = state.terms /\ c.state = "sent"
  BY <1>3, FoundFields DEF Search!Call
<1>5. lost \in BOOLEAN /\ Search!Nothing \in Search!Found
  BY DEF Search!Nothing, Search!Found
<1>6. ASSUME ~state.astray, ~lost PROVE MatchesFor[c.terms] \subseteq c.among
  <2>1. CASE refine
    <3>1. /\ c.among = state.results.ids /\ c.terms = state.terms
          /\ \/ state.results.terms = state.terms
             \/ <<state.results.terms, state.terms>> \in LongerThan
      BY <1>6, <2>1 DEF Search!Refines
    <3>2. Exact(state.results)
      BY <1>1, <1>6, <2>1 DEF Searching, AllExact, Search!Nothing
    <3> QED BY <1>3, <3>1, <3>2, SearchAssumption DEF Exact
  <2>2. CASE ~refine
    BY <1>3, <2>2, SearchAssumption
  <2> QED BY <2>1, <2>2
<1> HIDE DEF c, lost
<1>7. /\ state' \in Search!State /\ state'.starting = FALSE /\ state'.timer = FALSE
      /\ state'.terms = state.terms /\ state'.calls = state.calls \cup {c}
      /\ state'.metas = state.metas /\ state'.displays = state.displays
      /\ state'.results = Search!Nothing /\ (state'.astray <=> state.astray \/ lost)
  <2> DEFINE v == [state EXCEPT !.calls = @ \cup {c}, !.results = Search!Nothing]
             b == state.astray \/ lost
  <2>1. v \in Search!State /\ v.calls = state.calls \cup {c} /\ v.results = Search!Nothing
        /\ v.terms = state.terms /\ v.metas = state.metas /\ v.displays = state.displays
        /\ v.astray = state.astray
    BY <1>1, <1>4, <1>5 DEF Search!State
  <2>2. state' = [v EXCEPT !.starting = FALSE, !.timer = FALSE, !.busy = TRUE,
                           !.astray = b]
    BY <1>1, <1>2 DEF Search!State
  <2>3. b \in BOOLEAN
    BY <1>1, SearchFields
  <2> HIDE DEF v, b
  <2>4. /\ state'.starting = FALSE /\ state'.timer = FALSE /\ state'.terms = v.terms
        /\ state'.calls = v.calls /\ state'.metas = v.metas /\ state'.displays = v.displays
        /\ state'.results = v.results /\ state'.astray = b
    BY <2>1, <2>2 DEF Search!State
  <2>5. state' \in Search!State
    BY <2>1, <2>2, <2>3, SearchSetting
  <2> QED BY <2>1, <2>4, <2>5 DEF b
<1>8. \A d \in state.calls : d.state # "sent"
  BY <1>1 DEF CallsKept, SentIsNow
<1>9. CallsKept(state')
  BY <1>1, <1>4, <1>7, <1>8 DEF CallsKept, SentIsNow, OneOf
<1>10. MetasKept(state')
  BY <1>1, <1>7 DEF MetasKept, CurrentMeta
<1>11. Pending(state')
  BY <1>4, <1>7 DEF Pending
<1>12. ASSUME ~state'.astray PROVE AllExact(state')
  BY <1>1, <1>6, <1>7, <1>12 DEF Searching, AllExact
<1> QED BY <1>7, <1>9, <1>10, <1>11, <1>12 DEF SearchGood, SearchKept, Searching

LEMMA AnswerCallGood ==
  ASSUME SearchGood(state), NEW c \in state.calls, Search!Answer(c)
  PROVE  SearchGood(state')
<1> DEFINE a == [c EXCEPT !.state = "answered"]
           k == (state.calls \ {c}) \cup {a}
<1>1. /\ state \in Search!State /\ CallsKept(state) /\ MetasKept(state) /\ Searching(state)
      /\ c \in Search!Call /\ c.state = "sent" /\ \A d \in state.calls : d.state # "answered"
      /\ state' = [state EXCEPT !.calls = k]
  BY SearchFields DEF SearchGood, SearchKept, Search!Answer
<1>2. a \in Search!Call /\ a.terms = c.terms /\ a.among = c.among /\ a.state = "answered"
  BY <1>1, CallFields
<1> HIDE DEF a
<1>3. /\ state' \in Search!State /\ state'.starting = state.starting
      /\ state'.timer = state.timer /\ state'.terms = state.terms /\ state'.calls = k
      /\ state'.metas = state.metas /\ state'.displays = state.displays
      /\ state'.results = state.results /\ state'.astray = state.astray
  BY <1>1, <1>2 DEF Search!State
<1>4. \A d \in k : d.state # "sent"
  BY <1>1, <1>2 DEF CallsKept, OneOf
<1>5. CallsKept(state')
  BY <1>1, <1>2, <1>3, <1>4 DEF CallsKept, SentIsNow, OneOf
<1>6. MetasKept(state')
  BY <1>1, <1>3 DEF MetasKept, CurrentMeta
<1>7. Pending(state')
  <2>1. a.terms = state.terms
    BY <1>1, <1>2 DEF CallsKept, SentIsNow
  <2> QED BY <1>2, <1>3, <1>4, <2>1 DEF Pending
<1>8. ~state.astray => AllExact(state')
  BY <1>1, <1>2, <1>3 DEF Searching, AllExact
<1> QED BY <1>3, <1>5, <1>6, <1>7, <1>8 DEF SearchGood, SearchKept, Searching

\* A call is gone: what there is besides stays.
LEMMA CallGone ==
  ASSUME NEW u \in Search!State, NEW c, NEW v, CallsKept(u), v = [u EXCEPT !.calls = @ \ {c}]
  PROVE  /\ v \in Search!State /\ CallsKept(v) /\ v.calls = u.calls \ {c}
         /\ v.starting = u.starting /\ v.timer = u.timer /\ v.terms = u.terms
         /\ v.metas = u.metas /\ v.displays = u.displays /\ v.results = u.results
         /\ v.astray = u.astray /\ v.busy = u.busy /\ v.shown = u.shown
<1>1. /\ v \in Search!State /\ v.calls = u.calls \ {c}
      /\ v.starting = u.starting /\ v.timer = u.timer /\ v.terms = u.terms
      /\ v.metas = u.metas /\ v.displays = u.displays /\ v.results = u.results
      /\ v.astray = u.astray /\ v.busy = u.busy /\ v.shown = u.shown
  BY DEF Search!State
<1>2. CallsKept(v)
  BY <1>1 DEF CallsKept, SentIsNow, OneOf
<1> QED BY <1>1, <1>2

\* The results of a call are taken, whichever search it was of.
Took(w, c, f) ==
  /\ w.calls = state.calls \ {c} /\ w.terms = state.terms /\ w.timer = state.timer
  /\ w.starting = state.starting /\ w.results = f /\ w.astray = state.astray
  /\ CurrentMeta(w) \/ Shown(w, f.ids)
  /\ ~state.astray /\ Exact(f) => AllExact(w)

LEMMA ResultsTaken ==
  ASSUME SearchGood(state), NEW c \in state.calls, NEW f \in Search!Found, NEW v,
         v = [state EXCEPT !.calls = @ \ {c}, !.results = f], NEW w, w = Search!UpdateSearch(v, f)
  PROVE  /\ w \in Search!State /\ CallsKept(w) /\ MetasKept(w) /\ Took(w, c, f)
<1> DEFINE u == [state EXCEPT !.calls = @ \ {c}]
<1>1. /\ state \in Search!State /\ CallsKept(state) /\ MetasKept(state) /\ Searching(state)
  BY DEF SearchGood, SearchKept
<1>2. v = [u EXCEPT !.results = f]
  BY <1>1 DEF Search!State
<1>3. /\ u \in Search!State /\ CallsKept(u) /\ u.calls = state.calls \ {c}
      /\ u.starting = state.starting /\ u.timer = state.timer /\ u.terms = state.terms
      /\ u.metas = state.metas /\ u.displays = state.displays /\ u.astray = state.astray
  BY <1>1, CallGone
<1> HIDE DEF u
<1>4. /\ v \in Search!State /\ v.calls = u.calls /\ v.starting = u.starting
      /\ v.timer = u.timer /\ v.terms = u.terms /\ v.metas = u.metas
      /\ v.displays = u.displays /\ v.results = f /\ v.astray = u.astray
  BY <1>2, <1>3 DEF Search!State
<1>5. MetasKept(v)
  BY <1>1, <1>3, <1>4 DEF MetasKept, CurrentMeta
<1>6. /\ w \in Search!State /\ MetasKept(w) /\ w.calls = v.calls /\ w.terms = v.terms
      /\ w.timer = v.timer /\ w.starting = v.starting /\ w.results = f /\ w.astray = v.astray
      /\ CurrentMeta(w) \/ Shown(w, f.ids)
      /\ (\A m \in v.metas : Exact(m.found)) /\ Exact(f) => \A m \in w.metas : Exact(m.found)
  BY <1>4, <1>5, UpdateShows
<1>7. CallsKept(w)
  BY <1>3, <1>4, <1>6 DEF CallsKept, SentIsNow
<1>8. ~state.astray /\ Exact(f) => AllExact(w)
  BY <1>1, <1>3, <1>4, <1>6 DEF Searching, AllExact
<1> QED BY <1>3, <1>4, <1>6, <1>7, <1>8 DEF Took

LEMMA ResultsGood ==
  ASSUME SearchGood(state), NEW c \in state.calls, Search!Results(c)
  PROVE  SearchGood(state')
<1> DEFINE f == [terms |-> c.terms, ids |-> c.among \cap MatchesFor[c.terms]]
<1>1. /\ state \in Search!State /\ CallsKept(state) /\ Searching(state)
      /\ c \in Search!Call /\ c.state = "answered"
      /\ state' = Search!UpdateSearch([state EXCEPT !.calls = @ \ {c}, !.results = f], f)
  BY SearchFields DEF SearchGood, SearchKept, Search!Results
<1>2. f \in Search!Found /\ f.terms = c.terms /\ c.terms \in SearchTerms
  BY <1>1, CallFields DEF Search!Found
<1>3. ASSUME ~state.astray PROVE Exact(f)
  BY <1>1, <1>2, <1>3 DEF Searching, AllExact, Exact
<1> HIDE DEF f
<1>4. /\ state' \in Search!State /\ CallsKept(state') /\ MetasKept(state')
      /\ state'.calls = state.calls \ {c} /\ state'.terms = state.terms
      /\ state'.timer = state.timer /\ state'.results = f /\ state'.astray = state.astray
      /\ CurrentMeta(state') \/ Shown(state', f.ids)
      /\ ~state.astray /\ Exact(f) => AllExact(state')
  <2> DEFINE v == [state EXCEPT !.calls = @ \ {c}, !.results = f]
             w == Search!UpdateSearch(v, f)
  <2>1. state' = w
    BY <1>1
  <2> HIDE DEF v, w
  <2>2. v = [state EXCEPT !.calls = @ \ {c}, !.results = f] /\ w = Search!UpdateSearch(v, f)
    BY DEF v, w
  <2>3. w \in Search!State /\ CallsKept(w) /\ MetasKept(w) /\ Took(w, c, f)
    BY <1>2, <2>2, ResultsTaken
  <2> QED BY <2>1, <2>3 DEF Took
<1>5. ASSUME ~state.astray, state.terms # Search!NoTerms, ~state.timer
      PROVE  Pending(state') \/ Answered(state')
  <2>1. Pending(state)
    BY <1>1, <1>5 DEF Searching, Answered
  <2>2. PICK e \in state.calls :
          /\ e.terms = state.terms
          /\ e.state = "sent" \/ (e.state = "answered" /\ \A d \in state.calls : d.state # "sent")
    BY <2>1 DEF Pending
  <2>3. CASE e = c
    <3>1. \A d \in state.calls : d.state \in {"sent", "answered", "withdrawn"}
      BY <1>1, SearchFields, CallFields
    <3>2. \A d \in state'.calls : d.state = "withdrawn"
      BY <1>1, <1>4, <2>2, <2>3, <3>1 DEF CallsKept, OneOf
    <3>3. f.ids = MatchesFor[state'.terms] /\ f.terms = state'.terms
      BY <1>2, <1>3, <1>4, <1>5, <2>2, <2>3 DEF Exact
    <3> QED BY <1>4, <3>2, <3>3 DEF Answered
  <2>4. CASE e # c
    <3>1. e.state = "sent" /\ e \in state'.calls
      BY <1>1, <1>4, <2>2, <2>4 DEF CallsKept, OneOf
    <3> QED BY <1>4, <2>2, <3>1 DEF Pending
  <2> QED BY <2>3, <2>4
<1> QED BY <1>3, <1>4, <1>5 DEF SearchGood, SearchKept, Searching

LEMMA SearchFailedGood ==
  ASSUME SearchGood(state), NEW c \in state.calls, Search!Failed(c)
  PROVE  SearchGood(state')
<1> DEFINE u == [state EXCEPT !.calls = @ \ {c}]
           f == [terms |-> c.terms, ids |-> {}]
           v == [u EXCEPT !.results = f]
<1>1. /\ state \in Search!State /\ CallsKept(state) /\ MetasKept(state) /\ Searching(state)
      /\ c \in Search!Call
  BY SearchFields DEF SearchGood, SearchKept
<1>2. CASE c.state = "withdrawn" /\ state' = u
  <2>1. /\ state' \in Search!State /\ CallsKept(state') /\ state'.calls = state.calls \ {c}
        /\ state'.timer = state.timer /\ state'.terms = state.terms
        /\ state'.metas = state.metas /\ state'.displays = state.displays
        /\ state'.results = state.results /\ state'.astray = state.astray
        /\ state'.busy = state.busy /\ state'.shown = state.shown
    BY <1>1, <1>2, CallGone
  <2>2. MetasKept(state')
    BY <1>1, <2>1 DEF MetasKept, CurrentMeta
  <2>3. AllExact(state) => AllExact(state')
    BY <2>1 DEF AllExact
  <2>4. Pending(state) => Pending(state')
    BY <1>2, <2>1 DEF Pending
  <2>5. Answered(state) => Answered(state')
    BY <2>1 DEF Answered, CurrentMeta, Shown
  <2> QED BY <1>1, <2>1, <2>2, <2>3, <2>4, <2>5 DEF SearchGood, SearchKept, Searching
<1>3. CASE c.state = "sent" /\ state' = [Search!UpdateSearch(v, f) EXCEPT !.astray = TRUE]
  <2> DEFINE w == Search!UpdateSearch(v, f)
  <2>1. f \in Search!Found
    BY <1>1, CallFields DEF Search!Found
  <2>2. v = [state EXCEPT !.calls = @ \ {c}, !.results = f]
    <3> HIDE DEF f
    <3> QED BY <1>1 DEF Search!State
  <2>3. w \in Search!State /\ CallsKept(w) /\ MetasKept(w)
    <3> HIDE DEF f, v
    <3> QED BY <2>1, <2>2, ResultsTaken
  <2> HIDE DEF w
  <2>4. /\ state' \in Search!State /\ state'.calls = w.calls /\ state'.starting = w.starting
        /\ state'.timer = w.timer /\ state'.terms = w.terms /\ state'.metas = w.metas
        /\ state'.displays = w.displays /\ state'.astray = TRUE
    BY <1>3, <2>3 DEF Search!State, w
  <2>5. CallsKept(state') /\ MetasKept(state')
    BY <2>3, <2>4 DEF CallsKept, SentIsNow, MetasKept, CurrentMeta
  <2> QED BY <2>4, <2>5 DEF SearchGood, SearchKept, Searching
<1> QED BY <1>2, <1>3 DEF Search!Failed

LEMMA MetasGood ==
  ASSUME SearchGood(state), NEW m \in state.metas, Search!Metas(m)
  PROVE  SearchGood(state')
<1> DEFINE u == [state EXCEPT !.metas = @ \ {m}]
           f == m.found
<1>1. /\ state \in Search!State /\ CallsKept(state) /\ MetasKept(state) /\ Searching(state)
      /\ f \in Search!Found /\ m.state \in {"current", "cancelled"}
  BY SearchFields DEF SearchGood, SearchKept
<1>2. f.ids \subseteq SearchIds /\ state.displays \subseteq SearchIds
  BY <1>1, FoundFields, SearchFields
<1>3. CASE m.state = "current"
  <2>1. \A n \in state.metas : n.state = "current"
    BY <1>3 DEF Search!Metas
  <2>2. state.metas = {m}
    BY <1>1, <1>3, <2>1 DEF MetasKept, OneOf
  <2> DEFINE v == [u EXCEPT !.displays = @ \cup f.ids]
  <2>3. state' = [v EXCEPT !.shown = f.ids, !.busy = FALSE,
                           !.astray = @ \/ f.terms # v.results.terms]
    BY <1>3 DEF Search!Metas, Search!Show
  <2> HIDE DEF f
  <2>4. /\ v \in Search!State /\ v.starting = state.starting /\ v.timer = state.timer
        /\ v.terms = state.terms /\ v.calls = state.calls /\ v.metas = {}
        /\ v.results = state.results /\ v.astray = state.astray
    BY <1>1, <1>2, <2>2 DEF Search!State
  <2> HIDE DEF v
  <2>5. /\ state' \in Search!State /\ state'.starting = state.starting
        /\ state'.timer = state.timer /\ state'.terms = state.terms
        /\ state'.calls = state.calls /\ state'.metas = {} /\ state'.results = state.results
        /\ state'.shown = f.ids /\ state'.busy = FALSE
        /\ (state'.astray <=> state.astray \/ f.terms # state.results.terms)
    BY <1>2, <2>3, <2>4 DEF Search!State
  <2>6. CallsKept(state') /\ MetasKept(state')
    BY <1>1, <2>5 DEF CallsKept, SentIsNow, MetasKept, CurrentMeta, OneOf
  <2>7. AllExact(state) => AllExact(state') /\ Exact(f)
    BY <2>5 DEF AllExact, f
  <2>8. Pending(state) => Pending(state')
    BY <2>5 DEF Pending
  <2>9. ASSUME ~state'.astray, Exact(f), Answered(state) PROVE Answered(state')
    BY <2>5, <2>9 DEF Answered, Shown, Exact
  <2> QED BY <1>1, <2>5, <2>6, <2>7, <2>8, <2>9 DEF SearchGood, SearchKept, Searching
<1>4. CASE m.state # "current"
  <2>1. state' = [u EXCEPT !.shown = {}, !.busy = FALSE]
    BY <1>4 DEF Search!Metas
  <2>2. /\ state' \in Search!State /\ state'.starting = state.starting
        /\ state'.timer = state.timer /\ state'.terms = state.terms
        /\ state'.calls = state.calls /\ state'.metas = state.metas \ {m}
        /\ state'.results = state.results /\ state'.displays = state.displays
        /\ state'.shown = {} /\ state'.busy = FALSE /\ state'.astray = state.astray
    BY <1>1, <2>1 DEF Search!State
  <2>3. CallsKept(state')
    BY <1>1, <2>2 DEF CallsKept, SentIsNow
  <2>4. CurrentMeta(state) => CurrentMeta(state')
    BY <1>4, <2>2 DEF CurrentMeta
  <2>5. MetasKept(state')
    BY <1>1, <2>2, <2>4 DEF MetasKept, OneOf
  <2>6. AllExact(state) => AllExact(state')
    BY <2>2 DEF AllExact
  <2>7. Pending(state) => Pending(state')
    BY <2>2 DEF Pending
  <2>8. Answered(state) => Answered(state')
    BY <2>2, <2>4 DEF Answered, Shown
  <2> QED BY <1>1, <2>2, <2>3, <2>5, <2>6, <2>7, <2>8 DEF SearchGood, SearchKept, Searching
<1> QED BY <1>3, <1>4

LEMMA SearchInitGood == Search!Init => SearchGood(state)
<1> SUFFICES ASSUME Search!Init PROVE SearchGood(state)
  OBVIOUS
<1>1. 0 \in 0..SearchKeys /\ Search!Nothing \in Search!Found
  BY SearchAssumption DEF Search!Nothing, Search!Found
<1>2. state \in Search!State
  BY <1>1 DEF Search!Init, Search!State
<1>3. /\ state.terms = Search!NoTerms /\ ~state.starting /\ ~state.timer /\ state.calls = {}
      /\ state.metas = {} /\ state.results = Search!Nothing /\ state.starting = state.timer
  BY DEF Search!Init
<1> QED BY <1>2, <1>3 DEF SearchGood, SearchKept, CallsKept, SentIsNow, OneOf, MetasKept,
                          Searching, AllExact

LEMMA SearchStep ==
  ASSUME SearchGood(state), Search!Next
  PROVE  SearchGood(state')
BY SetTermsGood, DoSearchGood, AnswerCallGood, ResultsGood, SearchFailedGood, MetasGood
   DEF Search!Next, Search!SearchTimeout, Search!ActivateDefault

LEMMA SearchAnswers ==
  ASSUME SearchGood(state)
  PROVE  Search!TypeOK /\ Search!ShownFitsTerms
<1>1. state \in Search!State /\ CallsKept(state) /\ Searching(state)
  BY DEF SearchGood, SearchKept
<1>2. ASSUME Search!AtRest, ~state.astray, state.terms # Search!NoTerms
      PROVE  state.shown = MatchesFor[state.terms] /\ ~state.busy /\ ~state.starting
  <2>1. ~state.timer /\ state.calls = {} /\ state.metas = {}
    BY <1>2 DEF Search!AtRest
  <2>2. Answered(state)
    BY <1>1, <1>2, <2>1 DEF Searching, Pending
  <2> QED BY <1>1, <2>1, <2>2 DEF Answered, CurrentMeta, Shown, CallsKept
<1> QED BY <1>1, <1>2 DEF Search!TypeOK, Search!ShownFitsTerms
-----------------------------------------------------------------------------
(* All of them. *)

\* A behaviour is about one component, so the invariants stand side by side.
AgentsGood ==
  /\ subject = "NetworkAgent" => RequestGood(state)
  /\ subject = "Automount" => VolumeGood(state)
  /\ subject = "MountHandler" => HandlerGood(state)
  /\ subject = "PortalLogin" => PortalGood(state)
  /\ subject = "NetworkSections" => SectionsGood(state)
  /\ subject = "Search" => SearchGood(state)
  /\ subject = "ExtensionSystem" => ExtensionGood
  /\ subject = "UserVerifier" => VerifierGood(state)

LEMMA AgentsStep == AgentsGood /\ [AgentsNext]_<<subject, state>> => AgentsGood'
<1> SUFFICES ASSUME AgentsGood, [AgentsNext]_<<subject, state>> PROVE AgentsGood'
  OBVIOUS
<1>1. CASE UNCHANGED <<subject, state>>
  BY <1>1 DEF AgentsGood, ExtensionGood
<1>2. CASE subject = "NetworkAgent" /\ NetworkAgent!Next /\ UNCHANGED subject
  BY <1>2, RequestStep DEF AgentsGood
<1>3. CASE subject = "Automount" /\ Automount!VolumeNext /\ UNCHANGED subject
  BY <1>3, VolumeStep DEF AgentsGood
<1>4. CASE subject = "MountHandler" /\ MountHandler!HandlerNext /\ UNCHANGED subject
  BY <1>4, HandlerStep DEF AgentsGood
<1>5. CASE subject = "PortalLogin" /\ NetworkMenu!PortalNext /\ UNCHANGED subject
  BY <1>5, PortalStep DEF AgentsGood
<1>6. CASE subject = "NetworkSections" /\ NetworkMenu!SectionsNext /\ UNCHANGED subject
  BY <1>6, SectionsStep DEF AgentsGood
<1>7. CASE subject = "Search" /\ Search!Next /\ UNCHANGED subject
  BY <1>7, SearchStep DEF AgentsGood
<1>8. CASE subject = "ExtensionSystem" /\ ExtensionSystem!Next /\ UNCHANGED subject
  BY <1>8, ExtensionStep DEF AgentsGood
<1>9. CASE subject = "UserVerifier" /\ UserVerifier!Next /\ UNCHANGED subject
  BY <1>9, VerifierStep DEF AgentsGood
<1> QED BY <1>1, <1>2, <1>3, <1>4, <1>5, <1>6, <1>7, <1>8, <1>9 DEF AgentsNext

LEMMA AgentsStart == AgentsInit => AgentsGood
BY RequestInitGood, VolumeInitGood, HandlerInitGood, PortalInitGood, SectionsInitGood,
   SearchInitGood, ExtensionInit, VerifierInit DEF AgentsInit, AgentsGood

\* Whoever asks the user is answered or is still asked, by a dialog of its own: an asking
\* network agent, a volume that wants a password, another application's mount operation
\* and a captive portal, for any number of requests, attempts, calls and connections. The
\* network menu marks what is active among the connections it lists, for any devices and
\* connections, unless a wrapper failed; and the search ends with what matches the terms
\* typed last, for any terms and results and any number of keys, unless it went astray. An
\* extension that has never thrown is enabled exactly when it should be, for every finite
\* set of extensions and any number of calls of others that throw. And the prompt of GDM
\* goes on until it has succeeded or is left, and answers who asked, for any number of
\* attempts and of failures that are allowed.
THEOREM NobodyIsLeftAsking == AgentsSpec => []AgentsAnswer
<1>1. AgentsGood => AgentsAnswer
  BY RequestAnswers, VolumeAnswers, HandlerAnswers, PortalAnswers, SectionsAnswers,
     SearchAnswers, ExtensionAnswers, VerifierAnswers DEF AgentsGood, AgentsAnswer
<1> QED BY <1>1, AgentsStart, AgentsStep, PTL DEF AgentsSpec

\* No operation of the extension system - a list that changes, a session, a validation of
\* versions, an installation, an update, a removal - and no call that throws during it
\* changes the order of two extensions that stay enabled and have never thrown.
THEOREM ExtensionsKeepTheirOrder == AgentsSpec => ExtensionsKeepOrder
<1>1. ASSUME AgentsGood, [AgentsNext]_<<subject, state>>
      PROVE  [subject = "ExtensionSystem" => ExtensionSystem!KeepsOrder]_state
  <2>1. CASE UNCHANGED <<subject, state>>
    BY <2>1
  <2>2. CASE AgentsNext /\ subject = "ExtensionSystem"
    <3>1. ExtensionSystem!Next
      BY <2>2 DEF AgentsNext
    <3> QED
      BY <3>1, <2>2, <1>1, ExtensionStep DEF AgentsGood
  <2> QED
    BY <1>1, <2>1, <2>2
<1> QED BY <1>1, AgentsStart, AgentsStep, PTL DEF AgentsSpec, ExtensionsKeepOrder
=============================================================================
