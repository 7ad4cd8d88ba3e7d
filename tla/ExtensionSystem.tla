--------------------------- MODULE ExtensionSystem ---------------------------
(***************************************************************************)
(* extensionSystem.js, and the installation and update of extensions by    *)
(* extensionDownloader.js. Each call of an extension's own code - init(),   *)
(* enable(), disable() - may throw. Operators return the set of the states  *)
(* that a call may leave.                                                  *)
(*                                                                         *)
(* The list of enabled extensions stands for the settings and the session   *)
(* mode's own list; it is what _getEnabledExtensions() returns.            *)
(***************************************************************************)
EXTENDS Integers, Sequences, SequencesExt, FiniteSets

CONSTANTS Extensions,
          Outdated,    \* those for another version of the shell
          MaxFaults    \* bound: calls that throw

VARIABLE ext   \* the manager, and what the extensions' code has been told

extVars == <<ext>>

State == [allowed   : BOOLEAN,                 \* sessionMode.allowExtensions
          wanted    : Seq(Extensions),         \* _enabledExtensions
          checked   : BOOLEAN,                 \* the version is validated
          installed : SUBSET Extensions,       \* _extensions
          state     : [Extensions -> {"none", "INITIALIZED", "DISABLED", "ENABLED", "ERROR",
                                      "OUT_OF_DATE"}],
          loaded    : SUBSET Extensions,       \* those with a stateObj
          order     : Seq(Extensions),         \* _extensionOrder
          on        : SUBSET Extensions,       \* enable() returned, disable() has not
          faults    : 0..MaxFaults,
          faulty    : SUBSET Extensions]       \* history: have thrown, or see LoadExtension

\* After init(), in a session with extensions none of which is enabled.
Init == ext = [allowed |-> TRUE, wanted |-> <<>>, checked |-> TRUE,
               installed |-> Extensions,
               state |-> [e \in Extensions |->
                            IF e \in Outdated THEN "OUT_OF_DATE" ELSE "INITIALIZED"],
               loaded |-> {}, order |-> <<>>, on |-> {}, faults |-> 0, faulty |-> {}]
-----------------------------------------------------------------------------
\* Array.filter() and Array.indexOf()
Only(s, A) ==
  LET kept[i \in 0..Len(s)] == IF i = 0 THEN <<>>
                               ELSE IF s[i] \in A THEN Append(kept[i - 1], s[i])
                               ELSE kept[i - 1]
  IN kept[Len(s)]
IndexOf(s, e) == CHOOSE k \in DOMAIN s : s[k] = e /\ \A j \in 1..(k - 1) : s[j] # e

\* An operator applied to the elements of a sequence one after the other.
Each(Op(_, _), U, s) ==
  LET each[i \in 0..Len(s)] == IF i = 0 THEN U
                               ELSE UNION {Op(v, s[i]) : v \in each[i - 1]}
  IN each[Len(s)]

\* logExtensionError(), for a call that throws.
Thrown(u, e) ==
  IF u.faults = MaxFaults THEN {}
  ELSE {[u EXCEPT !.faults = @ + 1, !.faulty = @ \cup {e}, !.state[e] = "ERROR"]}

\* The calls of a rebasing: an extension that has gone is passed over, one without a
\* stateObj is an error.
Rebased(u, e, isOn) ==
  CASE e \notin u.installed -> {u}
    [] e \in u.installed \ u.loaded -> {[u EXCEPT !.state[e] = "ERROR", !.faulty = @ \cup {e}]}
    [] OTHER -> {[u EXCEPT !.on = IF isOn THEN @ \cup {e} ELSE @ \ {e}]} \cup Thrown(u, e)

RebaseEach(U, s, isOn) == Each(LAMBDA u, e : Rebased(u, e, isOn), U, s)

\* Mutant of CallDisable: the later ones are not enabled again.
CallDisableOnce(u, e) ==
  IF e \notin u.installed \/ u.state[e] # "ENABLED" THEN {u}
  ELSE LET i == IndexOf(u.order, e)
           later == SubSeq(u.order, i + 1, Len(u.order))
       IN {[v EXCEPT !.order = RemoveAt(v.order, i),
                     !.state[e] = IF @ = "ERROR" THEN @ ELSE "DISABLED"] :
             v \in UNION {Rebased(w, e, FALSE) :
                          w \in RebaseEach({u}, Reverse(later), FALSE)}}

\* _callExtensionDisable(): those enabled later are disabled first, and enabled again.
CallDisable(u, e) ==
  IF e \notin u.installed \/ u.state[e] # "ENABLED" THEN {u}
  ELSE LET i == IndexOf(u.order, e)
           later == SubSeq(u.order, i + 1, Len(u.order))
           down  == RebaseEach({u}, Reverse(later), FALSE)
           alone == UNION {Rebased(v, e, FALSE) : v \in down}
       IN {[v EXCEPT !.order = RemoveAt(v.order, i),
                     !.state[e] = IF @ = "ERROR" THEN @ ELSE "DISABLED"] :
             v \in RebaseEach(alone, later, TRUE)}
DisableEach(U, s) == Each(CallDisable, U, s)

\* _callExtensionInit(), where extensions are allowed.
CallInit(u, e) ==
  {[u EXCEPT !.state[e] = "DISABLED", !.loaded = @ \cup {e}]} \cup Thrown(u, e)

\* enable(), and the stylesheet that is loaded before.
EnableDisabled(u, e) ==
  IF u.state[e] # "DISABLED" THEN {u}
  ELSE {[u EXCEPT !.state[e] = "ENABLED", !.on = @ \cup {e}, !.order = Append(@, e)]}
       \cup Thrown(u, e)

\* _callExtensionEnable()
CallEnable(u, e) ==
  IF ~u.allowed \/ e \notin u.installed THEN {u}
  ELSE LET ready == IF u.state[e] = "INITIALIZED" THEN CallInit(u, e) ELSE {u}
       IN UNION {EnableDisabled(v, e) : v \in ready}
EnableEach(U, s) == Each(CallEnable, U, s)

\* _onEnabledExtensionsChanged(), when the list becomes s.
EnabledExtensionsChanged(u, s) ==
  LET fresh == EnableEach({u}, Only(s, Extensions \ Range(u.wanted)))
      gone(v) == Reverse(Only(v.order, Extensions \ Range(s)))
  IN {[v EXCEPT !.wanted = s] : v \in UNION {DisableEach({w}, gone(w)) : w \in fresh}}

\* createExtensionObject() and loadExtension(). An enabled extension that is loaded
\* where extensions are not allowed stays in the state that loading starts from
\* (history: it counts as faulty).
LoadExtension(u, e) ==
  LET v == [u EXCEPT !.installed = @ \cup {e}, !.state[e] = "ERROR", !.loaded = @ \ {e}]
  IN CASE v.checked /\ e \in Outdated -> {[v EXCEPT !.state[e] = "OUT_OF_DATE"]}
       [] ~(v.checked /\ e \in Outdated) /\ ~Contains(v.wanted, e) ->
            {[v EXCEPT !.state[e] = "INITIALIZED"]}
       [] OTHER -> IF v.allowed THEN UNION {EnableDisabled(w, e) : w \in CallInit(v, e)}
                   ELSE {[v EXCEPT !.faulty = @ \cup {e}]}

\* Mutant of UnloadExtension: the extension is not disabled.
UnloadOnly(u, e) ==
  {[u EXCEPT !.installed = @ \ {e}, !.state[e] = "none", !.loaded = @ \ {e}]}

\* unloadExtension()
UnloadExtension(u, e) ==
  {[v EXCEPT !.installed = @ \ {e}, !.state[e] = "none", !.loaded = @ \ {e}] :
     v \in CallDisable(u, e)}

\* reloadExtension()
Reload(u, e) == UNION {LoadExtension(v, e) : v \in UnloadExtension(u, e)}
ReloadEach(U, s) == Each(Reload, U, s)

\* _onVersionValidationChanged(): in the order they were enabled; sort() puts those
\* before them which were not.
VersionValidationChanged(u) ==
  LET others == SetToSeq(u.installed \ Range(u.order))
      known  == Only(u.order, u.installed)
      off    == DisableEach({[u EXCEPT !.checked = ~@]}, Reverse(u.order))
  IN ReloadEach(off, others \o known)
-----------------------------------------------------------------------------
\* The list of enabled extensions changes: an extension is enabled or disabled by the
\* user or a client, or user extensions are switched off and on.
SetWanted(s) == s # ext.wanted /\ ext' \in EnabledExtensionsChanged(ext, s)

\* The setting for the validation of versions changes.
SetChecked == ext' \in VersionValidationChanged(ext)

\* sessionMode 'updated': _disableAllExtensions() and _enableAllExtensions().
SessionUpdated ==
  LET u == [ext EXCEPT !.allowed = ~@]
  IN ext' \in IF u.allowed THEN EnableEach({u}, u.wanted)
              ELSE DisableEach({u}, Reverse(u.order))

\* uninstallExtension()
Uninstall(e) == e \in ext.installed /\ ext' \in UnloadExtension(ext, e)

\* The end of a download of installExtension(): the extension is loaded, and enabled.
\* Nobody installs what is installed already.
Install(e) ==
  LET s == IF Contains(ext.wanted, e) THEN ext.wanted ELSE Append(ext.wanted, e)
  IN /\ e \notin ext.installed
     /\ ext' \in UNION {EnabledExtensionsChanged(v, s) : v \in LoadExtension(ext, e)}

\* The end of a download of updateExtension(), which unloads the extension and loads the
\* new one in its place.
Update(e) == e \in ext.installed /\ ext' \in Reload(ext, e)

\* What the user or a client does to the list: append, remove, or clear it.
Lists == {<<>>} \cup {Only(ext.wanted, Extensions \ {e}) : e \in Extensions}
         \cup {Append(ext.wanted, e) : e \in {e \in Extensions : ~Contains(ext.wanted, e)}}

Next == \/ \E s \in Lists : SetWanted(s)
        \/ SetChecked \/ SessionUpdated
        \/ \E e \in Extensions : Uninstall(e) \/ Install(e) \/ Update(e)

Spec == Init /\ [][Next]_extVars
-----------------------------------------------------------------------------
TypeOK == ext \in State

Sound == Extensions \ ext.faulty

\* An extension whose code has never thrown is enabled exactly when extensions are
\* allowed, it is on the list, installed and not out of date; its code runs then and
\* only then; and it has one place in the order then, none otherwise - whatever others
\* throw while it is rebased with them. Not so for one that was loaded where
\* extensions are not allowed, which stays in ERROR.
EnabledAsWanted == \A e \in Sound :
  LET due == /\ ext.allowed /\ Contains(ext.wanted, e) /\ e \in ext.installed
             /\ ext.state[e] # "OUT_OF_DATE"
  IN /\ due <=> ext.state[e] = "ENABLED"
     /\ due <=> e \in ext.on
     /\ Cardinality({i \in DOMAIN ext.order : ext.order[i] = e}) = IF due THEN 1 ELSE 0

\* Extensions see one another come and go like a stack: those that are enabled before
\* and after a change keep their order, unless one of the two is replaced by an update.
KeepsOrder ==
  \A d, e \in Sound \cap Sound' :
    LET Before(o) == \E i, j \in DOMAIN o : o[i] = d /\ o[j] = e /\ i < j
    IN (Before(ext.order) /\ {d, e} \subseteq ext'.on)
         => (Before(ext'.order) \/ Update(d) \/ Update(e))
OrderKept == [][KeepsOrder]_ext
=============================================================================
