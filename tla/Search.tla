------------------------------- MODULE Search -------------------------------
(***************************************************************************)
(* A search of the overview, from the user's typing to the results on      *)
(* screen: SearchResultsView and SearchResultsBase of search.js with one   *)
(* provider of remoteSearch.js. What the provider is asked is cancelled by *)
(* the next key, but an answer that has already arrived is delivered all   *)
(* the same, since the one Cancellable is reset in the same breath.        *)
(*                                                                         *)
(* The provider is external: it answers each call in its own time, a       *)
(* subsearch from among the results it is given.                           *)
(***************************************************************************)
EXTENDS Integers, FiniteSets

CONSTANTS Terms,       \* what the user may type
          Extends,     \* the pairs of terms <<t, u>> of which t begins u
          Ids, Matches,\* the results there are, and those that match each of the terms
          MaxTyped     \* bound: keys

NoTerms == "none"

VARIABLE se   \* the view, its provider's display and the calls under way

seVars == <<se>>

Call == [terms : Terms, base : Terms \cup {NoTerms}, among : SUBSET Ids,
         state : {"sent", "answered", "withdrawn"}]
\* The results of a search, and what they were searched for.
Found == [terms : Terms \cup {NoTerms}, ids : SUBSET Ids]
Nothing == [terms |-> NoTerms, ids |-> {}]

State == [typed    : 0..MaxTyped,
          terms    : Terms \cup {NoTerms},      \* _terms
          sub      : BOOLEAN,                   \* _isSubSearch
          starting : BOOLEAN,                   \* _startingSearch
          timer    : BOOLEAN,                   \* _searchTimeoutId
          busy     : BOOLEAN,                   \* provider.searchInProgress
          results  : Found,                     \* _results
          calls    : SUBSET Call,
          metas    : SUBSET [found : Found, state : {"current", "cancelled"}],
          displays : SUBSET Ids,                \* _resultDisplays
          shown    : SUBSET Ids,                \* the results on screen
          astray   : BOOLEAN]   \* history: a subsearch refined something else, or an
                                \* older answer was the last to be displayed

Init == se = [typed |-> 0, terms |-> NoTerms, sub |-> FALSE, starting |-> FALSE, timer |-> FALSE,
              busy |-> FALSE, results |-> Nothing, calls |-> {}, metas |-> {}, displays |-> {},
              shown |-> {}, astray |-> FALSE]
-----------------------------------------------------------------------------
\* The calls of the search before are cancelled: those not answered yet come to nothing.
CancelCalls(u) ==
  [u EXCEPT !.calls = {IF c.state = "sent" THEN [c EXCEPT !.state = "withdrawn"] ELSE c : c \in @}]
CancelMetas(u) == [u EXCEPT !.metas = {[m EXCEPT !.state = "cancelled"] : m \in @}]

Refines(t, u) == t = u \/ <<t, u>> \in Extends

\* Mutant of DoSearch: the results there are are always the base.
DoSearchRefining(u) ==
  LET refine == u.results.terms # NoTerms
  IN [u EXCEPT !.starting = FALSE, !.timer = FALSE, !.busy = TRUE, !.results = Nothing,
               !.calls = @ \cup {[terms |-> u.terms, state |-> "sent",
                                  base |-> IF refine THEN u.results.terms ELSE NoTerms,
                                  among |-> IF refine THEN u.results.ids ELSE Ids]}]

\* _doSearch()
DoSearch(u) ==
  LET refine == u.sub /\ u.results.terms # NoTerms
  IN [u EXCEPT !.starting = FALSE, !.timer = FALSE, !.busy = TRUE, !.results = Nothing,
               !.calls = @ \cup {[terms |-> u.terms, state |-> "sent",
                                  base |-> IF refine THEN u.results.terms ELSE NoTerms,
                                  among |-> IF refine THEN u.results.ids ELSE Ids]},
               !.astray = @ \/ (refine /\ ~Refines(u.results.terms, u.terms))]

\* _reset(): clear() cancels what the display asks and drops its actors.
Reset(u) == [CancelMetas(u) EXCEPT !.terms = NoTerms, !.results = Nothing, !.timer = FALSE,
                                   !.starting = FALSE, !.displays = {}, !.shown = {}]

\* setTerms(): whether this is a subsearch is decided by the terms before, searched for or
\* not; a timer that runs is left to.
SetTerms(t) ==
  /\ se.typed < MaxTyped /\ t # se.terms
  /\ LET u == CancelCalls([se EXCEPT !.typed = @ + 1, !.starting = TRUE])
     IN se' = IF t = NoTerms THEN Reset(u)
              ELSE [u EXCEPT !.terms = t, !.sub = <<se.terms, t>> \in Extends, !.timer = TRUE]

SearchTimeout == se.timer /\ se' = DoSearch(se)

\* Return, or the menu key: a search that is queued is made now.
ActivateDefault == se.timer /\ se' = DoSearch(se)

\* Answers are delivered in the order they arrive.
Answer(c) == /\ c \in se.calls /\ c.state = "sent" /\ \A d \in se.calls : d.state # "answered"
             /\ se' = [se EXCEPT !.calls = (@ \ {c}) \cup {[c EXCEPT !.state = "answered"]}]

\* The display shows results, all of whose actors there are.
Show(u, f) == [u EXCEPT !.shown = f.ids, !.busy = FALSE,
                        !.astray = @ \/ f.terms # u.results.terms]

\* updateSearch(): what is not known yet of the results is asked for first, and what was
\* asked for before is cancelled; if all is known, it is not.
UpdateSearch(u, f) ==
  IF f.ids = {} THEN [u EXCEPT !.shown = {}, !.busy = FALSE]
  ELSE IF f.ids \subseteq u.displays THEN Show(u, f)
  ELSE [CancelMetas(u) EXCEPT !.metas = @ \cup {[found |-> f, state |-> "current"]}]

\* _gotResults(): of whichever search they are.
Results(c) ==
  /\ c \in se.calls /\ c.state = "answered"
  /\ LET f == [terms |-> c.terms, ids |-> c.among \cap Matches[c.terms]]
     IN se' = UpdateSearch([se EXCEPT !.calls = @ \ {c}, !.results = f], f)

\* The call fails: it was cancelled, which calls nothing back, or the provider did.
Failed(c) ==
  /\ c \in se.calls
  /\ LET u == [se EXCEPT !.calls = @ \ {c}]
         f == [terms |-> c.terms, ids |-> {}]
     IN \/ c.state = "withdrawn" /\ se' = u
        \/ c.state = "sent" /\ se' = [UpdateSearch([u EXCEPT !.results = f], f) EXCEPT !.astray = TRUE]

\* getResultMetas() ends: with what was asked, or with nothing if it was cancelled; the
\* cancellable it was asked with has been reset since, unless the view was. The end of
\* one that was cancelled is on its way before the next is asked.
Metas(m) ==
  /\ m \in se.metas
  /\ m.state = "current" => \A n \in se.metas : n.state = "current"
  /\ LET u == [se EXCEPT !.metas = @ \ {m}]
     IN se' = IF m.state = "current"
              THEN Show([u EXCEPT !.displays = @ \cup m.found.ids], m.found)
              ELSE [u EXCEPT !.shown = {}, !.busy = FALSE]

Next == \/ \E t \in Terms \cup {NoTerms} : SetTerms(t)
        \/ SearchTimeout \/ ActivateDefault
        \/ \E c \in se.calls : Answer(c) \/ Results(c) \/ Failed(c)
        \/ \E m \in se.metas : Metas(m)

Spec == Init /\ [][Next]_seVars
-----------------------------------------------------------------------------
TypeOK == se \in State

AtRest == ~se.timer /\ se.calls = {} /\ se.metas = {}

\* When nothing is under way, the results on screen are all those of the terms that were
\* typed last, and the view does not say it is still searching; unless a subsearch
\* refined something else, an older answer was the last to be displayed or the provider
\* failed.
ShownFitsTerms == AtRest /\ ~se.astray /\ se.terms # NoTerms =>
  /\ se.shown = Matches[se.terms]
  /\ ~se.busy /\ ~se.starting

\* A subsearch refines the results of a search its terms begin with.
SubsearchRefines == \A c \in se.calls : c.base # NoTerms => Refines(c.base, c.terms)
=============================================================================
