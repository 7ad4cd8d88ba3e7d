------------------------------- MODULE Mounts -------------------------------
(***************************************************************************)
(* What mounts removable media and asks for their passwords: one volume    *)
(* from the moment it is plugged in, and the org.gtk.MountOperationHandler *)
(* that applications ask. Both use the dialogs of shellMountOperation.js   *)
(* and have nothing else in common.                                        *)
(***************************************************************************)
EXTENDS Integers

(***************************************************************************)
(* One volume: the attempts of components/automountManager.js to mount it, *)
(* the password dialogs that ShellMountOperation shows for them, and the   *)
(* offer of components/autorunManager.js to open what was mounted.         *)
(*                                                                         *)
(* Both components are disabled while the session is locked, and mount     *)
(* every volume without a dialog when they are enabled again. GVfs asks    *)
(* and answers when it likes. Volumes have nothing in common.              *)
(***************************************************************************)
CONSTANT MaxTries      \* bound: attempts to mount the volume; as many expirations

VARIABLE au   \* the volume, its attempts and dialogs, and the offer

auVars == <<au>>

Tries == 1..MaxTries
NoEntry == -1

VolumeState ==
  [enabled  : BOOLEAN,
   idle     : BOOLEAN,                   \* _mountAllId
   volume   : {"absent", "present", "removed"},
   tries    : 0..MaxTries,
   withOp   : [Tries -> BOOLEAN],        \* a ShellMountOperation, or null
   run      : [Tries -> {"none", "mounting", "asking", "replied", "canceled",
                         "mounted", "done"}],
   dialog   : [Tries -> {"none", "open", "refused", "closing", "gone"}],
   shown    : [Tries -> 0..MaxTries],    \* the operation's _dialog
   existing : [Tries -> 0..MaxTries],    \* its _existingDialog
   handler  : [Tries -> 0..MaxTries],    \* whose handler a dialog's response has
   entry    : NoEntry..MaxTries,         \* _activeOperations[volume]; 0: null
   allow    : BOOLEAN,                   \* volume.allowAutorun
   timers   : 0..(2 * MaxTries),         \* pending expirations of it
   expireId : BOOLEAN,                   \* _allowAutorunExpireId
   mount    : {"none", "mounted", "removed"},
   look     : {"waiting", "guessing", "done"},  \* 'mount-added', content types
   source   : BOOLEAN,                   \* the offer is in the message tray
   stranded : BOOLEAN,                   \* history, see MountVolume, ReaskPassword
   missed   : BOOLEAN]                   \* history: removed with nobody looking

VolumeInit ==
  au = [enabled |-> TRUE, idle |-> FALSE, volume |-> "absent", tries |-> 0,
        withOp |-> [a \in Tries |-> FALSE], run |-> [a \in Tries |-> "none"],
        dialog |-> [d \in Tries |-> "none"], shown |-> [a \in Tries |-> 0],
        existing |-> [a \in Tries |-> 0], handler |-> [d \in Tries |-> 0],
        entry |-> NoEntry, allow |-> FALSE, timers |-> 0, expireId |-> FALSE,
        mount |-> "none", look |-> "waiting", source |-> FALSE, stranded |-> FALSE,
        missed |-> FALSE]
-----------------------------------------------------------------------------
Busy(u) == {a \in 1..u.tries : u.run[a] # "done"}

\* _allowAutorunExpire()
Expiring(u) == [u EXCEPT !.timers = @ + 1, !.expireId = TRUE]

\* _mountVolume(). An attempt beyond the bound is not followed. History: with two
\* attempts at a time the first one's dialog has lost its place in the table.
MountVolume(u, withOp, existing) ==
  IF u.tries = MaxTries THEN {}
  ELSE {[u EXCEPT !.tries = @ + 1, !.withOp[u.tries + 1] = withOp,
                  !.run[u.tries + 1] = "mounting", !.existing[u.tries + 1] = existing,
                  !.entry = IF withOp THEN u.tries + 1 ELSE 0,
                  !.stranded = @ \/ Busy(u) # {}]}

\* _checkAndMountVolume(): the session, an inhibitor or the settings may forbid it.
CheckAndMount(u, withOp, allow) ==
  IF u.mount = "mounted" THEN {u}
  ELSE {u} \cup (IF u.timers < MaxTries THEN {Expiring([u EXCEPT !.allow = TRUE])} ELSE {})
       \cup MountVolume([u EXCEPT !.allow = @ \/ allow], withOp, 0)

\* ModalDialog.close()
CloseDialog(u, d) ==
  IF d # 0 /\ u.dialog[d] = "open" THEN [u EXCEPT !.dialog[d] = "closing"] ELSE u

\* ShellMountOperation.close()
CloseOf(u, a) ==
  [CloseDialog(CloseDialog(u, u.existing[a]), u.shown[a]) EXCEPT !.existing[a] = 0,
                                                                 !.shown[a] = 0]

\* Mutant of CloseOperation: the dialog is left to itself.
ForgetOperation(u) == [u EXCEPT !.entry = NoEntry]

\* _closeOperation(): a null operation stays in the table.
CloseOperation(u) ==
  IF u.entry \in {NoEntry, 0} THEN u ELSE [CloseOf(u, u.entry) EXCEPT !.entry = NoEntry]

\* _reaskPassword(), with borrowDialog(). History: a dialog that was lent to an attempt
\* that has not asked on it (a wrong password from the keyring) is not lent on.
ReaskPassword(u) ==
  LET d == IF u.entry \in {NoEntry, 0} THEN 0 ELSE u.shown[u.entry]
      v == IF d # 0 THEN [u EXCEPT !.handler[d] = 0]
           ELSE [u EXCEPT !.stranded = @ \/ (u.entry > 0 /\ u.existing[u.entry] # 0)]
  IN MountVolume(v, TRUE, d)
-----------------------------------------------------------------------------
VolumeAdded == /\ au.volume = "absent"
               /\ LET u == [au EXCEPT !.volume = "present"]
                  IN au' \in IF u.enabled THEN CheckAndMount(u, TRUE, TRUE) ELSE {u}

\* The session is unlocked: enable(), and the idle that mounts what is not mounted.
Enable == ~au.enabled /\ au' = [au EXCEPT !.enabled = TRUE, !.idle = TRUE]

Disable == au.enabled /\ au' = [au EXCEPT !.enabled = FALSE, !.idle = FALSE]

StartupMountAll ==
  /\ au.idle
  /\ LET u == [au EXCEPT !.idle = FALSE]
     IN au' \in IF u.volume = "present" THEN CheckAndMount(u, FALSE, FALSE) ELSE {u}

\* GVfs needs a password: _onAskPassword(). A borrowed dialog is open already; a new
\* one may not get the grab.
AskPassword(a) ==
  /\ au.run[a] = "mounting" /\ au.withOp[a]
  /\ LET d == IF au.existing[a] # 0 THEN au.existing[a] ELSE a
         u == [au EXCEPT !.run[a] = "asking", !.shown[a] = d, !.handler[d] = a]
     IN IF au.dialog[d] = "open" THEN au' = u
        ELSE \E s \in {"open", "refused"} : au' = [u EXCEPT !.dialog[d] = s]

\* The user answers or cancels; the dialog stays until the attempt ends.
Press(d, how) ==
  LET a == au.handler[d]
  IN /\ au.dialog[d] = "open" /\ a # 0 /\ au.run[a] = "asking"
     /\ au' = [au EXCEPT !.run[a] = how]

\* GVfs takes its question back: 'aborted'.
Aborted(a) == /\ au.run[a] = "asking"
              /\ au' = [CloseOf(au, a) EXCEPT !.run[a] = "canceled"]

Faded(d) == au.dialog[d] = "closing" /\ au' = [au EXCEPT !.dialog[d] = "gone"]

\* GVfs has mounted the volume; 'mount-added' and the end of the attempt follow in
\* any order.
MountDone(a) == /\ au.run[a] \in {"mounting", "replied"} /\ au.mount = "none"
                /\ au.volume = "present"
                /\ au' = [au EXCEPT !.run[a] = "mounted", !.mount = "mounted"]

\* The attempt ends: _onVolumeMounted().
VolumeMounted(a) ==
  /\ au.run[a] \in {"mounting", "replied", "canceled", "mounted"}
  /\ LET u == Expiring([au EXCEPT !.run[a] = "done"])
     IN \/ au' = CloseOperation(u)
        \/ au.run[a] \in {"mounting", "replied"} /\ au' \in ReaskPassword(u)

\* 'mount-added': the content types are guessed, and sniffed if need be.
MountAdded == /\ au.mount # "none" /\ au.look = "waiting"
              /\ au' \in {[au EXCEPT !.look = "done"]}
                         \cup (IF au.enabled THEN {[au EXCEPT !.look = "guessing"]} ELSE {})

\* addMount(), with the content types: the settings may say to ignore the mount or
\* to start an application instead.
AddMount ==
  /\ au.look = "guessing"
  /\ LET u == [au EXCEPT !.look = "done"]
     IN au' \in {u} \cup (IF u.allow THEN {[u EXCEPT !.source = TRUE]} ELSE {})

\* Mutant of MountRemoved: the offer stays.
RemoveQuietly == au.mount = "mounted" /\ au' = [au EXCEPT !.mount = "removed"]

\* 'mount-removed': removeMount()
MountRemoved ==
  /\ au.mount = "mounted"
  /\ au' = [au EXCEPT !.mount = "removed", !.source = @ /\ ~au.enabled,
                      !.missed = ~au.enabled \/ au.look # "done"]

\* The user closes or follows the offer.
TakeOffer == au.source /\ au' = [au EXCEPT !.source = FALSE]

VolumeRemoved ==
  /\ au.volume = "present"
  /\ LET u == [au EXCEPT !.volume = "removed"]
     IN au' = IF u.enabled /\ u.expireId THEN [u EXCEPT !.expireId = FALSE, !.timers = @ - 1]
              ELSE u

Expire == au.timers > 0 /\ au' = [au EXCEPT !.timers = @ - 1, !.allow = FALSE,
                                            !.expireId = FALSE]

VolumeNext ==
  \/ VolumeAdded \/ Enable \/ Disable \/ StartupMountAll \/ MountAdded \/ AddMount
  \/ MountRemoved \/ TakeOffer \/ VolumeRemoved \/ Expire
  \/ \E a \in Tries : AskPassword(a) \/ Aborted(a) \/ Faded(a) \/ MountDone(a)
                      \/ VolumeMounted(a)
  \/ \E d \in Tries, how \in {"replied", "canceled"} : Press(d, how)

VolumeSpec == VolumeInit /\ [][VolumeNext]_auVars
-----------------------------------------------------------------------------
VolumeTypeOK == au \in VolumeState

\* A password dialog is on screen only for an attempt that still runs: the one that
\* asks on it, or the one that borrowed it. Not so after two attempts at a time, which
\* happen when the session is unlocked over a dialog: the second one takes the first
\* one's place in the table, so that nobody closes the first one's dialog; nor after
\* a loan to an attempt that fails before it asks.
DialogHasAttempt == ~au.stranded => \A d \in Tries : au.dialog[d] = "open" =>
  \E a \in Busy(au) : au.handler[d] = a \/ au.existing[a] = d

\* An attempt that asks can be answered: the dialog that its operation shows is its
\* own or one it borrowed, reports to this attempt, and is open unless it was refused
\* the grab. A wrong password never leaves two dialogs.
AskingIsAnswerable == ~au.stranded => \A a \in Tries : au.run[a] = "asking" =>
  /\ au.shown[a] # 0 /\ au.handler[au.shown[a]] = a
  /\ au.dialog[au.shown[a]] \in {"open", "refused"}
  /\ \A d \in Tries : au.dialog[d] = "open" => d = au.shown[a]

\* What is offered is mounted, and its removal takes the offer back; not so for a
\* mount that was removed while its content was guessed or the session was locked.
OfferIsMounted == au.source => au.mount = "mounted" \/ au.missed
-----------------------------------------------------------------------------
(***************************************************************************)
(* The handler: applications ask for passwords, questions and lists of     *)
(* processes on behalf of their own mount operations, all of them through  *)
(* one dialog and one current request.                                     *)
(***************************************************************************)
CONSTANTS Ids,         \* the operations, each with its sender: _currentId
          MaxAsks      \* bound: calls

VARIABLE mh   \* the handler, its calls and the dialogs they made

mhVars == <<mh>>

Asks == 1..MaxAsks
Types == {"ASK_PASSWORD", "ASK_QUESTION", "SHOW_PROCESSES"}
NoId == "none"

HandlerState ==
  [asked  : 0..MaxAsks,
   id     : [Asks -> Ids \cup {NoId}],         \* what the calls are for
   type   : [Asks -> Types \cup {"NONE"}],
   current: 0..MaxAsks,                        \* _currentInvocation, its id and type
   dialog : 0..MaxAsks,                        \* _dialog, by the call that made it
   state  : [Asks -> {"none", "open", "refused", "closing", "gone"}],
   answer : [Asks -> {"none", "HANDLED", "ABORTED", "UNHANDLED"}],
   by     : [Asks -> 0..MaxAsks]]              \* history: the dialog that answered

HandlerInit ==
  mh = [asked |-> 0, id |-> [n \in Asks |-> NoId], type |-> [n \in Asks |-> "NONE"],
        current |-> 0, dialog |-> 0, state |-> [n \in Asks |-> "none"],
        answer |-> [n \in Asks |-> "none"], by |-> [n \in Asks |-> 0]]
-----------------------------------------------------------------------------
\* _clearCurrentRequest(), on behalf of the dialog d or of nobody (0).
ClearCurrentRequest(u, a, d) ==
  IF u.current = 0 THEN u
  ELSE [u EXCEPT !.answer[u.current] = a, !.by[u.current] = d, !.current = 0]

\* Mutant of CloseRequestDialog: the dialog is only forgotten.
ForgetDialog(u) == [u EXCEPT !.dialog = 0]

\* _closeDialog(): a dialog that was refused the grab never opened.
CloseRequestDialog(u) ==
  IF u.dialog = 0 THEN u
  ELSE [u EXCEPT !.state[u.dialog] = IF @ = "open" THEN "closing" ELSE @, !.dialog = 0]

\* _setCurrentRequest() returns whether the dialog there is can be used again: the
\* request before was of the same operation and kind. One that was answered has left
\* no id behind.
SameRequest(u, i, t) ==
  u.dialog # 0 /\ u.current # 0 /\ u.id[u.current] = i /\ u.type[u.current] = t

\* AskPassword(), AskQuestion() and ShowProcesses(): the call before is answered first,
\* then the dialog is updated, or replaced by one that may be refused the grab.
Ask(i, t) ==
  /\ mh.asked < MaxAsks
  /\ LET n == mh.asked + 1
         u == [ClearCurrentRequest(mh, "UNHANDLED", 0) EXCEPT
                 !.asked = n, !.current = n, !.id[n] = i, !.type[n] = t]
     IN IF SameRequest(mh, i, t) THEN mh' = u
        ELSE \E s \in {"open", "refused"} :
               mh' = [CloseRequestDialog(u) EXCEPT !.dialog = n, !.state[n] = s]

\* A button: 'response'. A question has no cancel. The dialog stays, and may be
\* answered once more.
Respond(d, a) == /\ mh.state[d] = "open"
                 /\ a = "ABORTED" => mh.type[d] # "ASK_QUESTION"
                 /\ mh' = ClearCurrentRequest(mh, a, d)

\* Close(), from any application.
Close == mh' = CloseRequestDialog(ClearCurrentRequest(mh, "UNHANDLED", 0))

RequestFaded(d) == mh.state[d] = "closing" /\ mh' = [mh EXCEPT !.state[d] = "gone"]

HandlerNext ==
  \/ \E i \in Ids, t \in Types : Ask(i, t)
  \/ \E d \in Asks, a \in {"HANDLED", "ABORTED"} : Respond(d, a)
  \/ Close
  \/ \E d \in Asks : RequestFaded(d)

HandlerSpec == HandlerInit /\ [][HandlerNext]_mhVars
-----------------------------------------------------------------------------
HandlerTypeOK == mh \in HandlerState

\* A call that waits is the current one, and the dialog on screen is of its operation
\* and kind, unless the grab was refused; there is never another dialog.
WaitingIsOnScreen ==
  /\ \A n \in 1..mh.asked : mh.answer[n] = "none" =>
       /\ n = mh.current /\ mh.dialog # 0
       /\ mh.id[mh.dialog] = mh.id[n] /\ mh.type[mh.dialog] = mh.type[n]
       /\ mh.state[mh.dialog] \in {"open", "refused"}
  /\ \A d \in Asks : mh.state[d] = "open" => d = mh.dialog

\* What the user answers goes to a call of the operation and the kind that the dialog
\* was made for, although calls take the dialog over from one another.
AnswerFitsQuestion == \A n \in Asks : mh.by[n] # 0 =>
  mh.id[mh.by[n]] = mh.id[n] /\ mh.type[mh.by[n]] = mh.type[n]
=============================================================================
