------------------------------- MODULE Agents -------------------------------
(* The agents that ask the user on behalf of others: NetworkManager's for secrets, what *)
(* mounts volumes and asks for their passwords, the handler of other applications'      *)
(* mount operations, GDM for who the user is, and the logins to captive portals; the    *)
(* network menu and the search, which show what NetworkManager and the applications     *)
(* have; and the extensions, the code of others that runs in the shell. They share no   *)
(* state in the shell, so a behaviour is about one of them, the subject.                *)
EXTENDS Integers, FiniteSets

CONSTANTS NetworkAsks,            \* bounds: requests of NetworkManager
          VolumeTries,            \* attempts to mount a volume
          MountIds, MountAsks,    \* the operations of applications, and their calls
          PortalPaths, PortalAsks,\* active connections, and the times the helper is asked
          DeviceIds, ConnectionIds, VpnIds, \* what the network menu may list
          SearchTerms, LongerThan,\* what may be typed; <<t, u>>: t begins u
          SearchIds, MatchesFor,  \* the results there are, and those for each of the terms
          SearchKeys,             \* bound: the keys typed
          ExtensionIds,           \* the extensions there may be
          OutdatedIds,            \* those for another version of the shell
          ExtensionFaults,        \* bound: their calls that throw
          LoginTries,             \* bound: the attempts to verify a user
          LoginFailures           \* the failures that the greeter allows

ASSUME AgentsAssumption ==
  /\ NetworkAsks \in Nat /\ VolumeTries \in Nat /\ MountAsks \in Nat /\ PortalAsks \in Nat
  /\ IsFiniteSet(ExtensionIds) /\ ExtensionFaults \in Nat
  /\ LoginTries \in Nat \ {0} /\ LoginFailures \in Nat

ASSUME SectionsAssumption == ConnectionIds \cap VpnIds = {} /\ "none" \notin ConnectionIds

\* A term that begins with another matches no more than that one does: a provider answers
\* a subsearch from among the results it is given.
ASSUME SearchAssumption ==
  /\ "none" \notin SearchTerms /\ SearchKeys \in Nat
  /\ MatchesFor \in [SearchTerms -> SUBSET SearchIds]
  /\ \A t, u \in SearchTerms : <<t, u>> \in LongerThan => MatchesFor[u] \subseteq MatchesFor[t]

VARIABLES subject,   \* the component that the behaviour is about
          state      \* and its state

NetworkAgent == INSTANCE NetworkAgent WITH na <- state, MaxAsks <- NetworkAsks
Automount == INSTANCE Mounts WITH
  au <- state, mh <- state, MaxTries <- VolumeTries, Ids <- MountIds, MaxAsks <- MountAsks
MountHandler == INSTANCE Mounts WITH
  mh <- state, au <- state, MaxTries <- VolumeTries, Ids <- MountIds, MaxAsks <- MountAsks
NetworkMenu == INSTANCE NetworkMenu WITH
  ns <- state, Devices <- DeviceIds, Connections <- ConnectionIds, Vpns <- VpnIds,
  portal <- state, Paths <- PortalPaths, MaxAsks <- PortalAsks,
  wd <- state, APs <- {}, NetOf <- <<>>, Strength <- <<>>, Known <- {}
Search == INSTANCE Search WITH
  se <- state, Terms <- SearchTerms, Extends <- LongerThan, Ids <- SearchIds,
  Matches <- MatchesFor, MaxTyped <- SearchKeys
ExtensionSystem == INSTANCE ExtensionSystem WITH
  ext <- state, Extensions <- ExtensionIds, Outdated <- OutdatedIds,
  MaxFaults <- ExtensionFaults
UserVerifier == INSTANCE UserVerifier WITH
  uv <- state, MaxAttempts <- LoginTries, Allowed <- LoginFailures

AgentsInit ==
  \/ subject = "NetworkAgent" /\ NetworkAgent!Init
  \/ subject = "Automount" /\ Automount!VolumeInit
  \/ subject = "MountHandler" /\ MountHandler!HandlerInit
  \/ subject = "PortalLogin" /\ NetworkMenu!PortalInit
  \/ subject = "NetworkSections" /\ NetworkMenu!SectionsInit
  \/ subject = "Search" /\ Search!Init
  \/ subject = "ExtensionSystem" /\ ExtensionSystem!Init
  \/ subject = "UserVerifier" /\ UserVerifier!Init

AgentsNext ==
  \/ subject = "NetworkAgent" /\ NetworkAgent!Next /\ UNCHANGED subject
  \/ subject = "Automount" /\ Automount!VolumeNext /\ UNCHANGED subject
  \/ subject = "MountHandler" /\ MountHandler!HandlerNext /\ UNCHANGED subject
  \/ subject = "PortalLogin" /\ NetworkMenu!PortalNext /\ UNCHANGED subject
  \/ subject = "NetworkSections" /\ NetworkMenu!SectionsNext /\ UNCHANGED subject
  \/ subject = "Search" /\ Search!Next /\ UNCHANGED subject
  \/ subject = "ExtensionSystem" /\ ExtensionSystem!Next /\ UNCHANGED subject
  \/ subject = "UserVerifier" /\ UserVerifier!Next /\ UNCHANGED subject

AgentsSpec == AgentsInit /\ [][AgentsNext]_<<subject, state>>
-----------------------------------------------------------------------------
\* Whoever asks the user is answered or is still being asked, by the dialog of the request
\* that waits; a prompt for a password never goes dead, and its answer goes to who asked;
\* the network menu marks what is active and the search ends with the results of what was
\* typed; and an extension that does not throw runs exactly when it should. Every part is
\* stated, with what it excepts, in its component's module.
AgentsAnswer ==
  /\ subject = "NetworkAgent" => /\ NetworkAgent!TypeOK
                                 /\ NetworkAgent!LiveIsAsked
                                 /\ NetworkAgent!DialogIsLive
  /\ subject = "Automount" => /\ Automount!VolumeTypeOK
                              /\ Automount!DialogHasAttempt
                              /\ Automount!AskingIsAnswerable
                              /\ Automount!OfferIsMounted
  /\ subject = "MountHandler" => /\ MountHandler!HandlerTypeOK
                                 /\ MountHandler!WaitingIsOnScreen
                                 /\ MountHandler!AnswerFitsQuestion
  /\ subject = "PortalLogin" => /\ NetworkMenu!PortalTypeOK
                                /\ NetworkMenu!QueueIsShown
  /\ subject = "NetworkSections" => /\ NetworkMenu!SectionsTypeOK
                                    /\ NetworkMenu!ActiveIsMarked
  /\ subject = "Search" => /\ Search!TypeOK
                           /\ Search!ShownFitsTerms
  /\ subject = "ExtensionSystem" => /\ ExtensionSystem!TypeOK
                                    /\ ExtensionSystem!EnabledAsWanted
  /\ subject = "UserVerifier" => /\ UserVerifier!TypeOK
                                 /\ UserVerifier!PromptGoesOn
                                 /\ UserVerifier!AnswerGoesToAsker

\* Extensions come and go like a stack, whatever is enabled, replaced or throws.
ExtensionsKeepOrder == [][subject = "ExtensionSystem" => ExtensionSystem!KeepsOrder]_state
=============================================================================
