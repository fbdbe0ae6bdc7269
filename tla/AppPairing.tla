----------------------------- MODULE AppPairing -----------------------------
(***************************************************************************)
(* Pairing from the app: the saved profile, the core that was verified but *)
(* not enrolled with yet, and the link, as main.dart's _pair, _enroll,     *)
(* _connectPaired and _forget move them from one await to the next         *)
(* (app/lib/main.dart, pairing_client.dart, profile_store.dart).  The core *)
(* is its Enrollment specification plus what is verified under its code;   *)
(* the link is CoreController's.                                           *)
(***************************************************************************)
EXTENDS Naturals, FiniteSets

CONSTANTS
    Devices,      \* identities the app may create, a new one for each pairing
    Connects,     \* calls of _connectPaired that can be under way together
    None,         \* no identity
    MaxAsks,      \* bound: connects, disconnects and forgets
    MaxRestarts,  \* bound: restarts of the app
    MaxFaults     \* bound: calls of the storage that fail and answers that are lost

ASSUME NoIdentity == None \notin Devices
ASSUME FiniteAssumption == IsFiniteSet(Devices) /\ IsFiniteSet(Connects)
ASSUME BoundsAssumption == MaxAsks \in Nat /\ MaxRestarts \in Nat /\ MaxFaults \in Nat

VARIABLES
    code,     \* core: a code is good
    proven,   \* core: the identities verified under it
    records,  \* core: the standing of each identity
    store,    \* what the secure storage holds
    app,      \* the fields of the home screen, and the controller's
    step,     \* where _loadProfile, _pair or _enroll is; one at a time
    forget,   \* where _forget is
    pc, arg,  \* where each _connectPaired is; its profile and generation, and whether _enroll waits
    count     \* asks, restarts, faults and forgets so far
core == <<code, proven, records>>
vars == <<code, proven, records, store, app, step, forget, pc, arg, count>>

NoArg == [id |-> None, gen |-> 0, enroll |-> FALSE]
MaxGen == MaxAsks + Cardinality(Devices) + 1

TypeOK ==
    /\ code \in BOOLEAN /\ proven \subseteq Devices /\ (proven # {} => code)
    /\ records \in [Devices -> {"none", "active", "revoked"}]
    /\ store \in Devices \cup {None}
    /\ app \in [profile : Devices \cup {None}, verified : Devices \cup {None},
                link : Devices \cup {None}, connecting : BOOLEAN, gen : 0..MaxGen]
    /\ step \in [at : {"load", "idle", "pair", "enroll", "save", "connect"}, id : Devices \cup {None}]
    /\ forget \in {"idle", "vpn", "delete", "signout"}
    /\ pc \in [Connects -> {"idle", "seed", "wait"}]
    /\ arg \in [Connects -> [id : Devices \cup {None}, gen : 0..MaxGen, enroll : BOOLEAN]]
    /\ count \in [asks : 0..MaxAsks, restarts : 0..MaxRestarts, faults : 0..MaxFaults, forgets : 0..MaxAsks]

Fresh == [profile |-> None, verified |-> None, link |-> None, connecting |-> FALSE, gen |-> 0]
Loading == [at |-> "load", id |-> None]
Free == [at |-> "idle", id |-> None]

Init ==
    /\ code = FALSE /\ proven = {} /\ records = [d \in Devices |-> "none"]
    /\ store = None /\ app = Fresh /\ step = Loading /\ forget = "idle"
    /\ pc = [c \in Connects |-> "idle"] /\ arg = [c \in Connects |-> NoArg]
    /\ count = [asks |-> 0, restarts |-> 0, faults |-> 0, forgets |-> 0]

Ask == count.asks < MaxAsks /\ count' = [count EXCEPT !.asks = @ + 1]
Fault == count.faults < MaxFaults /\ count' = [count EXCEPT !.faults = @ + 1]

-----------------------------------------------------------------------------
(***************************************************************************)
(* The core.                                                               *)
(***************************************************************************)
NewCode ==
    /\ code' = TRUE /\ proven' = {}
    /\ UNCHANGED <<records, store, app, step, forget, pc, arg, count>>

CodeLapses ==
    /\ code /\ code' = FALSE /\ proven' = {}
    /\ UNCHANGED <<records, store, app, step, forget, pc, arg, count>>

Revoke(d) ==
    /\ records[d] = "active" /\ records' = [records EXCEPT ![d] = "revoked"]
    /\ UNCHANGED <<code, proven, store, app, step, forget, pc, arg, count>>

-----------------------------------------------------------------------------
(***************************************************************************)
(* _loadProfile, _pair and _enroll.                                        *)
(***************************************************************************)
Begin(c) == pc[c] = "idle" /\ pc' = [pc EXCEPT ![c] = "seed"]
For(c, profile, enroll) == arg' = [arg EXCEPT ![c] = [id |-> profile, gen |-> 0, enroll |-> enroll]]

\* A saved pairing connects by itself.
Load ==
    /\ step.at = "load" /\ step' = Free /\ app' = [app EXCEPT !.profile = store]
    /\ IF store = None THEN UNCHANGED <<pc, arg>> ELSE \E c \in Connects : Begin(c) /\ For(c, store, FALSE)
    /\ UNCHANGED <<core, store, forget, count>>

LoadFails ==
    /\ step.at = "load" /\ step' = Free /\ Fault
    /\ UNCHANGED <<core, store, app, forget, pc, arg>>

Unlinked == app.link = None /\ step.at = "idle"

\* Mutant: a device that is paired can pair again.
PairAgain(d) ==
    /\ Unlinked /\ app.verified = None /\ records[d] = "none" /\ d \notin proven
    /\ step' = [at |-> "pair", id |-> d]
    /\ UNCHANGED <<core, store, app, forget, pc, arg, count>>

\* The form is shown when nothing is saved.
Pair(d) ==
    /\ Unlinked /\ app.profile = None /\ app.verified = None
    /\ records[d] = "none" /\ d \notin proven
    /\ step' = [at |-> "pair", id |-> d]
    /\ UNCHANGED <<core, store, app, forget, pc, arg, count>>

\* The exchange proves the code to both.
Paired ==
    /\ step.at = "pair" /\ code /\ proven' = proven \cup {step.id}
    /\ app' = [app EXCEPT !.verified = step.id] /\ step' = Free
    /\ UNCHANGED <<code, records, store, forget, pc, arg, count>>

\* The exchange fails, at the core or on its way back.
PairFails ==
    /\ step.at = "pair" /\ step' = Free
    /\ proven' \in {proven} \cup (IF code THEN {proven \cup {step.id}} ELSE {})
    /\ UNCHANGED <<code, records, store, app, forget, pc, arg, count>>

Enroll ==
    /\ Unlinked /\ app.verified # None
    /\ step' = [at |-> "enroll", id |-> app.verified]
    /\ UNCHANGED <<core, store, app, forget, pc, arg, count>>

\* The core adds the device and uses the code up.
Enrolls ==
    /\ step.at = "enroll" /\ step.id \in proven
    /\ records' = [records EXCEPT ![step.id] = "active"] /\ code' = FALSE /\ proven' = {}

\* Mutant: the profile is saved as soon as the core was verified.
EnrolledEarly ==
    /\ step.at = "enroll" /\ step' = [step EXCEPT !.at = "save"]
    /\ app' = [app EXCEPT !.verified = None]
    /\ UNCHANGED <<core, store, forget, pc, arg, count>>

Enrolled ==
    /\ Enrolls /\ step' = [step EXCEPT !.at = "save"]
    /\ app' = [app EXCEPT !.verified = None]
    /\ UNCHANGED <<store, forget, pc, arg, count>>

\* A wrong password, or a request that got nowhere.
EnrollFails ==
    /\ step.at = "enroll" /\ step' = Free
    /\ UNCHANGED <<core, store, app, forget, pc, arg, count>>

EnrollLost ==
    /\ Enrolls /\ Fault /\ step' = Free
    /\ UNCHANGED <<store, app, forget, pc, arg>>

\* 410: the key made for this pairing is dropped with it.
EnrollRefused ==
    /\ step.at = "enroll" /\ step.id \notin proven
    /\ app' = [app EXCEPT !.verified = None] /\ step' = Free
    /\ UNCHANGED <<core, store, forget, pc, arg, count>>

UseNewCode ==
    /\ Unlinked /\ app.verified # None /\ app' = [app EXCEPT !.verified = None]
    /\ UNCHANGED <<core, store, step, forget, pc, arg, count>>

Save ==
    /\ step.at = "save" /\ store' = step.id /\ app' = [app EXCEPT !.profile = step.id]
    /\ step' = [step EXCEPT !.at = "connect"]
    /\ \E c \in Connects : Begin(c) /\ For(c, step.id, TRUE)
    /\ UNCHANGED <<core, forget, count>>

SaveFails ==
    /\ step.at = "save" /\ step' = Free /\ Fault
    /\ UNCHANGED <<core, store, app, forget, pc, arg>>

-----------------------------------------------------------------------------
(***************************************************************************)
(* _connectPaired and the controller's connect and disconnect.             *)
(***************************************************************************)
Remembered == app.profile # None /\ Unlinked /\ ~app.connecting

PressConnect(c) ==
    /\ Remembered /\ Ask /\ Begin(c) /\ For(c, app.profile, FALSE)
    /\ UNCHANGED <<core, store, app, step, forget>>

Ends(c) ==
    /\ pc' = [pc EXCEPT ![c] = "idle"] /\ arg' = [arg EXCEPT ![c] = NoArg]
    /\ step' = IF arg[c].enroll THEN Free ELSE step

\* The key is read; a profile replaced meanwhile, or a connect under way, ends the call.
Connect(c) ==
    /\ pc[c] = "seed"
    /\ IF app.profile = arg[c].id /\ ~app.connecting
       THEN /\ app' = [app EXCEPT !.link = None, !.connecting = TRUE, !.gen = @ + 1]
            /\ pc' = [pc EXCEPT ![c] = "wait"] /\ arg' = [arg EXCEPT ![c].gen = app.gen + 1]
            /\ UNCHANGED step
       ELSE Ends(c) /\ UNCHANGED app
    /\ UNCHANGED <<core, store, forget, count>>

Connected(c) ==
    /\ pc[c] = "wait" /\ Ends(c)
    /\ \E linked \in {None} \cup {d \in {arg[c].id} : records[d] = "active"} :
          app' = IF arg[c].gen # app.gen THEN app
                 ELSE [app EXCEPT !.link = linked, !.connecting = FALSE]
    /\ UNCHANGED <<core, store, forget, count>>

Closed == [app EXCEPT !.link = None, !.connecting = FALSE, !.gen = @ + 1]

Disconnect ==
    /\ app.link # None /\ Ask /\ app' = Closed
    /\ UNCHANGED <<core, store, step, forget, pc, arg>>

-----------------------------------------------------------------------------
(***************************************************************************)
(* _forget: the VPN, the storage, the link, and last the fields.           *)
(***************************************************************************)
Forget ==
    /\ Remembered /\ forget = "idle" /\ Ask /\ forget' = "vpn"
    /\ UNCHANGED <<core, store, app, step, pc, arg>>

\* vpn.disconnect may fail, and so may the storage: nothing is forgotten.
ForgetFails ==
    /\ forget \in {"vpn", "delete"} /\ forget' = "idle" /\ Fault
    /\ UNCHANGED <<core, store, app, step, pc, arg>>

Disconnected ==
    /\ forget = "vpn" /\ forget' = "delete"
    /\ UNCHANGED <<core, store, app, step, pc, arg, count>>

Gone(a) == [a EXCEPT !.profile = None, !.verified = None]

\* Only a session that is open keeps disconnect waiting.
Deleted ==
    /\ forget = "delete" /\ store' = None
    /\ IF app.link = None THEN app' = Gone(Closed) /\ forget' = "idle"
       ELSE app' = Closed /\ forget' = "signout"
    /\ count' = [count EXCEPT !.forgets = @ + 1]
    /\ UNCHANGED <<core, step, pc, arg>>

SignedOut ==
    /\ forget = "signout" /\ forget' = "idle" /\ app' = Gone(app)
    /\ UNCHANGED <<core, store, step, pc, arg, count>>

AppRestart ==
    /\ count.restarts < MaxRestarts /\ count' = [count EXCEPT !.restarts = @ + 1]
    /\ app' = Fresh /\ step' = Loading /\ forget' = "idle"
    /\ pc' = [c \in Connects |-> "idle"] /\ arg' = [c \in Connects |-> NoArg]
    /\ UNCHANGED <<core, store>>

Next ==
    \/ NewCode \/ CodeLapses \/ \E d \in Devices : Revoke(d) \/ Pair(d)
    \/ Load \/ LoadFails \/ Paired \/ PairFails
    \/ Enroll \/ Enrolled \/ EnrollFails \/ EnrollLost \/ EnrollRefused \/ UseNewCode
    \/ Save \/ SaveFails
    \/ \E c \in Connects : PressConnect(c) \/ Connect(c) \/ Connected(c)
    \/ Disconnect \/ Forget \/ ForgetFails \/ Disconnected \/ Deleted \/ SignedOut \/ AppRestart

Spec == Init /\ [][Next]_vars

-----------------------------------------------------------------------------
(***************************************************************************)
(* Properties.                                                             *)
(***************************************************************************)
\* What is saved is a device the core authorized: a verification that was not enrolled is
\* never kept, whatever was lost.
SavedIsAuthorized == store # None => records[store] # "none"

\* The types, and what is saved.
Inv == TypeOK /\ SavedIsAuthorized

\* An authorized device whose key nobody has left is due to a lost answer, a storage that
\* failed, a restart before the save, or a forget; nothing else strands one.
Keys == {store, app.profile, app.verified, step.id}
RecordsHeld ==
    Cardinality({d \in Devices : records[d] = "active" /\ d \notin Keys})
        <= count.faults + count.restarts + count.forgets
=============================================================================
