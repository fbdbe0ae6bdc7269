------------------------------- MODULE CoreVPN -------------------------------
(***************************************************************************)
(* The core and its VPN helper together: handlers of the core ask the      *)
(* helper over a socket (core/internal/vpn/client.go) and give up after    *)
(* six seconds, with Server.mu held or not, while the helper goes on with  *)
(* the request under its own mutex.  The two share the device records,     *)
(* which the core writes and the helper reads.  What each side does in     *)
(* full is in Sessions and VPNManager; here the helper's peers are the     *)
(* devices of its map and of its file.                                     *)
(***************************************************************************)
EXTENDS Naturals

CONSTANTS
    Devices,      \* paired devices
    Calls,        \* requests that can be under way together
    None,         \* nobody
    MaxRestarts,  \* bound: restarts of the core and of the helper
    MaxFaults     \* bound: commands and saves of the helper that fail

ASSUME NoDevice == None \notin Devices \cup Calls
ASSUME BoundsAssumption == MaxRestarts \in Nat /\ MaxFaults \in Nat

VARIABLES
    authorized,  \* the device records: devices that are not revoked
    mu,          \* core: who holds Server.mu
    pc,          \* core: where each handler is
    req,         \* what each handler does, and for which device
    configured,  \* vpn-enabled exists
    up,          \* the helper serves its socket
    helper,      \* helper: where its handler of each request is
    hmu,         \* helper: who holds Manager.mu
    peers,       \* helper: the devices of its map
    stored,      \* helper: those of peers.json
    confirmed,   \* history: devices whose revocation was answered without a warning
    given,       \* history: devices told of a registration, with no removal asked for since
    count        \* restarts and faults so far
core == <<authorized, mu, pc, req>>
vars == <<authorized, mu, pc, req, configured, up, helper, hmu, peers, stored, confirmed, given, count>>

TypeOK ==
    /\ authorized \subseteq Devices /\ peers \subseteq Devices /\ stored \subseteq Devices
    /\ mu \in Calls \cup {None} /\ hmu \in Calls \cup {None}
    /\ pc \in [Calls -> {"idle", "lock", "asks"}]
    /\ req \in [Calls -> [op : {"register", "disconnect", "revoke"}, id : Devices \cup {None}]]
    /\ \A c \in Calls : mu = c <=> pc[c] = "asks" /\ req[c].op # "disconnect"
    /\ helper \in [Calls -> {"idle", "queued", "reconcile", "change"}]
    /\ \A c \in Calls : hmu = c <=> helper[c] \in {"reconcile", "change"}
    /\ configured \in BOOLEAN /\ up \in BOOLEAN
    /\ confirmed \subseteq Devices /\ given \subseteq Devices
    /\ count \in [restarts : 0..MaxRestarts, faults : 0..MaxFaults]

NoRequest == [op |-> "disconnect", id |-> None]

Init ==
    /\ authorized = Devices /\ mu = None
    /\ pc = [c \in Calls |-> "idle"] /\ req = [c \in Calls |-> NoRequest]
    /\ configured = FALSE /\ up = FALSE
    /\ helper = [c \in Calls |-> "idle"] /\ hmu = None /\ peers = {} /\ stored = {}
    /\ confirmed = {} /\ given = {} /\ count = [restarts |-> 0, faults |-> 0]

Bounded(what, max) == count[what] < max /\ count' = [count EXCEPT ![what] = @ + 1]
Removes(c, d) == req[c].id = d /\ req[c].op # "register" /\ (pc[c] # "idle" \/ helper[c] # "idle")

-----------------------------------------------------------------------------
(***************************************************************************)
(* Handlers of the core.                                                   *)
(***************************************************************************)
\* The request does not reach a helper that does not listen, and none at all when the core
\* dies just now, after what it saved.
Send(c) ==
    /\ pc' = [pc EXCEPT ![c] = "asks"]
    /\ \/ UNCHANGED helper
       \/ up /\ helper' = [helper EXCEPT ![c] = "queued"]

\* vpnPeer and vpnDisconnect authenticate the device; revoke may come from another one.
Begin(c, op, d) ==
    /\ pc[c] = "idle" /\ helper[c] = "idle"
    /\ op # "revoke" => d \in authorized
    /\ req' = [req EXCEPT ![c] = [op |-> op, id |-> d]]
    /\ given' = IF op = "register" THEN given ELSE given \ {d}
    /\ IF op = "disconnect" THEN Send(c) ELSE pc' = [pc EXCEPT ![c] = "lock"] /\ UNCHANGED helper
    /\ UNCHANGED <<authorized, mu, configured, up, hmu, peers, stored, confirmed, count>>

\* With Server.mu: a registration needs an active device, and a revocation is in the records
\* before the removal is asked, also that of a device revoked before, which is asked again.
\* A revocation is refused when its save fails or the device that asks was revoked itself.
Lock(c) ==
    /\ pc[c] = "lock" /\ mu = None
    /\ \/ /\ req[c].op = "revoke" \/ req[c].id \in authorized
          /\ mu' = c /\ Send(c)
          /\ authorized' = IF req[c].op = "revoke" THEN authorized \ {req[c].id} ELSE authorized
       \/ /\ req[c].op = "revoke" \/ req[c].id \notin authorized
          /\ pc' = [pc EXCEPT ![c] = "idle"]
          /\ UNCHANGED <<mu, helper, authorized>>
    /\ UNCHANGED <<req, configured, up, hmu, peers, stored, confirmed, given, count>>

\* What the core answers once the helper did, or could not be asked.
Answer(c, ok) ==
    LET d == req[c].id IN
    /\ pc' = [pc EXCEPT ![c] = "idle"]
    /\ mu' = IF mu = c THEN None ELSE mu
    /\ confirmed' = IF ok /\ req[c].op = "revoke" THEN confirmed \cup {d} ELSE confirmed
    /\ given' = IF ok /\ req[c].op = "register" /\ \A o \in Calls : ~Removes(o, d)
                THEN given \cup {d} ELSE given

\* Remove counts as done when there is no VPN.
Unavailable(c) ==
    /\ pc[c] = "asks" /\ helper[c] = "idle"
    /\ Answer(c, req[c].op # "register" /\ ~configured)
    /\ UNCHANGED <<authorized, req, configured, up, helper, hmu, peers, stored, count>>

\* Mutant: the core waits for as long as the helper takes.
WaitOn(c) ==
    /\ pc[c] = "asks" /\ helper[c] = "idle" /\ up /\ Answer(c, FALSE)
    /\ UNCHANGED <<authorized, req, configured, up, helper, hmu, peers, stored, count>>

\* The core gives up after six seconds; the helper does not notice.
TimeOut(c) ==
    /\ pc[c] = "asks" /\ helper[c] # "idle"
    /\ Answer(c, req[c].op # "register" /\ ~configured)
    /\ UNCHANGED <<authorized, req, configured, up, helper, hmu, peers, stored, count>>

\* The helper's requests go on without the core.
CoreRestart ==
    /\ Bounded("restarts", MaxRestarts)
    /\ mu' = None /\ pc' = [c \in Calls |-> "idle"]
    /\ UNCHANGED <<authorized, req, configured, up, helper, hmu, peers, stored, confirmed, given>>

-----------------------------------------------------------------------------
(***************************************************************************)
(* The helper.                                                             *)
(***************************************************************************)
Reply(c, ok) ==
    /\ helper' = [helper EXCEPT ![c] = "idle"]
    /\ hmu' = IF hmu = c THEN None ELSE hmu
    /\ IF pc[c] = "asks" THEN Answer(c, ok) ELSE UNCHANGED <<pc, mu, confirmed, given>>

To(c, at) == helper' = [helper EXCEPT ![c] = at] /\ hmu' = c

\* Mutant: register reads the records before it takes the mutex.
TakeRead(c) ==
    /\ helper[c] = "queued"
    /\ IF req[c].op # "register" THEN hmu = None /\ To(c, "change")
       ELSE req[c].id \in authorized /\ helper' = [helper EXCEPT ![c] = "change"] /\ UNCHANGED hmu
    /\ UNCHANGED <<pc, mu, confirmed, given, authorized, req, configured, up, peers, stored, count>>

\* reconcile forgets the devices that are not authorized, of the map or, at the start, the file.
Drop(known) ==
    /\ peers' = known \cap authorized
    /\ stored' = IF known \subseteq authorized THEN stored ELSE peers'

\* register asks the records, Remove only its map.
Take(c) ==
    /\ helper[c] = "queued" /\ hmu = None
    /\ IF req[c].op # "register"
       THEN To(c, "change") /\ UNCHANGED <<pc, mu, confirmed, given>>
       ELSE IF req[c].id \in authorized
            THEN To(c, "reconcile") /\ UNCHANGED <<pc, mu, confirmed, given>>
            ELSE Reply(c, FALSE)
    /\ UNCHANGED <<authorized, req, configured, up, peers, stored, count>>

Reconcile(c) ==
    /\ helper[c] = "reconcile" /\ To(c, "change") /\ Drop(peers)
    /\ UNCHANGED <<pc, mu, confirmed, given, authorized, req, configured, up, count>>

Change(c) ==
    /\ helper[c] = "change" /\ Reply(c, TRUE)
    /\ peers' = IF req[c].op = "register" THEN peers \cup {req[c].id} ELSE peers \ {req[c].id}
    /\ stored' = IF req[c].op = "register" \/ req[c].id \in peers THEN peers' ELSE stored
    /\ UNCHANGED <<authorized, req, configured, up, count>>

Without(c) == {peers, peers \ {req[c].id}}

\* Mutant: a registration that fails does not put the peer before it back.
ForgetPeer(c) ==
    /\ helper[c] \in {"reconcile", "change"} /\ Bounded("faults", MaxFaults) /\ Reply(c, FALSE)
    /\ peers' \in Without(c) /\ stored' \in {stored, peers'}
    /\ UNCHANGED <<authorized, req, configured, up>>

\* A registration leaves the map as it was; a removal may fail at its save, after the map.
ChangeFails(c) ==
    /\ helper[c] \in {"reconcile", "change"} /\ Bounded("faults", MaxFaults) /\ Reply(c, FALSE)
    /\ IF req[c].op = "register" THEN UNCHANGED peers /\ stored' \in {stored, stored \cup {req[c].id}}
       ELSE peers' \in Without(c) /\ stored' \in {stored, peers'}
    /\ UNCHANGED <<authorized, req, configured, up>>

\* Each second.
Tick ==
    /\ up /\ hmu = None /\ Drop(peers)
    /\ UNCHANGED <<core, configured, up, helper, hmu, confirmed, given, count>>

Start ==
    /\ configured /\ ~up /\ up' = TRUE /\ Drop(stored)
    /\ UNCHANGED <<core, configured, helper, hmu, confirmed, given, count>>

\* The helper stops, for its own reasons: its handlers end.
HelperStops ==
    /\ up /\ up' = FALSE /\ Bounded("restarts", MaxRestarts)
    /\ helper' = [c \in Calls |-> "idle"] /\ hmu' = None
    /\ UNCHANGED <<core, configured, peers, stored, confirmed, given>>

\* vpn-setup: the mark first, then the helper.  Nothing takes the mark away.
enableVPN ==
    /\ ~configured /\ configured' = TRUE
    /\ UNCHANGED <<core, up, helper, hmu, peers, stored, confirmed, given, count>>

-----------------------------------------------------------------------------
Handle(c) == Lock(c) \/ Unavailable(c) \/ TimeOut(c)
Serve(c) == Take(c) \/ Reconcile(c) \/ Change(c) \/ ChangeFails(c)

Next ==
    \/ \E c \in Calls : Handle(c) \/ Serve(c)
    \/ \E c \in Calls, d \in Devices, op \in {"register", "disconnect", "revoke"} : Begin(c, op, d)
    \/ CoreRestart \/ HelperStops \/ Start \/ Tick \/ enableVPN

Spec == Init /\ [][Next]_vars

\* The core's handlers run and their calls time out; the helper may hang.
FairSpec == Spec /\ \A c \in Calls : WF_vars(Handle(c))

-----------------------------------------------------------------------------
(***************************************************************************)
(* Properties.                                                             *)
(***************************************************************************)
\* A device whose revocation was answered without a warning, the first time or when it was
\* repeated, has no peer, and no request that the core gave up on gives it one.
RevocationConfirmed == confirmed \cap peers = {}

\* A device that was told of its registration keeps it until somebody asks for its removal:
\* a later registration that fails or is given up on, a restart and the tick leave it.
RegistrationHolds == given \subseteq IF up THEN peers ELSE stored

\* The types, with who holds which lock, and what the devices were told.
Inv == TypeOK /\ RegistrationHolds

\* A helper that hangs does not stop the core: Server.mu, which every request needs, is
\* given back.
CoreGoesOn == \A c \in Calls : mu = c ~> mu # c
=============================================================================
