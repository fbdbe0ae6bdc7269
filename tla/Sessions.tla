------------------------------ MODULE Sessions ------------------------------
(***************************************************************************)
(* Sessions and device sign-in on the core (core/internal/node/server.go,  *)
(* device_auth.go, vpn.go).  A session belongs to a paired device or, after*)
(* a password login, to no device.  Handlers that act for a session        *)
(* authenticate in one critical section of Server.mu and act in another;   *)
(* the device may be revoked in between.  "asked" is the last command about*)
(* a device that the node gave the VPN helper.  A revocation saves the     *)
(* records first and calls the helper after that, with Server.mu held all  *)
(* the time; the process may die between the two.                          *)
(***************************************************************************)
EXTENDS DeviceStore

CONSTANTS
    Requests,          \* handlers that can run at the same time
    Tokens,            \* access tokens
    Challenges,        \* identities of challenges
    Terminal,          \* the admin socket
    None,
    MaxSessions,       \* (64)
    MaxChallenges,     \* (64)
    SessionLifetime,   \* (1 h)
    ChallengeLifetime  \* (30 s)

ASSUME SessionNames ==
    /\ None \notin Devices /\ None \notin Challenges /\ None \notin Tokens
    /\ Terminal \notin Devices /\ Terminal # None
ASSUME SessionBounds ==
    /\ IsFiniteSet(Tokens) /\ IsFiniteSet(Challenges)
    /\ MaxSessions \in Nat \ {0} /\ MaxChallenges \in Nat \ {0}
    /\ SessionLifetime \in Nat \ {0} /\ ChallengeLifetime \in Nat \ {0}

VARIABLES
    sessions,     \* Server.sessions
    challenges,   \* Server.challenges
    failed,       \* history: the challenges whose answer opened no session
    acts,         \* what each authenticated handler is about to do
    asked,        \* the last command to the VPN helper about each device
    removing,     \* the device that revokeLocked is about to ask the helper to remove
    revoker,      \* history: who revoked each device
    missed        \* history: revoked devices whose removal a crash kept from being asked

challengeVars == <<challenges, failed>>
revokeVars == <<removing, revoker, missed>>
sessVars == <<sessions, challenges, failed, acts, asked, removing, revoker, missed>>
vars == <<devices, disk, sessVars>>

\* A session is minted by a password login (by = None) or from a challenge.
Session == [token : Tokens, device : Devices \cup {None}, by : Challenges \cup {None},
            ttl : 0..SessionLifetime]

Challenge == [id : Challenges, device : Devices, ttl : 0..ChallengeLifetime]

Operations == {"logout", "code", "revoke", "register", "disconnect"}

Act == [op : Operations \cup {"idle"}, device : Devices \cup {None},
        token : Tokens \cup {None}]

Unexpired(entries) == {e \in entries : e.ttl > 0}
Less(t) == IF t > 0 THEN t - 1 ELSE 0
Aged(entries) == {[e EXCEPT !.ttl = Less(@)] : e \in entries}

TypeOK ==
    /\ StoreTypeOK
    /\ sessions \in SUBSET Session
    /\ Cardinality(sessions) <= MaxSessions
    /\ challenges \in SUBSET Challenge
    /\ Cardinality(challenges) <= MaxChallenges
    /\ failed \in SUBSET Challenges
    /\ acts \in [Requests -> Act]
    /\ asked \in [Devices -> {"nothing", "register", "remove"}]
    /\ removing \in Devices \cup {None}
    /\ revoker \in [Devices -> Devices \cup {Terminal, None}]
    /\ missed \in SUBSET Devices

Resting == [op |-> "idle", device |-> None, token |-> None]

Init ==
    /\ StoreInit
    /\ sessions = {}
    /\ challenges = {}
    /\ failed = {}
    /\ acts = [r \in Requests |-> Resting]
    /\ asked = [d \in Devices |-> "nothing"]
    /\ removing = None
    /\ revoker = [d \in Devices |-> None]
    /\ missed = {}

\* Random tokens and identifiers are none that anything still holds.
FreshTokens == Tokens \ ({s.token : s \in sessions} \cup {acts[r].token : r \in Requests})
FreshChallenges == Challenges \ ({c.id : c \in challenges} \cup {s.by : s \in sessions})

-----------------------------------------------------------------------------
Room == Cardinality(Unexpired(sessions)) < MaxSessions

OpenSession(d, by) ==
    \E t \in FreshTokens :
        sessions' = Unexpired(sessions)
            \cup {[token |-> t, device |-> d, by |-> by, ttl |-> SessionLifetime]}

\* login, once the password was found correct.
Login ==
    /\ Room
    /\ OpenSession(None, None)
    /\ UNCHANGED <<storeVars, challengeVars, acts, asked, revokeVars>>

LoginFull ==
    /\ ~Room
    /\ sessions' = Unexpired(sessions)
    /\ UNCHANGED <<storeVars, challengeVars, acts, asked, revokeVars>>

DeviceChallenge(d) ==
    /\ Active(d)
    /\ Cardinality(Unexpired(challenges)) < MaxChallenges
    /\ \E i \in FreshChallenges :
          /\ challenges' = Unexpired(challenges)
                 \cup {[id |-> i, device |-> d, ttl |-> ChallengeLifetime]}
          /\ failed' = failed \ {i}
    /\ UNCHANGED <<storeVars, sessions, acts, asked, revokeVars>>

DeviceChallengeFull(d) ==
    /\ Active(d)
    /\ Cardinality(Unexpired(challenges)) >= MaxChallenges
    /\ challenges' = Unexpired(challenges)
    /\ UNCHANGED <<storeVars, sessions, failed, acts, asked, revokeVars>>

TakeChallenge(c) == challenges' = challenges \ {c}

\* The device signed the challenge it was given, in time.
DeviceLogin(c) ==
    /\ c \in challenges
    /\ TakeChallenge(c)
    /\ Active(c.device)
    /\ c.ttl > 0
    /\ Room
    /\ OpenSession(c.device, c.id)
    /\ UNCHANGED <<storeVars, failed, acts, asked, revokeVars>>

\* Mutant: a challenge is used up only by the answer that opens a session.
RefusedUntaken(c) ==
    /\ c \in challenges
    /\ failed' = failed \cup {c.id}
    /\ UNCHANGED <<storeVars, sessions, challenges, acts, asked, revokeVars>>

\* Another device answers, or the signature is wrong, or it is too late.
DeviceLoginRefused(c) ==
    /\ c \in challenges
    /\ TakeChallenge(c)
    /\ failed' = failed \cup {c.id}
    /\ UNCHANGED <<storeVars, sessions, acts, asked, revokeVars>>

DeviceLoginFull(c) ==
    /\ c \in challenges
    /\ TakeChallenge(c)
    /\ Active(c.device)
    /\ c.ttl > 0
    /\ ~Room
    /\ sessions' = Unexpired(sessions)
    /\ failed' = failed \cup {c.id}
    /\ UNCHANGED <<storeVars, acts, asked, revokeVars>>

-----------------------------------------------------------------------------
Usable(s) == s.ttl > 0 /\ (s.device = None \/ Active(s.device))

\* What a handler keeps of the session: its key to log out, its device for the rest.
Remembered(s, op) ==
    IF op = "logout" THEN [op |-> op, device |-> None, token |-> s.token]
                     ELSE [op |-> op, device |-> s.device, token |-> None]

\* authenticate, authenticateDevice: only logout serves a session of no device.
Authenticate(r, s, op) ==
    /\ acts[r] = Resting
    /\ s \in sessions
    /\ Usable(s)
    /\ s.device = None => op = "logout"
    /\ acts' = [acts EXCEPT ![r] = Remembered(s, op)]
    /\ UNCHANGED <<storeVars, sessions, challengeVars, asked, revokeVars>>

AuthenticateRefused(s) ==
    /\ s \in sessions
    /\ ~Usable(s)
    /\ sessions' = sessions \ {s}
    /\ UNCHANGED <<storeVars, challengeVars, acts, asked, revokeVars>>

Done(r) == acts' = [acts EXCEPT ![r] = Resting]

Logout(r) ==
    /\ acts[r].op = "logout"
    /\ Done(r)
    /\ sessions' = {s \in sessions : s.token # acts[r].token}
    /\ UNCHANGED <<storeVars, challengeVars, asked, revokeVars>>

\* Mutant: who was authenticated is not checked again under the lock.
AuthenticatedBefore(r) == TRUE

StillActive(r) == Active(acts[r].device)

\* vpnPeer and vpnService call the helper with Server.mu held.
Register(r) ==
    /\ acts[r].op = "register"
    /\ StillActive(r)
    /\ Done(r)
    /\ asked' = [asked EXCEPT ![acts[r].device] = "register"]
    /\ UNCHANGED <<storeVars, sessions, challengeVars, revokeVars>>

\* vpnDisconnect does not take the lock for its call.
Disconnect(r) ==
    /\ acts[r].op = "disconnect"
    /\ Done(r)
    /\ asked' = [asked EXCEPT ![acts[r].device] = "remove"]
    /\ UNCHANGED <<storeVars, sessions, challengeVars, revokeVars>>

\* createPairingCode goes on in Pairing.
MakeCode(r) ==
    /\ acts[r].op = "code"
    /\ Done(r)
    /\ UNCHANGED <<storeVars, sessions, challengeVars, asked, revokeVars>>

\* The device is no longer active, the body is malformed, no VPN is configured,
\* or the device to revoke is unknown.
Refused(r) ==
    /\ acts[r].op \in {"revoke", "register"}
    /\ Done(r)
    /\ UNCHANGED <<storeVars, sessions, challengeVars, asked, revokeVars>>

-----------------------------------------------------------------------------
\* Mutant: a revoked device keeps its sessions until they expire.
DropChallengesOnly(d) ==
    /\ challenges' = {c \in challenges : c.device # d}
    /\ UNCHANGED sessions

\* Mutant: a revoked device keeps the challenges it was given.
DropSessionsOnly(d) ==
    /\ sessions' = {s \in sessions : s.device # d}
    /\ UNCHANGED challenges

DropDevice(d) ==
    /\ sessions' = {s \in sessions : s.device # d}
    /\ challenges' = {c \in challenges : c.device # d}

\* revokeLocked up to its call of the helper, as far as sessions go.
RevokeLocked(d, who) ==
    /\ Revoke(d)
    /\ DropDevice(d)
    /\ removing' = d
    /\ revoker' = IF Active(d) THEN [revoker EXCEPT ![d] = who] ELSE revoker
    /\ UNCHANGED <<failed, asked, missed>>

\* revokeLocked calls the helper and returns; a failing helper is only a warning.
RemovalAsked(d) ==
    /\ removing = d
    /\ asked' = [asked EXCEPT ![d] = "remove"]
    /\ removing' = None
    /\ missed' = missed \ {d}
    /\ UNCHANGED <<storeVars, sessions, challengeVars, acts, revoker>>

\* easyprivacy-node devices revoke, on the admin socket.
AdminRevoke(d) ==
    /\ RevokeLocked(d, Terminal)
    /\ UNCHANGED acts

AdminRevokeUnsaved(d) ==
    /\ RevokeUnsaved(d)
    /\ UNCHANGED sessVars

DeviceRevoke(r, d) ==
    /\ acts[r].op = "revoke"
    /\ StillActive(r)
    /\ Done(r)
    /\ RevokeLocked(d, acts[r].device)

DeviceRevokeUnsaved(r, d) ==
    /\ acts[r].op = "revoke"
    /\ StillActive(r)
    /\ Done(r)
    /\ RevokeUnsaved(d)
    /\ UNCHANGED <<sessions, challengeVars, asked, revokeVars>>

\* pairingEnroll commits, in Pairing.
Enrolled(d) ==
    /\ Add(d)
    /\ UNCHANGED sessVars

Restart ==
    /\ OpenDeviceStore
    /\ sessions' = {}
    /\ challenges' = {}
    /\ acts' = [r \in Requests |-> Resting]
    /\ removing' = None
    /\ missed' = missed \cup ({removing} \ {None})
    /\ UNCHANGED <<failed, asked, revoker>>

Tick ==
    /\ sessions' = Aged(sessions)
    /\ challenges' = Aged(challenges)
    /\ UNCHANGED <<storeVars, failed, acts, asked, revokeVars>>

-----------------------------------------------------------------------------
\* What takes Server.mu.
Locked ==
    \/ Login \/ LoginFull
    \/ \E d \in Devices : DeviceChallenge(d)
    \/ \E d \in Devices : DeviceChallengeFull(d)
    \/ \E c \in challenges : DeviceLogin(c)
    \/ \E c \in challenges : DeviceLoginRefused(c)
    \/ \E c \in challenges : DeviceLoginFull(c)
    \/ \E r \in Requests, s \in sessions, op \in Operations : Authenticate(r, s, op)
    \/ \E s \in sessions : AuthenticateRefused(s)
    \/ \E r \in Requests : Logout(r)
    \/ \E r \in Requests : Register(r)
    \/ \E r \in Requests : MakeCode(r)
    \/ \E r \in Requests : Refused(r)
    \/ \E d \in Devices : AdminRevoke(d)
    \/ \E d \in Devices : AdminRevokeUnsaved(d)
    \/ \E r \in Requests, d \in Devices : DeviceRevoke(r, d)
    \/ \E r \in Requests, d \in Devices : DeviceRevokeUnsaved(r, d)
    \/ \E d \in Devices : Enrolled(d)

Next ==
    \/ removing = None /\ Locked
    \/ \E d \in Devices : RemovalAsked(d)
    \/ \E r \in Requests : Disconnect(r)
    \/ Restart
    \/ Tick

Spec == Init /\ [][Next]_vars

-----------------------------------------------------------------------------
\* Revocation ends what the device had: no session of a device that is not
\* authorized is left, whoever revoked it and whatever ran at that moment
\* (docs/device-pairing.md:152-155).
SessionsAuthorized == \A s \in sessions : s.device = None \/ Active(s.device)

\* Nor is a challenge left from which such a session could be opened later
\* (revokeLocked, device_auth.go:140-149).
ChallengesAuthorized == \A c \in challenges : Active(c.device)

\* A challenge opens at most one session, and none once an answer to it failed: a
\* signature that was wrong or late, or came when there was no room, cannot be sent
\* again (deviceLogin, device_auth.go:70-88).
ChallengesSingleUse ==
    /\ \A s, t \in sessions : s.by = t.by /\ s.by # None => s = t
    /\ \A s \in sessions, c \in challenges : s.by # c.id
    /\ \A s \in sessions : s.by \notin failed

\* The last thing asked of the helper for a revoked device is never a registration,
\* whoever was authenticated before the revocation, except between the saved
\* revocation and its call of the helper and after a crash there.  A peer missed so
\* is dropped by the helper itself (RevocationTakesEffect of VPNManager).
RevokedStayRemoved ==
    \A d \in Devices :
        devices[d] = "revoked" => asked[d] # "register" \/ d = removing \/ d \in missed

\* Two devices that revoke each other at the same time: the second one is
\* revoked already when it takes the lock, and is refused.
NoMutualRevocation ==
    \A d, e \in Devices : revoker[d] = e /\ revoker[e] = d => d = e
=============================================================================
