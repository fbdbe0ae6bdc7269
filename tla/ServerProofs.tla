---------------------------- MODULE ServerProofs ----------------------------
(***************************************************************************)
(* Proofs about what server.go keeps in memory: Sessions, for every set of *)
(* devices, handlers and tokens and every value of the limits and          *)
(* lifetimes, and RateLimit, for every set of addresses, every limit and   *)
(* every window and wait.                                                  *)
(***************************************************************************)
EXTENDS Sessions, RateLimit, FiniteSetTheorems, TLAPS

-----------------------------------------------------------------------------
(***************************************************************************)
(* Actions sorted by what they do to sessions and challenges, and by what  *)
(* they do to the records and to the helper.                               *)
(***************************************************************************)

Fewer == sessions' \subseteq sessions /\ challenges' \subseteq challenges

\* Who revokes is the terminal or a device still active under the lock.
Revoking ==
    \E d \in Devices, who \in Devices \cup {Terminal} :
        /\ removing = None
        /\ RevokeLocked(d, who)
        /\ who = Terminal \/ Active(who)

SessionStep ==
    \/ Fewer /\ UNCHANGED <<devices, disk>>
    \/ Login
    \/ \E c \in challenges : DeviceLogin(c)
    \/ \E d \in Devices : DeviceChallenge(d)
    \/ Tick
    \/ Revoking
    \/ \E d \in Devices : Enrolled(d)
    \/ Restart

RecordStep ==
    \/ UNCHANGED <<devices, disk, asked, removing, revoker, missed>>
    \/ \E r \in Requests : Register(r)
    \/ \E r \in Requests : Disconnect(r)
    \/ \E d \in Devices : RemovalAsked(d)
    \/ Revoking
    \/ \E d \in Devices : Enrolled(d)
    \/ Restart

\* Revocation by a device is revocation by one that is active.
LEMMA DeviceRevoking ==
  ASSUME NEW r \in Requests, NEW d \in Devices, removing = None, DeviceRevoke(r, d)
  PROVE  Revoking
  BY DEF DeviceRevoke, StillActive, Revoking, Active

\* Every step does one of those things to sessions and challenges.
LEMMA NextSessions == [Next]_vars => SessionStep
  <1> SUFFICES ASSUME [Next]_vars
               PROVE  SessionStep
    OBVIOUS
  <1> USE DEF SessionStep, storeVars, challengeVars
  <1>1. CASE LoginFull
    BY <1>1 DEF LoginFull, Unexpired, Fewer
  <1>2. ASSUME NEW d \in Devices, DeviceChallengeFull(d)
        PROVE  SessionStep
    BY <1>2 DEF DeviceChallengeFull, Unexpired, Fewer
  <1>3. ASSUME NEW c \in challenges, DeviceLoginRefused(c) \/ DeviceLoginFull(c)
        PROVE  SessionStep
    BY <1>3 DEF DeviceLoginRefused, DeviceLoginFull, TakeChallenge, Unexpired, Fewer
  <1>4. ASSUME NEW r \in Requests, NEW s \in sessions, NEW op \in Operations,
               Authenticate(r, s, op)
        PROVE  SessionStep
    BY <1>4 DEF Authenticate, Fewer
  <1>5. ASSUME NEW s \in sessions, AuthenticateRefused(s)
        PROVE  SessionStep
    BY <1>5 DEF AuthenticateRefused, Fewer
  <1>6. ASSUME NEW r \in Requests,
               Logout(r) \/ Register(r) \/ Disconnect(r) \/ MakeCode(r) \/ Refused(r)
        PROVE  SessionStep
    BY <1>6 DEF Logout, Register, Disconnect, MakeCode, Refused, Fewer
  <1>7. ASSUME NEW d \in Devices, removing = None, AdminRevoke(d)
        PROVE  SessionStep
    BY <1>7 DEF AdminRevoke, Revoking
  <1>8. ASSUME NEW d \in Devices, AdminRevokeUnsaved(d)
        PROVE  SessionStep
    BY <1>8 DEF AdminRevokeUnsaved, RevokeUnsaved, sessVars, Fewer
  <1>9. ASSUME NEW r \in Requests, NEW d \in Devices, removing = None, DeviceRevoke(r, d)
        PROVE  SessionStep
    BY <1>9, DeviceRevoking
  <1>10. ASSUME NEW r \in Requests, NEW d \in Devices, DeviceRevokeUnsaved(r, d)
         PROVE  SessionStep
    BY <1>10 DEF DeviceRevokeUnsaved, RevokeUnsaved, Fewer
  <1>11. ASSUME NEW d \in Devices, RemovalAsked(d)
         PROVE  SessionStep
    BY <1>11 DEF RemovalAsked, Fewer
  <1>12. CASE UNCHANGED vars
    BY <1>12 DEF vars, sessVars, Fewer
  <1> QED
    BY <1>1, <1>2, <1>3, <1>4, <1>5, <1>6, <1>7, <1>8, <1>9, <1>10, <1>11, <1>12
       DEF Next, Locked

\* Every step does one of those things to the records and to the helper.
LEMMA NextRecords == [Next]_vars => RecordStep
  <1> SUFFICES ASSUME [Next]_vars
               PROVE  RecordStep
    OBVIOUS
  <1> USE DEF RecordStep, storeVars, revokeVars
  <1>1. CASE Login \/ LoginFull \/ Tick
    BY <1>1 DEF Login, LoginFull, Tick
  <1>2. ASSUME NEW d \in Devices, DeviceChallenge(d) \/ DeviceChallengeFull(d)
        PROVE  RecordStep
    BY <1>2 DEF DeviceChallenge, DeviceChallengeFull
  <1>3. ASSUME NEW c \in challenges,
               DeviceLogin(c) \/ DeviceLoginRefused(c) \/ DeviceLoginFull(c)
        PROVE  RecordStep
    BY <1>3 DEF DeviceLogin, DeviceLoginRefused, DeviceLoginFull
  <1>4. ASSUME NEW r \in Requests, NEW s \in sessions, NEW op \in Operations,
               Authenticate(r, s, op)
        PROVE  RecordStep
    BY <1>4 DEF Authenticate
  <1>5. ASSUME NEW s \in sessions, AuthenticateRefused(s)
        PROVE  RecordStep
    BY <1>5 DEF AuthenticateRefused
  <1>6. ASSUME NEW r \in Requests, Logout(r) \/ MakeCode(r) \/ Refused(r)
        PROVE  RecordStep
    BY <1>6 DEF Logout, MakeCode, Refused
  <1>7. ASSUME NEW d \in Devices, removing = None, AdminRevoke(d)
        PROVE  RecordStep
    BY <1>7 DEF AdminRevoke, Revoking
  <1>8. ASSUME NEW d \in Devices, AdminRevokeUnsaved(d)
        PROVE  RecordStep
    BY <1>8 DEF AdminRevokeUnsaved, RevokeUnsaved, sessVars
  <1>9. ASSUME NEW r \in Requests, NEW d \in Devices, removing = None, DeviceRevoke(r, d)
        PROVE  RecordStep
    BY <1>9, DeviceRevoking
  <1>10. ASSUME NEW r \in Requests, NEW d \in Devices, DeviceRevokeUnsaved(r, d)
         PROVE  RecordStep
    BY <1>10 DEF DeviceRevokeUnsaved, RevokeUnsaved
  <1>11. CASE UNCHANGED vars
    BY <1>11 DEF vars, sessVars
  <1> QED
    BY <1>1, <1>2, <1>3, <1>4, <1>5, <1>6, <1>7, <1>8, <1>9, <1>10, <1>11 DEF Next, Locked

-----------------------------------------------------------------------------
(***************************************************************************)
(* Type correctness, with the limits on sessions and challenges.           *)
(***************************************************************************)
Typed == TypeOK /\ IsFiniteSet(sessions) /\ IsFiniteSet(challenges)

\* Aging keeps a set of entries finite and no larger.
LEMMA AgedBounded ==
  ASSUME NEW entries, IsFiniteSet(entries)
  PROVE  /\ IsFiniteSet(Aged(entries))
         /\ Cardinality(Aged(entries)) <= Cardinality(entries)
  <1> DEFINE age == [e \in entries |-> [e EXCEPT !.ttl = Less(@)]]
  <1>1. Aged(entries) = {age[e] : e \in entries}
    BY DEF Aged
  <1>2. age \in Surjection(entries, Aged(entries))
    BY <1>1 DEF Surjection
  <1> QED
    BY <1>2, FS_Surjection

\* Aging keeps a session a session and a challenge a challenge.
LEMMA AgedTyped ==
  ASSUME TypeOK
  PROVE  Aged(sessions) \in SUBSET Session /\ Aged(challenges) \in SUBSET Challenge
  <1>1. ASSUME NEW e \in Session
        PROVE  [e EXCEPT !.ttl = Less(@)] \in Session
    BY SessionBounds DEF Session, Less
  <1>2. ASSUME NEW e \in Challenge
        PROVE  [e EXCEPT !.ttl = Less(@)] \in Challenge
    BY SessionBounds DEF Challenge, Less
  <1> QED
    BY <1>1, <1>2 DEF TypeOK, Aged

\* A part of a finite set is finite and no larger.
LEMMA PartBounded ==
  ASSUME NEW entries, IsFiniteSet(entries), NEW part \in SUBSET entries
  PROVE  /\ IsFiniteSet(part)
         /\ Cardinality(part) \in Nat /\ Cardinality(entries) \in Nat
         /\ Cardinality(part) <= Cardinality(entries)
  BY FS_Subset, FS_CardinalityType

\* One entry more is at most one more.
LEMMA AddedBounded ==
  ASSUME NEW entries, IsFiniteSet(entries), NEW new
  PROVE  /\ IsFiniteSet(entries \cup {new})
         /\ Cardinality(entries) \in Nat /\ Cardinality(entries \cup {new}) \in Nat
         /\ Cardinality(entries \cup {new}) <= Cardinality(entries) + 1
  <1>1. Cardinality(entries) \in Nat
    BY FS_CardinalityType
  <1>2. /\ IsFiniteSet(entries \cup {new})
        /\ Cardinality(entries \cup {new}) =
               IF new \in entries THEN Cardinality(entries) ELSE Cardinality(entries) + 1
    BY FS_AddElement
  <1> QED
    BY <1>1, <1>2

\* Opening a session where there is room keeps within the limit.
LEMMA OpenedTyped ==
  ASSUME Typed, Room, NEW d \in Devices \cup {None}, NEW by \in Challenges \cup {None},
         OpenSession(d, by)
  PROVE  /\ sessions' \in SUBSET Session
         /\ IsFiniteSet(sessions')
         /\ Cardinality(sessions') <= MaxSessions
  <1> PICK t \in FreshTokens :
           sessions' = Unexpired(sessions)
               \cup {[token |-> t, device |-> d, by |-> by, ttl |-> SessionLifetime]}
    BY DEF OpenSession
  <1> DEFINE new == [token |-> t, device |-> d, by |-> by, ttl |-> SessionLifetime]
  <1>1. new \in Session
    BY SessionBounds DEF Session, FreshTokens
  <1>2. Unexpired(sessions) \in SUBSET sessions
    BY DEF Unexpired
  <1>3. IsFiniteSet(Unexpired(sessions))
    BY <1>2, PartBounded DEF Typed
  <1>4. sessions' = Unexpired(sessions) \cup {new}
    OBVIOUS
  <1> HIDE DEF new
  <1>5. IsFiniteSet(sessions') /\ Cardinality(sessions') <= MaxSessions
    <2> DEFINE n == Cardinality(Unexpired(sessions))
               m == Cardinality(sessions')
    <2>1. IsFiniteSet(sessions') /\ n \in Nat /\ m \in Nat /\ m <= n + 1
      BY <1>3, <1>4, AddedBounded
    <2>2. n < MaxSessions
      BY DEF Room
    <2> QED
      BY <2>1, <2>2, SessionBounds
  <1>6. sessions \in SUBSET Session
    BY DEF Typed, TypeOK
  <1> QED
    BY <1>1, <1>2, <1>4, <1>5, <1>6

\* What a step leaves of sessions and challenges is well typed.
LEMMA EntriesTyped ==
  ASSUME Typed, [Next]_vars
  PROVE  /\ sessions' \in SUBSET Session /\ challenges' \in SUBSET Challenge
         /\ IsFiniteSet(sessions') /\ IsFiniteSet(challenges')
         /\ Cardinality(sessions') <= MaxSessions
         /\ Cardinality(challenges') <= MaxChallenges
  <1> DEFINE Goal == /\ sessions' \in SUBSET Session /\ challenges' \in SUBSET Challenge
                     /\ IsFiniteSet(sessions') /\ IsFiniteSet(challenges')
                     /\ Cardinality(sessions') <= MaxSessions
                     /\ Cardinality(challenges') <= MaxChallenges
  <1>0. Cardinality(sessions) \in Nat /\ Cardinality(challenges) \in Nat
    BY FS_CardinalityType DEF Typed
  <1>1. ASSUME Fewer
        PROVE  Goal
    <2>1. /\ IsFiniteSet(sessions') /\ Cardinality(sessions') \in Nat
          /\ Cardinality(sessions') <= Cardinality(sessions)
      BY <1>1, PartBounded DEF Fewer, Typed
    <2>2. /\ IsFiniteSet(challenges') /\ Cardinality(challenges') \in Nat
          /\ Cardinality(challenges') <= Cardinality(challenges)
      BY <1>1, PartBounded DEF Fewer, Typed
    <2> QED
      BY <1>0, <1>1, <2>1, <2>2, SessionBounds DEF Fewer, Typed, TypeOK
  <1>2. CASE Login
    BY <1>2, OpenedTyped DEF Login, challengeVars, Typed, TypeOK
  <1>3. ASSUME NEW c \in challenges, DeviceLogin(c)
        PROVE  Goal
    <2>1. c \in Challenge
      BY DEF Typed, TypeOK
    <2>2. c.device \in Devices \cup {None} /\ c.id \in Challenges \cup {None}
      BY <2>1 DEF Challenge
    <2>3. /\ sessions' \in SUBSET Session /\ IsFiniteSet(sessions')
          /\ Cardinality(sessions') <= MaxSessions
      BY <1>3, <2>2, OpenedTyped DEF DeviceLogin
    <2>4. challenges' \in SUBSET challenges
      BY <1>3 DEF DeviceLogin, TakeChallenge
    <2>5. /\ IsFiniteSet(challenges') /\ Cardinality(challenges') \in Nat
          /\ Cardinality(challenges') <= Cardinality(challenges)
      BY <2>4, PartBounded DEF Typed
    <2> QED
      BY <1>0, <2>3, <2>4, <2>5, SessionBounds DEF Typed, TypeOK
  <1>4. ASSUME NEW d \in Devices, DeviceChallenge(d)
        PROVE  Goal
    <2> PICK i \in FreshChallenges :
             challenges' = Unexpired(challenges)
                 \cup {[id |-> i, device |-> d, ttl |-> ChallengeLifetime]}
      BY <1>4 DEF DeviceChallenge
    <2> DEFINE new == [id |-> i, device |-> d, ttl |-> ChallengeLifetime]
    <2>1. new \in Challenge
      BY SessionBounds DEF Challenge, FreshChallenges
    <2>2. Unexpired(challenges) \in SUBSET challenges
      BY DEF Unexpired
    <2>3. IsFiniteSet(Unexpired(challenges))
      BY <2>2, PartBounded DEF Typed
    <2>4. challenges' = Unexpired(challenges) \cup {new}
      OBVIOUS
    <2> HIDE DEF new
    <2>5. IsFiniteSet(challenges') /\ Cardinality(challenges') <= MaxChallenges
      <3> DEFINE n == Cardinality(Unexpired(challenges))
                 m == Cardinality(challenges')
      <3>1. IsFiniteSet(challenges') /\ n \in Nat /\ m \in Nat /\ m <= n + 1
        BY <2>3, <2>4, AddedBounded
      <3>2. n < MaxChallenges
        BY <1>4 DEF DeviceChallenge
      <3> QED
        BY <3>1, <3>2, SessionBounds
    <2> QED
      BY <1>4, <2>1, <2>2, <2>4, <2>5 DEF DeviceChallenge, Typed, TypeOK
  <1>5. CASE Tick
    <2>1. Cardinality(Aged(sessions)) \in Nat /\ Cardinality(Aged(challenges)) \in Nat
      BY AgedBounded, FS_CardinalityType DEF Typed
    <2>2. /\ Cardinality(Aged(sessions)) <= MaxSessions
          /\ Cardinality(Aged(challenges)) <= MaxChallenges
      BY <1>0, <2>1, AgedBounded, SessionBounds DEF Typed, TypeOK
    <2> QED
      BY <1>5, <2>2, AgedBounded, AgedTyped DEF Tick, Typed
  <1>6. CASE Revoking
    BY <1>1, <1>6 DEF Revoking, RevokeLocked, DropDevice, Fewer
  <1>7. ASSUME NEW d \in Devices, Enrolled(d)
        PROVE  Goal
    BY <1>1, <1>7 DEF Enrolled, sessVars, Fewer
  <1>8. CASE Restart
    BY <1>1, <1>8 DEF Restart, Fewer
  <1> QED
    BY <1>1, <1>2, <1>3, <1>4, <1>5, <1>6, <1>7, <1>8, NextSessions DEF SessionStep

\* What an action writes of a handler is an act.
LEMMA ActsTyped ==
  ASSUME Typed, [Next]_vars
  PROVE  acts' \in [Requests -> Act]
  <1> USE DEF Typed, TypeOK
  <1>1. Resting \in Act
    BY DEF Resting, Act
  <1>2. ASSUME NEW r \in Requests, NEW s \in sessions, NEW op \in Operations,
               Authenticate(r, s, op)
        PROVE  acts' \in [Requests -> Act]
    <2>1. Remembered(s, op) \in Act
      BY DEF Session, Act, Remembered
    <2> QED
      BY <1>2, <2>1 DEF Authenticate
  <1>3. ASSUME NEW r \in Requests, Done(r)
        PROVE  acts' \in [Requests -> Act]
    BY <1>1, <1>3 DEF Done
  <1>4. CASE Restart
    BY <1>1, <1>4 DEF Restart
  <1>5. ASSUME UNCHANGED acts
        PROVE  acts' \in [Requests -> Act]
    BY <1>5
  <1>6. \/ UNCHANGED acts
        \/ \E r \in Requests : Done(r)
        \/ \E r \in Requests, s \in sessions, op \in Operations : Authenticate(r, s, op)
        \/ Restart
    BY DEF Next, Locked, RemovalAsked, vars, sessVars, Login, LoginFull, DeviceChallenge,
           DeviceChallengeFull,
           DeviceLogin, DeviceLoginRefused, DeviceLoginFull, AuthenticateRefused, Logout,
           Register, Disconnect, MakeCode, Refused, AdminRevoke, AdminRevokeUnsaved,
           DeviceRevoke, DeviceRevokeUnsaved, Enrolled, Tick
  <1> QED
    BY <1>2, <1>3, <1>4, <1>5, <1>6

\* So are the records, what was asked of the helper, and the history.
LEMMA RecordsTyped ==
  ASSUME Typed, [Next]_vars
  PROVE  /\ StoreTypeOK'
         /\ asked' \in [Devices -> {"nothing", "register", "remove"}]
         /\ removing' \in Devices \cup {None}
         /\ revoker' \in [Devices -> Devices \cup {Terminal, None}]
         /\ missed' \in SUBSET Devices
  <1> USE DEF Typed, TypeOK, StoreTypeOK, storeVars, revokeVars, Standing
  <1>1. CASE UNCHANGED <<devices, disk, asked, removing, revoker, missed>>
    BY <1>1
  <1>2. ASSUME NEW r \in Requests, Register(r) \/ Disconnect(r)
        PROVE  /\ UNCHANGED <<devices, disk, removing, revoker, missed>>
               /\ asked' \in [Devices -> {"nothing", "register", "remove"}]
    BY <1>2 DEF Register, Disconnect
  <1>6. ASSUME NEW d \in Devices, RemovalAsked(d)
        PROVE  /\ UNCHANGED <<devices, disk, revoker>>
               /\ asked' \in [Devices -> {"nothing", "register", "remove"}]
               /\ removing' = None
               /\ missed' \in SUBSET Devices
    BY <1>6 DEF RemovalAsked
  <1>3. ASSUME NEW d \in Devices, NEW who \in Devices \cup {Terminal},
               RevokeLocked(d, who)
        PROVE  /\ StoreTypeOK'
               /\ revoker' \in [Devices -> Devices \cup {Terminal, None}]
               /\ removing' \in Devices
               /\ UNCHANGED <<asked, missed>>
    BY <1>3 DEF RevokeLocked, Revoke
  <1>4. ASSUME NEW d \in Devices, Enrolled(d)
        PROVE  StoreTypeOK' /\ UNCHANGED <<asked, removing, revoker, missed>>
    BY <1>4 DEF Enrolled, Add, sessVars
  <1>5. CASE Restart
    BY <1>5 DEF Restart, OpenDeviceStore
  <1> QED
    BY <1>1, <1>2, <1>3, <1>4, <1>5, <1>6, NextRecords DEF RecordStep, Revoking

\* The failed answers are to challenges.
LEMMA FailedTyped ==
  ASSUME Typed, [Next]_vars
  PROVE  failed' \in SUBSET Challenges
  <1> USE DEF Typed, TypeOK, challengeVars
  <1>1. ASSUME NEW c \in challenges, DeviceLoginRefused(c) \/ DeviceLoginFull(c)
        PROVE  failed' \in SUBSET Challenges
    BY <1>1 DEF DeviceLoginRefused, DeviceLoginFull, Challenge
  <1>2. ASSUME NEW d \in Devices, DeviceChallenge(d)
        PROVE  failed' \in SUBSET Challenges
    BY <1>2 DEF DeviceChallenge
  <1> QED
    BY <1>1, <1>2
    DEF Next, Locked, RemovalAsked, vars, sessVars, Login, LoginFull, DeviceChallengeFull,
        DeviceLogin, Authenticate, AuthenticateRefused, Logout, Register, Disconnect,
        MakeCode, Refused, AdminRevoke, AdminRevokeUnsaved, DeviceRevoke,
        DeviceRevokeUnsaved, RevokeLocked, Enrolled, Restart, Tick

\* The state stays well typed: no more than MaxSessions sessions and MaxChallenges
\* challenges, whatever expires and whoever signs in (server.go:178-188,
\* device_auth.go:41-50).
THEOREM TypeCorrect == Spec => []Typed /\ []TypeOK
  <1>1. Init => Typed
    <2> SUFFICES ASSUME Init
                 PROVE  Typed
      OBVIOUS
    <2>1. acts \in [Requests -> Act]
      BY DEF Init, Resting, Act
    <2>2. Cardinality({}) = 0 /\ IsFiniteSet({})
      BY FS_EmptySet
    <2>3. Cardinality(sessions) <= MaxSessions /\ Cardinality(challenges) <= MaxChallenges
      BY <2>2, SessionBounds DEF Init
    <2> QED
      BY <2>1, <2>2, <2>3 DEF Init, StoreInit, StoreTypeOK, Standing, Typed, TypeOK
  <1>2. Typed /\ [Next]_vars => Typed'
    BY EntriesTyped, ActsTyped, RecordsTyped, FailedTyped DEF Typed, TypeOK
  <1>3. Typed => TypeOK
    BY DEF Typed
  <1> QED
    BY <1>1, <1>2, <1>3, PTL DEF Spec

-----------------------------------------------------------------------------
(***************************************************************************)
(* Revocation ends what a device had.  Records in memory and on disk agree,*)
(* so that a restart brings no device back.                                *)
(***************************************************************************)
Authorized ==
    /\ devices \in [Devices -> Standing]
    /\ disk = devices
    /\ SessionsAuthorized
    /\ ChallengesAuthorized

\* A step that only takes away, or opens a session for a device that is active,
\* leaves every session and challenge with an active device.
LEMMA AuthorizedStep ==
  ASSUME TypeOK, Authorized, [Next]_vars
  PROVE  Authorized'
  <1> USE DEF Authorized, SessionsAuthorized, ChallengesAuthorized, storeVars, Active
  <1>1. CASE Fewer /\ UNCHANGED <<devices, disk>>
    BY <1>1 DEF Fewer
  <1>2. CASE Login
    BY <1>2 DEF Login, OpenSession, Unexpired, challengeVars
  <1>3. ASSUME NEW c \in challenges, DeviceLogin(c)
        PROVE  Authorized'
    BY <1>3 DEF DeviceLogin, TakeChallenge, OpenSession, Unexpired
  <1>4. ASSUME NEW d \in Devices, DeviceChallenge(d)
        PROVE  Authorized'
    BY <1>4 DEF DeviceChallenge, Unexpired
  <1>5. CASE Tick
    <2>1. \A s \in sessions' : \E e \in sessions : s.device = e.device
      BY <1>5 DEF Tick, Aged, TypeOK, Session
    <2>2. \A c \in challenges' : \E e \in challenges : c.device = e.device
      BY <1>5 DEF Tick, Aged, TypeOK, Challenge
    <2> QED
      BY <1>5, <2>1, <2>2 DEF Tick
  <1>6. CASE Revoking
    BY <1>6 DEF Revoking, RevokeLocked, Revoke, DropDevice, Standing
  <1>7. ASSUME NEW d \in Devices, Enrolled(d)
        PROVE  Authorized'
    BY <1>7 DEF Enrolled, Add, Addable, sessVars, Standing
  <1>8. CASE Restart
    BY <1>8 DEF Restart, OpenDeviceStore
  <1> QED
    BY <1>1, <1>2, <1>3, <1>4, <1>5, <1>6, <1>7, <1>8, NextSessions DEF SessionStep

\* Records, sessions and challenges agree in every state.
LEMMA AlwaysAuthorized == Spec => []Authorized
  <1>1. Init => Authorized
    BY DEF Init, StoreInit, Authorized, SessionsAuthorized, ChallengesAuthorized, Standing
  <1> QED
    BY <1>1, TypeCorrect, AuthorizedStep, PTL DEF Spec

\* No session of a device outlives its revocation, by whomever and in whatever
\* order with the handlers that run (device_auth.go:136-160).
THEOREM RevocationEndsSessions == Spec => []SessionsAuthorized
  <1>1. Authorized => SessionsAuthorized
    BY DEF Authorized
  <1> QED
    BY <1>1, AlwaysAuthorized, PTL

\* Nor does a challenge from which such a session could be opened later
\* (revokeLocked, device_auth.go:140-149).
THEOREM RevocationEndsChallenges == Spec => []ChallengesAuthorized
  <1>1. Authorized => ChallengesAuthorized
    BY DEF Authorized
  <1> QED
    BY <1>1, AlwaysAuthorized, PTL

-----------------------------------------------------------------------------
(***************************************************************************)
(* The helper and the history of revocations.                              *)
(***************************************************************************)
Revocations ==
    /\ devices \in [Devices -> Standing]
    /\ disk = devices
    /\ asked \in [Devices -> {"nothing", "register", "remove"}]
    /\ removing \in Devices \cup {None}
    /\ revoker \in [Devices -> Devices \cup {Terminal, None}]
    /\ missed \in SUBSET Devices
    /\ RevokedStayRemoved
    /\ \A d \in Devices : revoker[d] # None => devices[d] = "revoked"

\* Only the call of the helper and a crash before it end a removal that is under way,
\* and only a device not yet revoked gets a revoker.
LEMMA RevocationsStep ==
  ASSUME Revocations, [Next]_vars
  PROVE  Revocations'
  <1> USE DEF Revocations, RevokedStayRemoved, storeVars, revokeVars
  <1>1. CASE UNCHANGED <<devices, disk, asked, removing, revoker, missed>>
    BY <1>1
  <1>2. ASSUME NEW r \in Requests, Register(r)
        PROVE  Revocations'
    BY <1>2 DEF Register, StillActive, Active
  <1>3. ASSUME NEW r \in Requests, Disconnect(r)
        PROVE  Revocations'
    BY <1>3 DEF Disconnect
  <1>4. ASSUME NEW d \in Devices, NEW who \in Devices \cup {Terminal},
               RevokeLocked(d, who), removing = None
        PROVE  Revocations'
    BY <1>4, SessionNames DEF RevokeLocked, Revoke, Active, Standing
  <1>5. ASSUME NEW d \in Devices, RemovalAsked(d)
        PROVE  Revocations'
    BY <1>5, SessionNames DEF RemovalAsked
  <1>6. ASSUME NEW d \in Devices, Enrolled(d)
        PROVE  Revocations'
    BY <1>6 DEF Enrolled, Add, Addable, sessVars, Standing
  <1>7. CASE Restart
    BY <1>7, SessionNames DEF Restart, OpenDeviceStore
  <1> QED
    BY <1>1, <1>2, <1>3, <1>4, <1>5, <1>6, <1>7, NextRecords DEF RecordStep, Revoking

\* A handler authenticated before a revocation cannot register the device with the
\* helper after it (vpn.go:49-54): what was last asked for a revoked device is no
\* registration, but for a removal still to be asked or that a crash prevented.
THEOREM RevokedNeverRegistered == Spec => []Revocations /\ []RevokedStayRemoved
  <1>1. Init => Revocations
    BY DEF Init, StoreInit, Revocations, RevokedStayRemoved, Standing
  <1>2. Revocations => RevokedStayRemoved
    BY DEF Revocations
  <1> QED
    BY <1>1, <1>2, RevocationsStep, PTL DEF Spec

\* A device that revokes is active at that moment and so has no revoker.
LEMMA MutualStep ==
  ASSUME Revocations, NoMutualRevocation, [Next]_vars
  PROVE  NoMutualRevocation'
  <1> USE DEF NoMutualRevocation
  <1>1. CASE UNCHANGED revoker
    BY <1>1
  <1>2. CASE Revoking
    <2> PICK d \in Devices, who \in Devices \cup {Terminal} :
             RevokeLocked(d, who) /\ (who = Terminal \/ Active(who))
      BY <1>2 DEF Revoking
    <2>1. CASE ~Active(d)
      BY <2>1 DEF RevokeLocked
    <2>2. CASE Active(d) /\ who = Terminal
      BY <2>2, SessionNames DEF RevokeLocked, Revocations
    <2>3. CASE Active(d) /\ Active(who)
      <3>1. revoker[who] = None
        BY <2>3 DEF Active, Revocations
      <3>2. revoker' = [revoker EXCEPT ![d] = who]
        BY <2>3 DEF RevokeLocked
      <3> QED
        BY <2>3, <3>1, <3>2, SessionNames DEF Revocations, Active
    <2> QED
      BY <2>1, <2>2, <2>3
  <1> QED
    BY <1>1, <1>2, NextRecords
       DEF RecordStep, Register, Disconnect, RemovalAsked, Enrolled, sessVars, revokeVars,
           Restart

\* Of two devices that revoke each other at the same time one remains
\* (device_auth.go:104-125).
THEOREM OneSurvives == Spec => []NoMutualRevocation
  <1>1. Init => NoMutualRevocation
    BY SessionNames DEF Init, NoMutualRevocation
  <1> QED
    BY <1>1, MutualStep, RevokedNeverRegistered, PTL DEF Spec

-----------------------------------------------------------------------------
(***************************************************************************)
(* Challenges are used once.                                               *)
(***************************************************************************)
Identified ==
    /\ \A b, c \in challenges : b.id = c.id => b = c
    /\ \A c \in challenges : c.id \notin failed

\* What a step does to challenges, to the sessions they open and to the failed answers.
AnswerStep ==
    \/ Fewer /\ failed' = failed
    \/ Login
    \/ \E c \in challenges : DeviceLogin(c)
    \/ \E c \in challenges : DeviceLoginRefused(c) \/ DeviceLoginFull(c)
    \/ \E d \in Devices : DeviceChallenge(d)
    \/ Tick

\* Every step does one of those things.
LEMMA AnswerSteps == [Next]_vars => AnswerStep
  <1> SUFFICES ASSUME [Next]_vars
               PROVE  AnswerStep
    OBVIOUS
  <1> USE DEF AnswerStep, Fewer, challengeVars
  <1>1. ASSUME NEW r \in Requests, NEW s \in sessions, NEW op \in Operations,
               Authenticate(r, s, op)
        PROVE  AnswerStep
    BY <1>1 DEF Authenticate
  <1>2. ASSUME NEW s \in sessions, AuthenticateRefused(s)
        PROVE  AnswerStep
    BY <1>2 DEF AuthenticateRefused
  <1>3. ASSUME NEW r \in Requests,
               Logout(r) \/ Register(r) \/ Disconnect(r) \/ MakeCode(r) \/ Refused(r)
        PROVE  AnswerStep
    BY <1>3 DEF Logout, Register, Disconnect, MakeCode, Refused
  <1>4. ASSUME NEW d \in Devices, NEW r \in Requests, DeviceRevoke(r, d)
        PROVE  AnswerStep
    BY <1>4 DEF DeviceRevoke, RevokeLocked, DropDevice
  <1>5. ASSUME NEW d \in Devices, AdminRevoke(d)
        PROVE  AnswerStep
    BY <1>5 DEF AdminRevoke, RevokeLocked, DropDevice
  <1>6. ASSUME NEW d \in Devices, AdminRevokeUnsaved(d) \/ Enrolled(d) \/ RemovalAsked(d)
        PROVE  AnswerStep
    BY <1>6 DEF AdminRevokeUnsaved, Enrolled, RemovalAsked, sessVars
  <1>7. ASSUME NEW r \in Requests, NEW d \in Devices, DeviceRevokeUnsaved(r, d)
        PROVE  AnswerStep
    BY <1>7 DEF DeviceRevokeUnsaved
  <1>8. CASE LoginFull \/ Restart
    BY <1>8 DEF LoginFull, Restart, Unexpired
  <1>9. ASSUME NEW d \in Devices, DeviceChallengeFull(d)
        PROVE  AnswerStep
    BY <1>9 DEF DeviceChallengeFull, Unexpired
  <1>10. CASE UNCHANGED vars
    BY <1>10 DEF vars, sessVars
  <1> QED
    BY <1>1, <1>2, <1>3, <1>4, <1>5, <1>6, <1>7, <1>8, <1>9, <1>10 DEF Next, Locked

\* Aging changes neither the identity of a challenge nor what opened a session.
LEMMA AgedNames ==
  ASSUME TypeOK, Tick
  PROVE  /\ \A s \in sessions' : \E e \in sessions :
                s = [e EXCEPT !.ttl = Less(@)] /\ s.by = e.by
         /\ \A c \in challenges' : \E e \in challenges :
                c = [e EXCEPT !.ttl = Less(@)] /\ c.id = e.id
  BY DEF Tick, Aged, TypeOK, Session, Challenge

\* A session opened for a challenge takes the only challenge of that identity,
\* and a new challenge has an identity no session was opened for.
LEMMA SingleUseStep ==
  ASSUME TypeOK, ChallengesSingleUse, Identified, [Next]_vars
  PROVE  ChallengesSingleUse' /\ Identified'
  <1> USE DEF ChallengesSingleUse, Identified
  <1>1. ASSUME Fewer, failed' = failed
        PROVE  ChallengesSingleUse' /\ Identified'
    BY <1>1 DEF Fewer
  <1>2. CASE Login
    BY <1>2, SessionNames
    DEF Login, OpenSession, Unexpired, TypeOK, Challenge, challengeVars
  <1>3. ASSUME NEW c \in challenges, DeviceLogin(c)
        PROVE  ChallengesSingleUse' /\ Identified'
    <2>1. PICK t \in Tokens :
             sessions' = Unexpired(sessions)
                 \cup {[token |-> t, device |-> c.device, by |-> c.id, ttl |-> SessionLifetime]}
      BY <1>3 DEF DeviceLogin, OpenSession, FreshTokens
    <2> DEFINE new == [token |-> t, device |-> c.device, by |-> c.id, ttl |-> SessionLifetime]
    <2>2. new.by = c.id
      OBVIOUS
    <2>3. \A s \in sessions' : s \in sessions \/ s = new
      BY <2>1 DEF Unexpired
    <2>4. challenges' = challenges \ {c} /\ failed' = failed
      BY <1>3 DEF DeviceLogin, TakeChallenge
    <2> HIDE DEF new
    <2> QED
      BY <2>2, <2>3, <2>4
  <1>4. ASSUME NEW c \in challenges, DeviceLoginRefused(c) \/ DeviceLoginFull(c)
        PROVE  ChallengesSingleUse' /\ Identified'
    <2>1. /\ challenges' = challenges \ {c}
          /\ failed' = failed \cup {c.id}
          /\ sessions' \subseteq sessions
      BY <1>4 DEF DeviceLoginRefused, DeviceLoginFull, TakeChallenge, Unexpired
    <2> QED
      BY <2>1
  <1>5. ASSUME NEW d \in Devices, DeviceChallenge(d)
        PROVE  ChallengesSingleUse' /\ Identified'
    <2>1. PICK i \in FreshChallenges :
             /\ challenges' = Unexpired(challenges)
                    \cup {[id |-> i, device |-> d, ttl |-> ChallengeLifetime]}
             /\ failed' = failed \ {i}
      BY <1>5 DEF DeviceChallenge
    <2> DEFINE new == [id |-> i, device |-> d, ttl |-> ChallengeLifetime]
    <2>2. /\ new.id = i
          /\ \A c \in challenges : c.id # i
          /\ \A s \in sessions : s.by # i
      BY DEF FreshChallenges
    <2>3. \A c \in challenges' : c \in challenges \/ c = new
      BY <2>1 DEF Unexpired
    <2>4. sessions' = sessions
      BY <1>5 DEF DeviceChallenge
    <2>5. failed' = failed \ {i}
      BY <2>1
    <2> HIDE DEF new
    <2> QED
      BY <2>2, <2>3, <2>4, <2>5
  <1>6. CASE Tick
    <2>1. ASSUME NEW s \in sessions', NEW t \in sessions', s.by = t.by, s.by # None
          PROVE  s = t
      BY <1>6, <2>1, AgedNames
    <2>2. ASSUME NEW b \in challenges', NEW c \in challenges', b.id = c.id
          PROVE  b = c
      BY <1>6, <2>2, AgedNames
    <2>3. ASSUME NEW s \in sessions', NEW c \in challenges'
          PROVE  s.by # c.id
      BY <1>6, AgedNames
    <2>4. failed' = failed
      BY <1>6 DEF Tick
    <2>5. /\ \A s \in sessions' : s.by \notin failed
          /\ \A c \in challenges' : c.id \notin failed
      BY <1>6, AgedNames
    <2> QED
      BY <2>1, <2>2, <2>3, <2>4, <2>5
  <1> QED
    BY <1>1, <1>2, <1>3, <1>4, <1>5, <1>6, AnswerSteps DEF AnswerStep

\* A challenge opens at most one session and none once an answer to it failed, however
\* many handlers answer it (device_auth.go:70-93).
THEOREM SingleUse == Spec => []ChallengesSingleUse
  <1>1. Init => ChallengesSingleUse /\ Identified
    BY DEF Init, ChallengesSingleUse, Identified
  <1> QED
    BY <1>1, SingleUseStep, TypeCorrect, PTL DEF Spec

-----------------------------------------------------------------------------
(***************************************************************************)
(* The rate limiter.                                                       *)
(***************************************************************************)
\* By how much a window is at least over when the next one of its address begins.
Shortest == Window - MaxWait

\* How many attempts the window of an address that is in the table holds.
HeldBy(a) == IF a \in DOMAIN attempts THEN attempts[a].count ELSE 0

\* The products in the bounds: n windows that are as short as can be, or of full length, and
\* what n windows hold.  They have names, so that the provers see linear arithmetic.
Short(n) == n * Shortest
Full(n) == n * Window
Most(n) == n * Limit
GlobalMost(n) == n * GlobalLimit

\* Counting back from a window's beginning, each Shortest ticks add less than Limit attempts.
Spread(counts, start, held) ==
    \A n \in Nat, k \in Spans : k < start + Short(n) => counts[k] < held + Most(n)

\* The same for all addresses together, whose windows are never shortened.
GlobalSpread(counts, start, held) ==
    \A n \in Nat, k \in Spans : k < start + Full(n) => counts[k] <= held + GlobalMost(n)

\* What the windows know of the attempts admitted.
Ledger ==
    /\ \A a \in Addresses : Spread(admitted[a], 0, HeldBy(a))
    /\ \A a \in DOMAIN attempts :
          /\ attempts[a].count > 0
          /\ Spread(admitted[a], attempts[a].age - MaxWait, attempts[a].count)
          /\ attempts[a].age < Window => attempts[a].count <= admitted[a][attempts[a].age]
    /\ GlobalSpread(total, global.age - MaxWait, global.count)
    /\ global.age < Window => global.count <= total[global.age]

LimiterTyped == LimiterTypeOK /\ IsFiniteSet(DOMAIN attempts)
LimiterInduction == LimiterTyped /\ Ledger

-----------------------------------------------------------------------------
\* Histories, one more attempt or one tick later, are histories.
LEMMA HistoryType ==
    ASSUME NEW counts \in [Spans -> Nat]
    PROVE  OneMore(counts) \in [Spans -> Nat] /\ TickLater(counts) \in [Spans -> Nat]
<1>1. OneMore(counts) \in [Spans -> Nat]
  BY DEF OneMore
<1>2. ASSUME NEW k \in Spans, k # 0 PROVE counts[k - 1] \in Nat
  BY <1>2, LimitAssumption DEF Spans
<1> QED
  BY <1>1, <1>2 DEF TickLater

\* No wait shortens a window to nothing, and the products are numbers.
LEMMA Products ==
    /\ Shortest \in Nat \ {0} /\ Shortest <= Window
    /\ \A n \in Nat :
          Short(n) \in Nat /\ Full(n) \in Nat /\ Most(n) \in Nat /\ GlobalMost(n) \in Nat
  BY LimitAssumption DEF Shortest, Short, Full, Most, GlobalMost

\* No window at all.
LEMMA NoWindow == Short(0) = 0 /\ Full(0) = 0 /\ Most(0) = 0 /\ GlobalMost(0) = 0
  BY LimitAssumption DEF Shortest, Short, Full, Most, GlobalMost

\* One window less.
LEMMA OneLess ==
    ASSUME NEW n \in Nat, n # 0
    PROVE  /\ n - 1 \in Nat
           /\ Short(n) = Short(n - 1) + Shortest
           /\ Full(n) = Full(n - 1) + Window
           /\ Most(n) = Most(n - 1) + Limit
           /\ GlobalMost(n) = GlobalMost(n - 1) + GlobalLimit
  BY LimitAssumption DEF Shortest, Short, Full, Most, GlobalMost

\* A tick moves the history and the window's beginning alike.
LEMMA SpreadTick ==
    ASSUME NEW counts \in [Spans -> Nat], NEW start \in Int, NEW later \in Int, NEW held \in Nat,
           Spread(counts, start, held), later <= start + 1, held = 0 => later = 0
    PROVE  Spread(TickLater(counts), later, held)
<1> SUFFICES ASSUME NEW n \in Nat, NEW k \in Spans, k < later + Short(n)
             PROVE  TickLater(counts)[k] < held + Most(n)
  BY DEF Spread
<1>1. CASE k = 0
  <2>1. TickLater(counts)[k] = 0
    BY <1>1 DEF TickLater
  <2>2. CASE held > 0
    BY <2>1, <2>2, Products
  <2>3. CASE held = 0
    <3>1. n # 0
      BY <1>1, <2>3, NoWindow
    <3>2. Most(n) = Most(n - 1) + Limit /\ Most(n - 1) \in Nat
      BY <3>1, OneLess, Products
    <3> QED
      BY <2>1, <2>3, <3>2, LimitAssumption
  <2> QED
    BY <2>2, <2>3
<1>2. CASE k # 0
  <2>1. k - 1 \in Spans /\ TickLater(counts)[k] = counts[k - 1]
    BY <1>2, LimitAssumption DEF Spans, TickLater
  <2>2. Short(n) \in Nat
    BY Products
  <2>3. k \in Nat
    BY LimitAssumption DEF Spans
  <2>4. k - 1 < start + Short(n)
    BY <2>2, <2>3
  <2> QED
    BY <2>1, <2>4 DEF Spread
<1> QED
  BY <1>1, <1>2

\* An attempt that counts in the window of its address.
LEMMA SpreadMore ==
    ASSUME NEW counts \in [Spans -> Nat], NEW start \in Int, NEW held \in Nat,
           Spread(counts, start, held)
    PROVE  Spread(OneMore(counts), start, held + 1)
<1> SUFFICES ASSUME NEW n \in Nat, NEW k \in Spans, k < start + Short(n)
             PROVE  OneMore(counts)[k] < held + 1 + Most(n)
  BY DEF Spread
<1>1. counts[k] \in Nat /\ counts[k] < held + Most(n)
  BY DEF Spread
<1> QED
  BY <1>1, Products DEF OneMore

\* What is true of a beginning is true of an earlier one.
LEMMA SpreadEarlier ==
    ASSUME NEW counts \in [Spans -> Nat], NEW start \in Int, NEW begin \in Int, NEW held \in Nat,
           Spread(counts, start, held), begin <= start
    PROVE  Spread(counts, begin, held)
<1> SUFFICES ASSUME NEW n \in Nat, NEW k \in Spans, k < begin + Short(n)
             PROVE  counts[k] < held + Most(n)
  BY DEF Spread
<1>1. Short(n) \in Nat
  BY Products
<1>2. k \in Nat
  BY LimitAssumption DEF Spans
<1>3. k < start + Short(n)
  BY <1>1, <1>2
<1> QED
  BY <1>3 DEF Spread

\* A window that has ended for some handler may be forgotten (allowLogin, delete).
LEMMA SpreadForgotten ==
    ASSUME NEW counts \in [Spans -> Nat], NEW start \in Int, NEW held \in 0..Limit,
           Spread(counts, start, held), start >= Shortest
    PROVE  Spread(counts, 0, 0)
<1> SUFFICES ASSUME NEW n \in Nat, NEW k \in Spans, k < 0 + Short(n)
             PROVE  counts[k] < 0 + Most(n)
  BY DEF Spread
<1>1. n # 0 /\ k \in Nat
  BY NoWindow, LimitAssumption DEF Spans
<1> DEFINE m == n - 1
<1>2. m \in Nat /\ Short(n) = Short(m) + Shortest /\ Most(n) = Most(m) + Limit
  BY <1>1, OneLess
<1>3. Short(m) \in Nat /\ Most(m) \in Nat
  BY <1>2, Products
<1> HIDE DEF m
<1>4. k < start + Short(m)
  BY <1>1, <1>2, <1>3, Products
<1>5. counts[k] < held + Most(m)
  BY <1>2, <1>4 DEF Spread
<1> QED
  BY <1>2, <1>3, <1>5, Products, LimitAssumption

\* The steps of the window of all addresses.
LEMMA GlobalSpreadTick ==
    ASSUME NEW counts \in [Spans -> Nat], NEW start \in Int, NEW later \in Int, NEW held \in Nat,
           GlobalSpread(counts, start, held), later <= start + 1
    PROVE  GlobalSpread(TickLater(counts), later, held)
<1> SUFFICES ASSUME NEW n \in Nat, NEW k \in Spans, k < later + Full(n)
             PROVE  TickLater(counts)[k] <= held + GlobalMost(n)
  BY DEF GlobalSpread
<1>1. CASE k = 0
  BY <1>1, Products DEF TickLater
<1>2. CASE k # 0
  <2>1. k - 1 \in Spans /\ TickLater(counts)[k] = counts[k - 1]
    BY <1>2, LimitAssumption DEF Spans, TickLater
  <2>2. Full(n) \in Nat
    BY Products
  <2>3. k \in Nat
    BY LimitAssumption DEF Spans
  <2>4. k - 1 < start + Full(n)
    BY <2>2, <2>3
  <2> QED
    BY <2>1, <2>4 DEF GlobalSpread
<1> QED
  BY <1>1, <1>2

LEMMA GlobalSpreadMore ==
    ASSUME NEW counts \in [Spans -> Nat], NEW start \in Int, NEW held \in Nat,
           GlobalSpread(counts, start, held)
    PROVE  GlobalSpread(OneMore(counts), start, held + 1)
<1> SUFFICES ASSUME NEW n \in Nat, NEW k \in Spans, k < start + Full(n)
             PROVE  OneMore(counts)[k] <= held + 1 + GlobalMost(n)
  BY DEF GlobalSpread
<1>1. counts[k] \in Nat /\ counts[k] <= held + GlobalMost(n)
  BY DEF GlobalSpread
<1> QED
  BY <1>1, Products DEF OneMore

\* A window that ended at the reading of the clock is replaced by one that begins with it.
LEMMA GlobalSpreadReplaced ==
    ASSUME NEW counts \in [Spans -> Nat], NEW start \in Int, NEW begin \in Int,
           NEW held \in 0..GlobalLimit,
           GlobalSpread(counts, start, held), start >= begin + Window, begin <= 0
    PROVE  GlobalSpread(counts, begin, 0)
<1> SUFFICES ASSUME NEW n \in Nat, NEW k \in Spans, k < begin + Full(n)
             PROVE  counts[k] <= 0 + GlobalMost(n)
  BY DEF GlobalSpread
<1>1. n # 0 /\ k \in Nat
  BY NoWindow, LimitAssumption DEF Spans
<1> DEFINE m == n - 1
<1>2. m \in Nat /\ Full(n) = Full(m) + Window /\ GlobalMost(n) = GlobalMost(m) + GlobalLimit
  BY <1>1, OneLess
<1>3. Full(m) \in Nat /\ GlobalMost(m) \in Nat
  BY <1>2, Products
<1> HIDE DEF m
<1>4. k < start + Full(m)
  BY <1>1, <1>2, <1>3, Products, LimitAssumption
<1>5. counts[k] <= held + GlobalMost(m)
  BY <1>2, <1>4 DEF GlobalSpread
<1> QED
  BY <1>2, <1>3, <1>5, Products, LimitAssumption

-----------------------------------------------------------------------------
\* The table of windows, address by address.
LEMMA TableType ==
    ASSUME LimiterTypeOK
    PROVE  /\ DOMAIN attempts \subseteq Addresses
           /\ \A a \in DOMAIN attempts :
                 /\ attempts[a] \in Windows(Limit)
                 /\ attempts[a].age \in 0..Old /\ attempts[a].count \in 0..Limit
<1>1. PICK S \in SUBSET Addresses : attempts \in [S -> Windows(Limit)]
  BY DEF LimiterTypeOK
<1> QED
  BY <1>1 DEF Windows

\* What the pruning of the table by any call leaves and forgets.
LEMMA PrunedTable ==
    ASSUME LimiterInduction, NEW wait \in 0..MaxWait
    PROVE  /\ DOMAIN Pruned(wait) \subseteq DOMAIN attempts
           /\ IsFiniteSet(DOMAIN Pruned(wait))
           /\ Cardinality(DOMAIN Pruned(wait)) <= TableLimit
           /\ \A a \in DOMAIN Pruned(wait) : Pruned(wait)[a] = attempts[a]
           /\ \A a \in Addresses : a \notin DOMAIN Pruned(wait) => Spread(admitted[a], 0, 0)
           /\ Pruned(wait) \in UNION {[S -> Windows(Limit)] : S \in SUBSET Addresses}
<1> DEFINE T == {a \in DOMAIN attempts : ~Ended(attempts[a], wait)}
<1>1. Pruned(wait) = [a \in T |-> attempts[a]]
  BY DEF Pruned
<1>2. T \subseteq DOMAIN attempts /\ \A a \in DOMAIN attempts : a \notin T => Ended(attempts[a], wait)
  OBVIOUS
<1> HIDE DEF T
<1>3. DOMAIN Pruned(wait) = T /\ \A a \in T : Pruned(wait)[a] = attempts[a]
  BY <1>1
<1>4. IsFiniteSet(DOMAIN attempts) /\ Cardinality(DOMAIN attempts) <= TableLimit
  BY DEF LimiterInduction, LimiterTyped, LimiterTypeOK
<1>5. IsFiniteSet(T) /\ Cardinality(T) <= Cardinality(DOMAIN attempts)
  BY <1>2, <1>4, FS_Subset
<1>6. Cardinality(T) \in Nat /\ Cardinality(DOMAIN attempts) \in Nat
  BY <1>4, <1>5, FS_CardinalityType
<1>7. Cardinality(T) <= TableLimit
  BY <1>4, <1>5, <1>6, LimitAssumption
<1>8. ASSUME NEW a \in Addresses, a \notin T PROVE Spread(admitted[a], 0, 0)
  <2>1. CASE a \notin DOMAIN attempts
    BY <2>1 DEF LimiterInduction, Ledger, HeldBy
  <2>2. CASE a \in DOMAIN attempts
    <3>1. attempts[a].age \in 0..Old /\ attempts[a].count \in 0..Limit
      BY <2>2, TableType DEF LimiterInduction, LimiterTyped
    <3>2. attempts[a].age - wait >= Window
      BY <1>2, <1>8, <2>2 DEF Ended
    <3>3. /\ attempts[a].age - MaxWait \in Int
          /\ attempts[a].age - MaxWait >= Shortest
      BY <3>1, <3>2, LimitAssumption DEF Shortest, Old
    <3>4. Spread(admitted[a], attempts[a].age - MaxWait, attempts[a].count)
      BY <2>2 DEF LimiterInduction, Ledger
    <3>5. admitted[a] \in [Spans -> Nat]
      BY DEF LimiterInduction, LimiterTyped, LimiterTypeOK
    <3> QED
      BY <3>1, <3>3, <3>4, <3>5, SpreadForgotten
  <2> QED
    BY <2>1, <2>2
<1>9. Pruned(wait) \in [T -> Windows(Limit)] /\ T \subseteq Addresses
  BY <1>1, <1>2, TableType DEF LimiterInduction, LimiterTyped
<1> QED
  BY <1>2, <1>3, <1>5, <1>7, <1>8, <1>9

\* What the window of all addresses is for a call.
LEMMA GlobalWindow ==
    ASSUME LimiterInduction, NEW wait \in 0..MaxWait
    PROVE  /\ GlobalNow(wait) \in Windows(GlobalLimit)
           /\ GlobalSpread(total, GlobalNow(wait).age - MaxWait, GlobalNow(wait).count)
           /\ GlobalNow(wait).age < Window => GlobalNow(wait).count <= total[GlobalNow(wait).age]
<1>1. global \in Windows(GlobalLimit) /\ global.age \in 0..Old /\ global.count \in 0..GlobalLimit
  BY DEF LimiterInduction, LimiterTyped, LimiterTypeOK, Windows
<1>2. total \in [Spans -> Nat]
  BY DEF LimiterInduction, LimiterTyped, LimiterTypeOK
<1>3. CASE Ended(global, wait)
  <2>1. GlobalNow(wait) = [age |-> wait, count |-> 0]
    BY <1>3 DEF GlobalNow
  <2>2. global.age - wait >= Window
    BY <1>3 DEF Ended
  <2>3. /\ global.age - MaxWait \in Int /\ wait - MaxWait \in Int /\ wait - MaxWait <= 0
        /\ global.age - MaxWait >= (wait - MaxWait) + Window
    BY <1>1, <2>2, LimitAssumption DEF Old
  <2>4. GlobalSpread(total, global.age - MaxWait, global.count)
    BY DEF LimiterInduction, Ledger
  <2>5. GlobalSpread(total, wait - MaxWait, 0)
    BY <1>1, <1>2, <2>3, <2>4, GlobalSpreadReplaced
  <2>6. wait \in Spans /\ wait \in 0..Old /\ 0 \in 0..GlobalLimit
    BY LimitAssumption DEF Spans, Old
  <2>7. total[wait] \in Nat
    BY <1>2, <2>6
  <2>8. GlobalNow(wait).age = wait /\ GlobalNow(wait).count = 0
    BY <2>1
  <2>9. [age |-> wait, count |-> 0] \in Windows(GlobalLimit)
    BY <2>6 DEF Windows
  <2>10. 0 <= total[wait]
    BY <2>7
  <2> QED
    BY <2>1, <2>5, <2>8, <2>9, <2>10
<1>4. CASE ~Ended(global, wait)
  <2>1. GlobalNow(wait) = global
    BY <1>4 DEF GlobalNow
  <2> QED
    BY <1>1, <2>1 DEF LimiterInduction, Ledger
<1> QED
  BY <1>3, <1>4

-----------------------------------------------------------------------------
\* Nothing was admitted at the start.
LEMMA LimiterStart == LimiterInit => LimiterInduction
<1> SUFFICES ASSUME LimiterInit PROVE LimiterInduction
  OBVIOUS
<1>1. attempts = [a \in {} |-> 0] /\ DOMAIN attempts = {}
  BY DEF LimiterInit
<1>2. attempts \in UNION {[S -> Windows(Limit)] : S \in SUBSET Addresses}
  <2>1. attempts \in [{} -> Windows(Limit)] /\ {} \in SUBSET Addresses
    BY <1>1
  <2> QED
    BY <2>1
<1>3. IsFiniteSet(DOMAIN attempts) /\ Cardinality(DOMAIN attempts) = 0
  BY <1>1, FS_EmptySet
<1>4. global \in Windows(GlobalLimit) /\ global.age = Old /\ global.count = 0
  BY LimitAssumption DEF LimiterInit, Windows, Old
<1>5. waiting \in [Handlers -> [host : Addresses \cup {Nobody}, age : 0..MaxWait]]
  BY LimitAssumption DEF LimiterInit, Idle
<1>6. /\ admitted \in [Addresses -> [Spans -> Nat]] /\ total \in [Spans -> Nat]
      /\ \A a \in Addresses, k \in Spans : admitted[a][k] = 0
      /\ \A k \in Spans : total[k] = 0
  BY DEF LimiterInit
<1>7. LimiterTyped
  BY <1>2, <1>3, <1>4, <1>5, <1>6, LimitAssumption DEF LimiterTyped, LimiterTypeOK
<1>8. ASSUME NEW a \in Addresses PROVE Spread(admitted[a], 0, HeldBy(a))
  <2>1. HeldBy(a) = 0
    BY <1>1 DEF HeldBy
  <2>2. SUFFICES ASSUME NEW n \in Nat, NEW k \in Spans, k < 0 + Short(n)
                 PROVE  admitted[a][k] < 0 + Most(n)
    BY <2>1 DEF Spread
  <2>3. n # 0
    BY <2>2, NoWindow, LimitAssumption DEF Spans
  <2>4. Most(n) = Most(n - 1) + Limit /\ Most(n - 1) \in Nat
    BY <2>3, OneLess, Products
  <2> QED
    BY <1>6, <2>4, LimitAssumption
<1>9. GlobalSpread(total, global.age - MaxWait, global.count)
  <2>1. ASSUME NEW n \in Nat, NEW k \in Spans PROVE total[k] <= global.count + GlobalMost(n)
    BY <1>4, <1>6, Products
  <2> QED
    BY <2>1 DEF GlobalSpread
<1>10. ~(global.age < Window)
  BY <1>4, LimitAssumption DEF Old
<1> QED
  BY <1>1, <1>7, <1>8, <1>9, <1>10 DEF LimiterInduction, Ledger

\* A call that has only read the clock changes nothing but its own locals.
LEMMA ArriveKeeps ==
    ASSUME LimiterInduction, NEW h \in Handlers, NEW a \in Addresses, Arrive(h, a)
    PROVE  LimiterInduction'
<1>1. attempts' = attempts /\ global' = global /\ admitted' = admitted /\ total' = total
  BY DEF Arrive
<1>2. waiting' \in [Handlers -> [host : Addresses \cup {Nobody}, age : 0..MaxWait]]
  BY LimitAssumption DEF Arrive, LimiterInduction, LimiterTyped, LimiterTypeOK
<1>3. LimiterTyped'
  BY <1>1, <1>2 DEF LimiterInduction, LimiterTyped, LimiterTypeOK
<1>4. Ledger'
  BY <1>1 DEF LimiterInduction, Ledger, HeldBy
<1> QED
  BY <1>3, <1>4 DEF LimiterInduction

\* The locals of a handler that decides.
LEMMA Waited ==
    ASSUME LimiterInduction, NEW h \in Handlers, waiting[h].host # Nobody
    PROVE  /\ waiting[h].host \in Addresses /\ waiting[h].age \in 0..MaxWait
           /\ [waiting EXCEPT ![h] = Idle]
                 \in [Handlers -> [host : Addresses \cup {Nobody}, age : 0..MaxWait]]
  BY LimitAssumption DEF LimiterInduction, LimiterTyped, LimiterTypeOK, Idle

\* A refusal prunes the table and may begin a window of all addresses.
LEMMA RefuseKeeps ==
    ASSUME LimiterInduction, NEW h \in Handlers, Refuse(h)
    PROVE  LimiterInduction'
<1> DEFINE wait == waiting[h].age
<1>1. /\ waiting[h].host # Nobody
      /\ attempts' = Pruned(wait) /\ global' = GlobalNow(wait)
      /\ waiting' = [waiting EXCEPT ![h] = Idle]
      /\ admitted' = admitted /\ total' = total
  BY DEF Refuse
<1>2. wait \in 0..MaxWait
  BY <1>1, Waited
<1> HIDE DEF wait
<1>3. waiting' \in [Handlers -> [host : Addresses \cup {Nobody}, age : 0..MaxWait]]
  BY <1>1, Waited
<1>4. /\ DOMAIN attempts' \subseteq DOMAIN attempts
      /\ IsFiniteSet(DOMAIN attempts') /\ Cardinality(DOMAIN attempts') <= TableLimit
      /\ \A a \in DOMAIN attempts' : attempts'[a] = attempts[a]
      /\ \A a \in Addresses : a \notin DOMAIN attempts' => Spread(admitted[a], 0, 0)
      /\ attempts' \in UNION {[S -> Windows(Limit)] : S \in SUBSET Addresses}
  BY <1>1, <1>2, PrunedTable
<1>5. /\ global' \in Windows(GlobalLimit)
      /\ GlobalSpread(total, global'.age - MaxWait, global'.count)
      /\ global'.age < Window => global'.count <= total[global'.age]
  BY <1>1, <1>2, GlobalWindow
<1>6. LimiterTyped'
  BY <1>1, <1>3, <1>4, <1>5 DEF LimiterInduction, LimiterTyped, LimiterTypeOK
<1>7. ASSUME NEW a \in Addresses PROVE Spread(admitted[a], 0, HeldBy(a)')
  <2>1. CASE a \in DOMAIN attempts'
    <3>1. HeldBy(a)' = HeldBy(a)
      BY <1>4, <2>1 DEF HeldBy
    <3> QED
      BY <3>1 DEF LimiterInduction, Ledger
  <2>2. CASE a \notin DOMAIN attempts'
    <3>1. HeldBy(a)' = 0
      BY <2>2 DEF HeldBy
    <3> QED
      BY <1>4, <2>2, <3>1
  <2> QED
    BY <2>1, <2>2
<1>8. \A a \in DOMAIN attempts' :
          /\ attempts'[a].count > 0
          /\ Spread(admitted[a], attempts'[a].age - MaxWait, attempts'[a].count)
          /\ attempts'[a].age < Window => attempts'[a].count <= admitted[a][attempts'[a].age]
  BY <1>4 DEF LimiterInduction, Ledger
<1>9. Ledger'
  BY <1>1, <1>5, <1>7, <1>8 DEF Ledger
<1> QED
  BY <1>6, <1>9 DEF LimiterInduction

\* An admission counts one attempt more, in the window it found open or in a new one.
LEMMA AdmitKeeps ==
    ASSUME LimiterInduction, NEW h \in Handlers, Admit(h)
    PROVE  LimiterInduction'
<1> DEFINE wait == waiting[h].age
           b == waiting[h].host
           T == Pruned(wait)
           entry == [EntryOf(b, wait) EXCEPT !.count = @ + 1]
           now == GlobalNow(wait)
<1>1. /\ b # Nobody /\ ~Refuses(b, wait)
      /\ attempts' = [a \in DOMAIN T \cup {b} |-> IF a = b THEN entry ELSE attempts[a]]
      /\ global' = [now EXCEPT !.count = @ + 1]
      /\ waiting' = [waiting EXCEPT ![h] = Idle]
      /\ admitted' = [admitted EXCEPT ![b] = OneMore(@)]
      /\ total' = OneMore(total)
  BY DEF Admit
<1>2. b \in Addresses /\ wait \in 0..MaxWait
      /\ waiting' \in [Handlers -> [host : Addresses \cup {Nobody}, age : 0..MaxWait]]
  BY <1>1, Waited
<1>3. /\ now.count < GlobalLimit
      /\ b \in DOMAIN T \/ Cardinality(DOMAIN T) < TableLimit
      /\ EntryOf(b, wait).count < Limit
  <2>1. /\ ~(now.count >= GlobalLimit)
        /\ ~(b \notin DOMAIN T /\ Cardinality(DOMAIN T) >= TableLimit)
        /\ ~(EntryOf(b, wait).count >= Limit)
    BY <1>1 DEF Refuses
  <2>2. now.count \in Nat
    BY <1>2, GlobalWindow DEF Windows
  <2>3. Cardinality(DOMAIN T) \in Nat
    BY <1>2, PrunedTable, FS_CardinalityType
  <2>4. EntryOf(b, wait).count \in Nat
    <3>1. CASE b \in DOMAIN T
      <4>1. b \in DOMAIN attempts /\ EntryOf(b, wait) = attempts[b]
        BY <1>2, <3>1, PrunedTable DEF EntryOf
      <4>2. attempts[b].count \in 0..Limit
        BY <4>1, TableType DEF LimiterInduction, LimiterTyped
      <4> QED
        BY <4>1, <4>2
    <3>2. CASE b \notin DOMAIN T
      BY <3>2 DEF EntryOf
    <3> QED
      BY <3>1, <3>2
  <2> HIDE DEF T, now, wait, b
  <2> QED
    BY <2>1, <2>2, <2>3, <2>4, LimitAssumption
<1>4. /\ DOMAIN T \subseteq DOMAIN attempts
      /\ IsFiniteSet(DOMAIN T) /\ Cardinality(DOMAIN T) <= TableLimit
      /\ \A a \in DOMAIN T : T[a] = attempts[a]
      /\ \A a \in Addresses : a \notin DOMAIN T => Spread(admitted[a], 0, 0)
  BY <1>2, PrunedTable
<1>5. /\ now \in Windows(GlobalLimit)
      /\ GlobalSpread(total, now.age - MaxWait, now.count)
      /\ now.age < Window => now.count <= total[now.age]
  BY <1>2, GlobalWindow
<1>6. /\ admitted \in [Addresses -> [Spans -> Nat]] /\ total \in [Spans -> Nat]
      /\ OneMore(admitted[b]) \in [Spans -> Nat] /\ OneMore(total) \in [Spans -> Nat]
  BY <1>2, HistoryType DEF LimiterInduction, LimiterTyped, LimiterTypeOK
<1>7. \A a \in DOMAIN attempts :
          /\ a \in Addresses
          /\ attempts[a] \in Windows(Limit) /\ attempts[a].age \in 0..Old
          /\ attempts[a].count \in 0..Limit
          /\ attempts[a].count > 0
          /\ Spread(admitted[a], attempts[a].age - MaxWait, attempts[a].count)
          /\ attempts[a].age < Window => attempts[a].count <= admitted[a][attempts[a].age]
  BY TableType DEF LimiterInduction, LimiterTyped, Ledger
<1>8. \A a \in Addresses : Spread(admitted[a], 0, HeldBy(a))
  BY DEF LimiterInduction, Ledger
<1>0. /\ b \in DOMAIN T => EntryOf(b, wait) = attempts[b]
      /\ b \notin DOMAIN T => EntryOf(b, wait) = [age |-> wait, count |-> 0]
  BY <1>4 DEF EntryOf
<1>9. \E age \in 0..Old, count \in 0..Limit - 1 :
          /\ entry = [age |-> age, count |-> count + 1]
          /\ Spread(admitted[b], 0, count)
          /\ Spread(admitted[b], age - MaxWait, count)
          /\ age < Window => count <= admitted[b][age]
  <2>1. CASE b \in DOMAIN T
    <3>1. b \in DOMAIN attempts
      BY <1>4, <2>1
    <3>2. attempts[b].count \in 0..Limit - 1
      BY <1>3, <1>7, <1>0, <2>1, <3>1, LimitAssumption
    <3>3. entry = [age |-> attempts[b].age, count |-> attempts[b].count + 1]
      BY <1>7, <1>0, <2>1, <3>1 DEF Windows
    <3>4. HeldBy(b) = attempts[b].count
      BY <3>1 DEF HeldBy
    <3>5. Spread(admitted[b], 0, attempts[b].count)
      BY <1>2, <1>8, <3>4
    <3> QED
      BY <1>7, <3>1, <3>2, <3>3, <3>5
  <2>2. CASE b \notin DOMAIN T
    <3>1. entry = [age |-> wait, count |-> 0 + 1]
      BY <1>0, <2>2
    <3>2. Spread(admitted[b], 0, 0)
      BY <1>2, <1>4, <2>2
    <3>3. wait - MaxWait \in Int /\ wait - MaxWait <= 0 /\ wait \in Spans /\ wait \in 0..Old
          /\ 0 \in 0..Limit - 1
      BY <1>2, LimitAssumption DEF Spans, Old
    <3>4. Spread(admitted[b], wait - MaxWait, 0)
      BY <1>2, <1>6, <3>2, <3>3, SpreadEarlier
    <3>5. admitted[b][wait] \in Nat
      BY <1>2, <1>6, <3>3
    <3>6. 0 <= admitted[b][wait]
      BY <3>5
    <3> QED
      BY <3>1, <3>2, <3>3, <3>4, <3>6
  <2> QED
    BY <2>1, <2>2
<1> HIDE DEF wait, b, T, entry, now
<1>10. PICK age \in 0..Old, count \in 0..Limit - 1 :
          /\ entry = [age |-> age, count |-> count + 1]
          /\ Spread(admitted[b], 0, count)
          /\ Spread(admitted[b], age - MaxWait, count)
          /\ age < Window => count <= admitted[b][age]
  BY <1>9
<1>11. /\ DOMAIN attempts' = DOMAIN T \cup {b}
       /\ attempts'[b] = [age |-> age, count |-> count + 1]
       /\ \A a \in DOMAIN T : a # b => attempts'[a] = attempts[a]
  BY <1>1, <1>10
<1>12. /\ count \in Nat /\ count + 1 \in 0..Limit /\ count + 1 > 0
       /\ attempts'[b].age = age /\ attempts'[b].count = count + 1
       /\ age - MaxWait \in Int /\ (age < Window => age \in Spans)
  BY <1>10, <1>11, LimitAssumption DEF Spans, Old
<1>13. /\ admitted'[b] = OneMore(admitted[b])
       /\ \A a \in Addresses : a # b => admitted'[a] = admitted[a]
       /\ admitted[b] \in [Spans -> Nat]
  BY <1>1, <1>2, <1>6
<1>14. LimiterTyped'
  <2>1. attempts' \in [DOMAIN T \cup {b} -> Windows(Limit)]
    <3>1. [age |-> age, count |-> count + 1] \in Windows(Limit)
      BY <1>12 DEF Windows
    <3> QED
      BY <1>1, <1>4, <1>7, <1>10, <3>1
  <2>2. (DOMAIN T \cup {b}) \in SUBSET Addresses
    BY <1>2, <1>4, <1>7
  <2>3. attempts' \in UNION {[S -> Windows(Limit)] : S \in SUBSET Addresses}
    BY <2>1, <2>2
  <2>4. /\ IsFiniteSet(DOMAIN T \cup {b})
        /\ Cardinality(DOMAIN T \cup {b}) =
              IF b \in DOMAIN T THEN Cardinality(DOMAIN T) ELSE Cardinality(DOMAIN T) + 1
    BY <1>4, FS_AddElement
  <2>5. Cardinality(DOMAIN T) \in Nat
    BY <1>4, FS_CardinalityType
  <2>6. Cardinality(DOMAIN T \cup {b}) <= TableLimit
    BY <1>3, <1>4, <2>4, <2>5, LimitAssumption
  <2>7. global' \in Windows(GlobalLimit)
    BY <1>1, <1>3, <1>5, LimitAssumption DEF Windows
  <2>8. admitted' \in [Addresses -> [Spans -> Nat]] /\ total' \in [Spans -> Nat]
    BY <1>1, <1>6
  <2> QED
    BY <1>2, <1>11, <2>3, <2>4, <2>6, <2>7, <2>8 DEF LimiterTyped, LimiterTypeOK
<1>15. ASSUME NEW a \in Addresses PROVE Spread(admitted'[a], 0, HeldBy(a)')
  <2>1. CASE a = b
    <3>1. HeldBy(a)' = count + 1
      BY <1>11, <1>12, <2>1 DEF HeldBy
    <3> QED
      BY <1>10, <1>12, <1>13, <2>1, <3>1, SpreadMore
  <2>2. CASE a # b /\ a \in DOMAIN T
    <3>1. HeldBy(a)' = HeldBy(a)
      BY <1>4, <1>11, <2>2 DEF HeldBy
    <3> QED
      BY <1>8, <1>13, <2>2, <3>1
  <2>3. CASE a # b /\ a \notin DOMAIN T
    <3>1. HeldBy(a)' = 0
      BY <1>11, <2>3 DEF HeldBy
    <3> QED
      BY <1>4, <1>13, <2>3, <3>1
  <2> QED
    BY <2>1, <2>2, <2>3
<1>16. ASSUME NEW a \in DOMAIN attempts'
       PROVE  /\ attempts'[a].count > 0
              /\ Spread(admitted'[a], attempts'[a].age - MaxWait, attempts'[a].count)
              /\ attempts'[a].age < Window => attempts'[a].count <= admitted'[a][attempts'[a].age]
  <2>1. CASE a = b
    <3>1. Spread(admitted'[b], age - MaxWait, count + 1)
      BY <1>10, <1>12, <1>13, SpreadMore
    <3>2. ASSUME age < Window PROVE count + 1 <= admitted'[b][age]
      <4>1. admitted'[b][age] = admitted[b][age] + 1 /\ admitted[b][age] \in Nat
        BY <1>12, <1>13, <3>2 DEF OneMore
      <4> QED
        BY <1>10, <1>12, <3>2, <4>1
    <3> QED
      BY <1>12, <2>1, <3>1, <3>2
  <2>2. CASE a # b
    BY <1>4, <1>7, <1>11, <1>13, <2>2
  <2> QED
    BY <2>1, <2>2
<1>17. /\ GlobalSpread(total', global'.age - MaxWait, global'.count)
       /\ global'.age < Window => global'.count <= total'[global'.age]
  <2>1. now.age \in 0..Old /\ now.count \in Nat
    BY <1>5 DEF Windows
  <2>2. global'.age = now.age /\ global'.count = now.count + 1
    BY <1>1, <1>5 DEF Windows
  <2>3. now.age - MaxWait \in Int
    BY <2>1, LimitAssumption DEF Old
  <2>4. GlobalSpread(total', now.age - MaxWait, now.count + 1)
    BY <1>1, <1>5, <1>6, <2>1, <2>3, GlobalSpreadMore
  <2>5. ASSUME now.age < Window PROVE now.count + 1 <= total'[now.age]
    <3>1. now.age \in Spans
      BY <2>1, <2>5, LimitAssumption DEF Spans, Old
    <3>2. total'[now.age] = total[now.age] + 1 /\ total[now.age] \in Nat
      BY <1>1, <1>6, <3>1 DEF OneMore
    <3> QED
      BY <1>5, <2>1, <2>5, <3>2
  <2> QED
    BY <2>2, <2>4, <2>5
<1>18. Ledger'
  BY <1>15, <1>16, <1>17 DEF Ledger
<1> QED
  BY <1>14, <1>18 DEF LimiterInduction

\* A tick makes windows and histories older alike, but a window no older than Old.
LEMMA TickKeeps ==
    ASSUME LimiterInduction, LimiterTick
    PROVE  LimiterInduction'
<1>1. /\ \A h \in Handlers : waiting[h].host # Nobody => waiting[h].age < MaxWait
      /\ attempts' = [a \in DOMAIN attempts |-> [attempts[a] EXCEPT !.age = Older(@, Old)]]
      /\ global' = [global EXCEPT !.age = Older(@, Old)]
      /\ waiting' = [h \in Handlers |-> IF waiting[h].host = Nobody THEN Idle
                                        ELSE [waiting[h] EXCEPT !.age = @ + 1]]
      /\ admitted' = [a \in Addresses |-> TickLater(admitted[a])]
      /\ total' = TickLater(total)
  BY DEF LimiterTick
<1>2. \A age \in 0..Old :
          /\ Older(age, Old) \in 0..Old /\ Older(age, Old) <= age + 1
          /\ Older(age, Old) < Window => Older(age, Old) = age + 1
          /\ Older(age, Old) - MaxWait \in Int /\ age - MaxWait \in Int
          /\ Older(age, Old) - MaxWait <= (age - MaxWait) + 1
  BY LimitAssumption DEF Older, Old
<1>3. /\ admitted \in [Addresses -> [Spans -> Nat]] /\ total \in [Spans -> Nat]
      /\ global \in Windows(GlobalLimit) /\ IsFiniteSet(DOMAIN attempts)
      /\ Cardinality(DOMAIN attempts) <= TableLimit
      /\ waiting \in [Handlers -> [host : Addresses \cup {Nobody}, age : 0..MaxWait]]
  BY DEF LimiterInduction, LimiterTyped, LimiterTypeOK
<1>4. DOMAIN attempts \subseteq Addresses
  BY TableType DEF LimiterInduction, LimiterTyped
<1>5. \A a \in DOMAIN attempts :
          /\ attempts[a] \in Windows(Limit) /\ attempts[a].age \in 0..Old
          /\ attempts[a].count \in 0..Limit /\ attempts[a].count > 0
          /\ Spread(admitted[a], attempts[a].age - MaxWait, attempts[a].count)
          /\ attempts[a].age < Window => attempts[a].count <= admitted[a][attempts[a].age]
  BY TableType DEF LimiterInduction, LimiterTyped, Ledger
<1>6. /\ DOMAIN attempts' = DOMAIN attempts
      /\ \A a \in DOMAIN attempts :
            attempts'[a] = [age |-> Older(attempts[a].age, Old), count |-> attempts[a].count]
  BY <1>1, <1>5 DEF Windows
<1>7. global' = [age |-> Older(global.age, Old), count |-> global.count]
      /\ global.age \in 0..Old /\ global.count \in 0..GlobalLimit
  BY <1>1, <1>3 DEF Windows
<1>8. \A a \in Addresses : admitted'[a] = TickLater(admitted[a])
  BY <1>1
<1>9. LimiterTyped'
  <2>1. attempts' \in [DOMAIN attempts -> Windows(Limit)]
    <3>1. \A a \in DOMAIN attempts :
              [age |-> Older(attempts[a].age, Old), count |-> attempts[a].count] \in Windows(Limit)
      BY <1>2, <1>5 DEF Windows
    <3> QED
      BY <1>1, <1>6, <3>1
  <2>2. attempts' \in UNION {[S -> Windows(Limit)] : S \in SUBSET Addresses}
    BY <1>4, <2>1
  <2>3. global' \in Windows(GlobalLimit)
    BY <1>2, <1>7 DEF Windows
  <2>4. waiting' \in [Handlers -> [host : Addresses \cup {Nobody}, age : 0..MaxWait]]
    BY <1>1, <1>3, LimitAssumption DEF Idle
  <2>5. admitted' \in [Addresses -> [Spans -> Nat]] /\ total' \in [Spans -> Nat]
    BY <1>1, <1>3, HistoryType
  <2> QED
    BY <1>3, <1>6, <2>2, <2>3, <2>4, <2>5 DEF LimiterTyped, LimiterTypeOK
\* A window that is younger than Window grew by one tick.
<1>10. ASSUME NEW counts \in [Spans -> Nat], NEW age \in 0..Old, NEW count \in Nat,
              age < Window => count <= counts[age]
       PROVE  Older(age, Old) < Window => count <= TickLater(counts)[Older(age, Old)]
  <2> SUFFICES ASSUME Older(age, Old) < Window
               PROVE  count <= TickLater(counts)[Older(age, Old)]
    OBVIOUS
  <2>1. Older(age, Old) = age + 1
    BY <1>2
  <2>2. age \in Nat /\ age + 1 < Window /\ age + 1 \in Spans
    BY <2>1, LimitAssumption DEF Spans, Old
  <2>3. TickLater(counts)[age + 1] = counts[age]
    BY <2>2 DEF TickLater
  <2> QED
    BY <1>10, <2>1, <2>2, <2>3, LimitAssumption
<1>11. ASSUME NEW a \in Addresses PROVE Spread(admitted'[a], 0, HeldBy(a)')
  <2>1. HeldBy(a)' = HeldBy(a) /\ HeldBy(a) \in Nat
    BY <1>5, <1>6, LimitAssumption DEF HeldBy
  <2>2. Spread(admitted[a], 0, HeldBy(a)) /\ admitted[a] \in [Spans -> Nat]
    BY <1>3 DEF LimiterInduction, Ledger
  <2>3. 0 \in Int /\ 0 <= 0 + 1
    OBVIOUS
  <2>4. Spread(TickLater(admitted[a]), 0, HeldBy(a))
    BY <2>1, <2>2, <2>3, SpreadTick
  <2> QED
    BY <1>8, <2>1, <2>4
<1>12. ASSUME NEW a \in DOMAIN attempts'
       PROVE  /\ attempts'[a].count > 0
              /\ Spread(admitted'[a], attempts'[a].age - MaxWait, attempts'[a].count)
              /\ attempts'[a].age < Window => attempts'[a].count <= admitted'[a][attempts'[a].age]
  <2>1. /\ a \in DOMAIN attempts /\ a \in Addresses
        /\ attempts'[a].age = Older(attempts[a].age, Old)
        /\ attempts'[a].count = attempts[a].count
        /\ admitted'[a] = TickLater(admitted[a]) /\ admitted[a] \in [Spans -> Nat]
    BY <1>3, <1>4, <1>6, <1>8
  <2>2. attempts[a].count \in Nat /\ attempts[a].count > 0 /\ attempts[a].count # 0
    BY <1>5, <2>1, LimitAssumption
  <2>3. Spread(TickLater(admitted[a]), Older(attempts[a].age, Old) - MaxWait, attempts[a].count)
    BY <1>2, <1>5, <2>1, <2>2, SpreadTick
  <2>4. Older(attempts[a].age, Old) < Window =>
            attempts[a].count <= TickLater(admitted[a])[Older(attempts[a].age, Old)]
    BY <1>5, <1>10, <2>1, <2>2
  <2> QED
    BY <2>1, <2>2, <2>3, <2>4
<1>13. /\ GlobalSpread(total', global'.age - MaxWait, global'.count)
       /\ global'.age < Window => global'.count <= total'[global'.age]
  <2>1. /\ global'.age = Older(global.age, Old) /\ global'.count = global.count
        /\ global.count \in Nat
    BY <1>7, LimitAssumption
  <2>2. /\ GlobalSpread(total, global.age - MaxWait, global.count)
        /\ global.age < Window => global.count <= total[global.age]
    BY DEF LimiterInduction, Ledger
  <2>3. GlobalSpread(TickLater(total), Older(global.age, Old) - MaxWait, global.count)
    BY <1>2, <1>3, <1>7, <2>1, <2>2, GlobalSpreadTick
  <2>4. Older(global.age, Old) < Window =>
            global.count <= TickLater(total)[Older(global.age, Old)]
    BY <1>3, <1>7, <1>10, <2>1, <2>2
  <2> QED
    BY <1>1, <2>1, <2>3, <2>4
<1>14. Ledger'
  BY <1>11, <1>12, <1>13 DEF Ledger
<1> QED
  BY <1>9, <1>14 DEF LimiterInduction

\* Every step keeps the ledger.
LEMMA LimiterKeeps == LimiterInduction /\ [LimiterNext]_limiterVars => LimiterInduction'
<1> SUFFICES ASSUME LimiterInduction, [LimiterNext]_limiterVars PROVE LimiterInduction'
  OBVIOUS
<1>1. ASSUME NEW h \in Handlers, NEW a \in Addresses, Arrive(h, a) PROVE LimiterInduction'
  BY <1>1, ArriveKeeps
<1>2. ASSUME NEW h \in Handlers, Decide(h) PROVE LimiterInduction'
  BY <1>2, AdmitKeeps, RefuseKeeps DEF Decide
<1>3. CASE LimiterTick
  BY <1>3, TickKeeps
<1>4. CASE UNCHANGED limiterVars
  BY <1>4 DEF limiterVars, LimiterInduction, LimiterTyped, LimiterTypeOK, Ledger, HeldBy
<1> QED
  BY <1>1, <1>2, <1>3, <1>4 DEF LimiterNext

LEMMA LimiterInductive == LimiterSpec => []LimiterInduction
  BY LimiterStart, LimiterKeeps, PTL DEF LimiterSpec

-----------------------------------------------------------------------------
\* What the ledger says of any window of the clock.
LEMMA SlidingBoundHolds ==
    ASSUME LimiterInduction PROVE SlidingBound
<1> SUFFICES ASSUME NEW a \in Addresses, NEW n \in 1..Window,
                    Window <= n * (Window - MaxWait)
             PROVE  admitted[a][Window - 1] < (n + 1) * Limit
  BY DEF SlidingBound
<1>1. n \in Nat /\ Short(n) \in Nat /\ Window <= Short(n)
  BY Products, LimitAssumption DEF Short, Shortest
<1>2. Window - 1 \in Spans /\ Window - 1 < 0 + Short(n)
  BY <1>1, LimitAssumption DEF Spans
<1>3. Spread(admitted[a], 0, HeldBy(a))
  BY DEF LimiterInduction, Ledger
<1>4. admitted[a][Window - 1] < HeldBy(a) + Most(n)
  BY <1>1, <1>2, <1>3 DEF Spread
<1>5. HeldBy(a) \in Nat /\ HeldBy(a) <= Limit
  BY TableType, LimitAssumption DEF HeldBy, LimiterInduction, LimiterTyped
<1>6. admitted[a][Window - 1] \in Nat
  BY <1>2 DEF LimiterInduction, LimiterTyped, LimiterTypeOK
<1>7. (n + 1) * Limit = Most(n) + Limit /\ Most(n) \in Nat
  BY <1>1, LimitAssumption DEF Most
<1> QED
  BY <1>4, <1>5, <1>6, <1>7, LimitAssumption

LEMMA GlobalSlidingBoundHolds ==
    ASSUME LimiterInduction PROVE GlobalSlidingBound
<1>1. /\ global.age \in 0..Old /\ global.count \in 0..GlobalLimit
      /\ total \in [Spans -> Nat]
      /\ GlobalSpread(total, global.age - MaxWait, global.count)
  BY DEF LimiterInduction, LimiterTyped, LimiterTypeOK, Ledger, Windows
<1>2. Window - 1 \in Spans /\ total[Window - 1] \in Nat
  BY <1>1, LimitAssumption DEF Spans
<1>3. /\ Full(1) = Window /\ GlobalMost(1) = GlobalLimit
      /\ Full(2) = 2 * Window /\ GlobalMost(2) = 2 * GlobalLimit
  BY LimitAssumption DEF Full, GlobalMost
<1>4. CASE MaxWait = 0
  <2>1. Window - 1 < (global.age - MaxWait) + Full(1)
    BY <1>1, <1>3, <1>4, LimitAssumption DEF Old
  <2>2. total[Window - 1] <= global.count + GlobalMost(1)
    BY <1>1, <1>2, <2>1 DEF GlobalSpread
  <2> QED
    BY <1>1, <1>2, <1>3, <1>4, <2>2, LimitAssumption DEF GlobalSlidingBound
<1>5. CASE MaxWait # 0
  <2>1. Window - 1 < (global.age - MaxWait) + Full(2)
    BY <1>1, <1>3, LimitAssumption DEF Old
  <2>2. total[Window - 1] <= global.count + GlobalMost(2)
    BY <1>1, <1>2, <2>1 DEF GlobalSpread
  <2> QED
    BY <1>1, <1>2, <1>3, <1>5, <2>2, LimitAssumption DEF GlobalSlidingBound
<1> QED
  BY <1>4, <1>5

LEMMA CountsTrueHolds ==
    ASSUME LimiterInduction PROVE CountsTrue
<1>1. ASSUME NEW a \in DOMAIN attempts PROVE Counted(attempts[a], admitted[a])
  <2>1. /\ attempts[a].age \in 0..Old /\ attempts[a].count \in 0..Limit
        /\ admitted[a] \in [Spans -> Nat]
        /\ Spread(admitted[a], attempts[a].age - MaxWait, attempts[a].count)
        /\ attempts[a].age < Window => attempts[a].count <= admitted[a][attempts[a].age]
    BY TableType DEF LimiterInduction, LimiterTyped, LimiterTypeOK, Ledger
  <2>2. ASSUME attempts[a].age < Window, attempts[a].age > MaxWait
        PROVE  attempts[a].count >= admitted[a][attempts[a].age - MaxWait - 1]
    <3> DEFINE k == attempts[a].age - MaxWait - 1
    <3>1. /\ attempts[a].age \in Nat /\ MaxWait \in Nat /\ Window \in Nat
          /\ attempts[a].age - MaxWait \in Int /\ attempts[a].age - MaxWait = k + 1
      BY <2>1, LimitAssumption DEF Old
    <3>2. k \in Nat /\ k <= Window - 1
      BY <2>2, <3>1
    <3> HIDE DEF k
    <3>3. k \in Spans
      BY <3>1, <3>2 DEF Spans
    <3>4. k < (attempts[a].age - MaxWait) + Short(0)
      BY <3>1, <3>2, NoWindow
    <3>5. admitted[a][k] \in Nat
      BY <2>1, <3>3
    <3>6. admitted[a][k] < attempts[a].count + Most(0)
      BY <2>1, <3>3, <3>4 DEF Spread
    <3>7. attempts[a].count >= admitted[a][k]
      BY <2>1, <3>5, <3>6, NoWindow, LimitAssumption
    <3> QED
      BY <3>7 DEF k
  <2> QED
    BY <2>1, <2>2 DEF Counted
<1>2. Counted(global, total)
  <2>1. /\ global.age \in 0..Old /\ global.count \in 0..GlobalLimit
        /\ total \in [Spans -> Nat]
        /\ GlobalSpread(total, global.age - MaxWait, global.count)
        /\ global.age < Window => global.count <= total[global.age]
    BY DEF LimiterInduction, LimiterTyped, LimiterTypeOK, Ledger, Windows
  <2>2. ASSUME global.age < Window, global.age > MaxWait
        PROVE  global.count >= total[global.age - MaxWait - 1]
    <3> DEFINE k == global.age - MaxWait - 1
    <3>1. /\ global.age \in Nat /\ MaxWait \in Nat /\ Window \in Nat
          /\ global.age - MaxWait \in Int /\ global.age - MaxWait = k + 1
      BY <2>1, LimitAssumption DEF Old
    <3>2. k \in Nat /\ k <= Window - 1
      BY <2>2, <3>1
    <3> HIDE DEF k
    <3>3. k \in Spans
      BY <3>1, <3>2 DEF Spans
    <3>4. k < (global.age - MaxWait) + Full(0)
      BY <3>1, <3>2, NoWindow
    <3>5. total[k] \in Nat
      BY <2>1, <3>3
    <3>6. total[k] <= global.count + GlobalMost(0)
      BY <2>1, <3>3, <3>4 DEF GlobalSpread
    <3>7. global.count >= total[k]
      BY <2>1, <3>5, <3>6, NoWindow, LimitAssumption
    <3> QED
      BY <3>7 DEF k
  <2> QED
    BY <2>1, <2>2 DEF Counted
<1> QED
  BY <1>1, <1>2 DEF CountsTrue

\* How many attempts one address and all of them get within any minute, and that a window counts
\* what it admitted, for every limit, table, window and wait shorter than a window (allowLogin).
THEOREM AttemptsBounded == LimiterSpec => []LimiterInv
<1>1. LimiterInduction => LimiterInv
  BY SlidingBoundHolds, GlobalSlidingBoundHolds, CountsTrueHolds
  DEF LimiterInduction, LimiterTyped, LimiterInv
<1> QED
  BY <1>1, LimiterInductive, PTL
=============================================================================
