------------------------------ MODULE Pairing ------------------------------
(***************************************************************************)
(* Device pairing on the core (core/internal/node/pairing.go): one         *)
(* temporary code, the SPAKE2 exchanges started under it, and the          *)
(* enrollments those exchanges verified, each waiting for the account      *)
(* password.  Every critical section of Server.mu is one step; a handler   *)
(* that unlocks and locks again is several, and others run in between:     *)
(* pairingEnroll works on the password with the lock free, and             *)
(* createPairingCode authenticates the caller before it takes the lock.    *)
(*                                                                         *)
(* Time is kept as what is left of each deadline ("ttl"), so a deadline    *)
(* has passed, in the code's !now.Before(ExpiresAt), when its ttl is 0.    *)
(* randomID yields an identity never seen before; here a code identity     *)
(* that nothing in the state still holds.  An exchange is identified by    *)
(* its code and by which of the code's attempts it took.                   *)
(***************************************************************************)
EXTENDS DeviceStore

CONSTANTS
    Requests,         \* handlers that can run at the same time
    Generations,      \* identities of codes
    Terminal,         \* the creator of a code made on the admin socket: ""
    None,             \* no code, no request data
    MaxStarts,        \* exchanges started under one code (5)
    MaxPasswords,     \* password attempts of one enrollment (5)
    MaxSlots,         \* password computations at once (2)
    MaxHandles,       \* states in the native PAKE table (256)
    CodeLifetime,     \* PairingLifetime (5 min)
    ExchangeLifetime, \* what an exchange gets at most (30 s)
    CodeInterval      \* between two new codes (10 s)

ASSUME RequestsAssumption == IsFiniteSet(Requests)
ASSUME NamesAssumption ==
    /\ Terminal \notin Devices
    /\ None \notin Generations
    /\ None \notin Generations \X Nat
    /\ None \notin Devices
    /\ None \notin [generation : Generations, creator : Devices \cup {Terminal},
                    attempts : Nat, ttl : Nat]
ASSUME BoundsAssumption ==
    /\ MaxStarts \in Nat \ {0} /\ MaxPasswords \in Nat \ {0}
    /\ MaxSlots \in Nat \ {0} /\ MaxHandles \in Nat \ {0}
    /\ CodeLifetime \in Nat \ {0} /\ ExchangeLifetime \in Nat \ {0}
    /\ CodeInterval \in Nat

VARIABLES
    code,          \* Server.code
    cooldown,      \* what is left of CodeInterval since Server.lastCode
    pairings,      \* Server.pairings: exchanges waiting for their finish
    enrollments,   \* Server.enrollments: verified, waiting for the password
    handles,       \* PAKE states allocated in the native library
    slots,         \* Server.passwordSlots: how many are taken
    req,           \* what each running handler carries between its steps
    via            \* history: the code each device was enrolled through

pairVars == <<code, cooldown, pairings, enrollments, handles, slots, req, via>>
vars == <<devices, disk, code, cooldown, pairings, enrollments, handles, slots, req, via>>

ExchangeID == Generations \X (1..MaxStarts)

Code == [generation : Generations, creator : Devices \cup {Terminal},
         attempts : 0..MaxStarts, ttl : 0..CodeLifetime]

Exchange == [id : ExchangeID, device : Devices, ttl : 0..ExchangeLifetime]

Pending == [id : ExchangeID, device : Devices,
            attempts : 0..MaxPasswords, ttl : 0..CodeLifetime]

\* "creating": authenticated as device, about to take the lock;
\* "hashing": computing the password for enrollment id;
\* "signing": computing the password for a login;
\* "leaving": answered, its password slot still taken.
Request == [phase : {"idle", "creating", "hashing", "signing", "leaving"},
            device : Devices \cup {None}, id : ExchangeID \cup {None}]

TypeOK ==
    /\ StoreTypeOK
    /\ code \in Code \cup {None}
    /\ cooldown \in 0..CodeInterval
    /\ pairings \in SUBSET Exchange
    /\ enrollments \in SUBSET Pending
    /\ handles \in SUBSET ExchangeID
    /\ slots \in 0..MaxSlots
    /\ req \in [Requests -> Request]
    /\ via \in [Devices -> Generations \cup {None}]

-----------------------------------------------------------------------------
Idle == [phase |-> "idle", device |-> None, id |-> None]
Leaving == [Idle EXCEPT !.phase = "leaving"]

IDs(pending) == {p.id : p \in pending}

Unexpired(pending) == {p \in pending : p.ttl > 0}

\* The device whose session created the code is still authorized.
CreatorActive == code.creator = Terminal \/ Active(code.creator)

\* Mutant: verified enrollments outlive the code.
ClearExchangesOnly ==
    /\ pairings' = {}
    /\ handles' = handles \ IDs(pairings)
    /\ UNCHANGED enrollments

\* Mutant: exchanges are forgotten without Close.
ForgetPairings ==
    /\ pairings' = {}
    /\ enrollments' = {}
    /\ UNCHANGED handles

ClearPairings ==
    /\ pairings' = {}
    /\ handles' = handles \ IDs(pairings)
    /\ enrollments' = {}

InUse ==
    {p.id[1] : p \in pairings \cup enrollments}
        \cup {via[d] : d \in Devices}
        \cup {req[r].id[1] : r \in {x \in Requests : req[x].id # None}}
        \cup (IF code = None THEN {} ELSE {code.generation})

-----------------------------------------------------------------------------
Init ==
    /\ StoreInit
    /\ code = None
    /\ cooldown = 0
    /\ pairings = {}
    /\ enrollments = {}
    /\ handles = {}
    /\ slots = 0
    /\ req = [r \in Requests |-> Idle]
    /\ via = [d \in Devices |-> None]

\* Mutant: the creator was authenticated already, so is not checked again.
CreatableUnchecked(creator) == cooldown = 0

Creatable(creator) ==
    /\ cooldown = 0
    /\ creator = Terminal \/ Active(creator)

NewPairingCode(creator) ==
    /\ Creatable(creator)
    /\ \E g \in Generations \ InUse :
          code' = [generation |-> g, creator |-> creator,
                   attempts |-> 0, ttl |-> CodeLifetime]
    /\ cooldown' = CodeInterval
    /\ ClearPairings
    /\ UNCHANGED <<storeVars, slots, via>>

\* easyprivacy-node on the admin socket.
CreatePairingCode ==
    /\ NewPairingCode(Terminal)
    /\ UNCHANGED req

\* createPairingCode, first critical section: a live session of device d.
CodeAuthenticate(r, d) ==
    /\ req[r] = Idle
    /\ Active(d)
    /\ req' = [req EXCEPT ![r] = [Idle EXCEPT !.phase = "creating", !.device = d]]
    /\ UNCHANGED <<storeVars, code, cooldown, pairings, enrollments, handles, slots, via>>

CodeCreate(r) ==
    /\ req[r].phase = "creating"
    /\ NewPairingCode(req[r].device)
    /\ req' = [req EXCEPT ![r] = Idle]

CodeRefused(r) ==
    /\ req[r].phase = "creating"
    /\ ~Creatable(req[r].device)
    /\ req' = [req EXCEPT ![r] = Idle]
    /\ UNCHANGED <<storeVars, code, cooldown, pairings, enrollments, handles, slots, via>>

-----------------------------------------------------------------------------
\* pairingStart discards what has expired before it looks at the code.
PurgeExpired ==
    /\ handles' = handles \ (IDs(pairings) \ IDs(Unexpired(pairings)))
    /\ enrollments' = Unexpired(enrollments)

\* Mutant: the attempt is not counted before the exchange is given out.
TakeAttemptLate == code' = code

TakeAttempt == code' = [code EXCEPT !.attempts = @ + 1]

Startable ==
    /\ code # None
    /\ code.ttl > 0
    /\ code.attempts < MaxStarts
    /\ CreatorActive

Lesser(a, b) == IF a < b THEN a ELSE b

PairingStart(d) ==
    /\ Startable
    /\ TakeAttempt
    /\ LET id == <<code.generation, code.attempts + 1>>
           stale == IDs(pairings) \ IDs(Unexpired(pairings))
       IN  /\ Cardinality(handles \ stale) < MaxHandles
           /\ pairings' = Unexpired(pairings)
                 \cup {[id |-> id, device |-> d, ttl |-> Lesser(ExchangeLifetime, code.ttl)]}
           /\ handles' = (handles \ stale) \cup {id}
    /\ enrollments' = Unexpired(enrollments)
    /\ UNCHANGED <<storeVars, cooldown, slots, req, via>>

\* The native library allocates no state: its table is full, or it failed.
\* The attempt is spent.
PairingStartFailed ==
    /\ Startable
    /\ TakeAttempt
    /\ PurgeExpired
    /\ pairings' = Unexpired(pairings)
    /\ UNCHANGED <<storeVars, cooldown, slots, req, via>>

PairingStartRefused ==
    /\ ~Startable
    /\ PurgeExpired
    /\ pairings' = Unexpired(pairings)
    /\ UNCHANGED <<storeVars, code, cooldown, slots, req, via>>

-----------------------------------------------------------------------------
\* An exchange is finished once, whatever comes of it.
TakeExchange(p) ==
    /\ pairings' = pairings \ {p}
    /\ handles' = handles \ {p.id}

Finishable(p) ==
    /\ code # None
    /\ code.generation = p.id[1]
    /\ code.ttl > 0
    /\ p.ttl > 0
    /\ CreatorActive

\* The app proved that it knows the code.
PairingFinish(p) ==
    /\ p \in pairings
    /\ TakeExchange(p)
    /\ Finishable(p)
    /\ enrollments' = enrollments \cup
          {[id |-> p.id, device |-> p.device, attempts |-> 0, ttl |-> code.ttl]}
    /\ UNCHANGED <<storeVars, code, cooldown, slots, req, via>>

\* Expired, replaced, revoked, or the app's message or proof is wrong.
PairingFinishRefused(p) ==
    /\ p \in pairings
    /\ TakeExchange(p)
    /\ UNCHANGED <<storeVars, code, cooldown, enrollments, slots, req, via>>

-----------------------------------------------------------------------------
\* Mutant: an enrollment found in the table is taken to be unexpired.
EnrollmentFound(p) ==
    /\ code # None
    /\ p.id[1] = code.generation
    /\ CreatorActive

EnrollmentValid(p) ==
    /\ code # None
    /\ p.id[1] = code.generation
    /\ p.ttl > 0
    /\ code.ttl > 0
    /\ CreatorActive

CountPassword(p) ==
    enrollments' = (enrollments \ {p}) \cup {[p EXCEPT !.attempts = @ + 1]}

\* pairingEnroll, first critical section: the enrollment proof is good, a
\* password slot is free, and the attempt is counted before any work is done.
EnrollBegin(r, p) ==
    /\ req[r] = Idle
    /\ p \in enrollments
    /\ EnrollmentValid(p)
    /\ p.attempts < MaxPasswords
    /\ slots < MaxSlots
    /\ slots' = slots + 1
    /\ CountPassword(p)
    /\ req' = [req EXCEPT ![r] = [Idle EXCEPT !.phase = "hashing", !.id = p.id]]
    /\ UNCHANGED <<storeVars, code, cooldown, pairings, handles, via>>

\* Mutant: an early return forgets that the slot is still taken.
AnswerAndForgetSlot(r) == req' = [req EXCEPT ![r] = Idle]

Answer(r) == req' = [req EXCEPT ![r] = Leaving]

\* The password is wrong, or the enrollment did not outlive the password work.
EnrollRefused(r) ==
    /\ req[r].phase = "hashing"
    /\ Answer(r)
    /\ UNCHANGED <<storeVars, code, cooldown, pairings, enrollments, handles, slots, via>>

ConsumeCode ==
    /\ code' = None
    /\ ClearPairings

\* Second critical section, with the password correct: check again, then save.
EnrollCommit(r, p) ==
    /\ req[r].phase = "hashing"
    /\ p \in enrollments
    /\ p.id = req[r].id
    /\ EnrollmentValid(p)
    /\ Add(p.device)
    /\ ConsumeCode
    /\ via' = [via EXCEPT ![p.device] = p.id[1]]
    /\ Answer(r)
    /\ UNCHANGED <<cooldown, slots>>

\* DeviceStore.Add refuses or cannot save: the code stays good.
EnrollUnsaved(r, p) ==
    /\ req[r].phase = "hashing"
    /\ p \in enrollments
    /\ p.id = req[r].id
    /\ EnrollmentValid(p)
    /\ AddUnsaved(p.device)
    /\ Answer(r)
    /\ UNCHANGED <<code, cooldown, pairings, enrollments, handles, slots, via>>

\* A login takes one of the same slots for its password work.
LoginBegin(r) ==
    /\ req[r] = Idle
    /\ slots < MaxSlots
    /\ slots' = slots + 1
    /\ req' = [req EXCEPT ![r] = [Idle EXCEPT !.phase = "signing"]]
    /\ UNCHANGED <<storeVars, code, cooldown, pairings, enrollments, handles, via>>

LoginEnd(r) ==
    /\ req[r].phase = "signing"
    /\ Answer(r)
    /\ UNCHANGED <<storeVars, code, cooldown, pairings, enrollments, handles, slots, via>>

\* The deferred release of the slot, after the lock is given up.
ReleaseSlot(r) ==
    /\ req[r].phase = "leaving"
    /\ slots' = slots - 1
    /\ req' = [req EXCEPT ![r] = Idle]
    /\ UNCHANGED <<storeVars, code, cooldown, pairings, enrollments, handles, via>>

-----------------------------------------------------------------------------
\* revokeLocked, as far as pairing goes: the code of a revoked creator dies.
RevokeDevice(d) ==
    /\ Revoke(d)
    /\ IF code # None /\ code.creator = d
       THEN ConsumeCode
       ELSE UNCHANGED <<code, pairings, enrollments, handles>>
    /\ UNCHANGED <<cooldown, slots, req, via>>

RevokeDeviceUnsaved(d) ==
    /\ RevokeUnsaved(d)
    /\ UNCHANGED pairVars

\* The process stops at any instant and is started again by systemd.
Restart ==
    /\ OpenDeviceStore
    /\ code' = None
    /\ cooldown' = 0
    /\ pairings' = {}
    /\ enrollments' = {}
    /\ handles' = {}
    /\ slots' = 0
    /\ req' = [r \in Requests |-> Idle]
    /\ UNCHANGED via

Less(t) == IF t > 0 THEN t - 1 ELSE 0
Aged(pending) == {[p EXCEPT !.ttl = Less(@)] : p \in pending}

Tick ==
    /\ code' = IF code = None THEN None ELSE [code EXCEPT !.ttl = Less(@)]
    /\ cooldown' = Less(cooldown)
    /\ pairings' = Aged(pairings)
    /\ enrollments' = Aged(enrollments)
    /\ UNCHANGED <<storeVars, handles, slots, req, via>>

-----------------------------------------------------------------------------
\* What a running handler does without waiting for anyone.
Serve(r) ==
    \/ EnrollRefused(r)
    \/ \E p \in enrollments : EnrollCommit(r, p) \/ EnrollUnsaved(r, p)
    \/ LoginEnd(r)
    \/ ReleaseSlot(r)

Next ==
    \/ CreatePairingCode
    \/ \E r \in Requests, d \in Devices : CodeAuthenticate(r, d)
    \/ \E r \in Requests : CodeCreate(r)
    \/ \E r \in Requests : CodeRefused(r)
    \/ \E d \in Devices : PairingStart(d)
    \/ PairingStartFailed
    \/ PairingStartRefused
    \/ \E p \in pairings : PairingFinish(p)
    \/ \E p \in pairings : PairingFinishRefused(p)
    \/ \E r \in Requests, p \in enrollments : EnrollBegin(r, p)
    \/ \E r \in Requests : LoginBegin(r)
    \/ \E r \in Requests : Serve(r)
    \/ \E d \in Devices : RevokeDevice(d)
    \/ \E d \in Devices : RevokeDeviceUnsaved(d)
    \/ Restart
    \/ Tick

Spec == Init /\ [][Next]_vars

-----------------------------------------------------------------------------
(***************************************************************************)
(* Safety.                                                                 *)
(***************************************************************************)

\* Every pending exchange and enrollment belongs to the present code and does
\* not outlive it, so replacing, consuming or revoking a code leaves nothing
\* behind (newPairingCodeLocked, pairingEnroll, revokeLocked and ServeWithAdmin
\* all call clearPairingsLocked).
PendingUnderCode ==
    \A p \in pairings \cup enrollments :
        /\ code # None
        /\ p.id[1] = code.generation
        /\ p.ttl <= code.ttl

\* An exchange takes a place among the code's attempts when it starts and no
\* two share one, verified or not: parallel, abandoned and finished exchanges
\* together stay within the budget (docs/device-pairing.md:84-87).
AttemptsReserved ==
    /\ \A p \in pairings \cup enrollments : p.id[2] <= code.attempts
    /\ \A p, q \in pairings : p.id = q.id => p = q
    /\ \A p, q \in enrollments : p.id = q.id => p = q
    /\ IDs(pairings) \cap IDs(enrollments) = {}

\* The native library holds exactly the states of the exchanges still pending:
\* none leaks when one expires, finishes or is cleared, and none is freed early.
HandlesMatchExchanges == handles = IDs(pairings)

\* A code made by a device is good only while that device is authorized, also
\* when the device is revoked between authenticating and creating it.
CodeCreatorAuthorized == code # None => CreatorActive

\* What the file says is what the process acts on, so a restart changes nobody's
\* standing, although a save may fail at any time.
RecordsDurable == disk = devices

\* Password computations under way against one enrollment were all counted
\* beforehand, so running them in parallel earns no extra attempt.
PasswordsCounted ==
    \A p \in enrollments :
        Cardinality({r \in Requests : req[r].phase = "hashing" /\ req[r].id = p.id})
            <= p.attempts

\* A slot is taken exactly by the requests between their acquisition and their
\* deferred release: no early return of pairingEnroll or login loses one.
Holding == {r \in Requests : req[r].phase \in {"hashing", "signing", "leaving"}}
SlotsAccounted == slots = Cardinality(Holding)

\* A code authorizes at most one device, and none at all while it is still good.
OneDevicePerCode ==
    /\ \A d, e \in Devices : via[d] = via[e] /\ via[d] # None => d = e
    /\ code # None => \A d \in Devices : via[d] # code.generation

\* The types, and what the records, the password slots and the codes come to.
Inv == TypeOK /\ RecordsDurable /\ PasswordsCounted /\ SlotsAccounted /\ OneDevicePerCode

(***************************************************************************)
(* Action properties.                                                      *)
(***************************************************************************)

\* Authorization only moves forward: a revoked device never becomes active
\* again and a recorded one is never forgotten, across restarts and failed
\* saves of either operation.
StandingMovesForward ==
    [][\A d \in Devices :
          /\ devices[d] = "revoked" => devices'[d] = "revoked"
          /\ devices[d] = "active" => devices'[d] # "none"]_devices

(***************************************************************************)
(* Refinement.                                                             *)
(***************************************************************************)

\* The code that may still authorize a device at this instant.
Live ==
    IF code = None THEN {}
    ELSE IF code.ttl > 0 /\ CreatorActive THEN {code.generation} ELSE {}

Abstract == INSTANCE Enrollment WITH status <- devices, live <- Live

\* Pairing implements what Enrollment promises: in particular whatever happens
\* while a password is being checked, the commit finds a good code.
ImplementsEnrollment == Abstract!Spec
=============================================================================
