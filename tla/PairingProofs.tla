--------------------------- MODULE PairingProofs ---------------------------
(***************************************************************************)
(* Proofs about Pairing for every set of devices, requests and codes and   *)
(* every value of the limits and lifetimes.                                *)
(***************************************************************************)
EXTENDS Pairing, TLAPS, FiniteSetTheorems

-----------------------------------------------------------------------------
(***************************************************************************)
(* Type correctness.                                                       *)
(***************************************************************************)

\* What an action that creates, consumes or clears leaves is well typed.
LEMMA ClearType == ASSUME TypeOK, ClearPairings
                   PROVE  /\ pairings' \in SUBSET Exchange
                          /\ enrollments' \in SUBSET Pending
                          /\ handles' \in SUBSET ExchangeID
  BY DEF TypeOK, ClearPairings

\* So is what pairingStart keeps of the pending exchanges.
LEMMA PurgeType == ASSUME TypeOK
                   PROVE  /\ Unexpired(pairings) \in SUBSET Exchange
                          /\ Unexpired(enrollments) \in SUBSET Pending
  BY DEF TypeOK, Unexpired

\* Aging keeps an exchange or an enrollment one.
LEMMA AgedType == ASSUME TypeOK
                  PROVE  /\ Aged(pairings) \in SUBSET Exchange
                         /\ Aged(enrollments) \in SUBSET Pending
  <1>1. ASSUME NEW p \in Exchange
        PROVE  [p EXCEPT !.ttl = Less(@)] \in Exchange
    BY BoundsAssumption DEF Exchange, Less
  <1>2. ASSUME NEW p \in Pending
        PROVE  [p EXCEPT !.ttl = Less(@)] \in Pending
    BY BoundsAssumption DEF Pending, Less
  <1> QED
    BY <1>1, <1>2 DEF TypeOK, Aged

\* newPairingCodeLocked leaves a well-typed code and nothing pending.
LEMMA NewCodeType ==
  ASSUME TypeOK, NEW c \in Devices \cup {Terminal}, NewPairingCode(c)
  PROVE  /\ code' \in Code
         /\ cooldown' \in 0..CodeInterval
         /\ pairings' \in SUBSET Exchange
         /\ enrollments' \in SUBSET Pending
         /\ handles' \in SUBSET ExchangeID
         /\ UNCHANGED <<devices, disk, slots, via>>
  <1>1. code' \in Code
    BY BoundsAssumption DEF NewPairingCode, Code
  <1>2. cooldown' \in 0..CodeInterval
    BY BoundsAssumption DEF NewPairingCode
  <1> QED
    BY <1>1, <1>2, ClearType DEF NewPairingCode, storeVars

\* What a running handler records about itself is a request.
LEMMA RequestType ==
  /\ Idle \in Request /\ Leaving \in Request
  /\ [Idle EXCEPT !.phase = "signing"] \in Request
  /\ \A d \in Devices :
        [Idle EXCEPT !.phase = "creating", !.device = d] \in Request
  /\ \A i \in ExchangeID :
        [Idle EXCEPT !.phase = "hashing", !.id = i] \in Request
  BY DEF Idle, Leaving, Request

\* A request in one of the phases that hold a slot is one of finitely many, so
\* releasing never takes the count below zero.
LEMMA HoldingFinite ==
  /\ IsFiniteSet(Holding)
  /\ Cardinality(Holding) \in Nat
  /\ \A r \in Holding : Cardinality(Holding) > 0
  <1>1. IsFiniteSet(Holding)
    BY RequestsAssumption, FS_Subset DEF Holding
  <1> QED
    BY <1>1, FS_CardinalityType, FS_EmptySet

\* The state starts well typed with every slot free.
LEMMA InitSlotsTyped == Init => TypeOK /\ SlotsAccounted
  <1> SUFFICES ASSUME Init
               PROVE  TypeOK /\ SlotsAccounted
    OBVIOUS
  <1>1. StoreTypeOK
    BY DEF Init, StoreInit, StoreTypeOK, Standing
  <1>2. cooldown \in 0..CodeInterval /\ slots \in 0..MaxSlots
    BY BoundsAssumption DEF Init
  <1>3. req \in [Requests -> Request]
    BY RequestType DEF Init
  <1>4. TypeOK
    BY <1>1, <1>2, <1>3 DEF Init, TypeOK
  <1>5. Holding = {}
    BY DEF Init, Holding, Idle
  <1> QED
    BY <1>4, <1>5, FS_EmptySet DEF Init, SlotsAccounted

\* Every step keeps the state well typed.
LEMMA NextTyped ==
  ASSUME TypeOK, SlotsAccounted, [Next]_vars
  PROVE  TypeOK'
  <1> USE DEF TypeOK, StoreTypeOK, storeVars
  <1>1. CASE CreatePairingCode
    BY <1>1, NewCodeType DEF CreatePairingCode
  <1>2. ASSUME NEW r \in Requests, NEW d \in Devices, CodeAuthenticate(r, d)
        PROVE  TypeOK'
    BY <1>2, RequestType DEF CodeAuthenticate
  <1>3. ASSUME NEW r \in Requests, CodeCreate(r)
        PROVE  TypeOK'
    <2>1. req[r].device \in Devices \cup {Terminal}
      BY <1>3, NamesAssumption
         DEF CodeCreate, NewPairingCode, Creatable, Active
    <2> QED
      BY <1>3, <2>1, NewCodeType, RequestType DEF CodeCreate
  <1>4. ASSUME NEW r \in Requests, CodeRefused(r)
        PROVE  TypeOK'
    BY <1>4, RequestType DEF CodeRefused
  <1>5. ASSUME NEW d \in Devices, PairingStart(d)
        PROVE  TypeOK'
    <2> DEFINE id == <<code.generation, code.attempts + 1>>
    <2> DEFINE x == [id |-> id, device |-> d,
                     ttl |-> Lesser(ExchangeLifetime, code.ttl)]
    <2>1. code \in Code /\ code.ttl > 0 /\ code.attempts < MaxStarts
      BY <1>5 DEF PairingStart, Startable
    <2>2. id \in ExchangeID
      BY <2>1, BoundsAssumption DEF Code, ExchangeID
    <2>3. x \in Exchange
      BY <2>1, <2>2, BoundsAssumption DEF Code, Exchange, Lesser
    <2>4. code' \in Code
      BY <1>5, <2>1, BoundsAssumption DEF PairingStart, TakeAttempt, Code
    <2> QED
      BY <1>5, <2>2, <2>3, <2>4, PurgeType DEF PairingStart
  <1>6. CASE PairingStartFailed
    <2>1. code' \in Code
      BY <1>6, BoundsAssumption
         DEF PairingStartFailed, Startable, TakeAttempt, Code
    <2> QED
      BY <1>6, <2>1, PurgeType DEF PairingStartFailed, PurgeExpired
  <1>7. CASE PairingStartRefused
    BY <1>7, PurgeType DEF PairingStartRefused, PurgeExpired
  <1>8. ASSUME NEW p \in pairings, PairingFinish(p)
        PROVE  TypeOK'
    <2>1. [id |-> p.id, device |-> p.device, attempts |-> 0, ttl |-> code.ttl]
             \in Pending
      BY <1>8, BoundsAssumption
         DEF PairingFinish, Finishable, Exchange, Pending, Code
    <2> QED
      BY <1>8, <2>1 DEF PairingFinish, TakeExchange
  <1>9. ASSUME NEW p \in pairings, PairingFinishRefused(p)
        PROVE  TypeOK'
    BY <1>9 DEF PairingFinishRefused, TakeExchange
  <1>10. ASSUME NEW r \in Requests, NEW p \in enrollments, EnrollBegin(r, p)
         PROVE  TypeOK'
    <2>1. [p EXCEPT !.attempts = @ + 1] \in Pending
      BY <1>10, BoundsAssumption DEF EnrollBegin, Pending
    <2>2. p.id \in ExchangeID
      BY DEF Pending
    <2>3. slots' \in 0..MaxSlots
      BY <1>10, BoundsAssumption DEF EnrollBegin
    <2> QED
      BY <1>10, <2>1, <2>2, <2>3, RequestType DEF EnrollBegin, CountPassword
  <1>11. ASSUME NEW r \in Requests, LoginBegin(r)
         PROVE  TypeOK'
    <2>1. slots' \in 0..MaxSlots
      BY <1>11, BoundsAssumption DEF LoginBegin
    <2> QED
      BY <1>11, <2>1, RequestType DEF LoginBegin
  <1>12. ASSUME NEW r \in Requests, EnrollRefused(r)
         PROVE  TypeOK'
    BY <1>12, RequestType DEF EnrollRefused, Answer
  <1>13. ASSUME NEW r \in Requests, NEW p \in enrollments, EnrollCommit(r, p)
         PROVE  TypeOK'
    <2>1. p.id[1] \in Generations /\ p.device \in Devices
      BY DEF Pending, ExchangeID
    <2> QED
      BY <1>13, <2>1, RequestType, ClearType
         DEF EnrollCommit, Answer, ConsumeCode, Add, Standing
  <1>14. ASSUME NEW r \in Requests, NEW p \in enrollments, EnrollUnsaved(r, p)
         PROVE  TypeOK'
    BY <1>14, RequestType DEF EnrollUnsaved, Answer, AddUnsaved
  <1>15. ASSUME NEW r \in Requests, LoginEnd(r)
         PROVE  TypeOK'
    BY <1>15, RequestType DEF LoginEnd, Answer
  <1>16. ASSUME NEW r \in Requests, ReleaseSlot(r)
         PROVE  TypeOK'
    <2>1. slots > 0
      BY <1>16, HoldingFinite DEF ReleaseSlot, SlotsAccounted, Holding
    <2>2. slots' \in 0..MaxSlots
      BY <1>16, <2>1, BoundsAssumption DEF ReleaseSlot
    <2> QED
      BY <1>16, <2>2, RequestType DEF ReleaseSlot
  <1>17. ASSUME NEW d \in Devices, RevokeDevice(d)
         PROVE  TypeOK'
    BY <1>17, ClearType DEF RevokeDevice, Revoke, ConsumeCode, Standing
  <1>18. ASSUME NEW d \in Devices, RevokeDeviceUnsaved(d)
         PROVE  TypeOK'
    BY <1>18 DEF RevokeDeviceUnsaved, RevokeUnsaved, pairVars
  <1>19. CASE Restart
    <2>1. cooldown' \in 0..CodeInterval /\ slots' \in 0..MaxSlots
      BY <1>19, BoundsAssumption DEF Restart
    <2> QED
      BY <1>19, <2>1, RequestType DEF Restart, OpenDeviceStore
  <1>20. CASE Tick
    <2>1. code' \in Code \cup {None}
      BY <1>20, BoundsAssumption DEF Tick, Code, Less
    <2>2. cooldown' \in 0..CodeInterval
      BY <1>20, BoundsAssumption DEF Tick, Less
    <2> QED
      BY <1>20, <2>1, <2>2, AgedType DEF Tick
  <1>21. CASE UNCHANGED vars
    BY <1>21 DEF vars
  <1> QED
    BY <1>1, <1>2, <1>3, <1>4, <1>5, <1>6, <1>7, <1>8, <1>9, <1>10, <1>11, <1>12,
       <1>13, <1>14, <1>15, <1>16, <1>17, <1>18, <1>19, <1>20, <1>21
       DEF Next, Serve

-----------------------------------------------------------------------------
(***************************************************************************)
(* Password slots.                                                         *)
(***************************************************************************)

\* A request that takes no slot and gives none back leaves the count alone.
LEMMA SameHolding ==
  ASSUME TypeOK, SlotsAccounted, NEW r \in Requests, NEW x \in Request,
         req' = [req EXCEPT ![r] = x], slots' = slots,
         (x.phase \in {"hashing", "signing", "leaving"}) <=> (r \in Holding)
  PROVE  SlotsAccounted'
  <1>1. Holding' = Holding
    BY DEF Holding, TypeOK
  <1> QED
    BY <1>1 DEF SlotsAccounted

\* An idle request that starts password work is one more slot taken.
LEMMA JoinHolding ==
  ASSUME TypeOK, SlotsAccounted, NEW r \in Requests, NEW x \in Request,
         req[r] = Idle, req' = [req EXCEPT ![r] = x], slots' = slots + 1,
         x.phase \in {"hashing", "signing"}
  PROVE  SlotsAccounted'
  <1>1. r \notin Holding
    BY DEF Holding, Idle
  <1>2. Holding' = Holding \cup {r}
    BY DEF Holding, TypeOK
  <1> QED
    BY <1>1, <1>2, HoldingFinite, FS_AddElement DEF SlotsAccounted

\* A request that leaves is one slot less.
LEMMA LeaveHolding ==
  ASSUME TypeOK, SlotsAccounted, NEW r \in Requests,
         req[r].phase = "leaving", req' = [req EXCEPT ![r] = Idle],
         slots' = slots - 1
  PROVE  SlotsAccounted'
  <1>1. r \in Holding
    BY DEF Holding
  <1>2. Holding' = Holding \ {r}
    BY DEF Holding, TypeOK, Idle
  <1> QED
    BY <1>1, <1>2, HoldingFinite, FS_RemoveElement DEF SlotsAccounted

\* Every step keeps the slots accounted for.
LEMMA NextSlots ==
  ASSUME TypeOK, SlotsAccounted, [Next]_vars
  PROVE  SlotsAccounted'
  <1>1. ASSUME UNCHANGED <<slots, req>>
        PROVE  SlotsAccounted'
    BY <1>1 DEF SlotsAccounted, Holding
  <1>2. ASSUME NEW r \in Requests, CodeCreate(r) \/ CodeRefused(r)
        PROVE  SlotsAccounted'
    <2>1. req' = [req EXCEPT ![r] = Idle] /\ slots' = slots /\ r \notin Holding
      BY <1>2 DEF CodeCreate, CodeRefused, NewPairingCode, Holding
    <2> QED
      BY <2>1, RequestType, SameHolding DEF Idle
  <1>3. ASSUME NEW r \in Requests, NEW d \in Devices, CodeAuthenticate(r, d)
        PROVE  SlotsAccounted'
    <2> DEFINE x == [Idle EXCEPT !.phase = "creating", !.device = d]
    <2>1. x \in Request /\ x.phase = "creating"
      BY RequestType DEF Idle
    <2>2. req' = [req EXCEPT ![r] = x] /\ slots' = slots /\ r \notin Holding
      BY <1>3 DEF CodeAuthenticate, Holding, Idle
    <2> QED
      BY <2>1, <2>2, SameHolding
  <1>4. ASSUME NEW r \in Requests, NEW p \in enrollments, EnrollBegin(r, p)
        PROVE  SlotsAccounted'
    <2> DEFINE x == [Idle EXCEPT !.phase = "hashing", !.id = p.id]
    <2>1. x \in Request /\ x.phase = "hashing"
      BY RequestType DEF Idle, TypeOK, Pending
    <2> QED
      BY <1>4, <2>1, JoinHolding DEF EnrollBegin
  <1>5. ASSUME NEW r \in Requests, LoginBegin(r)
        PROVE  SlotsAccounted'
    <2> DEFINE x == [Idle EXCEPT !.phase = "signing"]
    <2>1. x \in Request /\ x.phase = "signing"
      BY RequestType DEF Idle
    <2> QED
      BY <1>5, <2>1, JoinHolding DEF LoginBegin
  <1>6. ASSUME NEW r \in Requests, Answer(r), slots' = slots,
               req[r].phase \in {"hashing", "signing"}
        PROVE  SlotsAccounted'
    <2>1. Leaving.phase = "leaving" /\ r \in Holding
      BY <1>6 DEF Leaving, Idle, Holding
    <2> QED
      BY <1>6, <2>1, RequestType, SameHolding DEF Answer
  <1>7. ASSUME NEW r \in Requests, Serve(r)
        PROVE  SlotsAccounted'
    BY <1>6, <1>7, LeaveHolding
       DEF Serve, EnrollRefused, EnrollCommit, EnrollUnsaved, LoginEnd, ReleaseSlot
  <1>8. CASE Restart
    <2>1. Holding' = {}
      BY <1>8 DEF Restart, Holding, Idle
    <2> QED
      BY <1>8, <2>1, FS_EmptySet DEF Restart, SlotsAccounted
  <1>9. ASSUME NEW d \in Devices,
               PairingStart(d) \/ RevokeDevice(d) \/ RevokeDeviceUnsaved(d)
        PROVE  UNCHANGED <<slots, req>>
    BY <1>9 DEF PairingStart, RevokeDevice, RevokeDeviceUnsaved, pairVars
  <1>10. ASSUME NEW p \in pairings, PairingFinish(p) \/ PairingFinishRefused(p)
         PROVE  UNCHANGED <<slots, req>>
    BY <1>10 DEF PairingFinish, PairingFinishRefused
  <1>11. ASSUME \/ CreatePairingCode \/ PairingStartFailed
                \/ PairingStartRefused \/ Tick \/ UNCHANGED vars
         PROVE  UNCHANGED <<slots, req>>
    BY <1>11 DEF CreatePairingCode, NewPairingCode, PairingStartFailed,
                 PairingStartRefused, Tick, vars
  <1> QED
    BY <1>1, <1>2, <1>3, <1>4, <1>5, <1>7, <1>8, <1>9, <1>10, <1>11 DEF Next

\* Type correctness, and that the slots taken are exactly the requests between
\* acquiring one and releasing it: one induction, since the count stays within
\* its type only because it is accounted for.
THEOREM TypeCorrect == Spec => []TypeOK
  <1>1. Init => TypeOK /\ SlotsAccounted
    BY InitSlotsTyped
  <1>2. TypeOK /\ SlotsAccounted /\ [Next]_vars => (TypeOK /\ SlotsAccounted)'
    BY NextTyped, NextSlots
  <1> QED
    BY <1>1, <1>2, PTL DEF Spec

\* At most MaxSlots passwords are computed at once, and no early return of
\* pairingEnroll or login loses a slot.
THEOREM SlotsCorrect == Spec => []SlotsAccounted
  <1>1. Init => TypeOK /\ SlotsAccounted
    BY InitSlotsTyped
  <1>2. TypeOK /\ SlotsAccounted /\ [Next]_vars => (TypeOK /\ SlotsAccounted)'
    BY NextTyped, NextSlots
  <1> QED
    BY <1>1, <1>2, PTL DEF Spec

-----------------------------------------------------------------------------
(***************************************************************************)
(* The code and what is pending under it.                                  *)
(***************************************************************************)

\* Everything pending is dropped, with the code replaced or withdrawn.
Cleared ==
    /\ pairings' = {} /\ enrollments' = {}
    /\ handles' = handles \ IDs(pairings) \/ handles' = {}

\* What a step may do to the code and to what is pending under it.
LEMMA NextPending ==
  ASSUME TypeOK, [Next]_vars
  PROVE  \/ UNCHANGED <<code, pairings, enrollments, handles>>
         \/ Cleared
         \/ \E d \in Devices : PairingStart(d)
         \/ (PairingStartFailed \/ PairingStartRefused)
         \/ \E p \in pairings : PairingFinish(p) \/ PairingFinishRefused(p)
         \/ \E p \in enrollments : /\ CountPassword(p)
                                   /\ UNCHANGED <<code, pairings, handles>>
         \/ Tick
  <1>1. ASSUME CreatePairingCode \/ \E r \in Requests : CodeCreate(r)
        PROVE  Cleared
    BY <1>1 DEF CreatePairingCode, CodeCreate, NewPairingCode, ClearPairings, Cleared
  <1>2. ASSUME NEW r \in Requests,
               \/ \E d \in Devices : CodeAuthenticate(r, d)
               \/ CodeRefused(r) \/ EnrollRefused(r) \/ LoginBegin(r)
               \/ LoginEnd(r) \/ ReleaseSlot(r)
               \/ \E p \in enrollments : EnrollUnsaved(r, p)
        PROVE  UNCHANGED <<code, pairings, enrollments, handles>>
    BY <1>2 DEF CodeAuthenticate, CodeRefused, EnrollRefused, LoginBegin,
                LoginEnd, ReleaseSlot, EnrollUnsaved
  <1>3. ASSUME NEW r \in Requests, NEW p \in enrollments, EnrollCommit(r, p)
        PROVE  Cleared
    BY <1>3 DEF EnrollCommit, ConsumeCode, ClearPairings, Cleared
  <1>4. ASSUME NEW r \in Requests, NEW p \in enrollments, EnrollBegin(r, p)
        PROVE  CountPassword(p) /\ UNCHANGED <<code, pairings, handles>>
    BY <1>4 DEF EnrollBegin
  <1>5. ASSUME NEW d \in Devices, RevokeDevice(d) \/ RevokeDeviceUnsaved(d)
        PROVE  Cleared \/ UNCHANGED <<code, pairings, enrollments, handles>>
    BY <1>5 DEF RevokeDevice, RevokeDeviceUnsaved, ConsumeCode, ClearPairings,
                Cleared, pairVars
  <1>6. ASSUME Restart
        PROVE  Cleared
    BY <1>6 DEF Restart, Cleared
  <1>7. ASSUME UNCHANGED vars
        PROVE  UNCHANGED <<code, pairings, enrollments, handles>>
    BY <1>7 DEF vars
  <1> QED
    BY <1>1, <1>2, <1>3, <1>4, <1>5, <1>6, <1>7 DEF Next, Serve

\* Aging shortens every deadline and leaves the rest of an entry as it is.
LEMMA AgedEntries ==
  ASSUME TypeOK
  PROVE  /\ \A q \in Aged(pairings) : \E p \in pairings :
                q = [p EXCEPT !.ttl = Less(@)] /\ q.id = p.id /\ q.ttl = Less(p.ttl)
         /\ \A q \in Aged(enrollments) : \E p \in enrollments :
                q = [p EXCEPT !.ttl = Less(@)] /\ q.id = p.id /\ q.ttl = Less(p.ttl)
         /\ IDs(Aged(pairings)) = IDs(pairings)
         /\ IDs(Aged(enrollments)) = IDs(enrollments)
  <1>1. ASSUME NEW p \in pairings \cup enrollments
        PROVE  /\ [p EXCEPT !.ttl = Less(@)].id = p.id
               /\ [p EXCEPT !.ttl = Less(@)].ttl = Less(p.ttl)
    BY DEF TypeOK, Exchange, Pending
  <1>2. ASSUME NEW S, S \subseteq pairings \cup enrollments
        PROVE  /\ \A q \in Aged(S) : \E p \in S :
                     q = [p EXCEPT !.ttl = Less(@)] /\ q.id = p.id /\ q.ttl = Less(p.ttl)
               /\ IDs(Aged(S)) = IDs(S)
    <2>1. \A q \in Aged(S) : \E p \in S :
             q = [p EXCEPT !.ttl = Less(@)] /\ q.id = p.id /\ q.ttl = Less(p.ttl)
      BY <1>1, <1>2 DEF Aged
    <2>2. IDs(Aged(S)) \subseteq IDs(S)
      BY <2>1 DEF IDs
    <2>3. ASSUME NEW p \in S
          PROVE  p.id \in IDs(Aged(S))
      <3>1. [p EXCEPT !.ttl = Less(@)] \in Aged(S)
        BY DEF Aged
      <3>2. [p EXCEPT !.ttl = Less(@)].id = p.id
        BY <1>1, <1>2
      <3> QED
        BY <3>1, <3>2 DEF IDs
    <2> QED
      BY <2>1, <2>2, <2>3 DEF IDs
  <1> QED
    BY <1>2

\* Nothing is pending under a code but what belongs to it and ends with it.
LEMMA NextPendingUnderCode ==
  ASSUME TypeOK, PendingUnderCode, [Next]_vars
  PROVE  PendingUnderCode'
  <1>1. CASE UNCHANGED <<code, pairings, enrollments, handles>>
    BY <1>1 DEF PendingUnderCode
  <1>2. CASE Cleared
    BY <1>2 DEF Cleared, PendingUnderCode
  <1>3. ASSUME NEW d \in Devices, PairingStart(d)
        PROVE  PendingUnderCode'
    <2>1. code \in Code /\ code # None
      BY <1>3 DEF PairingStart, Startable, TypeOK
    <2>2. code' # None /\ code'.generation = code.generation /\ code'.ttl = code.ttl
      BY <1>3, <2>1, NamesAssumption DEF PairingStart, TakeAttempt, Code
    <2>3. Lesser(ExchangeLifetime, code.ttl) <= code.ttl
      BY <2>1, BoundsAssumption DEF Lesser, Code
    <2> QED
      BY <1>3, <2>2, <2>3 DEF PairingStart, PendingUnderCode, Unexpired
  <1>4. CASE PairingStartFailed \/ PairingStartRefused
    <2>1. CASE PairingStartFailed
      <3>1. code \in Code /\ code # None
        BY <2>1 DEF PairingStartFailed, Startable, TypeOK
      <3>2. code' # None /\ code'.generation = code.generation /\ code'.ttl = code.ttl
        BY <2>1, <3>1, NamesAssumption DEF PairingStartFailed, TakeAttempt, Code
      <3> QED
        BY <2>1, <3>2
           DEF PairingStartFailed, PurgeExpired, PendingUnderCode, Unexpired
    <2>2. CASE PairingStartRefused
      BY <2>2 DEF PairingStartRefused, PurgeExpired, PendingUnderCode, Unexpired
    <2> QED
      BY <1>4, <2>1, <2>2
  <1>5. ASSUME NEW p \in pairings, PairingFinish(p) \/ PairingFinishRefused(p)
        PROVE  PendingUnderCode'
    <2>1. code' = code /\ pairings' \subseteq pairings
      BY <1>5 DEF PairingFinish, PairingFinishRefused, TakeExchange
    <2>2. CASE PairingFinish(p)
      <3>1. code \in Code /\ code # None
        BY <2>2 DEF PairingFinish, Finishable, TypeOK
      <3>2. code.ttl <= code.ttl
        BY <3>1 DEF Code
      <3> QED
        BY <2>1, <2>2, <3>1, <3>2 DEF PairingFinish, Finishable, PendingUnderCode
    <2>3. CASE PairingFinishRefused(p)
      BY <2>1, <2>3 DEF PairingFinishRefused, PendingUnderCode
    <2> QED
      BY <1>5, <2>2, <2>3
  <1>6. ASSUME NEW p \in enrollments, CountPassword(p),
               UNCHANGED <<code, pairings, handles>>
        PROVE  PendingUnderCode'
    <2> DEFINE x == [p EXCEPT !.attempts = @ + 1]
    <2>1. x.id = p.id /\ x.ttl = p.ttl
      BY DEF TypeOK, Pending
    <2>2. enrollments' = (enrollments \ {p}) \cup {x}
      BY <1>6 DEF CountPassword
    <2> HIDE DEF x
    <2> QED
      BY <1>6, <2>1, <2>2 DEF PendingUnderCode
  <1>7. CASE Tick
    <2>1. ASSUME NEW p \in pairings \cup enrollments
          PROVE  code' # None /\ p.id[1] = code'.generation /\ Less(p.ttl) <= code'.ttl
      <3>1. code \in Code /\ code # None /\ p.id[1] = code.generation /\ p.ttl <= code.ttl
        BY DEF TypeOK, PendingUnderCode
      <3>2. code'.generation = code.generation /\ code'.ttl = Less(code.ttl) /\ code' # None
        BY <1>7, <3>1, NamesAssumption DEF Tick, Code, Less
      <3>3. p.ttl \in Nat /\ code.ttl \in Nat
        BY <3>1 DEF TypeOK, Exchange, Pending, Code
      <3>4. Less(p.ttl) <= Less(code.ttl)
        BY <3>1, <3>3 DEF Less
      <3> QED
        BY <3>1, <3>2, <3>4
    <2> QED
      BY <1>7, <2>1, AgedEntries DEF Tick, PendingUnderCode
  <1> QED
    BY <1>1, <1>2, <1>3, <1>4, <1>5, <1>6, <1>7, NextPending

\* A replaced, consumed or revoked code leaves nothing pending, and nothing
\* outlives its code.
THEOREM PendingCorrect == Spec => []PendingUnderCode
  <1>1. Init => PendingUnderCode
    BY DEF Init, PendingUnderCode
  <1>2. TypeOK /\ PendingUnderCode /\ [Next]_vars => PendingUnderCode'
    BY NextPendingUnderCode
  <1> QED
    BY <1>1, <1>2, TypeCorrect, PTL DEF Spec

-----------------------------------------------------------------------------
(***************************************************************************)
(* Attempts and native PAKE states.                                        *)
(***************************************************************************)

\* Discarding what has expired only takes entries away.
LEMMA UnexpiredSubset == \A S : Unexpired(S) \subseteq S
  BY DEF Unexpired

\* The exchange a start adds takes an attempt nobody has.
LEMMA StartFresh ==
  ASSUME TypeOK, AttemptsReserved, NEW d \in Devices, PairingStart(d)
  PROVE  \E x \in Exchange :
            /\ pairings' = Unexpired(pairings) \cup {x}
            /\ handles' = (handles \ (IDs(pairings) \ IDs(Unexpired(pairings)))) \cup {x.id}
            /\ enrollments' = Unexpired(enrollments)
            /\ x.id[2] = code'.attempts
            /\ \A p \in pairings \cup enrollments :
                  p.id[2] <= code'.attempts /\ p.id # x.id
  <1> DEFINE id == <<code.generation, code.attempts + 1>>
  <1> DEFINE x == [id |-> id, device |-> d, ttl |-> Lesser(ExchangeLifetime, code.ttl)]
  <1>1. code \in Code /\ code.attempts < MaxStarts
    BY DEF PairingStart, Startable, TypeOK
  <1>2. code'.attempts = code.attempts + 1 /\ code.attempts \in Nat
    BY <1>1, BoundsAssumption DEF PairingStart, TakeAttempt, Code
  <1>3. x \in Exchange /\ x.id = id
    BY <1>1, BoundsAssumption DEF Code, Exchange, ExchangeID, Lesser
  <1>4. ASSUME NEW p \in pairings \cup enrollments
        PROVE  p.id[2] <= code'.attempts /\ p.id # id
    <2>1. p.id[2] <= code.attempts /\ p.id[2] \in Nat
      BY BoundsAssumption DEF AttemptsReserved, TypeOK, Exchange, Pending, ExchangeID
    <2> QED
      BY <2>1, <1>2
  <1>5. pairings' = Unexpired(pairings) \cup {x} /\ enrollments' = Unexpired(enrollments)
    BY DEF PairingStart
  <1>6. handles' = (handles \ (IDs(pairings) \ IDs(Unexpired(pairings)))) \cup {id}
    BY DEF PairingStart
  <1>7. id[2] = code'.attempts
    BY <1>2
  <1> QED
    BY <1>3, <1>4, <1>5, <1>6, <1>7

\* A failed or refused start keeps the attempts of what is left in place.
LEMMA PurgeKeeps ==
  ASSUME TypeOK, PendingUnderCode, PairingStartFailed \/ PairingStartRefused
  PROVE  /\ pairings' = Unexpired(pairings)
         /\ enrollments' = Unexpired(enrollments)
         /\ handles' = handles \ (IDs(pairings) \ IDs(Unexpired(pairings)))
         /\ code # None => code \in Code /\ code'.attempts >= code.attempts
  <1>1. code # None => code \in Code
    BY DEF TypeOK
  <1>2. CASE PairingStartFailed
    BY <1>1, <1>2 DEF PairingStartFailed, PurgeExpired, Startable, TakeAttempt, Code
  <1>3. CASE PairingStartRefused
    BY <1>1, <1>3 DEF PairingStartRefused, PurgeExpired, Code
  <1> QED
    BY <1>2, <1>3

\* No two exchanges share an attempt and none is beyond the code's count.
LEMMA NextAttempts ==
  ASSUME TypeOK, PendingUnderCode, AttemptsReserved, [Next]_vars
  PROVE  AttemptsReserved'
  <1>1. CASE UNCHANGED <<code, pairings, enrollments, handles>>
    BY <1>1 DEF AttemptsReserved, IDs
  <1>2. CASE Cleared
    BY <1>2 DEF Cleared, AttemptsReserved, IDs
  <1>3. ASSUME NEW d \in Devices, PairingStart(d)
        PROVE  AttemptsReserved'
    <2>1. PICK x \in Exchange :
             /\ pairings' = Unexpired(pairings) \cup {x}
             /\ enrollments' = Unexpired(enrollments)
             /\ x.id[2] = code'.attempts
             /\ \A p \in pairings \cup enrollments :
                   p.id[2] <= code'.attempts /\ p.id # x.id
      BY <1>3, StartFresh
    <2>2. x.id[2] <= x.id[2]
      BY BoundsAssumption DEF Exchange, ExchangeID
    <2> QED
      BY <2>1, <2>2, UnexpiredSubset DEF AttemptsReserved, IDs
  <1>4. CASE PairingStartFailed \/ PairingStartRefused
    <2>1. ASSUME NEW p \in pairings \cup enrollments
          PROVE  p.id[2] <= code'.attempts
      <3>1. code # None /\ code \in Code /\ code'.attempts >= code.attempts
        BY <1>4, PurgeKeeps DEF PendingUnderCode
      <3>2. p.id[2] <= code.attempts /\ p.id[2] \in Nat /\ code.attempts \in Nat
        BY <3>1, BoundsAssumption
           DEF AttemptsReserved, TypeOK, Exchange, Pending, ExchangeID, Code
      <3>3. code'.attempts \in Nat
        BY <1>4, <3>1, BoundsAssumption
           DEF PairingStartFailed, PairingStartRefused, TakeAttempt, Code
      <3> QED
        BY <3>1, <3>2, <3>3
    <2> QED
      BY <1>4, <2>1, PurgeKeeps, UnexpiredSubset DEF AttemptsReserved, IDs
  <1>5. ASSUME NEW p \in pairings, PairingFinish(p) \/ PairingFinishRefused(p)
        PROVE  AttemptsReserved'
    <2>1. code' = code /\ pairings' = pairings \ {p}
      BY <1>5 DEF PairingFinish, PairingFinishRefused, TakeExchange
    <2>2. CASE PairingFinish(p)
      <3> DEFINE x == [id |-> p.id, device |-> p.device, attempts |-> 0, ttl |-> code.ttl]
      <3>1. enrollments' = enrollments \cup {x} /\ x.id = p.id
        BY <2>2 DEF PairingFinish
      <3> HIDE DEF x
      <3> QED
        BY <2>1, <3>1 DEF AttemptsReserved, IDs
    <2>3. CASE PairingFinishRefused(p)
      BY <2>1, <2>3 DEF PairingFinishRefused, AttemptsReserved, IDs
    <2> QED
      BY <1>5, <2>2, <2>3
  <1>6. ASSUME NEW p \in enrollments, CountPassword(p),
               UNCHANGED <<code, pairings, handles>>
        PROVE  AttemptsReserved'
    <2> DEFINE x == [p EXCEPT !.attempts = @ + 1]
    <2>1. x.id = p.id
      BY DEF TypeOK, Pending
    <2>2. enrollments' = (enrollments \ {p}) \cup {x}
      BY <1>6 DEF CountPassword
    <2> HIDE DEF x
    <2> QED
      BY <1>6, <2>1, <2>2 DEF AttemptsReserved, IDs
  <1>7. CASE Tick
    <2>1. pairings' = Aged(pairings) /\ enrollments' = Aged(enrollments)
      BY <1>7 DEF Tick
    <2>2. code # None => code'.attempts = code.attempts
      BY <1>7 DEF Tick, TypeOK, Code
    <2>3. ASSUME NEW q \in Aged(pairings) \cup Aged(enrollments)
          PROVE  q.id[2] <= code'.attempts
      BY <2>2, <2>3, AgedEntries DEF AttemptsReserved, PendingUnderCode
    <2>4. ASSUME NEW q \in Aged(pairings), NEW r \in Aged(pairings), q.id = r.id
          PROVE  q = r
      BY <2>4, AgedEntries DEF AttemptsReserved
    <2>5. ASSUME NEW q \in Aged(enrollments), NEW r \in Aged(enrollments), q.id = r.id
          PROVE  q = r
      BY <2>5, AgedEntries DEF AttemptsReserved
    <2>6. IDs(Aged(pairings)) \cap IDs(Aged(enrollments)) = {}
      BY AgedEntries DEF AttemptsReserved
    <2> QED
      BY <2>1, <2>3, <2>4, <2>5, <2>6 DEF AttemptsReserved
  <1> QED
    BY <1>1, <1>2, <1>3, <1>4, <1>5, <1>6, <1>7, NextPending

\* The PAKE library holds the states of the pending exchanges and no other.
LEMMA NextHandles ==
  ASSUME TypeOK, PendingUnderCode, AttemptsReserved, HandlesMatchExchanges, [Next]_vars
  PROVE  HandlesMatchExchanges'
  <1> USE DEF HandlesMatchExchanges
  <1>1. CASE UNCHANGED <<code, pairings, enrollments, handles>>
    BY <1>1 DEF IDs
  <1>2. CASE Cleared
    BY <1>2 DEF Cleared, IDs
  <1>3. ASSUME NEW d \in Devices, PairingStart(d)
        PROVE  HandlesMatchExchanges'
    <2>1. PICK x \in Exchange :
             /\ pairings' = Unexpired(pairings) \cup {x}
             /\ handles' = (handles \ (IDs(pairings) \ IDs(Unexpired(pairings)))) \cup {x.id}
      BY <1>3, StartFresh
    <2> QED
      BY <2>1, UnexpiredSubset DEF IDs
  <1>4. CASE PairingStartFailed \/ PairingStartRefused
    BY <1>4, PurgeKeeps, UnexpiredSubset DEF IDs
  <1>5. ASSUME NEW p \in pairings, PairingFinish(p) \/ PairingFinishRefused(p)
        PROVE  HandlesMatchExchanges'
    <2>1. pairings' = pairings \ {p} /\ handles' = handles \ {p.id}
      BY <1>5 DEF PairingFinish, PairingFinishRefused, TakeExchange
    <2> QED
      BY <2>1 DEF AttemptsReserved, IDs
  <1>6. ASSUME UNCHANGED <<code, pairings, handles>>
        PROVE  HandlesMatchExchanges'
    BY <1>6 DEF IDs
  <1>7. CASE Tick
    BY <1>7, AgedEntries DEF Tick
  <1> QED
    BY <1>1, <1>2, <1>3, <1>4, <1>5, <1>6, <1>7, NextPending

\* Parallel, abandoned and verified exchanges together stay within the attempts
\* the code has counted, which its type bounds by MaxStarts.
THEOREM AttemptsCorrect == Spec => []AttemptsReserved
  <1>1. Init => AttemptsReserved
    BY DEF Init, AttemptsReserved, IDs
  <1>2. TypeOK /\ PendingUnderCode /\ AttemptsReserved /\ [Next]_vars => AttemptsReserved'
    BY NextAttempts
  <1> QED
    BY <1>1, <1>2, TypeCorrect, PendingCorrect, PTL DEF Spec

\* No PAKE state leaks and none is freed under an exchange that is pending.
THEOREM HandlesCorrect == Spec => []HandlesMatchExchanges
  <1>1. Init => HandlesMatchExchanges
    BY DEF Init, HandlesMatchExchanges, IDs
  <1>2. TypeOK /\ PendingUnderCode /\ AttemptsReserved /\ HandlesMatchExchanges
           /\ [Next]_vars => HandlesMatchExchanges'
    BY NextHandles
  <1> QED
    BY <1>1, <1>2, TypeCorrect, PendingCorrect, AttemptsCorrect, PTL DEF Spec

-----------------------------------------------------------------------------
(***************************************************************************)
(* Authorization: who may use a code, and whom it authorizes.              *)
(***************************************************************************)

\* The code is used or ages, and stays the same code of the same creator.
SameCode ==
    /\ code # None => code \in Code /\ code' \in Code
                        /\ code'.generation = code.generation
                        /\ code'.creator = code.creator
                        /\ code'.attempts >= code.attempts
                        /\ code'.ttl <= code.ttl /\ code'.ttl \in Nat
                        /\ code.ttl \in Nat
    /\ code = None => code' = None

\* What a step may do to the records and to the code.
LEMMA NextCode ==
  ASSUME TypeOK, TypeOK', [Next]_vars
  PROVE  \/ UNCHANGED <<devices, disk, via>> /\ SameCode
         \/ \E c \in Devices \cup {Terminal} : NewPairingCode(c)
         \/ \E r \in Requests, p \in enrollments : EnrollCommit(r, p)
         \/ \E d \in Devices : RevokeDevice(d)
         \/ Restart
  <1>1. CASE CreatePairingCode
    BY <1>1 DEF CreatePairingCode
  <1>2. ASSUME NEW r \in Requests, CodeCreate(r)
        PROVE  \E c \in Devices \cup {Terminal} : NewPairingCode(c)
    BY <1>2 DEF CodeCreate, NewPairingCode, Creatable, Active
  <1>3. ASSUME UNCHANGED code
        PROVE  SameCode
    BY <1>3 DEF SameCode, TypeOK, Code
  <1>4. ASSUME NEW r \in Requests,
               \/ \E d \in Devices : CodeAuthenticate(r, d)
               \/ CodeRefused(r) \/ EnrollRefused(r) \/ LoginBegin(r)
               \/ LoginEnd(r) \/ ReleaseSlot(r)
               \/ \E p \in enrollments : EnrollUnsaved(r, p) \/ EnrollBegin(r, p)
        PROVE  UNCHANGED <<devices, disk, via, code>>
    BY <1>4 DEF CodeAuthenticate, CodeRefused, EnrollRefused, LoginBegin, LoginEnd,
                ReleaseSlot, EnrollUnsaved, EnrollBegin, AddUnsaved, storeVars
  <1>5. ASSUME \/ PairingStartRefused \/ UNCHANGED vars
               \/ \E p \in pairings : PairingFinish(p) \/ PairingFinishRefused(p)
               \/ \E d \in Devices : RevokeDeviceUnsaved(d)
        PROVE  UNCHANGED <<devices, disk, via, code>>
    BY <1>5 DEF PairingStartRefused, PairingFinish, PairingFinishRefused,
                RevokeDeviceUnsaved, RevokeUnsaved, storeVars, pairVars, vars
  <1>6. ASSUME PairingStartFailed \/ \E d \in Devices : PairingStart(d)
        PROVE  UNCHANGED <<devices, disk, via>> /\ SameCode
    <2>1. UNCHANGED <<devices, disk, via>>
      BY <1>6 DEF PairingStart, PairingStartFailed, storeVars
    <2>2. code \in Code /\ code # None /\ TakeAttempt
      BY <1>6 DEF PairingStart, PairingStartFailed, Startable, TypeOK
    <2>3. code' \in Code
      BY <2>2, BoundsAssumption, <1>6
         DEF TakeAttempt, Code, PairingStart, PairingStartFailed, Startable
    <2> QED
      BY <2>1, <2>2, <2>3 DEF SameCode, TakeAttempt, Code
  <1>7. CASE Tick
    <2>1. UNCHANGED <<devices, disk, via>>
      BY <1>7 DEF Tick, storeVars
    <2>2. ASSUME code # None
          PROVE  /\ code \in Code /\ code.ttl \in Nat
                 /\ code' = [code EXCEPT !.ttl = Less(@)]
      BY <1>7, <2>2 DEF Tick, TypeOK, Code
    <2>3. ASSUME code # None
          PROVE  /\ code'.ttl = Less(code.ttl) /\ code'.generation = code.generation
                 /\ code'.creator = code.creator /\ code' \in Code
                 /\ code'.attempts >= code.attempts
      <3>1. Less(code.ttl) \in 0..CodeLifetime
        BY <2>2, <2>3, BoundsAssumption DEF Code, Less
      <3> QED
        BY <2>2, <2>3, <3>1 DEF Code
    <2>4. code = None => code' = None
      BY <1>7 DEF Tick
    <2> QED
      BY <2>1, <2>2, <2>3, <2>4 DEF SameCode, Less
  <1>8. ASSUME NEW r \in Requests, Serve(r)
        PROVE  \/ UNCHANGED <<devices, disk, via, code>>
               \/ \E p \in enrollments : EnrollCommit(r, p)
    BY <1>4, <1>8 DEF Serve
  <1> QED
    BY <1>1, <1>2, <1>3, <1>4, <1>5, <1>6, <1>7, <1>8 DEF Next

\* The file and the map agree after every operation, failed ones included.
LEMMA NextRecords ==
  ASSUME TypeOK, TypeOK', RecordsDurable, [Next]_vars
  PROVE  RecordsDurable'
  BY NextCode DEF RecordsDurable, NewPairingCode, storeVars, EnrollCommit, Add,
                  RevokeDevice, Revoke, Restart, OpenDeviceStore

\* A save that fails, or a restart, changes nobody's standing.
THEOREM RecordsCorrect == Spec => []RecordsDurable
  <1>1. Init => RecordsDurable
    BY DEF Init, StoreInit, RecordsDurable
  <1>2. TypeOK /\ TypeOK' /\ RecordsDurable /\ [Next]_vars => RecordsDurable'
    BY NextRecords
  <1> QED
    BY <1>1, <1>2, TypeCorrect, PTL DEF Spec

\* One step moves every standing forward or not at all.
LEMMA StepMovesForward ==
  ASSUME TypeOK, TypeOK', RecordsDurable, [Next]_vars, NEW d \in Devices
  PROVE  /\ devices[d] = "revoked" => devices'[d] = "revoked"
         /\ devices[d] = "active" => devices'[d] # "none"
  <1> USE DEF TypeOK, StoreTypeOK
  <1>1. ASSUME NEW r \in Requests, NEW p \in enrollments, EnrollCommit(r, p)
        PROVE  devices[d] # "none" => devices'[d] = devices[d]
    BY <1>1 DEF EnrollCommit, Add, Addable
  <1>2. ASSUME NEW e \in Devices, RevokeDevice(e)
        PROVE  devices'[d] \in {devices[d], "revoked"}
    BY <1>2 DEF RevokeDevice, Revoke
  <1> QED
    BY <1>1, <1>2, NextCode
       DEF NewPairingCode, storeVars, Restart, OpenDeviceStore, RecordsDurable

\* Revocation is final and no record is lost, whatever fails or restarts.
THEOREM RevocationFinal == Spec => StandingMovesForward
  <1>1. TypeOK /\ TypeOK' /\ RecordsDurable /\ [Next]_vars
          => [\A d \in Devices :
                /\ devices[d] = "revoked" => devices'[d] = "revoked"
                /\ devices[d] = "active" => devices'[d] # "none"]_devices
    BY StepMovesForward
  <1> QED
    BY <1>1, TypeCorrect, RecordsCorrect, PTL DEF Spec, StandingMovesForward

\* A new code is live, and no device was authorized through it.
LEMMA NewCodeLive ==
  ASSUME TypeOK, TypeOK', NEW c \in Devices \cup {Terminal}, NewPairingCode(c)
  PROVE  \E g \in Generations :
            /\ code' # None /\ code'.generation = g /\ code'.creator = c
            /\ CreatorActive' /\ Live' = {g} /\ g \notin Live
            /\ UNCHANGED <<devices, disk, via>>
            /\ \A d \in Devices : via[d] # g
  <1>1. PICK g \in Generations \ InUse :
           code' = [generation |-> g, creator |-> c, attempts |-> 0, ttl |-> CodeLifetime]
    BY DEF NewPairingCode
  <1>2. code' # None
    BY <1>1, NamesAssumption, BoundsAssumption
  <1>3. UNCHANGED <<devices, disk, via>>
    BY DEF NewPairingCode, storeVars
  <1>4. CreatorActive'
    BY <1>1, <1>3 DEF CreatorActive, NewPairingCode, Creatable, Active
  <1>5. Live' = {g}
    BY <1>1, <1>2, <1>4, BoundsAssumption DEF Live
  <1>6. g \notin Live /\ \A d \in Devices : via[d] # g
    BY DEF InUse, Live
  <1> QED
    BY <1>1, <1>2, <1>3, <1>4, <1>5, <1>6

\* While nobody's standing changes, a code is no more live than it was.
LEMMA SameCodeLive ==
  ASSUME TypeOK, SameCode, UNCHANGED devices
  PROVE  /\ code # None /\ CreatorActive => CreatorActive'
         /\ Live' \in {Live, {}}
  <1>1. CASE code = None
    BY <1>1 DEF SameCode, Live
  <1>2. CASE code # None
    <2>1. code' # None
      BY <1>2, NamesAssumption DEF SameCode, Code
    <2>2. CreatorActive' <=> CreatorActive
      BY <1>2 DEF SameCode, CreatorActive, Active
    <2>3. code'.ttl > 0 => code.ttl > 0
      BY <1>2 DEF SameCode
    <2> QED
      BY <1>2, <2>1, <2>2, <2>3 DEF SameCode, Live
  <1> QED
    BY <1>1, <1>2

\* An enrollment commits through a live code, which it ends.
LEMMA CommitLive ==
  ASSUME TypeOK, NEW r \in Requests, NEW p \in enrollments, EnrollCommit(r, p)
  PROVE  /\ code # None /\ Live = {code.generation} /\ code' = None /\ Live' = {}
         /\ p.device \in Devices /\ devices[p.device] = "none"
         /\ devices' = [devices EXCEPT ![p.device] = "active"]
         /\ via' = [via EXCEPT ![p.device] = code.generation]
         /\ code.generation \in Generations
  BY DEF EnrollCommit, EnrollmentValid, Live, ConsumeCode, Add, Addable,
         TypeOK, Pending, Code

\* Revoking a device ends the code it created and no other.
LEMMA RevokeLive ==
  ASSUME TypeOK, CodeCreatorAuthorized, NEW d \in Devices, RevokeDevice(d)
  PROVE  /\ code' \in {code, None} /\ via' = via
         /\ CodeCreatorAuthorized'
         /\ Live' \in {Live, {}}
         /\ devices[d] # "none" /\ devices' = [devices EXCEPT ![d] = "revoked"]
         /\ devices[d] = "revoked" => Live' = Live
  <1>1. devices[d] # "none" /\ devices' = [devices EXCEPT ![d] = "revoked"] /\ via' = via
    BY DEF RevokeDevice, Revoke
  <1>2. CASE code # None /\ code.creator = d
    <2>1. code' = None
      BY <1>2 DEF RevokeDevice, ConsumeCode
    <2>2. devices[d] = "active"
      BY <1>2, NamesAssumption DEF CodeCreatorAuthorized, CreatorActive, Active
    <2> QED
      BY <1>1, <2>1, <2>2 DEF CodeCreatorAuthorized, Live
  <1>3. CASE ~(code # None /\ code.creator = d)
    <2>1. code' = code
      BY <1>3 DEF RevokeDevice
    <2>2. code # None => (CreatorActive' <=> CreatorActive)
      BY <1>1, <1>3, <2>1 DEF CreatorActive, Active, TypeOK, StoreTypeOK
    <2> QED
      BY <1>1, <2>1, <2>2 DEF CodeCreatorAuthorized, Live
  <1> QED
    BY <1>2, <1>3

\* Every code standing was made by someone still authorized.
LEMMA NextCreator ==
  ASSUME TypeOK, TypeOK', CodeCreatorAuthorized, [Next]_vars
  PROVE  CodeCreatorAuthorized'
  <1>1. CASE UNCHANGED <<devices, disk, via>> /\ SameCode
    BY <1>1, SameCodeLive DEF CodeCreatorAuthorized, SameCode
  <1>2. ASSUME NEW c \in Devices \cup {Terminal}, NewPairingCode(c)
        PROVE  CodeCreatorAuthorized'
    BY <1>2, NewCodeLive DEF CodeCreatorAuthorized
  <1>3. ASSUME NEW r \in Requests, NEW p \in enrollments, EnrollCommit(r, p)
        PROVE  CodeCreatorAuthorized'
    BY <1>3, CommitLive DEF CodeCreatorAuthorized
  <1>4. ASSUME NEW d \in Devices, RevokeDevice(d)
        PROVE  CodeCreatorAuthorized'
    BY <1>4, RevokeLive
  <1>5. CASE Restart
    BY <1>5 DEF Restart, CodeCreatorAuthorized
  <1> QED
    BY <1>1, <1>2, <1>3, <1>4, <1>5, NextCode

\* The checks of the creator in pairingStart, pairingFinish and pairingEnroll
\* are a second line: a code whose creator lost authorization does not exist.
THEOREM CreatorCorrect == Spec => []CodeCreatorAuthorized
  <1>1. Init => CodeCreatorAuthorized
    BY DEF Init, CodeCreatorAuthorized
  <1>2. TypeOK /\ TypeOK' /\ CodeCreatorAuthorized /\ [Next]_vars => CodeCreatorAuthorized'
    BY NextCreator
  <1> QED
    BY <1>1, <1>2, TypeCorrect, PTL DEF Spec

\* A code that is still standing has authorized nobody.
LEMMA NextOneDevice ==
  ASSUME TypeOK, TypeOK', CodeCreatorAuthorized, OneDevicePerCode, [Next]_vars
  PROVE  OneDevicePerCode'
  <1>1. CASE UNCHANGED <<devices, disk, via>> /\ SameCode
    BY <1>1 DEF OneDevicePerCode, SameCode
  <1>2. ASSUME NEW c \in Devices \cup {Terminal}, NewPairingCode(c)
        PROVE  OneDevicePerCode'
    BY <1>2, NewCodeLive DEF OneDevicePerCode
  <1>3. ASSUME NEW r \in Requests, NEW p \in enrollments, EnrollCommit(r, p)
        PROVE  OneDevicePerCode'
    BY <1>3, CommitLive DEF OneDevicePerCode, TypeOK
  <1>4. ASSUME NEW d \in Devices, RevokeDevice(d)
        PROVE  OneDevicePerCode'
    BY <1>4, RevokeLive DEF OneDevicePerCode
  <1>5. CASE Restart
    BY <1>5 DEF Restart, OneDevicePerCode
  <1> QED
    BY <1>1, <1>2, <1>3, <1>4, <1>5, NextCode

\* However enrollments, replacements, revocations and restarts interleave, two
\* devices are never authorized through one code.
THEOREM OneDeviceCorrect == Spec => []OneDevicePerCode
  <1>1. Init => OneDevicePerCode
    BY DEF Init, OneDevicePerCode
  <1>2. TypeOK /\ TypeOK' /\ CodeCreatorAuthorized /\ OneDevicePerCode /\ [Next]_vars
          => OneDevicePerCode'
    BY NextOneDevice
  <1> QED
    BY <1>1, <1>2, TypeCorrect, CreatorCorrect, PTL DEF Spec

-----------------------------------------------------------------------------
(***************************************************************************)
(* Password attempts.                                                      *)
(***************************************************************************)

\* The requests that compute the password for enrollment i.
Hashing(i) == {r \in Requests : req[r].phase = "hashing" /\ req[r].id = i}

\* No request computes the password for an exchange that is not verified yet, or for one
\* that is still to start under the code.
HashersKnown ==
    \A r \in Requests : req[r].phase = "hashing" =>
        /\ req[r].id # None
        /\ req[r].id \notin IDs(pairings)
        /\ code # None /\ req[r].id[1] = code.generation => req[r].id[2] <= code.attempts

\* No request begins to compute a password.
FewerHashing ==
    \A r \in Requests : req'[r].phase = "hashing" => req[r].phase = "hashing" /\ req'[r].id = req[r].id

\* Hashing is what PasswordsCounted counts.
LEMMA CountedHashing ==
  PasswordsCounted <=> \A p \in enrollments : Cardinality(Hashing(p.id)) <= p.attempts
  BY DEF PasswordsCounted, Hashing

\* Fewer requests are fewer of each enrollment.
LEMMA FewerOfEach ==
  ASSUME FewerHashing, NEW i
  PROVE  /\ Cardinality(Hashing(i)) \in Nat /\ Cardinality(Hashing(i)') \in Nat
         /\ Cardinality(Hashing(i)') <= Cardinality(Hashing(i))
  <1>1. Hashing(i)' \subseteq Hashing(i)
    BY DEF FewerHashing, Hashing
  <1>2. IsFiniteSet(Hashing(i))
    BY RequestsAssumption, FS_Subset DEF Hashing
  <1> QED
    BY <1>1, <1>2, FS_Subset, FS_CardinalityType

\* What a step does to the requests that compute passwords: nothing to one that is new, but
\* for the first critical section of pairingEnroll.
LEMMA NextHashing ==
  ASSUME TypeOK, [Next]_vars
  PROVE  FewerHashing \/ \E r \in Requests, p \in enrollments : EnrollBegin(r, p)
  <1> USE DEF FewerHashing
  <1>1. ASSUME NEW r \in Requests,
               \/ \E d \in Devices : CodeAuthenticate(r, d)
               \/ CodeCreate(r) \/ CodeRefused(r) \/ LoginBegin(r) \/ Serve(r)
        PROVE  FewerHashing
    <2>1. \E x : x.phase # "hashing" /\ req' = [req EXCEPT ![r] = x]
      <3>1. CASE \E d \in Devices : CodeAuthenticate(r, d)
        BY <3>1 DEF CodeAuthenticate, Idle
      <3>2. CASE CodeCreate(r) \/ CodeRefused(r) \/ ReleaseSlot(r)
        BY <3>2 DEF CodeCreate, CodeRefused, ReleaseSlot, Idle
      <3>3. CASE LoginBegin(r)
        BY <3>3 DEF LoginBegin, Idle
      <3>4. CASE EnrollRefused(r) \/ LoginEnd(r) \/ \E p \in enrollments : EnrollCommit(r, p) \/ EnrollUnsaved(r, p)
        BY <3>4 DEF EnrollRefused, LoginEnd, EnrollCommit, EnrollUnsaved, Answer, Leaving, Idle
      <3> QED
        BY <1>1, <3>1, <3>2, <3>3, <3>4 DEF Serve
    <2> QED
      BY <2>1 DEF TypeOK
  <1>3. CASE Restart
    BY <1>3 DEF Restart, Idle
  <1>4. CASE req' = req
    BY <1>4
  <1> QED
    BY <1>1, <1>3, <1>4
       DEF Next, CreatePairingCode, PairingStart, PairingStartFailed, PairingStartRefused,
           PairingFinish, PairingFinishRefused, RevokeDevice, RevokeDeviceUnsaved, pairVars, Tick, vars

\* A new code is one that no request still works for.
LEMMA NewCodeUnknown ==
  ASSUME TypeOK, NEW c \in Devices \cup {Terminal}, NewPairingCode(c),
         NEW r \in Requests, req[r].id # None
  PROVE  code' # None => req[r].id[1] # code'.generation
  <1>1. PICK g \in Generations \ InUse :
           code' = [generation |-> g, creator |-> c, attempts |-> 0, ttl |-> CodeLifetime]
    BY DEF NewPairingCode
  <1>2. req[r].id[1] \in InUse
    BY DEF InUse
  <1> QED
    BY <1>1, <1>2

\* A request computes the password for an enrollment that was verified under a code, and so
\* for none of the exchanges that wait or are to come.
LEMMA NextHashers ==
  ASSUME TypeOK, TypeOK', PendingUnderCode, AttemptsReserved, HashersKnown, [Next]_vars
  PROVE  HashersKnown'
  <1>1. ASSUME NEW r \in Requests, NEW p \in enrollments, EnrollBegin(r, p)
        PROVE  HashersKnown'
    <2>1. UNCHANGED <<code, pairings>> /\ p.id # None /\ p.id \notin IDs(pairings)
      BY <1>1, NamesAssumption
         DEF EnrollBegin, AttemptsReserved, IDs, TypeOK, Pending, ExchangeID
    <2>2. p.id[2] <= code.attempts
      BY DEF AttemptsReserved
    <2>3. \A o \in Requests : o # r => req'[o] = req[o]
      BY <1>1 DEF EnrollBegin, TypeOK
    <2>4. req'[r].id = p.id
      BY <1>1 DEF EnrollBegin, Idle, TypeOK
    <2> QED
      BY <2>1, <2>2, <2>3, <2>4 DEF HashersKnown, IDs
  <1>2. ASSUME FewerHashing, NEW r \in Requests, req'[r].phase = "hashing"
        PROVE  /\ req'[r].id = req[r].id /\ req[r].id # None /\ req[r].id \notin IDs(pairings)
               /\ code # None /\ req[r].id[1] = code.generation =>
                     req[r].id[2] <= code.attempts /\ req[r].id[2] \in Nat
    BY <1>2, NamesAssumption DEF FewerHashing, HashersKnown, TypeOK, Request, ExchangeID
  <1>3. ASSUME FewerHashing, NEW r \in Requests, req'[r].phase = "hashing"
        PROVE  code' # None /\ req[r].id[1] = code'.generation => req[r].id[2] <= code'.attempts
    <2>1. CASE SameCode
      BY <1>2, <1>3, <2>1 DEF SameCode, Code
    <2>2. CASE \E c \in Devices \cup {Terminal} : NewPairingCode(c)
      BY <1>2, <1>3, <2>2, NewCodeUnknown
    <2>3. CASE \E q \in Requests, p \in enrollments : EnrollCommit(q, p)
      BY <2>3 DEF EnrollCommit, ConsumeCode
    <2>4. CASE \E d \in Devices : RevokeDevice(d)
      BY <1>2, <1>3, <2>4 DEF RevokeDevice, ConsumeCode
    <2>5. CASE Restart
      BY <2>5 DEF Restart
    <2> QED
      BY <2>1, <2>2, <2>3, <2>4, <2>5, NextCode
  <1>4. ASSUME FewerHashing, NEW r \in Requests, req'[r].phase = "hashing"
        PROVE  req[r].id \notin IDs(pairings')
    <2>1. CASE pairings' \subseteq pairings
      BY <1>2, <1>4, <2>1 DEF IDs
    <2>2. ASSUME NEW d \in Devices, PairingStart(d)
          PROVE  req[r].id \notin IDs(pairings')
      <3>1. code # None /\ code \in Code
        BY <2>2 DEF PairingStart, Startable, TypeOK
      <3>2. pairings' \subseteq pairings \cup
               {[id |-> <<code.generation, code.attempts + 1>>, device |-> d,
                 ttl |-> Lesser(ExchangeLifetime, code.ttl)]}
        BY <2>2, UnexpiredSubset DEF PairingStart
      <3>3. req[r].id # <<code.generation, code.attempts + 1>>
        BY <1>2, <1>4, <3>1 DEF Code
      <3> QED
        BY <1>2, <1>4, <3>2, <3>3 DEF IDs
    <2>3. CASE Tick
      <3>1. IDs(pairings') = IDs(pairings)
        BY <2>3, AgedEntries DEF Tick
      <3> QED
        BY <1>2, <1>4, <3>1
    <2>4. CASE Cleared \/ PairingStartFailed \/ PairingStartRefused
               \/ \E p \in pairings : PairingFinish(p) \/ PairingFinishRefused(p)
      BY <2>1, <2>4, UnexpiredSubset
         DEF Cleared, PairingStartFailed, PairingStartRefused, PairingFinish, PairingFinishRefused,
             TakeExchange
    <2> QED
      BY <2>1, <2>2, <2>3, <2>4, NextPending
  <1> QED
    BY <1>1, <1>2, <1>3, <1>4, NextHashing DEF HashersKnown, IDs

\* What an enrollment is after a step: it was there with no more attempts, or nobody computes
\* the password for it.
LEMMA NextEnrollments ==
  ASSUME TypeOK, HashersKnown, [Next]_vars, NEW q \in enrollments'
  PROVE  \/ \E p \in enrollments : p.id = q.id /\ p.attempts <= q.attempts
         \/ Hashing(q.id) = {} /\ q.attempts = 0
  <1>1. \A p \in enrollments : p.attempts \in Nat /\ p.attempts <= p.attempts
    BY DEF TypeOK, Pending
  <1>2. CASE enrollments' \subseteq enrollments
    BY <1>1, <1>2
  <1>3. ASSUME NEW p \in pairings, PairingFinish(p)
        PROVE  q \in enrollments \/ (Hashing(q.id) = {} /\ q.attempts = 0)
    <2>1. CASE q.id = p.id /\ q.attempts = 0
      BY <2>1 DEF Hashing, HashersKnown, IDs
    <2> QED
      BY <1>3, <2>1 DEF PairingFinish
  <1>4. ASSUME NEW p \in enrollments, CountPassword(p)
        PROVE  q \in enrollments \/ (q.id = p.id /\ p.attempts <= q.attempts)
    <2>1. p \in Pending /\ p.attempts \in Nat
      BY DEF TypeOK, Pending
    <2>2. q \in enrollments \/ q = [p EXCEPT !.attempts = @ + 1]
      BY <1>4 DEF CountPassword
    <2> QED
      BY <2>1, <2>2 DEF Pending
  <1>5. ASSUME Tick
        PROVE  \E p \in enrollments : q.id = p.id /\ q.attempts = p.attempts
    <2>1. PICK p \in enrollments : q = [p EXCEPT !.ttl = Less(@)] /\ q.id = p.id
      BY <1>5, AgedEntries DEF Tick
    <2> QED
      BY <2>1 DEF TypeOK, Pending
  <1>6. CASE Cleared \/ PairingStartFailed \/ PairingStartRefused
             \/ (\E d \in Devices : PairingStart(d))
             \/ \E p \in pairings : PairingFinishRefused(p)
    BY <1>2, <1>6, UnexpiredSubset
       DEF Cleared, PairingStart, PairingStartFailed, PairingStartRefused, PurgeExpired,
           PairingFinishRefused
  <1> QED
    BY <1>1, <1>2, <1>3, <1>4, <1>5, <1>6, NextPending

\* A request that begins to compute a password was counted in the same step.
LEMMA NextPasswords ==
  ASSUME TypeOK, TypeOK', AttemptsReserved, HashersKnown, PasswordsCounted, [Next]_vars
  PROVE  PasswordsCounted'
  <1>1. \A p \in enrollments : Cardinality(Hashing(p.id)) <= p.attempts /\ p.attempts \in Nat
    BY CountedHashing DEF TypeOK, Pending
  <1>2. ASSUME FewerHashing, NEW q \in enrollments'
        PROVE  Cardinality(Hashing(q.id)') <= q.attempts
    <2>1. /\ Cardinality(Hashing(q.id)) \in Nat /\ Cardinality(Hashing(q.id)') \in Nat
          /\ Cardinality(Hashing(q.id)') <= Cardinality(Hashing(q.id))
      BY <1>2, FewerOfEach
    <2>2. CASE Hashing(q.id) = {} /\ q.attempts = 0
      BY <2>1, <2>2, FS_EmptySet
    <2>3. ASSUME NEW p \in enrollments, p.id = q.id, p.attempts <= q.attempts
          PROVE  Cardinality(Hashing(q.id)') <= q.attempts
      <3>1. q.attempts \in Nat
        BY <1>2 DEF TypeOK, Pending
      <3> QED
        BY <1>1, <2>1, <2>3, <3>1
    <2> QED
      BY <1>2, <2>2, <2>3, NextEnrollments
  <1>3. ASSUME NEW r \in Requests, NEW p \in enrollments, EnrollBegin(r, p), NEW q \in enrollments'
        PROVE  Cardinality(Hashing(q.id)') <= q.attempts
    <2>1. /\ req[r].phase = "idle"
          /\ req'[r].phase = "hashing" /\ req'[r].id = p.id
          /\ \A o \in Requests : o # r => req'[o] = req[o]
      BY <1>3 DEF EnrollBegin, Idle, TypeOK
    <2>2. CASE q \in enrollments /\ q # p
      <3>1. q.id # p.id
        BY <2>2 DEF AttemptsReserved
      <3>2. Hashing(q.id)' = Hashing(q.id)
        BY <2>1, <3>1 DEF Hashing
      <3> QED
        BY <1>1, <2>2, <3>2
    <2>3. CASE q = [p EXCEPT !.attempts = @ + 1]
      <3>1. q.id = p.id /\ q.attempts = p.attempts + 1 /\ p.attempts \in Nat
        BY <2>3 DEF TypeOK, Pending
      <3>2. Hashing(p.id)' = Hashing(p.id) \cup {r} /\ r \notin Hashing(p.id)
        BY <2>1 DEF Hashing
      <3>3. IsFiniteSet(Hashing(p.id))
        BY RequestsAssumption, FS_Subset DEF Hashing
      <3>4. Cardinality(Hashing(p.id)') = Cardinality(Hashing(p.id)) + 1
        BY <3>2, <3>3, FS_AddElement
      <3>5. Cardinality(Hashing(p.id)) \in Nat
        BY <3>3, FS_CardinalityType
      <3> QED
        BY <1>1, <3>1, <3>4, <3>5
    <2> QED
      BY <1>3, <2>2, <2>3 DEF EnrollBegin, CountPassword
  <1> QED
    BY <1>2, <1>3, NextHashing DEF PasswordsCounted, Hashing

\* Password computations that run in parallel against one enrollment were all counted
\* before they began (pairingEnroll, core/internal/node/pairing.go:278-292).
THEOREM PasswordsCorrect == Spec => []PasswordsCounted
  <1>1. Init => HashersKnown
    BY DEF Init, HashersKnown, Idle
  <1>2. Init => PasswordsCounted
    BY DEF Init, PasswordsCounted
  <1>3. Spec => []HashersKnown
    BY <1>1, NextHashers, TypeCorrect, PendingCorrect, AttemptsCorrect, PTL DEF Spec
  <1> QED
    BY <1>2, <1>3, NextPasswords, TypeCorrect, AttemptsCorrect, PTL DEF Spec

\* The types, the records, the password slots and attempts, and what a code authorizes, all
\* together, in every state of Server and DeviceStore (pairing.go, devices.go).
THEOREM InvCorrect == Spec => []Inv
  BY TypeCorrect, RecordsCorrect, PasswordsCorrect, SlotsCorrect, OneDeviceCorrect, PTL DEF Inv

-----------------------------------------------------------------------------
(***************************************************************************)
(* Pairing implements Enrollment.                                          *)
(***************************************************************************)

\* Every step is a step of the abstract specification or leaves it alone.
LEMMA NextSimulates ==
  ASSUME TypeOK, TypeOK', CodeCreatorAuthorized, RecordsDurable, [Next]_vars
  PROVE  [Abstract!Next]_(Abstract!vars)
  <1> USE DEF Abstract!vars
  <1>1. CASE UNCHANGED <<devices, disk, via>> /\ SameCode
    BY <1>1, SameCodeLive DEF Abstract!Next, Abstract!Withdraw
  <1>2. ASSUME NEW c \in Devices \cup {Terminal}, NewPairingCode(c)
        PROVE  Abstract!Next
    BY <1>2, NewCodeLive DEF Abstract!Next, Abstract!Issue
  <1>3. ASSUME NEW r \in Requests, NEW p \in enrollments, EnrollCommit(r, p)
        PROVE  Abstract!Next
    <2>1. Abstract!Enroll(p.device, code.generation)
      BY <1>3, CommitLive DEF Abstract!Enroll
    <2> QED
      BY <1>3, <2>1, CommitLive DEF Abstract!Next
  <1>4. ASSUME NEW d \in Devices, RevokeDevice(d)
        PROVE  [Abstract!Next]_(Abstract!vars)
    <2>1. CASE devices[d] = "active"
      BY <1>4, <2>1, RevokeLive DEF Abstract!Next, Abstract!Revoke
    <2>2. CASE devices[d] = "revoked"
      <3>1. devices' = devices
        BY <1>4, <2>2, RevokeLive DEF TypeOK, StoreTypeOK
      <3> QED
        BY <1>4, <2>2, <3>1, RevokeLive
    <2> QED
      BY <1>4, <2>1, <2>2, RevokeLive DEF TypeOK, StoreTypeOK, Standing
  <1>5. CASE Restart
    BY <1>5 DEF Restart, OpenDeviceStore, RecordsDurable, Live,
                Abstract!Next, Abstract!Withdraw
  <1> QED
    BY <1>1, <1>2, <1>3, <1>4, <1>5, NextCode

\* A device is authorized only through a code that is good at the instant of
\* the commit, whatever happened during the password work before it.
THEOREM EnrollmentImplemented == Spec => ImplementsEnrollment
  <1>1. Init => Abstract!Init
    BY DEF Init, StoreInit, Live, Abstract!Init
  <1>2. TypeOK /\ TypeOK' /\ CodeCreatorAuthorized /\ RecordsDurable /\ [Next]_vars
          => [Abstract!Next]_(Abstract!vars)
    BY NextSimulates
  <1> QED
    BY <1>1, <1>2, TypeCorrect, CreatorCorrect, RecordsCorrect, PTL
       DEF Spec, ImplementsEnrollment, Abstract!Spec
=============================================================================
