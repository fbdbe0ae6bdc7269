--------------------------- MODULE AppPairingProofs ---------------------------
(***************************************************************************)
(* Proofs about AppPairing for any number of identities, of connects under *)
(* way, of calls, restarts and faults.                                     *)
(***************************************************************************)
EXTENDS AppPairing, FiniteSetTheorems, TLAPS

-----------------------------------------------------------------------------
(***************************************************************************)
(* The inductive invariant, in parts.                                      *)
(***************************************************************************)
One(b) == IF b THEN 1 ELSE 0

\* Who is being paired, or was verified, has no record yet; who is being saved has one.
Standing ==
    /\ \A d \in proven : records[d] = "none"
    /\ step.at = "pair" => step.id # None /\ records[step.id] = "none"
    /\ step.at \in {"enroll", "save", "connect"} => step.id # None
    /\ step.at \in {"save", "connect"} => records[step.id] # "none"

\* The app pairs only while it has no profile, and forgets only while it has one.
OneAtATime ==
    /\ app.verified # None \/ step.at \in {"load", "pair", "enroll", "save"} => app.profile = None
    /\ step.at \in {"load", "save"} => app.verified = None
    /\ step.at = "connect" => app.profile = step.id
    /\ forget # "idle" => app.profile # None /\ step.at = "idle"
    /\ forget = "signout" => store = None
    /\ app.profile # None => store \in {app.profile, None}
    /\ \A c \in Connects : arg[c].enroll => step.at = "connect" /\ pc[c] # "idle"
    /\ \A c, d \in Connects : arg[c].enroll /\ arg[d].enroll => c = d

\* Calls that will still raise the generation; the identities that were ever enrolled.
Seeds == {c \in Connects : pc[c] = "seed"}
EverEnrolled == {d \in Devices : records[d] # "none"}
UnderWay == forget \in {"vpn", "delete"}

\* Every generation was paid for by a call of the user, an enrollment or the start of the app.
GenerationsPaid ==
    app.gen + Cardinality(Seeds) + One(step.at \in {"load", "save"}) + One(UnderWay)
        <= count.asks + Cardinality(EverEnrolled) + 1
ForgetsAsked == count.forgets + One(UnderWay) <= count.asks

\* Authorized devices that neither the storage, the app nor a save under way knows.
Kept == {store, app.profile} \cup (IF step.at \in {"save", "connect"} THEN {step.id} ELSE {})
Stranded == {d \in Devices : records[d] = "active" /\ d \notin Kept}
\* A saved profile the app does not know will be overwritten by the next one.
Unseen == store # None /\ app.profile # store /\ step.at # "load"
StrandedPaid ==
    Cardinality(Stranded) + One(Unseen) + One(forget = "signout")
        <= count.faults + count.restarts + count.forgets

IInv ==
    /\ TypeOK /\ SavedIsAuthorized /\ Standing /\ OneAtATime /\ GenerationsPaid /\ ForgetsAsked
    /\ StrandedPaid

-----------------------------------------------------------------------------
(***************************************************************************)
(* Counting.                                                               *)
(***************************************************************************)
\* A set that gains one element at most, or two of which the second is known.
LEMMA Gains ==
  ASSUME NEW S, NEW T, NEW x, IsFiniteSet(S), T \subseteq S \cup {x}
  PROVE  /\ IsFiniteSet(T) /\ Cardinality(T) \in Nat /\ Cardinality(S) \in Nat
         /\ Cardinality(T) <= Cardinality(S) + 1
  <1>1. IsFiniteSet(S \cup {x}) /\ Cardinality(S \cup {x}) <= Cardinality(S) + 1 /\ Cardinality(S) \in Nat
    <2>1. IsFiniteSet(S \cup {x}) /\ Cardinality(S) \in Nat
      BY FS_AddElement, FS_CardinalityType
    <2>2. Cardinality(S \cup {x}) = Cardinality(S) \/ Cardinality(S \cup {x}) = Cardinality(S) + 1
      BY FS_AddElement
    <2> QED
      BY ONLY <2>1, <2>2
  <1>2. IsFiniteSet(T) /\ Cardinality(T) <= Cardinality(S \cup {x}) /\ Cardinality(T) \in Nat
    BY <1>1, FS_Subset, FS_CardinalityType
  <1> QED
    BY <1>1, <1>2, FS_CardinalityType

\* A set that gains nothing.
LEMMA Shrinks ==
  ASSUME NEW S, NEW T, IsFiniteSet(S), T \subseteq S
  PROVE  /\ IsFiniteSet(T) /\ Cardinality(T) \in Nat /\ Cardinality(S) \in Nat
         /\ Cardinality(T) <= Cardinality(S)
  BY FS_Subset, FS_CardinalityType

\* A set that loses an element.
LEMMA Loses ==
  ASSUME NEW S, NEW T, NEW x \in S, IsFiniteSet(S), T \subseteq S \ {x}
  PROVE  /\ Cardinality(T) \in Nat /\ Cardinality(S) \in Nat
         /\ Cardinality(T) + 1 <= Cardinality(S)
  <1>1. IsFiniteSet(S \ {x}) /\ Cardinality(S \ {x}) = Cardinality(S) - 1
    BY FS_RemoveElement
  <1>2. Cardinality(T) <= Cardinality(S \ {x}) /\ Cardinality(T) \in Nat
    BY <1>1, FS_Subset, FS_CardinalityType
  <1> QED
    BY <1>1, <1>2, FS_CardinalityType

\* The sets that are counted are finite, and there are no more enrolled devices than devices.
LEMMA Finite ==
  /\ IsFiniteSet(Seeds) /\ Cardinality(Seeds) \in Nat
  /\ IsFiniteSet(EverEnrolled) /\ Cardinality(EverEnrolled) \in Nat
  /\ Cardinality(EverEnrolled) <= Cardinality(Devices) /\ Cardinality(Devices) \in Nat
  /\ IsFiniteSet(Stranded) /\ Cardinality(Stranded) \in Nat
  <1>1. Seeds \subseteq Connects /\ EverEnrolled \subseteq Devices /\ Stranded \subseteq Devices
    BY DEF Seeds, EverEnrolled, Stranded
  <1> QED
    BY <1>1, FiniteAssumption, Shrinks

-----------------------------------------------------------------------------
(***************************************************************************)
(* What the actions do to the fields.                                      *)
(***************************************************************************)
AppFields == [profile : Devices \cup {None}, verified : Devices \cup {None},
              link : Devices \cup {None}, connecting : BOOLEAN, gen : Nat]
Counts == [asks : 0..MaxAsks, restarts : 0..MaxRestarts, faults : 0..MaxFaults, forgets : 0..MaxAsks]

LEMMA AppTyped ==
  ASSUME TypeOK
  PROVE  app \in AppFields /\ count \in Counts /\ app.gen <= MaxGen /\ MaxGen \in Nat
  <1>1. MaxGen \in Nat
    BY Finite, BoundsAssumption DEF MaxGen
  <1> QED
    BY <1>1 DEF TypeOK, AppFields, Counts

\* Asks and faults are counted, and nothing else with them.
LEMMA Counted ==
  ASSUME TypeOK
  PROVE  /\ Ask => /\ count'.asks = count.asks + 1 /\ count'.restarts = count.restarts
                   /\ count'.faults = count.faults /\ count'.forgets = count.forgets
                   /\ count' \in Counts
         /\ Fault => /\ count'.faults = count.faults + 1 /\ count'.restarts = count.restarts
                     /\ count'.asks = count.asks /\ count'.forgets = count.forgets
                     /\ count' \in Counts
         /\ AppRestart => /\ count'.restarts = count.restarts + 1 /\ count'.faults = count.faults
                          /\ count'.asks = count.asks /\ count'.forgets = count.forgets
                          /\ count' \in Counts
         /\ Deleted => /\ count'.forgets = count.forgets + 1 /\ count'.faults = count.faults
                       /\ count'.asks = count.asks /\ count'.restarts = count.restarts
  <1> USE BoundsAssumption DEF TypeOK, Counts
  <1>1. ASSUME Ask
        PROVE  /\ count'.asks = count.asks + 1 /\ count'.restarts = count.restarts
               /\ count'.faults = count.faults /\ count'.forgets = count.forgets
               /\ count' \in Counts
    BY <1>1 DEF Ask
  <1>2. ASSUME Fault
        PROVE  /\ count'.faults = count.faults + 1 /\ count'.restarts = count.restarts
               /\ count'.asks = count.asks /\ count'.forgets = count.forgets
               /\ count' \in Counts
    BY <1>2 DEF Fault
  <1>3. ASSUME AppRestart
        PROVE  /\ count'.restarts = count.restarts + 1 /\ count'.faults = count.faults
               /\ count'.asks = count.asks /\ count'.forgets = count.forgets
               /\ count' \in Counts
    BY <1>3 DEF AppRestart
  <1>4. ASSUME Deleted
        PROVE  /\ count'.forgets = count.forgets + 1 /\ count'.faults = count.faults
               /\ count'.asks = count.asks /\ count'.restarts = count.restarts
    BY <1>4 DEF Deleted
  <1> QED
    BY <1>1, <1>2, <1>3, <1>4

\* A call of _connectPaired that begins, goes on and ends.
LEMMA Calls ==
  ASSUME TypeOK, NEW c \in Connects
  PROVE  /\ Begin(c) => /\ Cardinality(Seeds') <= Cardinality(Seeds) + 1
                        /\ pc' \in [Connects -> {"idle", "seed", "wait"}]
         /\ \A at \in {"idle", "wait"} : pc[c] = "seed" /\ pc' = [pc EXCEPT ![c] = at] =>
                /\ Cardinality(Seeds') + 1 <= Cardinality(Seeds)
                /\ pc' \in [Connects -> {"idle", "seed", "wait"}]
         /\ Ends(c) => /\ Cardinality(Seeds') <= Cardinality(Seeds)
                       /\ pc' \in [Connects -> {"idle", "seed", "wait"}]
  <1>1. ASSUME Begin(c)
        PROVE  Seeds' \subseteq Seeds \cup {c} /\ pc' \in [Connects -> {"idle", "seed", "wait"}]
    BY <1>1 DEF TypeOK, Begin, Seeds
  <1>2. ASSUME NEW at \in {"idle", "wait"}, pc[c] = "seed", pc' = [pc EXCEPT ![c] = at]
        PROVE  c \in Seeds /\ Seeds' \subseteq Seeds \ {c} /\ pc' \in [Connects -> {"idle", "seed", "wait"}]
    BY <1>2 DEF TypeOK, Seeds
  <1>3. ASSUME Ends(c)
        PROVE  Seeds' \subseteq Seeds /\ pc' \in [Connects -> {"idle", "seed", "wait"}]
    BY <1>3 DEF TypeOK, Ends, Seeds
  <1> QED
    BY <1>1, <1>2, <1>3, Finite, Gains, Loses, Shrinks

\* Nothing that is enrolled is ever not enrolled; an enrollment adds one.
LEMMA Enrolling ==
  ASSUME TypeOK, Standing
  PROVE  /\ records' = records => EverEnrolled' = EverEnrolled
         /\ Enrolls => Cardinality(EverEnrolled') = Cardinality(EverEnrolled) + 1
                       /\ records[step.id] = "none" /\ records'[step.id] = "active" /\ step.id \in Devices
                       /\ \A d \in Devices : d # step.id => records'[d] = records[d]
         /\ \A d \in Devices : Revoke(d) => EverEnrolled' = EverEnrolled
  <1>1. ASSUME Enrolls
        PROVE  /\ step.id \in Devices /\ records[step.id] = "none" /\ records'[step.id] = "active"
               /\ \A d \in Devices : d # step.id => records'[d] = records[d]
    BY <1>1 DEF TypeOK, Standing, Enrolls
  <1>2. ASSUME Enrolls
        PROVE  Cardinality(EverEnrolled') = Cardinality(EverEnrolled) + 1
    <2>1. EverEnrolled' = EverEnrolled \cup {step.id} /\ step.id \notin EverEnrolled
      BY <1>1, <1>2 DEF EverEnrolled
    <2> QED
      BY <2>1, Finite, FS_AddElement
  <1>3. ASSUME NEW d \in Devices, Revoke(d)
        PROVE  EverEnrolled' = EverEnrolled
    BY <1>3 DEF TypeOK, Revoke, EverEnrolled
  <1> QED
    BY <1>1, <1>2, <1>3 DEF EverEnrolled

-----------------------------------------------------------------------------
(***************************************************************************)
(* Generations and types.                                                  *)
(***************************************************************************)
\* Every step that raises the generation was asked for, and no forget ends that did not begin.
LEMMA GenerationsStep ==
  ASSUME TypeOK, Standing, OneAtATime, GenerationsPaid, ForgetsAsked, [Next]_vars
  PROVE  GenerationsPaid' /\ ForgetsAsked'
  <1>0. /\ app \in AppFields /\ count \in Counts /\ app.gen \in Nat
        /\ count.asks \in Nat /\ count.forgets \in Nat
        /\ Cardinality(Seeds) \in Nat /\ Cardinality(EverEnrolled) \in Nat
        /\ Cardinality(Seeds') \in Nat /\ Cardinality(EverEnrolled') \in Nat
    <2>1. Seeds' \subseteq Connects /\ EverEnrolled' \subseteq Devices
      BY DEF Seeds, EverEnrolled
    <2> QED
      BY <2>1, AppTyped, Finite, FiniteAssumption, Shrinks DEF AppFields, Counts
  <1> USE <1>0 DEF GenerationsPaid, ForgetsAsked, One, UnderWay
  <1>1. CASE NewCode \/ CodeLapses \/ UNCHANGED vars
    BY <1>1 DEF NewCode, CodeLapses, vars, core, Seeds, EverEnrolled
  <1>2. ASSUME NEW d \in Devices, Revoke(d)
        PROVE  GenerationsPaid' /\ ForgetsAsked'
    <2>1. EverEnrolled' = EverEnrolled /\ Seeds' = Seeds
      BY <1>2, Enrolling DEF Revoke, Seeds
    <2> QED
      BY <1>2, <2>1 DEF Revoke
  <1>3. ASSUME \/ \E d \in Devices : Pair(d)
               \/ Paired \/ PairFails \/ Enroll \/ EnrollFails \/ EnrollRefused \/ UseNewCode
        PROVE  GenerationsPaid' /\ ForgetsAsked'
    <2>1. UNCHANGED <<records, forget, pc, count>> /\ step'.at \notin {"load", "save"}
          /\ step.at \notin {"load", "save"}
      BY <1>3 DEF Pair, Paired, PairFails, Enroll, EnrollFails, EnrollRefused, UseNewCode, Unlinked,
                  Free, core
    <2>2. app'.gen = app.gen
      BY <1>3 DEF Pair, Paired, PairFails, Enroll, EnrollFails, EnrollRefused, UseNewCode, AppFields
    <2> QED
      BY <2>1, <2>2 DEF Seeds, EverEnrolled
  <1>4. CASE Enrolled \/ EnrollLost
    <2>1. Cardinality(EverEnrolled') = Cardinality(EverEnrolled) + 1 /\ Seeds' = Seeds
      BY <1>4, Enrolling DEF Enrolled, EnrollLost, Seeds
    <2>2. app'.gen = app.gen /\ forget' = forget /\ step.at = "enroll"
      BY <1>4 DEF Enrolled, EnrollLost, Enrolls, AppFields
    <2>3. count'.asks = count.asks /\ count'.forgets = count.forgets
      BY <1>4, Counted DEF Enrolled, EnrollLost
    <2> QED
      BY <2>1, <2>2, <2>3
  <1>5. CASE Load \/ Save
    <2>1. UNCHANGED <<records, forget, count>> /\ step.at \in {"load", "save"}
          /\ step'.at \notin {"load", "save"}
      <3>1. Load => UNCHANGED <<records, forget, count>> /\ step.at = "load" /\ step'.at = "idle"
        BY DEF Load, Free, core
      <3>2. Save => UNCHANGED <<records, forget, count>> /\ step.at = "save" /\ step'.at = "connect"
        BY DEF Save, core, TypeOK
      <3> QED
        BY <1>5, <3>1, <3>2
    <2>2. app'.gen = app.gen
      BY <1>5 DEF Load, Save, AppFields
    <2>3. Cardinality(Seeds') <= Cardinality(Seeds) + 1
      <3>1. CASE \E c \in Connects : Begin(c)
        BY <3>1, Calls
      <3>2. CASE pc' = pc
        BY <3>2 DEF Seeds
      <3> QED
        BY <1>5, <3>1, <3>2 DEF Load, Save
    <2> QED
      BY <2>1, <2>2, <2>3 DEF EverEnrolled
  <1>6. CASE LoadFails \/ SaveFails
    <2>1. UNCHANGED <<records, forget, pc, app>> /\ step.at \in {"load", "save"}
          /\ step'.at \notin {"load", "save"}
      BY <1>6 DEF LoadFails, SaveFails, Free, core
    <2>2. count'.asks = count.asks /\ count'.forgets = count.forgets
      BY <1>6, Counted DEF LoadFails, SaveFails
    <2> QED
      BY <2>1, <2>2 DEF EverEnrolled, Seeds
  <1>7. ASSUME NEW c \in Connects, PressConnect(c)
        PROVE  GenerationsPaid' /\ ForgetsAsked'
    <2>1. UNCHANGED <<records, forget, app, step>>
      BY <1>7 DEF PressConnect, core
    <2>2. count'.asks = count.asks + 1 /\ count'.forgets = count.forgets
      BY <1>7, Counted DEF PressConnect
    <2>3. Cardinality(Seeds') <= Cardinality(Seeds) + 1
      BY <1>7, Calls DEF PressConnect
    <2> QED
      BY <2>1, <2>2, <2>3 DEF EverEnrolled
  <1>8. ASSUME NEW c \in Connects, Connect(c)
        PROVE  GenerationsPaid' /\ ForgetsAsked'
    <2>1. UNCHANGED <<records, forget, count>> /\ pc[c] = "seed"
      BY <1>8 DEF Connect, core
    <2>2. Cardinality(Seeds') + 1 <= Cardinality(Seeds)
      BY <1>8, <2>1, Calls DEF Connect, Ends
    <2>3. app'.gen <= app.gen + 1 /\ app'.gen \in Nat
      <3>1. app'.gen = app.gen + 1 \/ app' = app
        BY <1>8 DEF Connect, AppFields
      <3> QED
        BY <3>1
    <2>4. step' = step \/ step' = Free
      BY <1>8 DEF Connect, Ends
    <2> QED
      BY <2>1, <2>2, <2>3, <2>4 DEF EverEnrolled, Free
  <1>9. ASSUME NEW c \in Connects, Connected(c)
        PROVE  GenerationsPaid' /\ ForgetsAsked'
    <2>1. UNCHANGED <<records, forget, count>>
      BY <1>9 DEF Connected, core
    <2>2. Cardinality(Seeds') <= Cardinality(Seeds)
      BY <1>9, Calls DEF Connected
    <2>3. app'.gen = app.gen
      BY <1>9 DEF Connected, AppFields
    <2>4. step' = step \/ step' = Free
      BY <1>9 DEF Connected, Ends
    <2> QED
      BY <2>1, <2>2, <2>3, <2>4 DEF EverEnrolled, Free
  <1>10. CASE Disconnect \/ Forget
    <2>1. UNCHANGED <<records, step, pc>>
      BY <1>10 DEF Disconnect, Forget, core
    <2>2. count'.asks = count.asks + 1 /\ count'.forgets = count.forgets
      BY <1>10, Counted DEF Disconnect, Forget
    <2>3. \/ app'.gen = app.gen + 1 /\ forget' = forget
          \/ app' = app /\ forget = "idle" /\ forget' = "vpn"
      BY <1>10 DEF Disconnect, Forget, Closed, AppFields
    <2> QED
      BY <2>1, <2>2, <2>3 DEF EverEnrolled, Seeds
  <1>11. CASE ForgetFails \/ Disconnected \/ SignedOut
    <2>1. UNCHANGED <<records, step, pc>> /\ app'.gen = app.gen
      BY <1>11 DEF ForgetFails, Disconnected, SignedOut, Gone, AppFields, core
    <2>2. count'.asks = count.asks /\ count'.forgets = count.forgets
      BY <1>11, Counted DEF ForgetFails, Disconnected, SignedOut
    <2>3. One(UnderWay') <= One(UnderWay)
      BY <1>11 DEF ForgetFails, Disconnected, SignedOut
    <2> QED
      BY <2>1, <2>2, <2>3 DEF EverEnrolled, Seeds
  <1>12. CASE Deleted
    <2>1. UNCHANGED <<records, step, pc>> /\ app'.gen = app.gen + 1
      BY <1>12 DEF Deleted, Gone, Closed, AppFields, core
    <2>2. forget = "delete" /\ forget' \in {"idle", "signout"}
      BY <1>12 DEF Deleted
    <2>3. count'.asks = count.asks /\ count'.forgets = count.forgets + 1
      BY <1>12, Counted
    <2> QED
      BY <2>1, <2>2, <2>3 DEF EverEnrolled, Seeds
  <1>13. CASE AppRestart
    <2>1. records' = records /\ app'.gen = 0 /\ step'.at = "load" /\ forget' = "idle"
      BY <1>13 DEF AppRestart, Fresh, Loading, core
    <2>2. Cardinality(Seeds') = 0
      <3>1. Seeds' = {}
        BY <1>13 DEF AppRestart, Seeds
      <3> QED
        BY <3>1, FS_EmptySet
    <2>3. count'.asks = count.asks /\ count'.forgets = count.forgets
      BY <1>13, Counted
    <2> QED
      BY <2>1, <2>2, <2>3 DEF EverEnrolled
  <1> QED
    BY <1>1, <1>2, <1>3, <1>4, <1>5, <1>6, <1>7, <1>8, <1>9, <1>10, <1>11, <1>12, <1>13 DEF Next

\* Every step keeps the types.  A generation stays within MaxGen because it was paid for.
LEMMA TypeStep ==
  ASSUME TypeOK, Standing, OneAtATime, GenerationsPaid', ForgetsAsked', [Next]_vars
  PROVE  TypeOK'
  <1> DEFINE Pcs == [Connects -> {"idle", "seed", "wait"}]
             Args == [Connects -> [id : Devices \cup {None}, gen : 0..MaxGen, enroll : BOOLEAN]]
             Steps == [at : {"load", "idle", "pair", "enroll", "save", "connect"},
                       id : Devices \cup {None}]
             Core == /\ code' \in BOOLEAN /\ proven' \subseteq Devices /\ (proven' # {} => code')
                     /\ records' \in [Devices -> {"none", "active", "revoked"}]
  <1>0. app \in AppFields /\ count \in Counts /\ MaxGen \in Nat /\ 0 \in 0..MaxGen
    BY AppTyped
  <1>1. app' \in AppFields
    <2>1. store \in Devices \cup {None} /\ step.id \in Devices \cup {None}
          /\ \A c \in Connects : arg[c].id \in Devices \cup {None}
      BY DEF TypeOK
    <2>2. CASE Load \/ Save \/ Paired \/ Enrolled \/ EnrollRefused \/ UseNewCode
      BY <1>0, <2>1, <2>2
      DEF AppFields, Load, Save, Paired, Enrolled, EnrollRefused, UseNewCode
    <2>3. ASSUME NEW c \in Connects, Connect(c)
          PROVE  app' \in AppFields
      <3>1. app' = [app EXCEPT !.link = None, !.connecting = TRUE, !.gen = @ + 1] \/ app' = app
        BY <2>3 DEF Connect
      <3>2. app.gen \in Nat /\ app.gen + 1 \in Nat
        BY <1>0 DEF AppFields
      <3>3. [app EXCEPT !.link = None, !.connecting = TRUE, !.gen = @ + 1] \in AppFields
        BY <1>0, <3>2 DEF AppFields
      <3> QED
        BY <1>0, <3>1, <3>3
    <2>4. ASSUME NEW c \in Connects, Connected(c)
          PROVE  app' \in AppFields
      <3>1. PICK linked \in {None} \cup {d \in {arg[c].id} : records[d] = "active"} :
              app' = app \/ app' = [app EXCEPT !.link = linked, !.connecting = FALSE]
        BY <2>4 DEF Connected
      <3>2. linked \in Devices \cup {None}
        BY <2>1
      <3>3. [app EXCEPT !.link = linked, !.connecting = FALSE] \in AppFields
        BY <1>0, <3>2 DEF AppFields
      <3> QED
        BY <1>0, <3>1, <3>3
    <2>5. CASE Disconnect \/ Deleted \/ SignedOut
      <3>1. app.gen \in Nat /\ app.gen + 1 \in Nat
        BY <1>0 DEF AppFields
      <3>2. Closed \in AppFields
        BY <1>0, <3>1 DEF AppFields, Closed
      <3>3. Gone(Closed) \in AppFields /\ Gone(app) \in AppFields
        BY <1>0, <3>2 DEF AppFields, Gone
      <3> QED
        BY <2>5, <3>2, <3>3 DEF Disconnect, Deleted, SignedOut
    <2>6. CASE AppRestart
      BY <2>6 DEF AppFields, AppRestart, Fresh
    <2>7. CASE app' = app
      BY <1>0, <2>7
    <2> QED
      BY <2>2, <2>3, <2>4, <2>5, <2>6, <2>7
      DEF Next, vars, NewCode, CodeLapses, Revoke, Pair, LoadFails, PairFails, Enroll,
          EnrollFails, EnrollLost, SaveFails, PressConnect, Forget, ForgetFails, Disconnected
  <1>2. count' \in Counts
    <2>1. CASE count' = count
      BY <1>0, <2>1
    <2>2. CASE Ask \/ Fault \/ AppRestart
      BY <2>2, Counted
    <2>3. CASE Deleted
      <3>1. count'.forgets = count.forgets + 1 /\ count'.asks = count.asks
        BY <2>3, Counted
      <3>2. count'.forgets <= count'.asks
        BY <1>0, <2>3, <3>1 DEF Deleted, ForgetsAsked, One, UnderWay, Counts
      <3>3. count.forgets + 1 \in 0..MaxAsks
        BY <1>0, <3>1, <3>2, BoundsAssumption DEF Counts
      <3> QED
        BY <1>0, <2>3, <3>3 DEF Deleted, Counts
    <2> QED
      BY <2>1, <2>2, <2>3 DEF Next, vars, NewCode, CodeLapses, Revoke, Pair, Load, LoadFails, Paired,
       PairFails, Enroll, Enrolled, EnrollFails, EnrollLost, EnrollRefused, UseNewCode, Save,
       SaveFails, PressConnect, Connect, Connected, Disconnect, Forget, ForgetFails,
       Disconnected, SignedOut
  <1>3. app'.gen <= MaxGen
    <2>1. /\ Cardinality(Seeds') \in Nat /\ Cardinality(EverEnrolled') \in Nat
          /\ Cardinality(EverEnrolled') <= Cardinality(Devices) /\ Cardinality(Devices) \in Nat
      <3>1. Seeds' \subseteq Connects /\ EverEnrolled' \subseteq Devices
        BY DEF Seeds, EverEnrolled
      <3> QED
        BY <3>1, FiniteAssumption, Shrinks
    <2>2. app'.gen \in Nat /\ count'.asks \in 0..MaxAsks
      BY <1>1, <1>2 DEF AppFields, Counts
    <2> QED
      BY <2>1, <2>2, BoundsAssumption DEF GenerationsPaid, One, MaxGen
  <1>4. Core
    <2>1. CASE UNCHANGED core
      BY <2>1 DEF core, TypeOK
    <2>2. CASE Enrolls
      BY <2>2 DEF Enrolls, TypeOK
    <2>3. CASE NewCode \/ CodeLapses \/ Paired \/ PairFails \/ \E d \in Devices : Revoke(d)
      <3>1. step.at = "pair" => step.id \in Devices
        BY DEF TypeOK, Standing
      <3>2. CASE NewCode \/ CodeLapses
        BY <3>2 DEF NewCode, CodeLapses, TypeOK
      <3>3. CASE Paired
        BY <3>1, <3>3 DEF Paired, TypeOK
      <3>4. CASE PairFails
        BY <3>1, <3>4 DEF PairFails, TypeOK
      <3>5. CASE \E d \in Devices : Revoke(d)
        BY <3>5 DEF Revoke, TypeOK
      <3> QED
        BY <2>3, <3>2, <3>3, <3>4, <3>5
    <2> QED
      BY <2>1, <2>2, <2>3 DEF Next, vars, core, Pair, Load, LoadFails,
       Enroll, Enrolled, EnrollFails, EnrollLost, EnrollRefused, UseNewCode, Save,
       SaveFails, PressConnect, Connect, Connected, Disconnect, Forget, ForgetFails,
       Disconnected, Deleted, SignedOut, AppRestart
  <1>5. store' \in Devices \cup {None} /\ forget' \in {"idle", "vpn", "delete", "signout"}
    BY DEF TypeOK, Next, vars, core, NewCode, CodeLapses, Revoke, Pair, Load, LoadFails, Paired,
       PairFails, Enroll, Enrolled, EnrollFails, EnrollLost, EnrollRefused, UseNewCode, Save,
       SaveFails, PressConnect, Connect, Connected, Disconnect, Forget, ForgetFails,
       Disconnected, Deleted, SignedOut, AppRestart
  <1>6. step' \in Steps
    <2>1. Free \in Steps /\ Loading \in Steps
      BY DEF Free, Loading
    <2>2. step \in Steps /\ app.verified \in Devices \cup {None}
      BY DEF TypeOK
    <2>3. CASE step' = step \/ step' = Free \/ step' = Loading
      BY <2>1, <2>2, <2>3
    <2>4. CASE Enroll \/ \E d \in Devices : Pair(d)
      BY <2>2, <2>4 DEF Enroll, Pair
    <2>5. CASE Enrolled \/ Save
      BY <2>2, <2>5 DEF Enrolled, Save
    <2> QED
      BY <2>3, <2>4, <2>5
      DEF Next, vars, NewCode, CodeLapses, Revoke, Load, LoadFails, Paired, PairFails, EnrollFails,
          EnrollLost, EnrollRefused, UseNewCode, SaveFails, PressConnect, Connect, Connected, Ends,
          Disconnect, Forget, ForgetFails, Disconnected, Deleted, SignedOut, AppRestart
  <1>7. pc' \in Pcs /\ arg' \in Args
    <2>1. NoArg \in [id : Devices \cup {None}, gen : 0..MaxGen, enroll : BOOLEAN]
      BY <1>0 DEF NoArg
    <2>2. CASE UNCHANGED <<pc, arg>>
      BY <2>2 DEF TypeOK
    <2>3. ASSUME NEW c \in Connects, NEW id \in Devices \cup {None}, NEW enroll \in BOOLEAN,
                 Begin(c), For(c, id, enroll)
          PROVE  pc' \in Pcs /\ arg' \in Args
      <3>1. [id |-> id, gen |-> 0, enroll |-> enroll]
              \in [id : Devices \cup {None}, gen : 0..MaxGen, enroll : BOOLEAN]
        BY <1>0
      <3> QED
        BY <2>3, <3>1 DEF Begin, For, TypeOK
    <2>4. ASSUME NEW c \in Connects, Ends(c)
          PROVE  pc' \in Pcs /\ arg' \in Args
      BY <2>1, <2>4 DEF Ends, TypeOK
    <2>5. ASSUME NEW c \in Connects, Connect(c), ~Ends(c)
          PROVE  pc' \in Pcs /\ arg' \in Args
      <3>1. /\ app' = [app EXCEPT !.link = None, !.connecting = TRUE, !.gen = @ + 1]
            /\ pc' = [pc EXCEPT ![c] = "wait"] /\ arg' = [arg EXCEPT ![c].gen = app.gen + 1]
        BY <2>5 DEF Connect
      <3>2. app.gen + 1 \in 0..MaxGen
        BY <1>0, <1>3, <3>1 DEF AppFields
      <3> QED
        BY <3>1, <3>2 DEF TypeOK
    <2>6. CASE AppRestart
      BY <2>1, <2>6 DEF AppRestart
    <2>7. CASE Load \/ Save
      <3>1. store \in Devices \cup {None} /\ step.id \in Devices \cup {None}
        BY DEF TypeOK
      <3> QED
        BY <2>2, <2>3, <2>7, <3>1 DEF Load, Save
    <2>8. ASSUME NEW c \in Connects, PressConnect(c)
          PROVE  pc' \in Pcs /\ arg' \in Args
      <3>1. app.profile \in Devices \cup {None}
        BY DEF TypeOK
      <3> QED
        BY <2>3, <2>8, <3>1 DEF PressConnect
    <2> QED
      BY <2>2, <2>4, <2>5, <2>6, <2>7, <2>8 DEF Next, vars, core, NewCode, CodeLapses, Revoke,
       Pair, LoadFails, Paired, PairFails, Enroll, Enrolled, EnrollFails, EnrollLost,
       EnrollRefused, UseNewCode, SaveFails, Connected, Disconnect, Forget, ForgetFails,
       Disconnected, Deleted, SignedOut
  <1> QED
    BY <1>1, <1>2, <1>3, <1>4, <1>5, <1>6, <1>7, <1>0 DEF TypeOK, AppFields, Counts

-----------------------------------------------------------------------------
(***************************************************************************)
(* Who has a record.                                                       *)
(***************************************************************************)
\* A device is saved only after its enrollment.
LEMMA StandingStep ==
  ASSUME TypeOK, TypeOK', Standing, SavedIsAuthorized, OneAtATime, [Next]_vars
  PROVE  Standing' /\ SavedIsAuthorized'
  <1> USE NoIdentity DEF Standing, SavedIsAuthorized
  <1>1. CASE NewCode \/ CodeLapses \/ UNCHANGED vars
    BY <1>1 DEF NewCode, CodeLapses, vars, core
  <1>2. ASSUME NEW d \in Devices, Revoke(d)
        PROVE  Standing' /\ SavedIsAuthorized'
    <2>1. UNCHANGED <<proven, store, step>> /\ records'[d] = "revoked" /\ records[d] = "active"
          /\ \A e \in Devices : e # d => records'[e] = records[e]
      BY <1>2 DEF Revoke, TypeOK
    <2> QED
      BY <2>1 DEF TypeOK
  <1>3. ASSUME NEW d \in Devices, Pair(d)
        PROVE  Standing' /\ SavedIsAuthorized'
    BY <1>3 DEF Pair, core
  <1>4. CASE Paired \/ PairFails
    BY <1>4 DEF Paired, PairFails, Free
  <1>5. CASE \/ Load \/ LoadFails \/ EnrollFails \/ EnrollRefused \/ SaveFails \/ UseNewCode
             \/ Disconnect \/ Forget \/ ForgetFails \/ Disconnected \/ Deleted \/ SignedOut \/ AppRestart
    <2>1. UNCHANGED core /\ (step' = step \/ step' = Free \/ step' = Loading)
      BY <1>5 DEF Load, LoadFails, EnrollFails, EnrollRefused, SaveFails, UseNewCode,
         Disconnect, Forget, ForgetFails, Disconnected, Deleted, SignedOut, AppRestart, core
    <2>2. store' = store \/ store' = None
      BY <1>5 DEF Load, LoadFails, EnrollFails, EnrollRefused, SaveFails, UseNewCode,
         Disconnect, Forget, ForgetFails, Disconnected, Deleted, SignedOut, AppRestart
    <2> QED
      BY <2>1, <2>2 DEF core, Free, Loading
  <1>6. CASE Enroll
    BY <1>6 DEF Enroll, core
  <1>7. CASE Enrolled \/ EnrollLost
    <2>1. /\ records[step.id] = "none" /\ records'[step.id] = "active" /\ step.id \in Devices
          /\ \A d \in Devices : d # step.id => records'[d] = records[d]
          /\ proven' = {} /\ store' = store
      BY <1>7, Enrolling DEF Enrolled, EnrollLost, Enrolls
    <2>2. (step'.at = "save" /\ step'.id = step.id) \/ step' = Free
      BY <1>7 DEF Enrolled, EnrollLost, TypeOK
    <2> QED
      BY <2>1, <2>2 DEF Free, TypeOK
  <1>8. CASE Save
    <2>1. step'.at = "connect" /\ step'.id = step.id /\ store' = step.id /\ step.at = "save"
          /\ UNCHANGED core
      BY <1>8 DEF Save, TypeOK
    <2> QED
      BY <2>1 DEF core
  <1>9. ASSUME NEW c \in Connects, PressConnect(c) \/ Connect(c) \/ Connected(c)
        PROVE  Standing' /\ SavedIsAuthorized'
    <2>1. (step' = step \/ step' = Free) /\ UNCHANGED <<core, store>>
      BY <1>9 DEF PressConnect, Connect, Connected, Ends
    <2> QED
      BY <2>1 DEF Free, core
  <1> QED
    BY <1>1, <1>2, <1>3, <1>4, <1>5, <1>6, <1>7, <1>8, <1>9 DEF Next

\* Pairing, forgetting and the connect after a save exclude each other.
LEMMA OneAtATimeStep ==
  ASSUME TypeOK, TypeOK', OneAtATime, [Next]_vars
  PROVE  OneAtATime'
  <1> USE NoIdentity DEF OneAtATime
  <1>0. app \in AppFields
    BY AppTyped
  <1> USE <1>0 DEF AppFields
  <1>1. CASE \/ NewCode \/ CodeLapses \/ UNCHANGED vars \/ \E d \in Devices : Revoke(d)
    BY <1>1 DEF NewCode, CodeLapses, Revoke, vars, core
  <1>2. ASSUME \/ \E d \in Devices : Pair(d)
               \/ LoadFails \/ Enroll \/ EnrollFails \/ EnrollLost \/ SaveFails \/ PairFails
        PROVE  OneAtATime'
    <2>1. UNCHANGED <<app, store, forget, pc, arg>> /\ step.at # "connect"
      BY <1>2 DEF Pair, LoadFails, Enroll, EnrollFails, EnrollLost, Enrolls, SaveFails, PairFails,
                  Unlinked
    <2>2. /\ step'.at \in {"pair", "idle", "enroll"}
          /\ forget # "idle" => step'.at = "idle"
          /\ step'.at # "idle" => app.profile = None
      BY <1>2 DEF Pair, LoadFails, Enroll, EnrollFails, EnrollLost, Enrolls, SaveFails, PairFails, Free
    <2> QED
      BY <2>1, <2>2
  <1>3. ASSUME Paired \/ Enrolled \/ EnrollRefused \/ UseNewCode
        PROVE  OneAtATime'
    <2>1. UNCHANGED <<store, forget, pc, arg>> /\ step.at \notin {"load", "connect"}
          /\ app'.profile = app.profile
      BY <1>3 DEF Paired, Enrolled, Enrolls, EnrollRefused, UseNewCode, Unlinked
    <2>2. step'.at \in {"save", "idle"}
      BY <1>3 DEF Paired, Enrolled, EnrollRefused, UseNewCode, Unlinked, Free, TypeOK
    <2>3. forget = "idle" \/ (step'.at = "idle" /\ app'.verified = None)
      BY <1>3 DEF Paired, Enrolled, Enrolls, EnrollRefused, UseNewCode, Unlinked
    <2>4. app'.verified # None \/ step'.at = "save" => app.profile = None
      BY <1>3 DEF Paired, Enrolled, Enrolls, EnrollRefused, UseNewCode, Unlinked, Free
    <2>5. step'.at = "save" => app'.verified = None
      BY <1>3 DEF Paired, Enrolled, EnrollRefused, UseNewCode, Unlinked, Free
    <2> QED
      BY <2>1, <2>2, <2>3, <2>4, <2>5
  <1>4. CASE Load
    <2>1. step.at = "load" /\ step'.at = "idle" /\ app'.profile = store /\ app'.verified = app.verified
          /\ UNCHANGED <<store, forget>>
      BY <1>4 DEF Load, Free
    <2>2. app.verified = None
      BY <2>1
    <2>3. \A c \in Connects : ~arg'[c].enroll
      BY <1>4, <2>1 DEF Load, For, TypeOK
    <2> QED
      BY <2>1, <2>2, <2>3
  <1>5. CASE Save
    <2>1. /\ step.at = "save" /\ step'.at = "connect" /\ step'.id = step.id /\ app'.profile = step.id
          /\ app'.verified = app.verified /\ store' = step.id /\ forget' = forget
      BY <1>5 DEF Save, TypeOK
    <2>2. PICK c \in Connects : Begin(c) /\ For(c, step.id, TRUE)
      BY <1>5 DEF Save
    <2>3. pc'[c] = "seed" /\ \A d \in Connects : d # c => ~arg'[d].enroll
      BY <2>1, <2>2 DEF Begin, For, TypeOK
    <2> QED
      BY <2>1, <2>3
  <1>6. ASSUME NEW c \in Connects, PressConnect(c)
        PROVE  OneAtATime'
    <2>1. UNCHANGED <<app, step, store, forget>> /\ step.at = "idle"
      BY <1>6 DEF PressConnect, Remembered, Unlinked
    <2>2. \A d \in Connects : ~arg'[d].enroll
      BY <1>6, <2>1 DEF PressConnect, For, TypeOK
    <2> QED
      BY <2>1, <2>2
  <1>7. ASSUME NEW c \in Connects, Connect(c) \/ Connected(c)
        PROVE  OneAtATime'
    <2>1. UNCHANGED <<store, forget>> /\ app'.profile = app.profile /\ app'.verified = app.verified
      BY <1>7 DEF Connect, Connected
    <2>2. CASE Ends(c)
      <3>1. ~arg'[c].enroll /\ pc'[c] = "idle"
            /\ \A d \in Connects : d # c => arg'[d] = arg[d] /\ pc'[d] = pc[d]
        BY <2>2 DEF Ends, NoArg, TypeOK
      <3>2. step' = IF arg[c].enroll THEN Free ELSE step
        BY <2>2 DEF Ends
      <3> QED
        BY <2>1, <3>1, <3>2 DEF Free
    <2>3. CASE ~Ends(c)
      <3>1. step' = step /\ pc'[c] = "wait" /\ arg'[c].enroll = arg[c].enroll
            /\ \A d \in Connects : d # c => arg'[d] = arg[d] /\ pc'[d] = pc[d]
        <4>1. /\ pc' = [pc EXCEPT ![c] = "wait"] /\ arg' = [arg EXCEPT ![c].gen = app.gen + 1]
              /\ step' = step
          BY <1>7, <2>3 DEF Connect, Connected
        <4> QED
          BY <4>1 DEF TypeOK
      <3>2. pc[c] # "idle"
        BY <1>7 DEF Connect, Connected
      <3> QED
        BY <2>1, <3>1, <3>2
    <2> QED
      BY <2>2, <2>3
  <1>8. CASE Disconnect \/ Forget \/ ForgetFails \/ Disconnected
    <2>1. UNCHANGED <<step, store, pc, arg>> /\ app'.profile = app.profile /\ app'.verified = app.verified
      BY <1>8 DEF Disconnect, Forget, ForgetFails, Disconnected, Closed
    <2>2. \/ forget' = forget
          \/ forget' = "vpn" /\ app.profile # None /\ step.at = "idle"
          \/ forget' = "idle"
          \/ forget' = "delete" /\ forget = "vpn"
      BY <1>8 DEF Disconnect, Forget, ForgetFails, Disconnected, Remembered, Unlinked
    <2> QED
      BY <2>1, <2>2
  <1>9. CASE Deleted \/ SignedOut
    <2>1. UNCHANGED <<step, pc, arg>> /\ forget # "idle" /\ store' = None
      BY <1>9 DEF Deleted, SignedOut
    <2>2. \/ forget' = "idle" /\ app'.profile = None /\ app'.verified = None
          \/ forget' = "signout" /\ app'.profile = app.profile /\ app'.verified = app.verified
      BY <1>9 DEF Deleted, SignedOut, Closed, Gone
    <2> QED
      BY <2>1, <2>2
  <1>10. CASE AppRestart
    BY <1>10 DEF AppRestart, Fresh, Loading, NoArg
  <1> QED
    BY <1>1, <1>2, <1>3, <1>4, <1>5, <1>6, <1>7, <1>8, <1>9, <1>10 DEF Next

-----------------------------------------------------------------------------
(***************************************************************************)
(* Who is left without a key.                                              *)
(***************************************************************************)
\* A step strands one device at most, and pays for it: with a fault, a restart or a forget, or
\* with a saved profile the app did not know and an earlier fault has paid for.
LEMMA StrandedStep ==
  ASSUME TypeOK, TypeOK', Standing, OneAtATime, StrandedPaid, [Next]_vars
  PROVE  StrandedPaid'
  <1>0. /\ count.faults \in Nat /\ count.restarts \in Nat /\ count.forgets \in Nat
        /\ Cardinality(Stranded) \in Nat /\ IsFiniteSet(Stranded)
    BY Finite DEF TypeOK
  <1>1. ASSUME Stranded' \subseteq Stranded
        PROVE  Cardinality(Stranded') \in Nat /\ Cardinality(Stranded') <= Cardinality(Stranded)
    BY <1>0, <1>1, Shrinks
  <1>2. ASSUME NEW x, Stranded' \subseteq Stranded \cup {x}
        PROVE  Cardinality(Stranded') \in Nat /\ Cardinality(Stranded') <= Cardinality(Stranded) + 1
    BY <1>0, <1>2, Gains
  <1> USE NoIdentity DEF StrandedPaid, One
  <1>3. ASSUME Stranded' \subseteq Stranded, Unseen' => Unseen, forget' = "signout" => forget = "signout",
               count' = count
        PROVE  StrandedPaid'
    BY <1>0, <1>1, <1>3
  <1>4. ASSUME NEW x, Stranded' \subseteq Stranded \cup {x}, Unseen' => Unseen,
               forget' = "signout" => forget = "signout", Fault
        PROVE  StrandedPaid'
    BY <1>0, <1>2, <1>4, Counted
  <1>5. ASSUME records' = records, Kept \subseteq Kept' \cup {None}
        PROVE  Stranded' \subseteq Stranded
    BY <1>5 DEF Stranded
  <1>6. CASE NewCode \/ CodeLapses \/ UNCHANGED vars \/ Disconnect
    <2>1. UNCHANGED <<records, store, step, forget>> /\ app'.profile = app.profile
      <3>1. UNCHANGED <<records, store, step, forget>>
        BY <1>6 DEF NewCode, CodeLapses, vars, core, Disconnect
      <3>2. CASE NewCode \/ CodeLapses \/ UNCHANGED vars
        BY <3>2 DEF NewCode, CodeLapses, vars
      <3>3. CASE Disconnect
        <4>1. app \in AppFields /\ app' = Closed
          BY <3>3, AppTyped DEF Disconnect
        <4>2. app'.profile = app.profile
          BY ONLY <4>1 DEF Closed, AppFields
        <4> QED
          BY <3>1, <4>2
      <3> QED
        BY <1>6, <3>1, <3>2, <3>3
    <2>2. count' = count \/ Ask
      BY <1>6 DEF NewCode, CodeLapses, vars, Disconnect
    <2>3. Stranded' = Stranded /\ (Unseen' <=> Unseen)
      BY <2>1 DEF Stranded, Kept, Unseen
    <2> QED
      BY <1>0, <2>1, <2>2, <2>3, Counted
  <1>7. ASSUME NEW d \in Devices, Revoke(d)
        PROVE  StrandedPaid'
    <2>1. UNCHANGED <<store, app, step, forget, count>> /\ records'[d] = "revoked"
          /\ \A e \in Devices : e # d => records'[e] = records[e]
      BY <1>7 DEF Revoke, TypeOK
    <2>2. Stranded' \subseteq Stranded /\ (Unseen' <=> Unseen)
      BY <2>1 DEF Stranded, Kept, Unseen
    <2> QED
      BY <1>3, <2>1, <2>2
  <1>8. ASSUME \/ \E d \in Devices : Pair(d)
               \/ Paired \/ PairFails \/ Enroll \/ EnrollFails \/ EnrollRefused \/ UseNewCode
        PROVE  StrandedPaid'
    <2>1. UNCHANGED <<records, store, forget, count>> /\ app'.profile = app.profile
      BY <1>8 DEF Pair, Paired, PairFails, Enroll, EnrollFails, EnrollRefused, UseNewCode, core, TypeOK
    <2>2. step.at \notin {"load", "save", "connect"}
      BY <1>8 DEF Pair, Paired, PairFails, Enroll, EnrollFails, EnrollRefused, UseNewCode, Unlinked
    <2>3. Stranded' \subseteq Stranded
      BY <1>5, <2>1, <2>2 DEF Kept
    <2>4. Unseen' => Unseen
      BY <2>1, <2>2 DEF Unseen
    <2> QED
      BY <1>3, <2>1, <2>3, <2>4
  <1>9. CASE Enrolled \/ EnrollLost
    <2>1. /\ UNCHANGED <<store, forget>> /\ step.at = "enroll" /\ app'.profile = app.profile
          /\ \A d \in Devices : d # step.id => records'[d] = records[d]
      BY <1>9, Enrolling DEF Enrolled, EnrollLost, Enrolls, TypeOK
    <2>2. Unseen' => Unseen
      BY <2>1 DEF Unseen
    <2>3. CASE Enrolled
      <3>1. step'.at = "save" /\ step'.id = step.id
        BY <2>3 DEF Enrolled, TypeOK
      <3>2. Stranded' \subseteq Stranded
        BY <2>1, <3>1 DEF Stranded, Kept
      <3> QED
        BY <1>3, <2>1, <2>2, <2>3, <3>2 DEF Enrolled
    <2>4. CASE EnrollLost
      <3>1. Stranded' \subseteq Stranded \cup {step.id}
        BY <2>1, <2>4 DEF EnrollLost, Free, Stranded, Kept
      <3> QED
        BY <1>4, <2>1, <2>2, <2>4, <3>1 DEF EnrollLost
    <2> QED
      BY <1>9, <2>3, <2>4
  <1>10. CASE Load
    <2>1. UNCHANGED <<records, store, forget, count>> /\ step.at = "load" /\ app'.profile = store
          /\ app.profile = None
      BY <1>10 DEF Load, core, TypeOK, OneAtATime
    <2>2. Stranded' \subseteq Stranded /\ ~Unseen'
      BY <1>5, <2>1 DEF Kept, Unseen
    <2> QED
      BY <1>3, <2>1, <2>2
  <1>11. CASE LoadFails
    <2>1. UNCHANGED <<records, store, app, forget>> /\ step.at = "load"
      BY <1>11 DEF LoadFails, core
    <2>2. Stranded' \subseteq Stranded
      BY <1>5, <2>1 DEF Kept
    <2>3. /\ count'.faults = count.faults + 1 /\ count'.restarts = count.restarts
          /\ count'.forgets = count.forgets
      BY <1>11, Counted DEF LoadFails
    <2>4. ~Unseen
      BY <2>1 DEF Unseen
    <2> QED
      BY <1>0, <1>1, <2>1, <2>2, <2>3, <2>4
  <1>12. CASE Save
    <2>1. UNCHANGED <<records, forget, count>> /\ step.at = "save" /\ store' = step.id
          /\ app'.profile = step.id /\ app.profile = None
      BY <1>12 DEF Save, core, TypeOK, OneAtATime
    <2>2. Stranded' \subseteq Stranded \cup {store} /\ (store = None => Stranded' \subseteq Stranded)
      BY <2>1 DEF Kept, Stranded
    <2>3. ~Unseen' /\ (store # None => Unseen)
      BY <2>1 DEF Unseen
    <2> QED
      BY <1>0, <1>1, <1>2, <2>1, <2>2, <2>3
  <1>13. CASE SaveFails
    <2>1. UNCHANGED <<records, store, app, forget>> /\ step.at = "save" /\ Fault
      BY <1>13 DEF SaveFails, core
    <2>2. Stranded' \subseteq Stranded \cup {step.id} /\ (Unseen' => Unseen)
      BY <2>1 DEF Kept, Stranded, Unseen
    <2> QED
      BY <1>4, <2>1, <2>2
  <1>14. ASSUME NEW c \in Connects, PressConnect(c) \/ Connect(c) \/ Connected(c)
         PROVE  StrandedPaid'
    <2>1. UNCHANGED <<records, store, forget>> /\ app'.profile = app.profile
      <3>1. UNCHANGED <<records, store, forget>>
        BY <1>14 DEF PressConnect, Connect, Connected, core
      <3>2. PressConnect(c) => app'.profile = app.profile
        BY DEF PressConnect
      <3>3. Connect(c) => app'.profile = app.profile
        BY AppTyped DEF Connect, AppFields
      <3>4. Connected(c) => app'.profile = app.profile
        BY AppTyped DEF Connected, AppFields
      <3> QED
        BY <1>14, <3>1, <3>2, <3>3, <3>4
    <2>2. step' = step \/ (step.at = "connect" /\ step' = Free)
      BY <1>14 DEF PressConnect, Connect, Connected, Ends, OneAtATime
    <2>3. Stranded' \subseteq Stranded
      BY <1>5, <2>1, <2>2 DEF Kept, OneAtATime
    <2>4. Unseen' => Unseen
      BY <2>1, <2>2 DEF Unseen
    <2>5. /\ count'.faults = count.faults /\ count'.restarts = count.restarts
          /\ count'.forgets = count.forgets
      BY <1>14, Counted DEF PressConnect, Connect, Connected
    <2> QED
      BY <1>0, <1>1, <2>1, <2>3, <2>4, <2>5
  <1>15. CASE Forget \/ ForgetFails \/ Disconnected
    <2>1. UNCHANGED <<records, store, app, step>> /\ forget' # "signout"
      BY <1>15 DEF Forget, ForgetFails, Disconnected, core
    <2>2. Stranded' = Stranded /\ (Unseen' <=> Unseen)
      BY <2>1 DEF Stranded, Kept, Unseen
    <2>3. /\ count'.faults >= count.faults /\ count'.restarts = count.restarts
          /\ count'.forgets = count.forgets /\ count'.faults \in Nat
      BY <1>0, <1>15, Counted DEF Forget, ForgetFails, Disconnected
    <2> QED
      BY <1>0, <2>1, <2>2, <2>3
  <1>16. CASE Deleted
    <2>1. /\ UNCHANGED <<records, step>> /\ store' = None /\ forget = "delete"
          /\ app.profile # None /\ step.at = "idle" /\ store \in {app.profile, None}
      BY <1>16 DEF Deleted, core, OneAtATime
    <2>2. ~Unseen'
      BY <2>1 DEF Unseen
    <2>3. /\ count'.forgets = count.forgets + 1 /\ count'.faults = count.faults
          /\ count'.restarts = count.restarts
      BY <1>16, Counted
    <2>4. CASE forget' = "signout"
      <3>1. app'.profile = app.profile
        <4>1. app' = Closed
          BY <1>16, <2>4 DEF Deleted
        <4> QED
          BY <4>1, AppTyped DEF AppFields, Closed
      <3>2. Stranded' \subseteq Stranded
        BY <1>5, <2>1, <3>1 DEF Kept
      <3> QED
        BY <1>0, <1>1, <2>1, <2>2, <2>3, <2>4, <3>2
    <2>5. CASE forget' # "signout"
      <3>1. Stranded' \subseteq Stranded \cup {app.profile}
        BY <2>1 DEF Stranded, Kept
      <3> QED
        BY <1>0, <1>2, <2>1, <2>2, <2>3, <2>5, <3>1
    <2> QED
      BY <2>4, <2>5
  <1>17. CASE SignedOut
    <2>1. UNCHANGED <<records, store, step, count>> /\ forget = "signout" /\ forget' = "idle"
          /\ store = None /\ step.at = "idle"
      BY <1>17 DEF SignedOut, core, OneAtATime
    <2>2. Stranded' \subseteq Stranded \cup {app.profile} /\ ~Unseen'
      BY <2>1 DEF Stranded, Kept, Unseen
    <2> QED
      BY <1>0, <1>2, <2>1, <2>2
  <1>18. CASE AppRestart
    <2>1. UNCHANGED <<records, store>> /\ step'.at = "load" /\ forget' = "idle"
      BY <1>18 DEF AppRestart, Loading, core
    <2>2. /\ count'.restarts = count.restarts + 1 /\ count'.faults = count.faults
          /\ count'.forgets = count.forgets
      BY <1>18, Counted
    <2>3. ~Unseen'
      BY <2>1 DEF Unseen
    <2>4. PICK x : Kept \subseteq {store, x, None}
      <3>1. CASE step.at = "save"
        BY <3>1 DEF Kept, OneAtATime
      <3>2. CASE step.at = "connect"
        BY <3>2 DEF Kept, OneAtATime
      <3>3. CASE step.at \notin {"save", "connect"}
        BY <3>3 DEF Kept
      <3> QED
        BY <3>1, <3>2, <3>3
    <2>5. Stranded' \subseteq Stranded \cup {x}
      BY <2>1, <2>4 DEF Stranded, Kept
    <2> QED
      BY <1>0, <1>2, <2>1, <2>2, <2>3, <2>5
  <1> QED
    BY <1>6, <1>7, <1>8, <1>9, <1>10, <1>11, <1>12, <1>13, <1>14, <1>15, <1>16, <1>17, <1>18 DEF Next

-----------------------------------------------------------------------------
(***************************************************************************)
(* The theorems.                                                           *)
(***************************************************************************)
\* The app starts with nothing saved and nobody enrolled.
LEMMA Initially == Init => IInv
  <1> SUFFICES ASSUME Init PROVE IInv
    OBVIOUS
  <1> USE BoundsAssumption DEF Init, Fresh, Loading
  <1>1. MaxGen \in Nat /\ 0 \in 0..MaxGen
    BY Finite DEF MaxGen
  <1>2. NoArg \in [id : Devices \cup {None}, gen : 0..MaxGen, enroll : BOOLEAN] /\ ~NoArg.enroll
    BY <1>1 DEF NoArg
  <1>3. /\ pc \in [Connects -> {"idle", "seed", "wait"}]
        /\ arg \in [Connects -> [id : Devices \cup {None}, gen : 0..MaxGen, enroll : BOOLEAN]]
        /\ records \in [Devices -> {"none", "active", "revoked"}]
    BY <1>2
  <1>4. /\ app \in [profile : Devices \cup {None}, verified : Devices \cup {None},
                    link : Devices \cup {None}, connecting : BOOLEAN, gen : 0..MaxGen]
        /\ count \in [asks : 0..MaxAsks, restarts : 0..MaxRestarts, faults : 0..MaxFaults,
                      forgets : 0..MaxAsks]
    BY <1>1
  <1>5. TypeOK
    BY <1>3, <1>4 DEF TypeOK
  <1>6. Standing /\ OneAtATime /\ SavedIsAuthorized
    BY <1>2 DEF Standing, OneAtATime, SavedIsAuthorized
  <1>7. Cardinality(Seeds) = 0 /\ Cardinality(EverEnrolled) = 0 /\ Cardinality(Stranded) = 0
    <2>1. Seeds = {} /\ EverEnrolled = {} /\ Stranded = {}
      BY DEF Seeds, EverEnrolled, Stranded
    <2> QED
      BY <2>1, FS_EmptySet
  <1>8. GenerationsPaid /\ ForgetsAsked /\ StrandedPaid
    BY <1>7 DEF GenerationsPaid, ForgetsAsked, StrandedPaid, One, UnderWay, Unseen
  <1> QED
    BY <1>5, <1>6, <1>8 DEF IInv

\* Every step keeps the invariant.
LEMMA Inductive == Spec => []IInv
  <1>1. IInv /\ [Next]_vars => IInv'
    <2> SUFFICES ASSUME IInv, [Next]_vars PROVE IInv'
      OBVIOUS
    <2>1. GenerationsPaid' /\ ForgetsAsked'
      BY GenerationsStep DEF IInv
    <2>2. TypeOK'
      BY <2>1, TypeStep DEF IInv
    <2>3. Standing' /\ SavedIsAuthorized' /\ OneAtATime' /\ StrandedPaid'
      BY <2>2, StandingStep, OneAtATimeStep, StrandedStep DEF IInv
    <2> QED
      BY <2>1, <2>2, <2>3 DEF IInv
  <1> QED
    BY <1>1, Initially, PTL DEF Spec

\* The app saves only a device the core has authorized (_enroll of app/lib/main.dart, which saves
\* after enroll returned), and its generations and counts stay within what was asked for.
THEOREM SavedCorrect == Spec => []Inv
  <1>1. IInv => Inv
    BY DEF IInv, Inv
  <1> QED
    BY <1>1, Inductive, PTL

\* An authorized device without a key is due to a fault, a restart or a forget, one for each
\* (_pair, _enroll, _forget and _loadProfile of app/lib/main.dart).
THEOREM NoneStranded == Spec => []RecordsHeld
  <1>1. IInv => RecordsHeld
    <2> SUFFICES ASSUME IInv PROVE RecordsHeld
      OBVIOUS
    <2> DEFINE Unheld == {d \in Devices : records[d] = "active" /\ d \notin Keys}
    <2>1. Unheld \subseteq Stranded
      BY DEF Stranded, Kept, Keys
    <2>2. Cardinality(Unheld) \in Nat /\ Cardinality(Unheld) <= Cardinality(Stranded)
          /\ Cardinality(Stranded) \in Nat
      BY <2>1, Finite, Shrinks
    <2>3. count.faults \in Nat /\ count.restarts \in Nat /\ count.forgets \in Nat
      BY DEF IInv, TypeOK
    <2>4. Cardinality(Unheld) <= count.faults + count.restarts + count.forgets
      BY <2>2, <2>3 DEF IInv, StrandedPaid, One
    <2> QED
      BY <2>4 DEF RecordsHeld
  <1> QED
    BY <1>1, Inductive, PTL

===============================================================================
