---------------------------- MODULE CoreVPNProofs ----------------------------
(***************************************************************************)
(* Proofs about CoreVPN for every set of devices and of requests and every *)
(* number of restarts and faults.                                          *)
(***************************************************************************)
EXTENDS CoreVPN, TLAPS

-----------------------------------------------------------------------------
(***************************************************************************)
(* The inductive invariant, in parts.                                      *)
(***************************************************************************)
\* A handler that waits for Server.mu is no disconnect and has asked nothing of the helper
\* yet, and what is under way is about a device.
UnderWay ==
    \A c \in Calls :
        /\ pc[c] = "lock" => helper[c] = "idle" /\ req[c].op # "disconnect"
        /\ pc[c] # "idle" \/ helper[c] # "idle" => req[c].id \in Devices

\* Without vpn-enabled there is no helper, and without a helper no request at it.
Helped ==
    /\ ~configured => ~up /\ peers = {} /\ stored = {}
    /\ \A c \in Calls : helper[c] # "idle" => up

\* What Server.mu is for: the records stay as the handler that asks found them.
Locked ==
    \A c \in Calls : pc[c] = "asks" =>
        /\ req[c].op = "register" => req[c].id \in authorized
        /\ req[c].op = "revoke" => req[c].id \notin authorized

\* What the helper's mutex is for: a registration that asked the records is about a device
\* whose revocation nobody answered for yet.
Asked ==
    \A c \in Calls :
        helper[c] \in {"reconcile", "change"} /\ req[c].op = "register" => req[c].id \notin confirmed

\* A confirmed device is not authorized and has no peer.
Confirmed ==
    /\ confirmed \cap authorized = {}
    /\ confirmed \cap peers = {}

\* A device that was told of its registration is authorized, in the file and, while the
\* helper is up, in its map; and no removal of it is under way.
Given ==
    /\ given \subseteq authorized \cap stored
    /\ up => given \subseteq peers
    /\ \A c \in Calls, d \in given : ~Removes(c, d)

IInv == TypeOK /\ UnderWay /\ Helped /\ Locked /\ Asked /\ Confirmed /\ Given

-----------------------------------------------------------------------------
(***************************************************************************)
(* Types.                                                                  *)
(***************************************************************************)
\* The fields of the count.
LEMMA BoundedType ==
  ASSUME TypeOK, NEW what \in {"restarts", "faults"},
         NEW max, max = IF what = "restarts" THEN MaxRestarts ELSE MaxFaults,
         Bounded(what, max)
  PROVE  count' \in [restarts : 0..MaxRestarts, faults : 0..MaxFaults]
  BY BoundsAssumption DEF TypeOK, Bounded

\* An answer ends the handler and gives Server.mu back.
LEMMA AnswerType ==
  ASSUME TypeOK, NEW c \in Calls, NEW ok \in BOOLEAN, pc[c] = "asks", Answer(c, ok), req' = req,
         req[c].id \in Devices
  PROVE  /\ pc' \in [Calls -> {"idle", "lock", "asks"}]
         /\ mu' \in Calls \cup {None}
         /\ \A o \in Calls : mu' = o <=> pc'[o] = "asks" /\ req'[o].op # "disconnect"
         /\ confirmed' \subseteq Devices /\ given' \subseteq Devices
  BY NoDevice DEF TypeOK, Answer

\* A reply ends the helper's handler and the core's, if that still waits.
LEMMA ReplyType ==
  ASSUME TypeOK, UnderWay, NEW c \in Calls, NEW ok \in BOOLEAN, helper[c] # "idle", Reply(c, ok),
         req' = req
  PROVE  /\ pc' \in [Calls -> {"idle", "lock", "asks"}]
         /\ mu' \in Calls \cup {None}
         /\ \A o \in Calls : mu' = o <=> pc'[o] = "asks" /\ req'[o].op # "disconnect"
         /\ confirmed' \subseteq Devices /\ given' \subseteq Devices
         /\ helper' \in [Calls -> {"idle", "queued", "reconcile", "change"}]
         /\ hmu' \in Calls \cup {None}
         /\ \A o \in Calls : hmu' = o <=> helper'[o] \in {"reconcile", "change"}
  <1>1. /\ helper' \in [Calls -> {"idle", "queued", "reconcile", "change"}]
        /\ hmu' \in Calls \cup {None}
        /\ \A o \in Calls : hmu' = o <=> helper'[o] \in {"reconcile", "change"}
    BY NoDevice DEF TypeOK, Reply
  <1>2. CASE pc[c] = "asks"
    <2>1. req[c].id \in Devices /\ Answer(c, ok)
      BY <1>2 DEF UnderWay, Reply
    <2> QED
      BY <1>1, <1>2, <2>1, AnswerType
  <1>3. CASE pc[c] # "asks"
    BY <1>1, <1>3 DEF TypeOK, Reply
  <1> QED
    BY <1>2, <1>3

\* The helper's mutex goes to the handler that takes it or keeps it.
LEMMA ToType ==
  ASSUME TypeOK, NEW c \in Calls, NEW at \in {"reconcile", "change"}, hmu \in {None, c}, To(c, at)
  PROVE  /\ helper' \in [Calls -> {"idle", "queued", "reconcile", "change"}]
         /\ hmu' \in Calls \cup {None}
         /\ \A o \in Calls : hmu' = o <=> helper'[o] \in {"reconcile", "change"}
  BY NoDevice DEF TypeOK, To

\* Every step keeps the types.
LEMMA TypeStep ==
  ASSUME TypeOK, UnderWay, [Next]_vars
  PROVE  TypeOK'
  <1>1. ASSUME NEW c \in Calls, NEW d \in Devices, NEW op \in {"register", "disconnect", "revoke"},
               Begin(c, op, d)
        PROVE  TypeOK'
    <2>0. /\ req' = [req EXCEPT ![c] = [op |-> op, id |-> d]] /\ given' \subseteq Devices
          /\ req' \in [Calls -> [op : {"register", "disconnect", "revoke"}, id : Devices \cup {None}]]
      BY <1>1 DEF Begin, TypeOK
    <2>1. CASE op = "disconnect"
      <3>1. /\ pc' = [pc EXCEPT ![c] = "asks"]
            /\ helper' = helper \/ helper' = [helper EXCEPT ![c] = "queued"]
            /\ pc[c] = "idle" /\ helper[c] = "idle"
        BY <1>1, <2>1 DEF Begin, Send
      <3>2. pc' \in [Calls -> {"idle", "lock", "asks"}]
        BY <3>1 DEF TypeOK
      <3>3. \A o \in Calls : mu = o <=> pc'[o] = "asks" /\ req'[o].op # "disconnect"
        BY <2>0, <2>1, <3>1 DEF TypeOK
      <3>4. /\ helper' \in [Calls -> {"idle", "queued", "reconcile", "change"}]
            /\ \A o \in Calls : hmu = o <=> helper'[o] \in {"reconcile", "change"}
        BY <3>1 DEF TypeOK
      <3>5. UNCHANGED <<authorized, mu, configured, up, hmu, peers, stored, confirmed, count>>
        BY <1>1 DEF Begin
      <3> QED
        BY <2>0, <3>2, <3>3, <3>4, <3>5 DEF TypeOK
    <2>2. CASE op # "disconnect"
      BY <1>1, <2>2, NoDevice DEF Begin, TypeOK
    <2> QED
      BY <2>1, <2>2
  <1>2. ASSUME NEW c \in Calls, Lock(c)
        PROVE  TypeOK'
    <2>1. /\ pc[c] = "lock" /\ mu = None /\ req[c].op # "disconnect"
          /\ UNCHANGED <<req, configured, up, hmu, peers, stored, confirmed, given, count>>
      BY <1>2 DEF Lock, UnderWay
    <2>2. CASE mu' = c /\ Send(c)
      <3>1. /\ pc' = [pc EXCEPT ![c] = "asks"]
            /\ helper' = helper \/ helper' = [helper EXCEPT ![c] = "queued"]
            /\ helper[c] = "idle"
        BY <2>1, <2>2 DEF Send, UnderWay
      <3>2. pc' \in [Calls -> {"idle", "lock", "asks"}]
        BY <3>1 DEF TypeOK
      <3>3. \A o \in Calls : mu' = o <=> pc'[o] = "asks" /\ req'[o].op # "disconnect"
        BY <2>1, <2>2, <3>1, NoDevice DEF TypeOK
      <3>4. /\ helper' \in [Calls -> {"idle", "queued", "reconcile", "change"}]
            /\ \A o \in Calls : hmu = o <=> helper'[o] \in {"reconcile", "change"}
        BY <3>1 DEF TypeOK
      <3>5. authorized' \subseteq Devices
        BY <1>2 DEF Lock, TypeOK
      <3> QED
        BY <2>1, <2>2, <3>2, <3>3, <3>4, <3>5 DEF TypeOK
    <2>3. CASE pc' = [pc EXCEPT ![c] = "idle"] /\ UNCHANGED <<mu, helper, authorized>>
      BY <2>1, <2>3, NoDevice DEF TypeOK
    <2> QED
      BY <1>2, <2>2, <2>3 DEF Lock
  <1>3. ASSUME NEW c \in Calls, Unavailable(c) \/ TimeOut(c)
        PROVE  TypeOK'
    <2> DEFINE ok == req[c].op # "register" /\ ~configured
    <2>1. /\ pc[c] = "asks" /\ req' = req /\ req[c].id \in Devices
          /\ Answer(c, ok) /\ ok \in BOOLEAN
      BY <1>3 DEF Unavailable, TimeOut, UnderWay
    <2> HIDE DEF ok
    <2>2. UNCHANGED <<authorized, configured, up, helper, hmu, peers, stored, count>>
      BY <1>3 DEF Unavailable, TimeOut
    <2>3. /\ pc' \in [Calls -> {"idle", "lock", "asks"}]
          /\ mu' \in Calls \cup {None}
          /\ \A o \in Calls : mu' = o <=> pc'[o] = "asks" /\ req'[o].op # "disconnect"
          /\ confirmed' \subseteq Devices /\ given' \subseteq Devices
      BY <2>1, AnswerType
    <2> QED
      BY <2>1, <2>2, <2>3 DEF TypeOK
  <1>4. CASE CoreRestart
    <2>1. count' \in [restarts : 0..MaxRestarts, faults : 0..MaxFaults]
      BY <1>4, BoundedType DEF CoreRestart
    <2> QED
      BY <1>4, <2>1, NoDevice DEF CoreRestart, TypeOK
  <1>5. ASSUME NEW c \in Calls, Take(c)
        PROVE  TypeOK'
    <2>1. CASE req[c].op = "register" /\ req[c].id \notin authorized
      BY <1>5, <2>1, ReplyType DEF Take, TypeOK
    <2>2. CASE ~(req[c].op = "register" /\ req[c].id \notin authorized)
      <3>1. \E at \in {"reconcile", "change"} : To(c, at)
        BY <1>5, <2>2 DEF Take
      <3>2. /\ helper' \in [Calls -> {"idle", "queued", "reconcile", "change"}]
            /\ hmu' \in Calls \cup {None}
            /\ \A o \in Calls : hmu' = o <=> helper'[o] \in {"reconcile", "change"}
        BY <1>5, <3>1, ToType DEF Take
      <3>3. UNCHANGED <<pc, mu, confirmed, given, authorized, req, configured, up, peers, stored, count>>
        BY <1>5, <2>2 DEF Take
      <3> QED
        BY <3>2, <3>3 DEF TypeOK
    <2> QED
      BY <2>1, <2>2
  <1>6. ASSUME NEW c \in Calls, Reconcile(c)
        PROVE  TypeOK'
    <2>1. hmu = c
      BY <1>6 DEF Reconcile, TypeOK
    <2>2. UNCHANGED <<pc, mu, confirmed, given, authorized, req, configured, up, count>>
          /\ peers' \subseteq Devices /\ stored' \subseteq Devices
      BY <1>6 DEF Reconcile, Drop, TypeOK
    <2>3. /\ helper' \in [Calls -> {"idle", "queued", "reconcile", "change"}]
          /\ hmu' \in Calls \cup {None}
          /\ \A o \in Calls : hmu' = o <=> helper'[o] \in {"reconcile", "change"}
      BY <1>6, <2>1, ToType DEF Reconcile
    <2> QED
      BY <2>2, <2>3 DEF TypeOK
  <1>7. ASSUME NEW c \in Calls, Change(c)
        PROVE  TypeOK'
    <2>1. helper[c] # "idle" /\ req' = req /\ Reply(c, TRUE) /\ req[c].id \in Devices
      BY <1>7 DEF Change, UnderWay
    <2>2. UNCHANGED <<authorized, configured, up, count>>
          /\ peers' \subseteq Devices /\ stored' \subseteq Devices
      BY <1>7, <2>1 DEF Change, TypeOK
    <2> QED
      BY <2>1, <2>2, ReplyType DEF TypeOK
  <1>8. ASSUME NEW c \in Calls, ChangeFails(c)
        PROVE  TypeOK'
    <2>1. helper[c] # "idle" /\ req' = req /\ Reply(c, FALSE) /\ req[c].id \in Devices
      BY <1>8 DEF ChangeFails, UnderWay
    <2>2. count' \in [restarts : 0..MaxRestarts, faults : 0..MaxFaults]
      BY <1>8, BoundedType DEF ChangeFails
    <2>3. peers' \subseteq Devices /\ stored' \subseteq Devices
      BY <1>8, <2>1 DEF ChangeFails, Without, TypeOK
    <2>4. UNCHANGED <<authorized, configured, up>>
      BY <1>8 DEF ChangeFails
    <2> QED
      BY <2>1, <2>2, <2>3, <2>4, ReplyType DEF TypeOK
  <1>9. CASE Tick \/ Start
    BY <1>9 DEF Tick, Start, Drop, core, TypeOK
  <1>10. CASE HelperStops
    <2>1. count' \in [restarts : 0..MaxRestarts, faults : 0..MaxFaults]
      BY <1>10, BoundedType DEF HelperStops
    <2> QED
      BY <1>10, <2>1, NoDevice DEF HelperStops, core, TypeOK
  <1>11. CASE enableVPN
    BY <1>11 DEF enableVPN, core, TypeOK
  <1>12. CASE UNCHANGED vars
    BY <1>12 DEF vars, TypeOK
  <1> QED
    BY <1>1, <1>2, <1>3, <1>4, <1>5, <1>6, <1>7, <1>8, <1>9, <1>10, <1>11, <1>12
       DEF Next, Handle, Serve

-----------------------------------------------------------------------------
(***************************************************************************)
(* Who waits for what.                                                     *)
(***************************************************************************)
\* What an answer and a reply do to the handlers.
LEMMA ReplyPlaces ==
  ASSUME TypeOK, NEW c \in Calls, NEW ok \in BOOLEAN
  PROVE  /\ Answer(c, ok) => \A o \in Calls : pc'[o] # "idle" => pc'[o] = pc[o] /\ o # c
         /\ Reply(c, ok) => \A o \in Calls :
               /\ pc'[o] # "idle" => pc'[o] = pc[o] /\ (pc[o] = "asks" => o # c)
               /\ helper'[o] # "idle" => helper'[o] = helper[o] /\ o # c
  BY DEF TypeOK, Answer, Reply

\* Every step keeps what is known of the handlers of both sides.
LEMMA PlacesStep ==
  ASSUME TypeOK, UnderWay, Helped, [Next]_vars
  PROVE  UnderWay' /\ Helped'
  <1> USE DEF UnderWay, Helped
  <1>1. ASSUME NEW c \in Calls, NEW d \in Devices, NEW op \in {"register", "disconnect", "revoke"},
               Begin(c, op, d)
        PROVE  UnderWay' /\ Helped'
    BY <1>1 DEF Begin, Send, TypeOK
  <1>2. ASSUME NEW c \in Calls, Lock(c)
        PROVE  UnderWay' /\ Helped'
    BY <1>2 DEF Lock, Send, TypeOK
  <1>3. ASSUME NEW c \in Calls, Unavailable(c) \/ TimeOut(c)
        PROVE  UnderWay' /\ Helped'
    <2>1. \E ok \in BOOLEAN : Answer(c, ok)
      BY <1>3 DEF Unavailable, TimeOut
    <2>2. UNCHANGED <<req, configured, up, helper, peers, stored>>
      BY <1>3 DEF Unavailable, TimeOut
    <2> QED
      BY <2>1, <2>2, ReplyPlaces
  <1>4. CASE CoreRestart
    BY <1>4 DEF CoreRestart
  <1>5. ASSUME NEW c \in Calls, Take(c)
        PROVE  UnderWay' /\ Helped'
    <2>1. /\ up /\ configured /\ up' = up /\ configured' = configured /\ req' = req
          /\ helper[c] = "queued" /\ pc[c] # "lock" /\ req[c].id \in Devices
      BY <1>5 DEF Take, TypeOK
    <2>2. CASE Reply(c, FALSE)
      BY <2>1, <2>2, ReplyPlaces
    <2>3. CASE pc' = pc /\ \E at \in {"reconcile", "change"} : To(c, at)
      BY <2>1, <2>3 DEF To, TypeOK
    <2> QED
      BY <1>5, <2>2, <2>3 DEF Take
  <1>6. ASSUME NEW c \in Calls, Reconcile(c)
        PROVE  UnderWay' /\ Helped'
    BY <1>6 DEF Reconcile, To, Drop, TypeOK
  <1>7. ASSUME NEW c \in Calls, Change(c) \/ ChangeFails(c)
        PROVE  UnderWay' /\ Helped'
    <2>1. up /\ configured /\ up' = up /\ configured' = configured /\ req' = req
      BY <1>7 DEF Change, ChangeFails, TypeOK
    <2>2. \E ok \in BOOLEAN : Reply(c, ok)
      BY <1>7 DEF Change, ChangeFails
    <2> QED
      BY <2>1, <2>2, ReplyPlaces
  <1>8. CASE Tick \/ Start \/ HelperStops \/ enableVPN
    BY <1>8 DEF Tick, Start, HelperStops, enableVPN, Drop, core
  <1>9. CASE UNCHANGED vars
    BY <1>9 DEF vars
  <1> QED
    BY <1>1, <1>2, <1>3, <1>4, <1>5, <1>6, <1>7, <1>8, <1>9 DEF Next, Handle, Serve

\* The records change under Server.mu only, for the device of the one handler that asks.
LEMMA LockedStep ==
  ASSUME TypeOK, UnderWay, Locked, [Next]_vars
  PROVE  Locked'
  <1> USE DEF Locked
  <1>1. ASSUME NEW c \in Calls, NEW d \in Devices, NEW op \in {"register", "disconnect", "revoke"},
               Begin(c, op, d)
        PROVE  Locked'
    BY <1>1 DEF Begin, Send, TypeOK
  <1>2. ASSUME NEW c \in Calls, Lock(c)
        PROVE  Locked'
    <2>1. \A o \in Calls : pc[o] = "asks" => req[o].op = "disconnect"
      BY <1>2, NoDevice DEF Lock, TypeOK
    <2> QED
      BY <1>2, <2>1 DEF Lock, Send, TypeOK
  <1>3. ASSUME NEW c \in Calls, Unavailable(c) \/ TimeOut(c)
        PROVE  Locked'
    BY <1>3, ReplyPlaces DEF Unavailable, TimeOut
  <1>4. ASSUME NEW c \in Calls, Take(c) \/ Change(c) \/ ChangeFails(c)
        PROVE  Locked'
    BY <1>4, ReplyPlaces DEF Take, Change, ChangeFails
  <1>5. CASE CoreRestart \/ (\E c \in Calls : Reconcile(c)) \/ Tick \/ Start \/ HelperStops \/ enableVPN
    BY <1>5 DEF CoreRestart, Reconcile, Tick, Start, HelperStops, enableVPN, core
  <1>6. CASE UNCHANGED vars
    BY <1>6 DEF vars
  <1> QED
    BY <1>1, <1>2, <1>3, <1>4, <1>5, <1>6 DEF Next, Handle, Serve

-----------------------------------------------------------------------------
(***************************************************************************)
(* Revocations.                                                            *)
(***************************************************************************)
\* What a step does to confirmed and given: nothing, or the answer of one handler.
LEMMA AnswerEnds ==
  ASSUME NEW c \in Calls, NEW ok \in BOOLEAN, Answer(c, ok)
  PROVE  /\ confirmed' \subseteq confirmed \cup {req[c].id}
         /\ confirmed' # confirmed => ok /\ req[c].op = "revoke"
         /\ given' \subseteq given \cup {req[c].id}
         /\ given' # given => ok /\ req[c].op = "register" /\ \A o \in Calls : ~Removes(o, req[c].id)
  BY DEF Answer

\* A handler that replies while the core waits answers for it; otherwise nobody is told.
LEMMA ReplyEnds ==
  ASSUME NEW c \in Calls, NEW ok \in BOOLEAN, Reply(c, ok)
  PROVE  /\ confirmed' \subseteq confirmed \cup {req[c].id}
         /\ confirmed' # confirmed => ok /\ req[c].op = "revoke" /\ pc[c] = "asks"
         /\ given' \subseteq given \cup {req[c].id}
         /\ given' # given => /\ ok /\ req[c].op = "register" /\ pc[c] = "asks"
                             /\ \A o \in Calls : ~Removes(o, req[c].id)
  BY AnswerEnds DEF Reply

\* A confirmation comes from a removal that holds the helper's mutex, or from a core without
\* a helper; a peer comes from a registration whose device was authorized under that mutex.
LEMMA ConfirmedStep ==
  ASSUME TypeOK, UnderWay, Helped, Locked, Asked, Confirmed, [Next]_vars
  PROVE  Asked' /\ Confirmed'
  <1> USE DEF Asked, Confirmed
  <1>1. ASSUME NEW c \in Calls, NEW d \in Devices, NEW op \in {"register", "disconnect", "revoke"},
               Begin(c, op, d)
        PROVE  Asked' /\ Confirmed'
    BY <1>1 DEF Begin, Send, TypeOK
  <1>2. ASSUME NEW c \in Calls, Lock(c)
        PROVE  Asked' /\ Confirmed'
    BY <1>2 DEF Lock, Send, TypeOK
  <1>3. ASSUME NEW c \in Calls, Unavailable(c) \/ TimeOut(c)
        PROVE  Asked' /\ Confirmed'
    <2> DEFINE ok == req[c].op # "register" /\ ~configured
    <2>1. /\ Answer(c, ok) /\ ok \in BOOLEAN /\ pc[c] = "asks"
          /\ UNCHANGED <<authorized, req, helper, peers>>
      BY <1>3 DEF Unavailable, TimeOut
    <2>2. CASE ok /\ req[c].op = "revoke"
      <3>1. peers = {} /\ req[c].id \notin authorized /\ \A o \in Calls : helper[o] = "idle"
        BY <2>1, <2>2 DEF Helped, Locked
      <3> QED
        BY <2>1, <3>1, AnswerEnds
    <2>3. CASE ~(ok /\ req[c].op = "revoke")
      <3>1. confirmed' = confirmed
        BY <2>1, <2>3, AnswerEnds
      <3> QED
        BY <2>1, <3>1
    <2> QED
      BY <2>2, <2>3
  <1>4. ASSUME NEW c \in Calls, Take(c)
        PROVE  Asked' /\ Confirmed'
    <2>1. CASE Reply(c, FALSE)
      <3>1. confirmed' = confirmed /\ UNCHANGED <<authorized, req, peers>>
        BY <1>4, <2>1, ReplyEnds DEF Take
      <3>2. \A o \in Calls : helper'[o] # "idle" => helper'[o] = helper[o]
        BY <2>1, ReplyPlaces
      <3> QED
        BY <3>1, <3>2
    <2>2. CASE ~Reply(c, FALSE)
      <3>1. /\ UNCHANGED <<authorized, req, peers, confirmed>>
            /\ req[c].op = "register" => req[c].id \in authorized
            /\ \E at \in {"reconcile", "change"} : To(c, at)
        BY <1>4, <2>2 DEF Take
      <3>2. \A o \in Calls \ {c} : helper'[o] = helper[o]
        BY <3>1 DEF To, TypeOK
      <3> QED
        BY <3>1, <3>2
    <2> QED
      BY <2>1, <2>2
  <1>5. ASSUME NEW c \in Calls, Reconcile(c)
        PROVE  Asked' /\ Confirmed'
    BY <1>5 DEF Reconcile, To, Drop, TypeOK
  <1>6. ASSUME NEW c \in Calls, Change(c)
        PROVE  Asked' /\ Confirmed'
    <2>1. hmu = c /\ Reply(c, TRUE) /\ UNCHANGED <<authorized, req>>
      BY <1>6 DEF Change, TypeOK
    <2>2. \A o \in Calls : helper'[o] \notin {"reconcile", "change"}
      BY <2>1, ReplyPlaces DEF TypeOK
    <2>3. CASE req[c].op = "register"
      BY <1>6, <2>1, <2>2, <2>3, ReplyEnds DEF Change
    <2>4. CASE req[c].op # "register"
      BY <1>6, <2>1, <2>2, <2>4, ReplyEnds DEF Change, Locked
    <2> QED
      BY <2>3, <2>4
  <1>7. ASSUME NEW c \in Calls, ChangeFails(c)
        PROVE  Asked' /\ Confirmed'
    <2>1. Reply(c, FALSE) /\ peers' \subseteq peers /\ UNCHANGED <<authorized, req>>
      BY <1>7 DEF ChangeFails, Without
    <2>2. confirmed' = confirmed
      BY <2>1, ReplyEnds
    <2>3. \A o \in Calls : helper'[o] # "idle" => helper'[o] = helper[o]
      BY <2>1, ReplyPlaces
    <2> QED
      BY <2>1, <2>2, <2>3
  <1>8. CASE CoreRestart \/ Tick \/ Start \/ HelperStops \/ enableVPN
    BY <1>8 DEF CoreRestart, Tick, Start, HelperStops, enableVPN, Drop, core
  <1>9. CASE UNCHANGED vars
    BY <1>9 DEF vars
  <1> QED
    BY <1>1, <1>2, <1>3, <1>4, <1>5, <1>6, <1>7, <1>8, <1>9 DEF Next, Handle, Serve

-----------------------------------------------------------------------------
(***************************************************************************)
(* Registrations.                                                          *)
(***************************************************************************)
\* Only a request that begins can be a removal that was not under way.
LEMMA RemovalsBegin ==
  ASSUME TypeOK, [Next]_vars,
         \A c \in Calls, d \in Devices, op \in {"register", "disconnect", "revoke"} : ~Begin(c, op, d)
  PROVE  req' = req /\ \A o \in Calls, d \in Devices : Removes(o, d)' => Removes(o, d)
  <1> USE DEF Removes
  <1>1. ASSUME NEW c \in Calls, Lock(c)
        PROVE  req' = req /\ \A o \in Calls, d \in Devices : Removes(o, d)' => Removes(o, d)
    BY <1>1 DEF Lock, Send, TypeOK
  <1>2. ASSUME NEW c \in Calls, Unavailable(c) \/ TimeOut(c)
        PROVE  req' = req /\ \A o \in Calls, d \in Devices : Removes(o, d)' => Removes(o, d)
    <2>1. \E ok \in BOOLEAN : Answer(c, ok) /\ UNCHANGED <<req, helper>>
      BY <1>2 DEF Unavailable, TimeOut
    <2> QED
      BY <2>1, ReplyPlaces
  <1>3. ASSUME NEW c \in Calls, Take(c)
        PROVE  req' = req /\ \A o \in Calls, d \in Devices : Removes(o, d)' => Removes(o, d)
    <2>1. CASE Reply(c, FALSE)
      BY <1>3, <2>1, ReplyPlaces DEF Take
    <2>2. CASE ~Reply(c, FALSE)
      BY <1>3, <2>2 DEF Take, To, TypeOK
    <2> QED
      BY <2>1, <2>2
  <1>4. ASSUME NEW c \in Calls, Reconcile(c)
        PROVE  req' = req /\ \A o \in Calls, d \in Devices : Removes(o, d)' => Removes(o, d)
    BY <1>4 DEF Reconcile, To, TypeOK
  <1>5. ASSUME NEW c \in Calls, Change(c) \/ ChangeFails(c)
        PROVE  req' = req /\ \A o \in Calls, d \in Devices : Removes(o, d)' => Removes(o, d)
    <2>1. req' = req /\ \E ok \in BOOLEAN : Reply(c, ok)
      BY <1>5 DEF Change, ChangeFails
    <2> QED
      BY <2>1, ReplyPlaces
  <1>6. CASE CoreRestart \/ Tick \/ Start \/ HelperStops \/ enableVPN \/ UNCHANGED vars
    BY <1>6 DEF CoreRestart, Tick, Start, HelperStops, enableVPN, core, vars
  <1> QED
    BY <1>1, <1>2, <1>3, <1>4, <1>5, <1>6 DEF Next, Handle, Serve

\* What the map and the file can lose is a device that is not authorized or whose removal is
\* under way, so a device that was told of its registration stays in both.
LEMMA PeersKept ==
  ASSUME TypeOK, UnderWay, Helped, Given, [Next]_vars, NEW d \in given
  PROVE  d \in stored' /\ (up' => d \in peers')
  <1> USE DEF Given
  <1>1. CASE peers' = peers /\ stored' = stored /\ up' = up
    BY <1>1
  <1>2. CASE CoreRestart \/ HelperStops \/ enableVPN \/ UNCHANGED vars
    BY <1>2 DEF CoreRestart, HelperStops, enableVPN, core, vars
  <1>3. CASE Tick \/ Start \/ \E c \in Calls : Reconcile(c)
    BY <1>3 DEF Tick, Start, Reconcile, Drop, Helped
  <1>4. ASSUME NEW c \in Calls, Change(c) \/ ChangeFails(c)
        PROVE  d \in stored' /\ (up' => d \in peers')
    <2>1. /\ up /\ helper[c] # "idle"
          /\ req[c].op # "register" => req[c].id # d
      BY <1>4 DEF Change, ChangeFails, Removes, Helped
    <2>2. CASE Change(c)
      BY <2>1, <2>2 DEF Change
    <2>3. CASE ChangeFails(c)
      BY <2>1, <2>3 DEF ChangeFails, Without
    <2> QED
      BY <1>4, <2>2, <2>3
  <1> QED
    BY <1>1, <1>2, <1>3, <1>4
       DEF Next, Handle, Serve, Begin, Lock, Unavailable, TimeOut, Take

\* A device leaves the records under a revocation of it, which is under way.
LEMMA RecordsKept ==
  ASSUME TypeOK, UnderWay, Given, [Next]_vars, NEW d \in given
  PROVE  d \in authorized'
  <1> USE DEF Given
  <1>1. ASSUME NEW c \in Calls, Lock(c)
        PROVE  d \in authorized'
    BY <1>1 DEF Lock, Removes, TypeOK
  <1> QED
    BY <1>1 DEF Next, Handle, Serve, Begin, Unavailable, TimeOut, Take, Reconcile, Change, ChangeFails,
                Tick, Start, HelperStops, enableVPN, CoreRestart, core, vars

\* A device is told of its registration by the handler that put its peer in the map and the
\* file, while the core held Server.mu for it and nobody asked for its removal.
LEMMA GivenStep ==
  ASSUME TypeOK, UnderWay, Helped, Locked, Given, [Next]_vars
  PROVE  Given'
  <1>1. ASSUME NEW c \in Calls, NEW e \in Devices, NEW op \in {"register", "disconnect", "revoke"},
               Begin(c, op, e)
        PROVE  Given'
    <2>1. /\ given' \subseteq given /\ (op # "register" => e \notin given')
          /\ UNCHANGED <<authorized, stored, peers, up>>
          /\ req' = [req EXCEPT ![c] = [op |-> op, id |-> e]]
          /\ \A o \in Calls \ {c} : pc'[o] = pc[o] /\ helper'[o] = helper[o]
      BY <1>1 DEF Begin, Send, TypeOK
    <2>2. \A o \in Calls, d \in given' : ~Removes(o, d)'
      BY <2>1 DEF Given, Removes, TypeOK
    <2> QED
      BY <2>1, <2>2 DEF Given
  <1>2. ASSUME \A c \in Calls, d \in Devices, op \in {"register", "disconnect", "revoke"} : ~Begin(c, op, d),
               given' \subseteq given
        PROVE  Given'
    <2>1. \A o \in Calls, d \in given' : ~Removes(o, d)'
      BY <1>2, RemovalsBegin DEF Given, TypeOK
    <2>2. \A d \in given' : d \in authorized' /\ d \in stored' /\ (up' => d \in peers')
      BY <1>2, PeersKept, RecordsKept
    <2> QED
      BY <2>1, <2>2 DEF Given
  <1>3. ASSUME NEW c \in Calls, Change(c), ~(given' \subseteq given)
        PROVE  Given'
    <2> DEFINE d == req[c].id
    <2>1. /\ Reply(c, TRUE) /\ helper[c] = "change" /\ UNCHANGED <<authorized, req, up>>
      BY <1>3 DEF Change
    <2>2. /\ given' \subseteq given \cup {d} /\ req[c].op = "register" /\ pc[c] = "asks"
          /\ \A o \in Calls : ~Removes(o, d)
      BY <1>3, <2>1, ReplyEnds
    <2>3. d \in authorized' /\ d \in peers' /\ d \in stored'
      BY <1>3, <2>1, <2>2 DEF Change, Locked
    <2>4. \A e \in given : e \in authorized' /\ e \in stored' /\ (up' => e \in peers')
      BY PeersKept, RecordsKept
    <2>5. \A o \in Calls, e \in Devices : Removes(o, e)' => Removes(o, e)
      BY <2>1, ReplyPlaces DEF Removes
    <2>6. d \in Devices
      BY <2>1 DEF UnderWay
    <2> HIDE DEF d
    <2> QED
      BY <2>2, <2>3, <2>4, <2>5, <2>6 DEF Given, TypeOK
  <1>4. ASSUME NEW c \in Calls, Unavailable(c) \/ TimeOut(c) \/ Take(c) \/ ChangeFails(c)
        PROVE  given' \subseteq given
    <2>1. CASE Unavailable(c) \/ TimeOut(c)
      <3> DEFINE ok == req[c].op # "register" /\ ~configured
      <3>1. Answer(c, ok) /\ ok \in BOOLEAN
        BY <2>1 DEF Unavailable, TimeOut
      <3> QED
        BY <3>1, AnswerEnds
    <2>2. CASE Take(c) \/ ChangeFails(c)
      BY <2>2, ReplyEnds DEF Take, ChangeFails
    <2> QED
      BY <1>4, <2>1, <2>2
  <1>5. CASE (\E c \in Calls : Lock(c) \/ Reconcile(c)) \/ CoreRestart \/ Tick \/ Start
             \/ HelperStops \/ enableVPN \/ UNCHANGED vars
    <2>1. given' \subseteq given
      BY <1>5 DEF Lock, Reconcile, CoreRestart, Tick, Start, HelperStops, enableVPN, core, vars
    <2> QED
      BY <1>1, <1>2, <2>1
  <1> QED
    BY <1>1, <1>2, <1>3, <1>4, <1>5 DEF Next, Handle, Serve

-----------------------------------------------------------------------------
(***************************************************************************)
(* Theorems.                                                               *)
(***************************************************************************)
\* The inductive invariant holds in every state.
LEMMA Inductive == Spec => []IInv
  <1>1. Init => IInv
    <2> SUFFICES ASSUME Init
                 PROVE  IInv
      OBVIOUS
    <2>1. TypeOK
      <3>1. NoRequest \in [op : {"register", "disconnect", "revoke"}, id : Devices \cup {None}]
        BY DEF NoRequest
      <3>2. /\ req \in [Calls -> [op : {"register", "disconnect", "revoke"}, id : Devices \cup {None}]]
            /\ pc \in [Calls -> {"idle", "lock", "asks"}]
            /\ helper \in [Calls -> {"idle", "queued", "reconcile", "change"}]
        BY <3>1 DEF Init
      <3>3. count \in [restarts : 0..MaxRestarts, faults : 0..MaxFaults]
        BY BoundsAssumption DEF Init
      <3> QED
        BY <3>2, <3>3, NoDevice DEF Init, TypeOK
    <2>2. UnderWay /\ Helped /\ Locked /\ Asked /\ Confirmed /\ Given
      BY DEF Init, UnderWay, Helped, Locked, Asked, Confirmed, Given
    <2> QED
      BY <2>1, <2>2 DEF IInv
  <1>2. IInv /\ [Next]_vars => IInv'
    BY TypeStep, PlacesStep, LockedStep, ConfirmedStep, GivenStep DEF IInv
  <1> QED
    BY <1>1, <1>2, PTL DEF Spec

\* A device whose revocation was answered without a warning, also when it was repeated, has no
\* peer at the helper, whatever requests the core gave up on (device_auth.go:136-160,
\* core/internal/vpn/client.go).
THEOREM ConfirmedHasNoPeer == Spec => []RevocationConfirmed
  <1>1. IInv => RevocationConfirmed
    BY DEF IInv, Confirmed, RevocationConfirmed
  <1> QED
    BY <1>1, Inductive, PTL

\* Who holds Server.mu and Manager.mu is where the handlers are, and a device that was told of
\* its registration keeps its peer until its removal is asked for (core/internal/vpn/manager.go,
\* register and reconcile).
THEOREM RegistrationKept == Spec => []Inv
  <1>1. IInv => Inv
    BY DEF IInv, TypeOK, Given, Inv, RegistrationHolds
  <1> QED
    BY <1>1, Inductive, PTL

=============================================================================
