----------------------------- MODULE AppVPNProofs -----------------------------
(***************************************************************************)
(* Proofs about the VPN of the app: VPNController for any exits, any       *)
(* number of calls of disconnect at a time, of connects, sign-ins and      *)
(* events, and, from "The supervisor of Windows" on, WindowsTunnel for     *)
(* every set of handlers and configurations and every number of installs,  *)
(* stops and faults.                                                       *)
(***************************************************************************)
EXTENDS VPNController, WindowsTunnel, TLAPS

-----------------------------------------------------------------------------
(***************************************************************************)
(* The inductive invariant, in parts.                                      *)
(***************************************************************************)
\* What each task can await, and the call it makes for it.
Awaits ==
    /\ pc["restore"] \in {"idle", "status", "selection"}
    /\ pc["load"] \in {"idle", "exits", "status"}
    /\ pc["refresh"] \in {"idle", "status", "exits"}
    /\ pc["connect"] \in {"idle", "status", "install", "key", "register", "select", "connect",
                          "cancelled", "check", "failed", "remove"}
    /\ \A s \in Slots : pc[s] \in {"idle", "status", "disconnect", "remove"}
    /\ \A t \in Tasks : ~Idle(t) => call[t].made.kind = Kind(pc[t])

\* connect works on an exit.
OnExit ==
    /\ ~Idle("connect") => local["connect"].exit \in Exits
    /\ pc["connect"] \in {"register", "select", "connect"} => call["connect"].made.exit \in Exits

\* The core has rejected a sign-in of this device, or will reject every one. Only then does
\* the app disconnect on its behalf.
Rejects == revoked \/ count.lapses > 0
LostIsRejected == \A t \in Tasks : local[t].kind = "lost" => Rejects

\* Each connect and each disconnect begins a generation of its own.
Generations ==
    /\ stopped <= app.gen
    /\ \A t \in Tasks : local[t].gen <= app.gen
    /\ ~Idle("connect") =>
          /\ local["connect"].gen # stopped
          /\ \A s \in Slots : ~Idle(s) => local[s].gen # local["connect"].gen

\* No call failed, and none of a former life of the app is under way.
Calm == count.faults + count.restarts = 0
Reliable ==
    Calm =>
        /\ strays = {}
        /\ \A t \in Tasks : ~Idle(t) /\ call[t].answered
                            /\ call[t].made.kind \in {"connect", "disconnect"} => Ok(t)

\* The tunnel is down, or a connect that was superseded is about to take it down.
Superseding ==
    \/ pc["connect"] = "connect" /\ ~Current("connect")
    \/ pc["connect"] = "cancelled" /\ ~call["connect"].answered
GoesDown == tunnel = None \/ Superseding

\* So it is once the latest disconnect has read that it is down, has had it stopped, or is over.
LatestDisconnect ==
    Calm =>
        /\ stopped > 0 /\ stopped = app.gen => GoesDown
        /\ \A s \in Slots : Current(s) =>
              /\ pc[s] = "status" => Idle("connect")
              /\ pc[s] = "status" /\ call[s].answered /\ ~Up(s) => tunnel = None
              /\ pc[s] = "disconnect" /\ call[s].answered => GoesDown
              /\ pc[s] = "remove" => GoesDown

IInv ==
    /\ TypeOK /\ Awaits /\ OnExit /\ LostIsRejected /\ Generations /\ Reliable
    /\ LatestDisconnect

-----------------------------------------------------------------------------
(***************************************************************************)
(* Types.                                                                  *)
(***************************************************************************)
Steps == {"status", "selection", "exits", "install", "key", "register", "select", "connect",
          "cancelled", "check", "failed", "disconnect", "remove"}
Apps == [phase : {"idle", "provisioning", "up", "disconnecting"}, active : BOOLEAN,
         timer : BOOLEAN, scope : BOOLEAN, exits : SUBSET Exits, ready : SUBSET Exits,
         selected : Exits \cup {None}, gen : 0..MaxAsks + 1]
Calls == [made : Requests, answered : BOOLEAN, ok : BOOLEAN, exit : Exits \cup {None},
          found : SUBSET Exits]
Locals == [gen : 0..MaxAsks + 1, exit : Exits \cup {None}, registered : BOOLEAN,
           found : SUBSET Exits, kind : {"none", "panel", "core", "lost"}]

WorldTypes ==
    /\ tunnel \in Exits \cup {None} /\ installed \in BOOLEAN
    /\ saved \in Exits \cup {None} /\ peer \in Exits \cup {None}
CoreTypes == offered \in SUBSET Exits /\ revoked \in BOOLEAN /\ session \in {"none", "ok", "unreachable"}
TaskTypes ==
    /\ pc \in [Tasks -> Steps \cup {"idle"}]
    /\ call \in [Tasks -> Calls]
    /\ local \in [Tasks -> Locals]
PastTypes ==
    /\ strays \subseteq Requests
    /\ stopped \in 0..MaxAsks + 1 /\ owed \in BOOLEAN
    /\ count \in [faults : 0..MaxEvents, signIns : 0..MaxSignIns, restarts : 0..MaxEvents,
                  turns : 0..MaxEvents, lapses : 0..MaxEvents]

LEMMA TypeParts ==
    TypeOK <=> WorldTypes /\ CoreTypes /\ TaskTypes /\ PastTypes /\ app \in Apps
<1> QED
  BY DEF TypeOK, WorldTypes, CoreTypes, TaskTypes, PastTypes, Apps, Calls, Locals, Steps

LEMMA TypePartsNext ==
    TypeOK' <=> WorldTypes' /\ CoreTypes' /\ TaskTypes' /\ PastTypes' /\ app' \in Apps
<1> QED
  BY DEF TypeOK, WorldTypes, CoreTypes, TaskTypes, PastTypes, Apps, Calls, Locals, Steps

LEMMA TasksApart ==
    /\ {"restore", "load", "refresh", "connect"} \subseteq Tasks /\ Slots \subseteq Tasks
    /\ \A s \in Slots : s \notin {"restore", "load", "refresh", "connect"}
<1> QED
  BY SlotsAssumption DEF Tasks

LEMMA ZeroType ==
    0 \in 0..MaxAsks + 1 /\ 0 \in 0..MaxEvents /\ 0 \in 0..MaxSignIns
<1> QED
  BY BoundsAssumption

LEMMA NoneTypes ==
    NoCall \in Calls /\ NoLocal \in Locals
<1>1. Request("status", None) \in Requests
  BY DEF Request, Requests, Kinds
<1>2. NoCall \in Calls
  BY <1>1 DEF NoCall, Calls
<1>3. NoLocal \in Locals
  BY ZeroType DEF NoLocal, Locals
<1> QED
  BY <1>2, <1>3

\* A task that goes on to its next await, or ends, and no other with it.
LEMMA AwaitMoves ==
    ASSUME TaskTypes, NEW t \in Tasks, NEW at \in Steps, NEW exit \in Exits \cup {None},
           NEW l \in Locals, Await(t, at, exit, l)
    PROVE  /\ TaskTypes'
           /\ pc'[t] = at /\ local'[t] = l /\ ~call'[t].answered
           /\ call'[t].made = Request(Kind(at), exit) /\ call'[t].made.kind = Kind(at)
           /\ call'[t].made.exit = exit
           /\ \A u \in Tasks \ {t} : pc'[u] = pc[u] /\ local'[u] = local[u] /\ call'[u] = call[u]
<1>1. Kind(at) \in Kinds
  BY DEF Kind, Kinds, Steps
<1>2. Request(Kind(at), exit) \in Requests /\ Request(Kind(at), exit).kind = Kind(at)
      /\ Request(Kind(at), exit).exit = exit
  BY <1>1 DEF Request, Requests
<1> DEFINE c == [NoCall EXCEPT !.made = Request(Kind(at), exit)]
<1>3. c \in Calls /\ ~c.answered /\ c.made = Request(Kind(at), exit)
  BY <1>2 DEF NoCall, Calls
<1> HIDE DEF c
<1>4. pc' = [pc EXCEPT ![t] = at] /\ local' = [local EXCEPT ![t] = l]
      /\ call' = [call EXCEPT ![t] = c]
  BY DEF Await, c
<1>5. TaskTypes'
  BY <1>3, <1>4 DEF TaskTypes
<1> QED
  BY <1>2, <1>3, <1>4, <1>5 DEF TaskTypes

LEMMA ReturnMoves ==
    ASSUME TaskTypes, NEW t \in Tasks, Return(t)
    PROVE  /\ TaskTypes'
           /\ pc'[t] = "idle" /\ local'[t] = NoLocal /\ call'[t] = NoCall
           /\ \A u \in Tasks \ {t} : pc'[u] = pc[u] /\ local'[u] = local[u] /\ call'[u] = call[u]
<1> QED
  BY NoneTypes DEF Return, TaskTypes

LEMMA SetExitsTypes ==
    ASSUME NEW a \in Apps, NEW found \in SUBSET Exits, NEW ready \in SUBSET Exits
    PROVE  SetExits(a, found, ready) \in Apps /\ SetExits(a, found, ready).gen = a.gen
<1> DEFINE kept == IF Active(a) /\ a.selected # None THEN found \cup {a.selected} ELSE found
<1>1. kept \in SUBSET Exits
  BY DEF Apps
<1>2. FirstOf(kept) \in Exits \cup {None}
  BY <1>1 DEF FirstOf
<1>3. SetExits(a, found, ready) =
          [a EXCEPT !.exits = kept, !.ready = ready,
                    !.selected = IF a.selected \in kept THEN a.selected ELSE FirstOf(kept)]
  BY DEF SetExits
<1> HIDE DEF kept
<1> QED
  BY <1>1, <1>2, <1>3 DEF Apps

-----------------------------------------------------------------------------
(***************************************************************************)
(* What a step of one task leaves of the invariant.                        *)
(***************************************************************************)
\* Only t goes on, and awaits a call that was just made, if any.
OnlyMoves(t) ==
    /\ TaskTypes'
    /\ \A u \in Tasks \ {t} : pc'[u] = pc[u] /\ local'[u] = local[u] /\ call'[u] = call[u]
    /\ pc'[t] # "idle" => ~call'[t].answered /\ call'[t].made.kind = Kind(pc'[t])
    /\ local'[t] = NoLocal \/ pc'[t] # "idle"

\* Nothing but the task, the app's fields and its debts change.
KeepsWorld ==
    /\ UNCHANGED <<world, offered, revoked, strays, count>>
    /\ app' \in Apps /\ app'.gen = app.gen /\ owed' \in BOOLEAN

LEMMA AwaitOnly ==
    ASSUME TaskTypes, NEW t \in Tasks, NEW at \in Steps, NEW exit \in Exits \cup {None},
           NEW l \in Locals, Await(t, at, exit, l)
    PROVE  /\ OnlyMoves(t) /\ pc'[t] = at /\ local'[t] = l /\ call'[t].made.exit = exit
           /\ ~call'[t].answered
<1>1. at # "idle"
  BY DEF Steps
<1> QED
  BY <1>1, AwaitMoves DEF OnlyMoves

LEMMA ReturnOnly ==
    ASSUME TaskTypes, NEW t \in Tasks, Return(t)
    PROVE  OnlyMoves(t) /\ pc'[t] = "idle" /\ local'[t] = NoLocal
<1> QED
  BY ReturnMoves DEF OnlyMoves

LEMMA WorldKept ==
    ASSUME IInv, KeepsWorld, TaskTypes', session' \in {session, "none"},
           stopped' \in 0..MaxAsks + 1
    PROVE  TypeOK' /\ (Calm' <=> Calm) /\ (Rejects' <=> Rejects) /\ strays' = strays
<1>1. WorldTypes' /\ CoreTypes' /\ PastTypes' /\ app' \in Apps
  BY TypeParts DEF IInv, KeepsWorld, world, WorldTypes, CoreTypes, PastTypes
<1> QED
  BY <1>1, TypePartsNext DEF KeepsWorld, Calm, Rejects

LEMMA NoLocalOld ==
    ASSUME IInv
    PROVE  NoLocal.gen = 0 /\ NoLocal.kind = "none" /\ app.gen \in Nat /\ 0 <= app.gen
<1>1. app.gen \in 0..MaxAsks + 1
  BY TypeParts DEF IInv, Apps
<1> QED
  BY <1>1, BoundsAssumption DEF NoLocal

\* restore, load and refresh decide nothing that the tunnel depends on.
LEMMA ReaderGoesOn ==
    ASSUME IInv, NEW t \in {"restore", "load", "refresh"}, OnlyMoves(t), TypeOK',
           Calm' <=> Calm, Rejects => Rejects', UNCHANGED <<tunnel, strays, stopped>>,
           app'.gen = app.gen, local'[t].gen <= app.gen, local'[t].kind = "lost" => Rejects,
           \/ t = "restore" /\ pc'[t] \in {"idle", "selection"}
           \/ t = "load" /\ pc'[t] \in {"idle", "exits", "status"}
           \/ t = "refresh" /\ pc'[t] \in {"idle", "status", "exits"}
    PROVE  IInv'
<1>1. /\ t \in Tasks /\ t # "connect" /\ t \notin Slots /\ "connect" \in Tasks
      /\ \A s \in Slots : s \in Tasks /\ s # t
  BY TasksApart
<1>a. /\ pc'["connect"] = pc["connect"] /\ local'["connect"] = local["connect"]
      /\ call'["connect"] = call["connect"]
      /\ \A s \in Slots : pc'[s] = pc[s] /\ local'[s] = local[s] /\ call'[s] = call[s]
  <2>1. "connect" \in Tasks \ {t} /\ \A s \in Slots : s \in Tasks \ {t}
    BY <1>1
  <2>2. \A u \in Tasks \ {t} : pc'[u] = pc[u] /\ local'[u] = local[u] /\ call'[u] = call[u]
    BY DEF OnlyMoves
  <2> QED
    BY <2>1, <2>2
<1>3. Awaits'
  BY <1>1, TasksApart DEF IInv, Awaits, OnlyMoves, Idle
<1>4. OnExit'
  BY <1>a DEF IInv, OnExit, Idle
<1>5. LostIsRejected'
  BY <1>1 DEF IInv, LostIsRejected, OnlyMoves
<1>6. Generations'
  <2>1. stopped' <= app'.gen
    BY DEF IInv, Generations
  <2>2. \A u \in Tasks : local'[u].gen <= app'.gen
    BY <1>1 DEF IInv, Generations, OnlyMoves
  <2>3. ASSUME pc'["connect"] # "idle"
        PROVE  /\ local'["connect"].gen # stopped'
               /\ \A s \in Slots : pc'[s] # "idle" => local'[s].gen # local'["connect"].gen
    BY <1>a, <2>3 DEF IInv, Generations, Idle
  <2> QED
    BY <2>1, <2>2, <2>3 DEF Generations, Idle
<1>7. Reliable'
  BY <1>1 DEF IInv, Reliable, OnlyMoves, Idle, Ok
<1>8. GoesDown' <=> GoesDown
  BY <1>a DEF GoesDown, Superseding, Current
<1>9. LatestDisconnect'
  BY <1>a, <1>8 DEF IInv, LatestDisconnect, Current, Idle, Up
<1> QED
  BY <1>3, <1>4, <1>5, <1>6, <1>7, <1>9 DEF IInv

LEMMA ReaderMoves ==
    ASSUME IInv, NEW t \in {"restore", "load", "refresh"}, OnlyMoves(t), KeepsWorld,
           UNCHANGED <<session, stopped>>,
           local'[t].gen <= app.gen, local'[t].kind = "lost" => Rejects,
           \/ t = "restore" /\ pc'[t] \in {"idle", "selection"}
           \/ t = "load" /\ pc'[t] \in {"idle", "exits", "status"}
           \/ t = "refresh" /\ pc'[t] \in {"idle", "status", "exits"}
    PROVE  IInv'
<1>1. stopped' \in 0..MaxAsks + 1
  BY TypeParts DEF IInv, PastTypes
<1>2. TypeOK' /\ (Calm' <=> Calm) /\ (Rejects' <=> Rejects)
  BY <1>1, WorldKept DEF OnlyMoves
<1>3. UNCHANGED <<tunnel, strays, stopped>> /\ app'.gen = app.gen
  BY DEF KeepsWorld, world
<1> QED
  BY <1>2, <1>3, ReaderGoesOn

\* connect goes on; one that was superseded while the tunnel came up takes it down.
LEMMA ConnectMoves ==
    ASSUME IInv, ~Idle("connect"), OnlyMoves("connect"), KeepsWorld,
           UNCHANGED <<session, stopped>>,
           pc'["connect"] \in {"idle", "install", "key", "register", "select", "connect",
                               "cancelled", "check", "failed", "remove"},
           pc'["connect"] # "idle" =>
               /\ local'["connect"].gen = local["connect"].gen
               /\ local'["connect"].exit \in Exits
               /\ local'["connect"].kind = local["connect"].kind,
           pc'["connect"] \in {"register", "select", "connect"} =>
               call'["connect"].made.exit \in Exits,
           Calm /\ Superseding => pc'["connect"] = "cancelled"
    PROVE  IInv'
<1>1. \A s \in Slots : s \in Tasks /\ s # "connect"
  BY TasksApart
<1>2. TypeOK' /\ (Calm' <=> Calm) /\ (Rejects' <=> Rejects) /\ strays' = strays
  <2>1. stopped' \in 0..MaxAsks + 1
    BY TypeParts DEF IInv, PastTypes
  <2> QED
    BY <2>1, WorldKept DEF OnlyMoves
<1>3. Awaits'
  BY <1>1, TasksApart DEF IInv, Awaits, OnlyMoves, Idle
<1>4. OnExit'
  BY DEF IInv, OnExit, OnlyMoves, Idle
<1>5. LostIsRejected'
  BY <1>2, NoLocalOld, TasksApart DEF IInv, LostIsRejected, OnlyMoves, KeepsWorld
<1>6. Generations'
  <2>1. stopped' <= app'.gen
    BY DEF IInv, Generations, KeepsWorld
  <2>2. local'["connect"].gen <= app'.gen
    BY NoLocalOld, TasksApart DEF IInv, Generations, KeepsWorld, OnlyMoves
  <2>3. \A t \in Tasks : local'[t].gen <= app'.gen
    BY <2>2 DEF IInv, Generations, KeepsWorld, OnlyMoves
  <2>4. ASSUME pc'["connect"] # "idle"
        PROVE  /\ local'["connect"].gen # stopped'
               /\ \A s \in Slots : pc'[s] # "idle" => local'[s].gen # local'["connect"].gen
    BY <1>1, <2>4 DEF IInv, Generations, OnlyMoves, Idle
  <2> QED
    BY <2>1, <2>3, <2>4 DEF Generations, Idle
<1>7. Reliable'
  BY <1>1, <1>2 DEF IInv, Reliable, OnlyMoves, Idle, Ok
<1>8. ASSUME Calm, GoesDown PROVE GoesDown'
  BY <1>8 DEF GoesDown, Superseding, OnlyMoves, KeepsWorld, world
<1>9. LatestDisconnect'
  <2> SUFFICES ASSUME Calm
               PROVE  /\ stopped' > 0 /\ stopped' = app'.gen => GoesDown'
                      /\ \A s \in Slots : local'[s].gen = app'.gen =>
                            /\ pc'[s] = "status" => Idle("connect")'
                            /\ pc'[s] = "status" /\ call'[s].answered /\ ~(call'[s].exit # None)
                                  => tunnel' = None
                            /\ pc'[s] = "disconnect" /\ call'[s].answered => GoesDown'
                            /\ pc'[s] = "remove" => GoesDown'
    BY <1>2 DEF LatestDisconnect, Current, Up
  <2>1. stopped' > 0 /\ stopped' = app'.gen => GoesDown'
    BY <1>8 DEF IInv, LatestDisconnect, KeepsWorld
  <2>2. ASSUME NEW s \in Slots, local'[s].gen = app'.gen
        PROVE  /\ pc'[s] = "status" => Idle("connect")'
               /\ pc'[s] = "status" /\ call'[s].answered /\ ~(call'[s].exit # None) => tunnel' = None
               /\ pc'[s] = "disconnect" /\ call'[s].answered => GoesDown'
               /\ pc'[s] = "remove" => GoesDown'
    <3>1. Current(s) /\ pc'[s] = pc[s] /\ call'[s] = call[s] /\ tunnel' = tunnel
      BY <1>1, <2>2 DEF OnlyMoves, KeepsWorld, Current, world
    <3>2. /\ pc[s] = "status" => Idle("connect")
          /\ pc[s] = "disconnect" /\ call[s].answered => GoesDown
          /\ pc[s] = "remove" => GoesDown
      BY <3>1 DEF IInv, LatestDisconnect
    <3>3. pc[s] # "status"
      BY <3>2
    <3> QED
      BY <1>8, <3>1, <3>2, <3>3
  <2> QED
    BY <2>1, <2>2
<1> QED
  BY <1>2, <1>3, <1>4, <1>5, <1>6, <1>7, <1>9 DEF IInv

\* disconnect goes on, or returns; once the latest has, the tunnel is down.
LEMMA SlotMoves ==
    ASSUME IInv, NEW s \in Slots, ~Idle(s), OnlyMoves(s), KeepsWorld,
           session' \in {session, "none"}, stopped' \in {stopped, local[s].gen},
           stopped' >= stopped,
           pc'[s] \in {"idle", "disconnect", "remove"},
           pc'[s] # "idle" => local'[s] = local[s],
           Calm /\ Current(s) /\ (stopped' # stopped \/ pc'[s] = "remove") => GoesDown
    PROVE  IInv'
<1>1. s \in Tasks /\ s # "connect" /\ "connect" \in Tasks /\ \A u \in Slots : u \in Tasks /\ u # "connect"
  BY TasksApart
<1>2. stopped' \in 0..MaxAsks + 1
  BY <1>1, TypeParts DEF IInv, PastTypes, TaskTypes, Locals
<1>3. TypeOK' /\ (Calm' <=> Calm) /\ (Rejects' <=> Rejects) /\ strays' = strays
  BY <1>2, WorldKept DEF OnlyMoves
<1>4. Awaits'
  BY <1>1, TasksApart DEF IInv, Awaits, OnlyMoves, Idle
<1>5. OnExit'
  BY <1>1 DEF IInv, OnExit, OnlyMoves, Idle
<1>6. LostIsRejected'
  BY <1>1, <1>3, NoLocalOld DEF IInv, LostIsRejected, OnlyMoves, KeepsWorld
<1>7. Generations'
  <2>1. stopped' <= app'.gen
    BY <1>1 DEF IInv, Generations, KeepsWorld
  <2>2. local'[s].gen <= app'.gen
    BY <1>1, NoLocalOld DEF IInv, Generations, KeepsWorld, OnlyMoves
  <2>3. \A t \in Tasks : local'[t].gen <= app'.gen
    BY <2>2 DEF IInv, Generations, KeepsWorld, OnlyMoves
  <2>4. ASSUME pc'["connect"] # "idle"
        PROVE  /\ local'["connect"].gen # stopped'
               /\ \A u \in Slots : pc'[u] # "idle" => local'[u].gen # local'["connect"].gen
    BY <1>1, <2>4 DEF IInv, Generations, OnlyMoves, Idle
  <2> QED
    BY <2>1, <2>3, <2>4 DEF Generations, Idle
<1>8. Reliable'
  BY <1>1, <1>3 DEF IInv, Reliable, OnlyMoves, Idle, Ok
<1>9. GoesDown' <=> GoesDown
  BY <1>1 DEF GoesDown, Superseding, OnlyMoves, KeepsWorld, Current, world
<1>10. LatestDisconnect'
  <2> SUFFICES ASSUME Calm
               PROVE  /\ stopped' > 0 /\ stopped' = app'.gen => GoesDown
                      /\ \A u \in Slots : local'[u].gen = app'.gen =>
                            /\ pc'[u] = "status" => Idle("connect")'
                            /\ pc'[u] = "status" /\ call'[u].answered /\ ~(call'[u].exit # None)
                                  => tunnel' = None
                            /\ pc'[u] = "disconnect" /\ call'[u].answered => GoesDown
                            /\ pc'[u] = "remove" => GoesDown
    BY <1>3, <1>9 DEF LatestDisconnect, Current, Up
  <2>1. stopped' > 0 /\ stopped' = app'.gen => GoesDown
    BY DEF IInv, LatestDisconnect, KeepsWorld, Current
  <2>2. ASSUME NEW u \in Slots, u # s, local'[u].gen = app'.gen
        PROVE  /\ pc'[u] = "status" => Idle("connect")'
               /\ pc'[u] = "status" /\ call'[u].answered /\ ~(call'[u].exit # None) => tunnel' = None
               /\ pc'[u] = "disconnect" /\ call'[u].answered => GoesDown
               /\ pc'[u] = "remove" => GoesDown
    <3>1. Current(u) /\ pc'[u] = pc[u] /\ call'[u] = call[u] /\ tunnel' = tunnel
          /\ (Idle("connect")' <=> Idle("connect"))
      BY <1>1, <2>2 DEF OnlyMoves, KeepsWorld, Current, world, Idle
    <3> QED
      BY <3>1 DEF IInv, LatestDisconnect, Up
  <2>3. ASSUME local'[s].gen = app'.gen
        PROVE  /\ pc'[s] # "status"
               /\ pc'[s] = "disconnect" => ~call'[s].answered
               /\ pc'[s] = "remove" => GoesDown
    BY <2>3 DEF OnlyMoves, KeepsWorld, Current
  <2> QED
    BY <2>1, <2>2, <2>3
<1> QED
  BY <1>3, <1>4, <1>5, <1>6, <1>7, <1>8, <1>10 DEF IInv

-----------------------------------------------------------------------------
(***************************************************************************)
(* Calls that are served, or fail.                                         *)
(***************************************************************************)
\* Only the call of t is answered.
AnswersOnly(t) ==
    /\ TaskTypes' /\ UNCHANGED <<core, app, pc, local, stopped>>
    /\ \A u \in Tasks : call'[u].made = call[u].made
    /\ \A u \in Tasks \ {t} : call'[u] = call[u]

LEMMA AnswerTypes ==
    ASSUME IInv, NEW t \in Tasks, NEW ok \in BOOLEAN, NEW exit \in Exits \cup {None},
           NEW found \in SUBSET Exits, Answer(t, ok, exit, found),
           UNCHANGED <<core, app, pc, local, stopped>>
    PROVE  /\ AnswersOnly(t)
           /\ call'[t].answered /\ call'[t].ok = ok /\ call'[t].exit = exit
<1>1. TaskTypes /\ call[t] \in Calls
  BY TypeParts DEF IInv, TaskTypes
<1> DEFINE c == [call[t] EXCEPT !.answered = TRUE, !.ok = ok, !.exit = exit, !.found = found]
<1>2. call' = [call EXCEPT ![t] = c]
  BY DEF Answer
<1>3. c \in Calls /\ c.made = call[t].made /\ c.answered /\ c.ok = ok /\ c.exit = exit
  BY <1>1 DEF Calls
<1> HIDE DEF c
<1>4. TaskTypes'
  BY <1>1, <1>2, <1>3 DEF TaskTypes
<1>5. call'[t] = c /\ \A u \in Tasks \ {t} : call'[u] = call[u]
  BY <1>1, <1>2 DEF TaskTypes
<1> QED
  BY <1>3, <1>4, <1>5 DEF AnswersOnly

LEMMA AnswerKeeps ==
    ASSUME IInv, NEW t \in Tasks, AnswersOnly(t), Rejects => Rejects'
    PROVE  Awaits' /\ OnExit' /\ LostIsRejected' /\ Generations'
<1>1. "connect" \in Tasks /\ UNCHANGED <<pc, local, app, stopped, revoked, session>>
  BY TasksApart DEF AnswersOnly, core
<1>2. Awaits'
  BY <1>1 DEF IInv, Awaits, AnswersOnly, Idle
<1>3. OnExit'
  BY <1>1 DEF IInv, OnExit, AnswersOnly, Idle
<1>4. LostIsRejected'
  BY <1>1 DEF IInv, LostIsRejected
<1>5. Generations'
  BY <1>1 DEF IInv, Generations, Idle
<1> QED
  BY <1>2, <1>3, <1>4, <1>5

\* Once a call failed or the app ended, nothing more is promised of the tunnel.
LEMMA CalmOver ==
    ASSUME IInv, NEW n \in Nat,
           \/ count' = [count EXCEPT !.faults = n + 1]
           \/ count' = [count EXCEPT !.restarts = n + 1]
    PROVE  ~Calm'
<1>1. count \in [faults : 0..MaxEvents, signIns : 0..MaxSignIns, restarts : 0..MaxEvents,
                 turns : 0..MaxEvents, lapses : 0..MaxEvents]
  BY TypeParts DEF IInv, PastTypes
<1>2. count.faults \in Nat /\ count.restarts \in Nat
  BY <1>1, BoundsAssumption
<1>3. \/ count'.faults = n + 1 /\ count'.restarts = count.restarts
      \/ count'.restarts = n + 1 /\ count'.faults = count.faults
  BY <1>1
<1> QED
  BY <1>2, <1>3 DEF Calm

LEMMA FaultCounts ==
    ASSUME IInv, Fault
    PROVE  ~Calm' /\ count'.lapses = count.lapses
           /\ count' \in [faults : 0..MaxEvents, signIns : 0..MaxSignIns,
                                 restarts : 0..MaxEvents, turns : 0..MaxEvents, lapses : 0..MaxEvents]
<1>1. count \in [faults : 0..MaxEvents, signIns : 0..MaxSignIns, restarts : 0..MaxEvents,
                 turns : 0..MaxEvents, lapses : 0..MaxEvents]
  BY TypeParts DEF IInv, PastTypes
<1>2. count.faults \in Nat /\ count.restarts \in Nat /\ count.turns \in Nat
      /\ count.lapses \in Nat
  BY <1>1, BoundsAssumption
<1>3. count.faults + count.restarts + count.turns + count.lapses < MaxEvents
      /\ count' = [count EXCEPT !.faults = count.faults + 1]
  BY DEF Fault, MayHappen
<1>4. count.faults + 1 \in 0..MaxEvents
  BY <1>2, <1>3, BoundsAssumption
<1>5. ~Calm'
  BY <1>2, <1>3, CalmOver
<1> QED
  BY <1>1, <1>3, <1>4, <1>5

LEMMA TurnCounts ==
    ASSUME IInv, Turn
    PROVE  /\ Calm' <=> Calm
           /\ count'.lapses = count.lapses
           /\ count' \in [faults : 0..MaxEvents, signIns : 0..MaxSignIns,
                          restarts : 0..MaxEvents, turns : 0..MaxEvents, lapses : 0..MaxEvents]
<1>1. count \in [faults : 0..MaxEvents, signIns : 0..MaxSignIns, restarts : 0..MaxEvents,
                 turns : 0..MaxEvents, lapses : 0..MaxEvents]
  BY TypeParts DEF IInv, PastTypes
<1>2. count.faults \in Nat /\ count.restarts \in Nat /\ count.turns \in Nat
      /\ count.lapses \in Nat
  BY <1>1, BoundsAssumption
<1>3. count.faults + count.restarts + count.turns + count.lapses < MaxEvents
      /\ count' = [count EXCEPT !.turns = count.turns + 1]
  BY DEF Turn, MayHappen
<1>4. count.turns + 1 \in 0..MaxEvents
  BY <1>2, <1>3, BoundsAssumption
<1> QED
  BY <1>1, <1>3, <1>4 DEF Calm

LEMMA LapseCounts ==
    ASSUME IInv, Lapse
    PROVE  /\ Calm' <=> Calm
           /\ count'.lapses > 0
           /\ count' \in [faults : 0..MaxEvents, signIns : 0..MaxSignIns,
                          restarts : 0..MaxEvents, turns : 0..MaxEvents, lapses : 0..MaxEvents]
<1>1. count \in [faults : 0..MaxEvents, signIns : 0..MaxSignIns, restarts : 0..MaxEvents,
                 turns : 0..MaxEvents, lapses : 0..MaxEvents]
  BY TypeParts DEF IInv, PastTypes
<1>2. count.faults \in Nat /\ count.restarts \in Nat /\ count.turns \in Nat
      /\ count.lapses \in Nat
  BY <1>1, BoundsAssumption
<1>3. count.faults + count.restarts + count.turns + count.lapses < MaxEvents
      /\ count' = [count EXCEPT !.lapses = count.lapses + 1]
  BY DEF Lapse, MayHappen
<1>4. count.lapses + 1 \in 0..MaxEvents
  BY <1>2, <1>3, BoundsAssumption
<1> QED
  BY <1>1, <1>2, <1>3, <1>4 DEF Calm

LEMMA FailedCall ==
    ASSUME IInv, NEW t \in Tasks, Fail(t) \/ SaysInactive(t) \/ Abandon(t)
    PROVE  IInv'
<1>1. PICK ok \in BOOLEAN : Answer(t, ok, None, {})
  BY DEF Fail, SaysInactive, Abandon
<1>2. Fault
  <2>1. MayFail(t)
    BY DEF Fail, SaysInactive, Abandon
  <2> QED
    BY <2>1 DEF MayFail
<1>3. UNCHANGED <<world, core, app, pc, local, past>>
  BY DEF Fail, SaysInactive, Abandon
<1>4. AnswersOnly(t)
  BY <1>1, <1>3, AnswerTypes DEF past
<1>5. Awaits' /\ OnExit' /\ LostIsRejected' /\ Generations'
  BY <1>2, <1>3, <1>4, AnswerKeeps, FaultCounts DEF Rejects, core
<1>6. strays' \subseteq Requests
  <2>1. strays \subseteq Requests /\ call[t] \in Calls
    BY TypeParts DEF IInv, TaskTypes, PastTypes
  <2>2. strays' = strays \/ strays' = strays \cup {call[t].made}
    BY DEF Fail, SaysInactive, Abandon
  <2> QED
    BY <2>1, <2>2 DEF Calls
<1>7. TypeOK'
  <2>1. TaskTypes'
    BY <1>4 DEF AnswersOnly
  <2>2. WorldTypes' /\ CoreTypes' /\ app' \in Apps
    BY <1>3, TypeParts DEF IInv, WorldTypes, CoreTypes, world, core
  <2>3. PastTypes'
    BY <1>2, <1>3, <1>6, FaultCounts, TypeParts DEF IInv, PastTypes, past
  <2> QED
    BY <2>1, <2>2, <2>3, TypePartsNext
<1>8. Reliable' /\ LatestDisconnect'
  BY <1>2, FaultCounts DEF Reliable, LatestDisconnect
<1> QED
  BY <1>5, <1>7, <1>8 DEF IInv

LEMMA EffectTypes ==
    ASSUME IInv, NEW r \in Requests, Effect(r)
    PROVE  WorldTypes' /\ (tunnel' = tunnel \/ tunnel' = None \/ r.kind = "connect")
<1>1. r.exit \in Exits \cup {None}
  BY DEF Requests
<1>2. tunnel \in Exits \cup {None} /\ installed \in BOOLEAN /\ saved \in Exits \cup {None}
      /\ peer \in Exits \cup {None}
  BY TypeParts DEF IInv, WorldTypes
<1>3. tunnel' \in Exits \cup {None} /\ (tunnel' = tunnel \/ tunnel' = None \/ r.kind = "connect")
  BY <1>1, <1>2 DEF Effect
<1>4. installed' \in BOOLEAN
  BY <1>2 DEF Effect
<1>5. saved' \in Exits \cup {None}
  BY <1>1, <1>2 DEF Effect
<1>6. peer' \in Exits \cup {None}
  BY <1>1, <1>2 DEF Effect
<1> QED
  BY <1>3, <1>4, <1>5, <1>6 DEF WorldTypes

\* The call of a session that ended at the core is answered, and changes nothing there.
LEMMA UnauthorizedCall ==
    ASSUME IInv, NEW t \in Tasks, Unauthorized(t)
    PROVE  IInv'
<1>1. /\ ~Idle(t) /\ call[t].made.kind \in {"exits", "register", "remove"}
      /\ Answer(t, FALSE, None, {}) /\ owed' \in BOOLEAN
      /\ UNCHANGED <<world, core, app, pc, local, strays, stopped, count>>
  BY TypeParts DEF IInv, PastTypes, Unauthorized
<1>2. AnswersOnly(t)
  <2>1. PICK ok \in BOOLEAN : Answer(t, ok, None, {})
    BY <1>1
  <2> QED
    BY <1>1, <2>1, AnswerTypes
<1>3. Awaits' /\ OnExit' /\ LostIsRejected' /\ Generations'
  BY <1>1, <1>2, AnswerKeeps DEF Rejects, core
<1>4. TypeOK'
  <2>1. WorldTypes' /\ CoreTypes' /\ PastTypes' /\ app' \in Apps
    BY <1>1, TypeParts DEF IInv, WorldTypes, CoreTypes, PastTypes, world, core
  <2> QED
    BY <1>2, <2>1, TypePartsNext DEF AnswersOnly
<1>5. /\ \A u \in Tasks \ {t} : call'[u] = call[u]
      /\ call'[t].made = call[t].made
      /\ pc[t] \notin {"status", "disconnect", "cancelled"}
      /\ \A s \in Slots : s \in Tasks
      /\ "connect" \in Tasks
  BY <1>1, <1>2, TasksApart DEF AnswersOnly, IInv, Awaits, Kind
<1>6. Reliable'
  <2>1. \A u \in Tasks \ {t} : ~Idle(u) /\ call'[u].answered
            /\ call'[u].made.kind \in {"connect", "disconnect"} /\ Calm => call'[u].ok
    BY <1>5 DEF IInv, Reliable, Ok
  <2>2. ~(call'[t].made.kind \in {"connect", "disconnect"})
    BY <1>1, <1>5
  <2> QED
    BY <1>1, <2>1, <2>2 DEF IInv, Reliable, Calm, Idle, Ok
<1>7. GoesDown => GoesDown'
  BY <1>1, <1>5 DEF GoesDown, Superseding, Current, world
<1>8. LatestDisconnect'
  <2>1. tunnel' = tunnel /\ (Calm' <=> Calm) /\ UNCHANGED <<app, pc, local, stopped>>
    BY <1>1 DEF world, Calm
  <2>2. ASSUME NEW s \in Slots, Calm, Current(s)
        PROVE  /\ pc[s] = "status" => Idle("connect")
               /\ pc[s] = "status" /\ call'[s].answered /\ ~(call'[s].exit # None)
                     => tunnel = None
               /\ pc[s] = "disconnect" /\ call'[s].answered => GoesDown
               /\ pc[s] = "remove" => GoesDown
    BY <1>5, <2>2 DEF IInv, LatestDisconnect, Up
  <2> QED
    BY <1>7, <2>1, <2>2 DEF IInv, LatestDisconnect, Current, Idle, Up
<1> QED
  BY <1>3, <1>4, <1>6, <1>8 DEF IInv

\* A call that nobody awaits any more is served only after a failure or a restart.
LEMMA StrayServed ==
    ASSUME IInv, ServeStray
    PROVE  IInv'
<1>1. PICK r \in strays : Effect(r) /\ strays' = strays \ {r}
                          /\ UNCHANGED <<core, app, pc, call, local, past, count>>
  BY DEF ServeStray
<1>2. r \in Requests /\ TypeOK
  BY TypeParts DEF IInv, PastTypes
<1>3. TypeOK'
  <2>1. WorldTypes'
    BY <1>1, <1>2, EffectTypes
  <2>2. CoreTypes' /\ TaskTypes' /\ PastTypes' /\ app' \in Apps
    BY <1>1, <1>2, TypeParts DEF CoreTypes, TaskTypes, PastTypes, core, past
  <2> QED
    BY <2>1, <2>2, TypePartsNext
<1>4. ~Calm' /\ UNCHANGED <<app, pc, call, local, stopped, revoked, session>>
  BY <1>1 DEF IInv, Reliable, Calm, core, past
<1>5. Awaits' /\ OnExit'
  BY <1>4 DEF IInv, Awaits, OnExit, Idle
<1>6. LostIsRejected' /\ Generations'
  BY <1>1, <1>4 DEF IInv, LostIsRejected, Rejects, Generations, Idle
<1>7. Reliable' /\ LatestDisconnect'
  BY <1>4 DEF Reliable, LatestDisconnect
<1> QED
  BY <1>3, <1>5, <1>6, <1>7 DEF IInv

\* Only connect, awaiting its tunnel, has the helper bring one up.
LEMMA WhoConnects ==
    ASSUME IInv, NEW t \in Tasks, ~Idle(t), call[t].made.kind = "connect"
    PROVE  t = "connect" /\ pc["connect"] = "connect"
<1>1. Kind(pc[t]) = "connect"
  BY DEF IInv, Awaits
<1>2. pc[t] = "connect"
  BY <1>1 DEF Kind
<1>3. pc["restore"] # "connect" /\ pc["load"] # "connect" /\ pc["refresh"] # "connect"
      /\ \A s \in Slots : pc[s] # "connect"
  BY DEF IInv, Awaits
<1> QED
  BY <1>2, <1>3 DEF Tasks

LEMMA Served ==
    ASSUME IInv, NEW t \in Tasks, Serve(t)
    PROVE  IInv'
<1> DEFINE r == call[t].made
           ok == ~Refused(r)
           exit == CASE r.kind = "status" -> tunnel [] r.kind = "selection" -> saved
                     [] OTHER -> None
           found == IF r.kind = "exits" /\ ~revoked THEN offered ELSE {}
<1>1. /\ ~Idle(t) /\ ~call[t].answered /\ Effect(r) /\ Answer(t, ok, exit, found)
      /\ UNCHANGED <<core, app, pc, local, strays, past, count>>
  BY DEF Serve
<1>2. r \in Requests /\ ok \in BOOLEAN /\ exit \in Exits \cup {None} /\ found \in SUBSET Exits
  <2>1. call[t] \in Calls
    BY TypeParts DEF IInv, TaskTypes
  <2>2. tunnel \in Exits \cup {None} /\ saved \in Exits \cup {None} /\ offered \in SUBSET Exits
    BY TypeParts DEF IInv, WorldTypes, CoreTypes
  <2>3. ok \in BOOLEAN
    BY DEF Refused
  <2> QED
    BY <2>1, <2>2, <2>3 DEF Calls
<1>3. r.kind = "status" => exit = tunnel
  OBVIOUS
<1>4. r.kind \in {"connect", "disconnect"} => ok
  BY DEF Refused
<1> HIDE DEF ok, exit, found
<1>5. AnswersOnly(t) /\ call'[t].answered /\ call'[t].ok = ok /\ call'[t].exit = exit
  BY <1>1, <1>2, AnswerTypes DEF past
<1>6. Awaits' /\ OnExit' /\ LostIsRejected' /\ Generations'
  BY <1>1, <1>5, AnswerKeeps DEF Rejects, core
<1>7. WorldTypes' /\ (tunnel' = tunnel \/ tunnel' = None \/ r.kind = "connect")
  BY <1>1, <1>2, EffectTypes
<1>8. TypeOK'
  <2>1. CoreTypes' /\ PastTypes' /\ app' \in Apps
    BY <1>1, TypeParts DEF IInv, CoreTypes, PastTypes, core, past
  <2> QED
    BY <1>5, <1>7, <2>1, TypePartsNext DEF AnswersOnly
<1>9. /\ Calm' <=> Calm
      /\ UNCHANGED <<app, pc, local, strays, stopped>>
      /\ \A u \in Tasks \ {t} : call'[u] = call[u]
      /\ "connect" \in Tasks /\ \A s \in Slots : s \in Tasks /\ s # "connect"
  BY <1>1, <1>5, TasksApart DEF Calm, AnswersOnly, past
<1>10. Reliable'
  <2> SUFFICES ASSUME Calm
               PROVE  /\ strays' = {}
                      /\ \A u \in Tasks : pc'[u] # "idle" /\ call'[u].answered
                            /\ call'[u].made.kind \in {"connect", "disconnect"} => call'[u].ok
    BY <1>9 DEF Reliable, Idle, Ok
  <2>1. strays' = {}
    BY <1>9 DEF IInv, Reliable
  <2>2. \A u \in Tasks \ {t} : pc'[u] # "idle" /\ call'[u].answered
            /\ call'[u].made.kind \in {"connect", "disconnect"} => call'[u].ok
    BY <1>9 DEF IInv, Reliable, Idle, Ok
  <2>3. call'[t].made.kind \in {"connect", "disconnect"} => call'[t].ok
    BY <1>4, <1>5 DEF AnswersOnly
  <2> QED
    BY <2>1, <2>2, <2>3
<1>11. LatestDisconnect'
  <2> SUFFICES ASSUME Calm
               PROVE  /\ stopped > 0 /\ stopped = app.gen => GoesDown'
                      /\ \A s \in Slots : Current(s) =>
                            /\ pc[s] = "status" => Idle("connect")
                            /\ pc[s] = "status" /\ call'[s].answered /\ ~(call'[s].exit # None)
                                  => tunnel' = None
                            /\ pc[s] = "disconnect" /\ call'[s].answered => GoesDown'
                            /\ pc[s] = "remove" => GoesDown'
    BY <1>9 DEF LatestDisconnect, Current, Up, Idle
  <2>1. Superseding =>
            tunnel' = None \/ Superseding'
    <3>1. CASE pc["connect"] = "connect" /\ ~Current("connect")
      BY <1>9, <3>1 DEF Superseding, Current
    <3>2. CASE pc["connect"] = "cancelled" /\ ~call["connect"].answered /\ t # "connect"
      BY <1>9, <3>2 DEF Superseding
    <3>3. CASE pc["connect"] = "cancelled" /\ t = "connect"
      <4>1. r.kind = "disconnect"
        BY <1>1, <1>9, <3>3 DEF IInv, Awaits, Kind
      <4> QED
        BY <1>1, <4>1 DEF Effect
    <3> QED
      BY <3>1, <3>2, <3>3 DEF Superseding
  <2>2. CASE r.kind = "connect"
    <3>1. t = "connect" /\ pc["connect"] = "connect"
      BY <1>1, <2>2, WhoConnects
    <3>2. stopped = app.gen => Superseding
      BY <3>1 DEF IInv, Generations, Idle, Superseding, Current
    <3>3. \A s \in Slots : Current(s) /\ pc[s] # "idle" => Superseding
      BY <3>1 DEF IInv, Generations, Idle, Superseding, Current
    <3>4. \A s \in Slots : Current(s) => pc[s] # "status"
      BY <3>1 DEF IInv, LatestDisconnect, Idle
    <3> QED
      BY <2>1, <3>2, <3>3, <3>4 DEF GoesDown
  <2>3. CASE r.kind # "connect"
    <3>1. tunnel' = tunnel \/ tunnel' = None
      BY <1>7, <2>3
    <3>2. GoesDown => GoesDown'
      BY <2>1, <3>1 DEF GoesDown
    <3>3. \A s \in Slots : Current(s) =>
              /\ pc[s] = "status" => Idle("connect")
              /\ pc[s] = "remove" => GoesDown'
      BY <3>2 DEF IInv, LatestDisconnect
    <3>4. stopped > 0 /\ stopped = app.gen => GoesDown'
      BY <3>2 DEF IInv, LatestDisconnect
    <3>5. ASSUME NEW s \in Slots, Current(s), s # t
          PROVE  /\ pc[s] = "status" /\ call'[s].answered /\ ~(call'[s].exit # None)
                       => tunnel' = None
                 /\ pc[s] = "disconnect" /\ call'[s].answered => GoesDown'
      <4>1. call'[s] = call[s]
        BY <1>9, <3>5
      <4> QED
        BY <3>1, <3>2, <3>5, <4>1 DEF IInv, LatestDisconnect, Up
    <3>6. ASSUME t \in Slots, Current(t), pc[t] = "status", ~(call'[t].exit # None)
          PROVE  tunnel' = None
      <4>1. r.kind = "status"
        BY <1>1, <3>6 DEF IInv, Awaits, Kind
      <4>2. tunnel = None
        BY <1>3, <1>5, <3>6, <4>1
      <4> QED
        BY <3>1, <4>2
    <3>7. ASSUME t \in Slots, pc[t] = "disconnect"
          PROVE  GoesDown'
      <4>1. r.kind = "disconnect"
        BY <1>1, <3>7 DEF IInv, Awaits, Kind
      <4>2. tunnel' = None
        BY <1>1, <4>1 DEF Effect
      <4> QED
        BY <4>2 DEF GoesDown
    <3> QED
      BY <3>3, <3>4, <3>5, <3>6, <3>7
  <2> QED
    BY <2>2, <2>3
<1> QED
  BY <1>6, <1>8, <1>10, <1>11 DEF IInv

-----------------------------------------------------------------------------
(***************************************************************************)
(* The core, the link to it, and the end of the app.                       *)
(***************************************************************************)
\* Nothing that a task of the controller waits for changes.
LEMMA Aside ==
    ASSUME IInv, TypeOK', UNCHANGED <<pc, call, local, strays, stopped>>,
           app'.gen = app.gen, Rejects => Rejects', Calm' => Calm /\ tunnel' = tunnel
    PROVE  IInv'
<1>1. Awaits' /\ OnExit'
  BY DEF IInv, Awaits, OnExit, Idle
<1>2. LostIsRejected' /\ Generations'
  BY DEF IInv, LostIsRejected, Generations, Idle
<1>3. Reliable'
  BY DEF IInv, Reliable, Idle, Ok
<1>4. Calm' => (GoesDown => GoesDown')
  BY DEF GoesDown, Superseding, Current
<1>5. LatestDisconnect'
  BY <1>4 DEF IInv, LatestDisconnect, Current, Idle, Up
<1> QED
  BY <1>1, <1>2, <1>3, <1>5 DEF IInv

LEMMA LinkMoves ==
    ASSUME IInv, Reach \/ Expired \/ Revoke \/ HomeGone \/ StoppedOutside
    PROVE  IInv'
<1>1. UNCHANGED <<pc, call, local, strays, stopped>> /\ (revoked => revoked')
  BY DEF Reach, Expired, Revoke, HomeGone, StoppedOutside, past, core
<1>2. app' \in Apps /\ app'.gen = app.gen
  <2>1. app \in Apps
    BY TypeParts DEF IInv
  <2>2. CASE Expired
    BY <2>1, <2>2 DEF Expired, Apps
  <2> QED
    BY <2>1, <2>2 DEF Reach, Revoke, HomeGone, StoppedOutside
<1>4. /\ Calm' => Calm /\ tunnel' = tunnel
      /\ Rejects => Rejects'
      /\ count' \in [faults : 0..MaxEvents, signIns : 0..MaxSignIns, restarts : 0..MaxEvents,
                     turns : 0..MaxEvents, lapses : 0..MaxEvents]
  <2>1. CASE StoppedOutside
    <3>1. Fault
      BY <2>1 DEF StoppedOutside
    <3> QED
      BY <1>1, <3>1, FaultCounts DEF Rejects
  <2>2. CASE Turn \/ UNCHANGED count
    <3>1. Calm' <=> Calm
      BY <2>2, TurnCounts DEF Calm
    <3>2. tunnel' = tunnel \/ StoppedOutside
      BY DEF Reach, Expired, Revoke, HomeGone, world
    <3>3. PastTypes
      BY TypeParts DEF IInv
    <3>4. Rejects => Rejects'
      BY <1>1, <2>2, TurnCounts DEF Rejects
    <3> QED
      BY <2>1, <2>2, <3>1, <3>2, <3>3, <3>4, TurnCounts DEF PastTypes
  <2>3. Turn \/ UNCHANGED count \/ StoppedOutside
    BY DEF Reach, Expired, Revoke, HomeGone
  <2> QED
    BY <2>1, <2>2, <2>3
<1>5. TypeOK'
  <2>1. WorldTypes /\ CoreTypes /\ TaskTypes /\ PastTypes
    BY TypeParts DEF IInv
  <2>2. WorldTypes'
    BY <2>1 DEF WorldTypes, Reach, Expired, Revoke, HomeGone, StoppedOutside, world
  <2>3. CoreTypes'
    BY <2>1, ExitsAssumption
    DEF CoreTypes, Reach, Expired, Revoke, HomeGone, StoppedOutside, core
  <2>4. TaskTypes'
    BY <1>1, <2>1 DEF TaskTypes
  <2>5. owed' \in BOOLEAN
    BY <2>1 DEF PastTypes, Reach, Expired, Revoke, HomeGone, StoppedOutside, past
  <2>6. PastTypes'
    BY <1>1, <1>4, <2>1, <2>5 DEF PastTypes
  <2> QED
    BY <1>2, <2>2, <2>3, <2>4, <2>6, TypePartsNext
<1> QED
  BY <1>1, <1>2, <1>4, <1>5, Aside

LEMMA Restarted ==
    ASSUME IInv, Restart
    PROVE  IInv'
<1>1. /\ app' = Fresh /\ session' = "none" /\ stopped' = 0 /\ owed' = FALSE
      /\ pc' = [t \in Tasks |-> IF t = "restore" THEN "status" ELSE "idle"]
      /\ call' = [t \in Tasks |-> NoCall] /\ local' = [t \in Tasks |-> NoLocal]
      /\ UNCHANGED <<world, offered, revoked>>
  BY DEF Restart
<1>2. strays' \subseteq Requests
  <2>1. strays \subseteq Requests /\ \A t \in Tasks : call[t].made \in Requests
    BY TypeParts DEF IInv, TaskTypes, PastTypes, Calls
  <2> QED
    BY <2>1 DEF Restart
<1>3. ~Calm' /\ count' \in [faults : 0..MaxEvents, signIns : 0..MaxSignIns,
                            restarts : 0..MaxEvents, turns : 0..MaxEvents, lapses : 0..MaxEvents]
  <2>1. count \in [faults : 0..MaxEvents, signIns : 0..MaxSignIns, restarts : 0..MaxEvents,
                   turns : 0..MaxEvents, lapses : 0..MaxEvents]
    BY TypeParts DEF IInv, PastTypes
  <2>2. count.faults \in Nat /\ count.restarts \in Nat /\ count.turns \in Nat
      /\ count.lapses \in Nat
    BY <2>1, BoundsAssumption
  <2>3. count.faults + count.restarts + count.turns + count.lapses < MaxEvents
        /\ count' = [count EXCEPT !.restarts = count.restarts + 1]
    BY DEF Restart, MayHappen
  <2>4. count.restarts + 1 \in 0..MaxEvents
    BY <2>2, <2>3, BoundsAssumption
  <2> QED
    BY <2>1, <2>2, <2>3, <2>4, CalmOver
<1>4. TypeOK'
  <2>1. WorldTypes /\ CoreTypes
    BY TypeParts DEF IInv
  <2>2. WorldTypes' /\ CoreTypes'
    BY <1>1, <2>1 DEF WorldTypes, CoreTypes, world
  <2>3. TaskTypes'
    BY <1>1, NoneTypes DEF TaskTypes, Steps
  <2>4. PastTypes'
    BY <1>1, <1>2, <1>3, ZeroType DEF PastTypes
  <2>5. app' \in Apps
    BY <1>1, ZeroType DEF Apps, Fresh
  <2> QED
    BY <2>2, <2>3, <2>4, <2>5, TypePartsNext
<1>5. \A t \in Tasks : pc'[t] = (IF t = "restore" THEN "status" ELSE "idle")
                       /\ call'[t] = NoCall /\ local'[t] = NoLocal
  BY <1>1
<1>6. Awaits'
  BY <1>5, TasksApart DEF Awaits, Idle, Kind, NoCall, Request
<1>7. OnExit'
  BY <1>5, TasksApart DEF OnExit, Idle
<1>9. LostIsRejected'
  BY <1>5, NoLocalOld DEF LostIsRejected
<1>10. Generations'
  <2>1. stopped' = 0 /\ app'.gen = 0 /\ \A t \in Tasks : local'[t].gen = 0
    BY <1>1, <1>5, NoLocalOld DEF Fresh
  <2> QED
    BY <1>5, <2>1, TasksApart DEF Generations, Idle
<1>11. Reliable' /\ LatestDisconnect'
  BY <1>3 DEF Reliable, LatestDisconnect
<1> QED
  BY <1>4, <1>6, <1>7, <1>9, <1>10, <1>11 DEF IInv

-----------------------------------------------------------------------------
(***************************************************************************)
(* connect and disconnect begin.                                           *)
(***************************************************************************)
\* A new generation: whatever was promised of the latest disconnect is over.
LEMMA NewGeneration ==
    ASSUME IInv, NEW t \in {"connect"} \cup Slots, Idle(t), OnlyMoves(t), TypeOK',
           Calm' => Calm, Rejects => Rejects', UNCHANGED <<strays, stopped>>,
           app'.gen = app.gen + 1, local'[t].gen = app.gen + 1, ~call'[t].answered,
           local'[t].kind = "lost" => Rejects',
           t = "connect" => pc'[t] = "status" /\ local'[t].exit \in Exits,
           t \in Slots => pc'[t] \in {"status", "disconnect"},
           pc'[t] = "status" => Idle("connect")
    PROVE  IInv'
<1>1. /\ t \in Tasks /\ "connect" \in Tasks /\ \A s \in Slots : s \in Tasks /\ s # "connect"
      /\ app.gen \in Nat /\ stopped \in Nat /\ \A u \in Tasks : local[u].gen \in Nat
  <2>1. app.gen \in Nat /\ stopped \in Nat
    BY TypeParts, BoundsAssumption DEF IInv, Apps, PastTypes
  <2>2. \A u \in Tasks : local[u].gen \in Nat
    BY TypeParts, BoundsAssumption DEF IInv, TaskTypes, Locals
  <2> QED
    BY <2>1, <2>2, TasksApart
<1>2. \A u \in Tasks \ {t} : pc'[u] = pc[u] /\ local'[u] = local[u] /\ call'[u] = call[u]
  BY DEF OnlyMoves
<1>3. Awaits'
  <2>1. \A u \in Tasks : pc'[u] # "idle" => call'[u].made.kind = Kind(pc'[u])
    BY <1>2 DEF IInv, Awaits, OnlyMoves, Idle
  <2>2. CASE t = "connect"
    BY <1>1, <1>2, <2>1, <2>2, TasksApart DEF IInv, Awaits, Idle
  <2>3. CASE t \in Slots
    BY <1>1, <1>2, <2>1, <2>3, TasksApart DEF IInv, Awaits, Idle
  <2> QED
    BY <2>2, <2>3
<1>4. OnExit'
  <2>1. CASE t = "connect"
    BY <1>1, <2>1 DEF OnExit, Idle
  <2>2. CASE t # "connect"
    BY <1>1, <1>2, <2>2 DEF IInv, OnExit, Idle
  <2> QED
    BY <2>1, <2>2
<1>5. LostIsRejected'
  BY <1>2 DEF IInv, LostIsRejected
<1>6. /\ stopped < app.gen + 1 /\ stopped # app.gen + 1
      /\ \A u \in Tasks : local[u].gen < app.gen + 1 /\ local[u].gen # app.gen + 1
  BY <1>1 DEF IInv, Generations
<1>7. Generations'
  <2>1. stopped' <= app'.gen
    BY <1>1, <1>6
  <2>2. \A u \in Tasks : local'[u].gen <= app'.gen
    BY <1>1, <1>2, <1>6
  <2>3. ASSUME pc'["connect"] # "idle"
        PROVE  /\ local'["connect"].gen # stopped'
               /\ \A s \in Slots : pc'[s] # "idle" => local'[s].gen # local'["connect"].gen
    <3>1. CASE t = "connect"
      <4>1. local'["connect"].gen = app.gen + 1 /\ stopped' = stopped
        BY <3>1
      <4>2. \A s \in Slots : local'[s].gen = local[s].gen
        BY <1>1, <1>2, <3>1
      <4>3. stopped # app.gen + 1 /\ \A s \in Slots : local[s].gen # app.gen + 1
        BY <1>1, <1>6
      <4> QED
        BY <4>1, <4>2, <4>3
    <3>2. CASE t \in Slots
      <4>1. pc'["connect"] = pc["connect"] /\ local'["connect"] = local["connect"]
        BY <1>1, <1>2, <3>2
      <4>2. local'["connect"].gen # stopped'
        BY <2>3, <4>1 DEF IInv, Generations, Idle
      <4>3. \A s \in Slots \ {t} : pc'[s] # "idle" => local'[s].gen # local'["connect"].gen
        BY <1>1, <1>2, <2>3, <4>1 DEF IInv, Generations, Idle
      <4>4. local'[t].gen # local'["connect"].gen
        BY <1>1, <1>6, <4>1
      <4> QED
        BY <4>2, <4>3, <4>4
    <3> QED
      BY <3>1, <3>2
  <2> QED
    BY <2>1, <2>2, <2>3 DEF Generations, Idle
<1>8. Reliable'
  <2> SUFFICES ASSUME Calm
               PROVE  /\ strays' = {}
                      /\ \A u \in Tasks : pc'[u] # "idle" /\ call'[u].answered
                            /\ call'[u].made.kind \in {"connect", "disconnect"} => call'[u].ok
    BY DEF Reliable, Idle, Ok
  <2>1. strays' = {}
    BY DEF IInv, Reliable
  <2>2. \A u \in Tasks \ {t} : pc'[u] # "idle" /\ call'[u].answered
            /\ call'[u].made.kind \in {"connect", "disconnect"} => call'[u].ok
    BY <1>2 DEF IInv, Reliable, Idle, Ok
  <2> QED
    BY <2>1, <2>2
<1>9. LatestDisconnect'
  <2>1. stopped' # app'.gen
    BY <1>1, <1>6
  <2>2. \A u \in Tasks \ {t} : local'[u].gen # app'.gen
    BY <1>1, <1>2, <1>6
  <2>3. ASSUME NEW s \in Slots, local'[s].gen = app'.gen
        PROVE  /\ pc'[s] \in {"status", "disconnect"} /\ ~call'[s].answered
               /\ pc'[s] = "status" => Idle("connect")'
    <3>1. s = t
      BY <1>1, <2>2, <2>3
    <3>2. pc'["connect"] = pc["connect"]
      BY <1>1, <1>2, <3>1
    <3> QED
      BY <3>1, <3>2 DEF Idle
  <2> QED
    BY <2>1, <2>3 DEF LatestDisconnect, Current
<1> QED
  BY <1>3, <1>4, <1>5, <1>7, <1>8, <1>9 DEF IInv

LEMMA ConnectBegins ==
    ASSUME IInv, Connect
    PROVE  IInv'
<1> DEFINE l == [NoLocal EXCEPT !.gen = app.gen + 1, !.exit = app.selected]
<1>1. /\ ~Busy /\ app.selected \in app.ready /\ app.gen < MaxAsks
      /\ app' = [app EXCEPT !.gen = app.gen + 1, !.phase = "provisioning"]
      /\ Await("connect", "status", None, l) /\ UNCHANGED owed
      /\ UNCHANGED <<world, core, strays, past, count>>
  BY DEF Connect, GoOn, Still
<1>2. app \in Apps /\ app.gen \in Nat /\ app.gen + 1 \in 0..MaxAsks + 1 /\ app.gen + 1 # MaxAsks + 1
      /\ app.selected \in Exits
  <2>1. app \in Apps
    BY TypeParts DEF IInv
  <2> QED
    BY <1>1, <2>1, BoundsAssumption DEF Apps
<1>3. app' \in Apps /\ app'.gen = app.gen + 1
  BY <1>1, <1>2 DEF Apps
<1>4. l \in Locals /\ l.gen = app.gen + 1 /\ l.exit = app.selected /\ l.kind = "none"
  BY <1>2, NoneTypes DEF Locals, NoLocal
<1> HIDE DEF l
<1>5. OnlyMoves("connect") /\ pc'["connect"] = "status" /\ local'["connect"] = l
      /\ ~call'["connect"].answered
  BY <1>1, <1>4, AwaitOnly, TasksApart, TypeParts DEF IInv, Steps
<1>6. TypeOK'
  <2>1. WorldTypes' /\ CoreTypes' /\ PastTypes'
    BY <1>1, TypeParts DEF IInv, WorldTypes, CoreTypes, PastTypes, world, core, past
  <2> QED
    BY <1>3, <1>5, <2>1, TypePartsNext DEF OnlyMoves
<1>7. (Calm' => Calm) /\ (Rejects => Rejects') /\ UNCHANGED <<strays, stopped>>
  BY <1>1 DEF Calm, Rejects, core, past
<1> QED
  BY <1>1, <1>2, <1>3, <1>4, <1>5, <1>6, <1>7, NewGeneration DEF Busy

LEMMA DisconnectBegins ==
    ASSUME IInv, NEW s \in Slots, NEW kind \in {"panel", "core", "lost"}, Disconnect(s, kind),
           UNCHANGED <<world, offered, revoked, strays, past>>,
           session' \in {session, "none"}, app.gen <= MaxAsks,
           UNCHANGED count \/ Lapse,
           kind = "lost" => Rejects'
    PROVE  IInv'
<1> DEFINE l == [NoLocal EXCEPT !.gen = app.gen + 1, !.kind = kind]
<1>1. /\ Idle(s) /\ app'.gen = app.gen + 1 /\ app' \in Apps /\ app.gen + 1 \in 0..MaxAsks + 1
  <2>1. app \in Apps /\ app.gen \in Nat
    BY TypeParts, BoundsAssumption DEF IInv, Apps
  <2>2. app.gen + 1 \in 0..MaxAsks + 1
    BY <2>1, BoundsAssumption
  <2> DEFINE a == [app EXCEPT !.gen = app.gen + 1, !.timer = FALSE,
                              !.scope = app.scope /\ kind # "lost"]
  <2>3. app' = a \/ app' = [a EXCEPT !.phase = "disconnecting"]
    BY DEF Disconnect
  <2>4. a \in Apps /\ a.gen = app.gen + 1
    BY ONLY <2>1, <2>2 DEF Apps
  <2> HIDE DEF a
  <2>5. [a EXCEPT !.phase = "disconnecting"] \in Apps
        /\ [a EXCEPT !.phase = "disconnecting"].gen = app.gen + 1
    BY ONLY <2>4 DEF Apps
  <2> QED
    BY <2>2, <2>3, <2>4, <2>5 DEF Disconnect
<1>2. l \in Locals /\ l.gen = app.gen + 1 /\ l.kind = kind
  BY <1>1, NoneTypes DEF Locals, NoLocal
<1>3. PICK at \in {"status", "disconnect"} :
          /\ Await(s, at, None, l)
          /\ at = "status" => Idle("connect")
  BY DEF Disconnect, Busy
<1> HIDE DEF l
<1>4. OnlyMoves(s) /\ pc'[s] = at /\ local'[s] = l /\ ~call'[s].answered
  <2>1. TaskTypes /\ s \in Tasks /\ at \in Steps
    BY TasksApart, TypeParts DEF IInv, Steps
  <2> QED
    BY ONLY <1>2, <1>3, <2>1, AwaitOnly
<1>5. TypeOK'
  <2>1. WorldTypes' /\ CoreTypes' /\ PastTypes'
    BY TypeParts, LapseCounts DEF IInv, WorldTypes, CoreTypes, PastTypes, world, past
  <2> QED
    BY <1>1, <1>4, <2>1, TypePartsNext DEF OnlyMoves
<1>6. (Calm' => Calm) /\ (Rejects => Rejects') /\ UNCHANGED <<strays, stopped>>
  BY LapseCounts DEF Calm, Rejects, past
<1>7. s # "connect"
  BY TasksApart
<1> QED
  BY <1>1, <1>2, <1>3, <1>4, <1>5, <1>6, <1>7, NewGeneration

LEMMA DisconnectAsked ==
    ASSUME IInv, NEW s \in Slots, PanelDisconnect(s) \/ CoreDisconnect(s) \/ Rejected(s)
    PROVE  IInv'
<1>0. app.gen < MaxAsks => app.gen <= MaxAsks
  BY TypeParts, BoundsAssumption DEF IInv, Apps
<1>1. CASE PanelDisconnect(s)
  BY <1>0, <1>1, DisconnectBegins DEF PanelDisconnect, Still, core
<1>2. CASE CoreDisconnect(s)
  BY <1>0, <1>2, DisconnectBegins DEF CoreDisconnect, Still, core
<1>3. CASE Rejected(s)
  <2>1. Rejects' /\ (UNCHANGED count \/ Lapse)
    BY <1>3, LapseCounts DEF Rejected, Rejects
  <2> QED
    BY <1>3, <2>1, DisconnectBegins DEF Rejected
<1> QED
  BY <1>1, <1>2, <1>3

-----------------------------------------------------------------------------
(***************************************************************************)
(* restoreStatus, load and refresh.                                        *)
(***************************************************************************)
\* A reader that goes on, or ends, with what it has read in the app's fields.
LEMMA ReaderAwaits ==
    ASSUME IInv, NEW t \in {"restore", "load", "refresh"}, NEW at, NEW l \in Locals,
           \/ t = "restore" /\ at = "selection"
           \/ t = "load" /\ at \in {"exits", "status"}
           \/ t = "refresh" /\ at \in {"status", "exits"},
           Await(t, at, None, l), l.gen <= app.gen, l.kind = "lost" => Rejects, Still,
           app' \in Apps, app'.gen = app.gen
    PROVE  IInv'
<1>1. OnlyMoves(t) /\ pc'[t] = at /\ local'[t] = l
  <2>1. t \in Tasks /\ at \in Steps /\ TaskTypes
    BY TasksApart, TypeParts DEF IInv, Steps
  <2> QED
    BY <2>1, AwaitOnly
<1>2. KeepsWorld /\ UNCHANGED <<session, stopped>>
  BY TypeParts DEF IInv, KeepsWorld, Still, core, past, PastTypes
<1> QED
  BY <1>1, <1>2, ReaderMoves

LEMMA ReaderReturns ==
    ASSUME IInv, NEW t \in {"restore", "load", "refresh"}, Return(t), Still,
           app' \in Apps, app'.gen = app.gen
    PROVE  IInv'
<1>1. OnlyMoves(t) /\ pc'[t] = "idle" /\ local'[t] = NoLocal
  <2>1. t \in Tasks /\ TaskTypes
    BY TasksApart, TypeParts DEF IInv
  <2> QED
    BY <2>1, ReturnOnly
<1>2. KeepsWorld /\ UNCHANGED <<session, stopped>>
  BY TypeParts DEF IInv, KeepsWorld, Still, core, past, PastTypes
<1> QED
  BY <1>1, <1>2, NoLocalOld, ReaderMoves

LEMMA AppTypes ==
    ASSUME IInv, NEW t \in Tasks
    PROVE  /\ app \in Apps /\ app.gen \in Nat /\ app.exits \in SUBSET Exits
           /\ app.ready \in SUBSET Exits
           /\ call[t] \in Calls /\ call[t].exit \in Exits \cup {None}
           /\ call[t].found \in SUBSET Exits
           /\ local[t] \in Locals /\ local[t].found \in SUBSET Exits /\ local[t].gen <= app.gen
<1>1. app \in Apps /\ call[t] \in Calls /\ local[t] \in Locals
  BY TypeParts DEF IInv, TaskTypes
<1>2. local[t].gen <= app.gen
  BY DEF IInv, Generations
<1>3. app.gen \in Nat
  BY <1>1, BoundsAssumption DEF Apps
<1> QED
  BY <1>1, <1>2, <1>3 DEF Apps, Calls, Locals

LEMMA ShownTypes ==
    ASSUME NEW a \in Apps
    PROVE  Shown(a) \in Apps /\ Shown(a).gen = a.gen /\ Shown(a).phase = "up"
<1> QED
  BY DEF Shown, Apps

LEMMA ActiveTypes ==
    ASSUME NEW a \in Apps, NEW b \in BOOLEAN
    PROVE  [a EXCEPT !.active = b] \in Apps /\ [a EXCEPT !.active = b].gen = a.gen
<1> QED
  BY DEF Apps

LEMMA RestoreMoves ==
    ASSUME IInv, RestoreStatus \/ RestoreSelection
    PROVE  IInv'
<1>1. "restore" \in Tasks
  BY TasksApart
<1>2. CASE RestoreStatus
  <2>1. Still /\ app' \in Apps /\ app'.gen = app.gen
    <3>1. app' = app \/ app' = [app EXCEPT !.active = Up("restore")]
      BY <1>2 DEF RestoreStatus
    <3>2. Up("restore") \in BOOLEAN
      BY DEF Up
    <3> QED
      <4>1. app \in Apps
        BY TypeParts DEF IInv
      <4>2. Still
        BY <1>2 DEF RestoreStatus
      <4> QED
        BY <3>1, <3>2, <4>1, <4>2, ActiveTypes
  <2>2. Return("restore") \/ Await("restore", "selection", None, local["restore"])
    BY <1>2 DEF RestoreStatus
  <2>3. CASE Return("restore")
    BY <2>1, <2>3, ReaderReturns
  <2>4. CASE Await("restore", "selection", None, local["restore"])
    <3>1. local["restore"].kind = "lost" => Rejects
      BY <1>1 DEF IInv, LostIsRejected
    <3> QED
      BY <1>1, <2>1, <2>4, <3>1, AppTypes, ReaderAwaits
  <2> QED
    BY <2>2, <2>3, <2>4
<1>3. CASE RestoreSelection
  <2> DEFINE a == IF Ok("restore") THEN [app EXCEPT !.selected = call["restore"].exit] ELSE app
  <2>1. a \in Apps /\ a.gen = app.gen
    BY <1>1, AppTypes DEF Apps
  <2>2. a.exits \in SUBSET Exits /\ a.ready \in SUBSET Exits
    BY <2>1 DEF Apps
  <2>3. app' = IF Busy \/ ~Current("restore") THEN a
               ELSE Shown(IF a.exits = {} THEN a ELSE SetExits(a, a.exits, a.ready))
    BY <1>3 DEF RestoreSelection
  <2> HIDE DEF a
  <2>4. SetExits(a, a.exits, a.ready) \in Apps /\ SetExits(a, a.exits, a.ready).gen = a.gen
    BY <2>1, <2>2, SetExitsTypes
  <2>5. app' \in Apps /\ app'.gen = app.gen
    BY <2>1, <2>3, <2>4, ShownTypes
  <2> QED
    BY <1>3, <2>5, ReaderReturns DEF RestoreSelection
<1> QED
  BY <1>2, <1>3

LEMMA LoadMoves ==
    ASSUME IInv, Load \/ LoadExits \/ LoadStatus
    PROVE  IInv'
<1>1. "load" \in Tasks
  BY TasksApart
<1>2. CASE Load
  <2>1. Await("load", "exits", None, NoLocal) /\ Still /\ app' = app
    BY <1>2 DEF Load
  <2> QED
    BY <1>1, <2>1, AppTypes, NoneTypes, NoLocalOld, ReaderAwaits
<1>3. CASE LoadExits
  <2> DEFINE l == [NoLocal EXCEPT !.found = call["load"].found]
  <2>1. l \in Locals /\ l.gen = 0 /\ l.kind = "none"
    BY <1>1, AppTypes, NoneTypes DEF Locals, NoLocal
  <2>2. Still /\ app' = app /\ (Await("load", "status", None, l) \/ Return("load"))
    BY <1>3 DEF LoadExits
  <2> HIDE DEF l
  <2> QED
    BY <1>1, <2>1, <2>2, AppTypes, NoLocalOld, ReaderAwaits, ReaderReturns
<1>4. CASE LoadStatus
  <2> DEFINE b == [app EXCEPT !.active = Up("load")]
             a == SetExits(b, local["load"].found, local["load"].found)
  <2>1. b \in Apps /\ b.gen = app.gen
    BY <1>1, AppTypes, ActiveTypes DEF Up
  <2>2. app' = IF ~Ok("load") THEN app ELSE IF Up("load") THEN Shown(a) ELSE a
    BY <1>4 DEF LoadStatus
  <2> HIDE DEF b
  <2>3. a \in Apps /\ a.gen = app.gen
    BY <1>1, <2>1, AppTypes, SetExitsTypes
  <2> HIDE DEF a
  <2>4. app' \in Apps /\ app'.gen = app.gen
    BY <1>1, <2>2, <2>3, AppTypes, ShownTypes
  <2> QED
    BY <1>4, <2>4, ReaderReturns DEF LoadStatus
<1> QED
  BY <1>2, <1>3, <1>4

LEMMA RefreshMoves ==
    ASSUME IInv, Refresh \/ RefreshStatus \/ RefreshExits
    PROVE  IInv'
<1>1. "refresh" \in Tasks
  BY TasksApart
<1>2. CASE Refresh
  <2> DEFINE l == [NoLocal EXCEPT !.gen = app.gen]
  <2>1. l \in Locals /\ l.gen = app.gen /\ l.kind = "none"
    <3>1. app.gen \in 0..MaxAsks + 1
      BY <1>1, AppTypes DEF Apps
    <3> QED
      BY <3>1, NoneTypes DEF Locals, NoLocal
  <2>2. Await("refresh", "status", None, l) /\ Still /\ app' = app
    BY <1>2 DEF Refresh
  <2> HIDE DEF l
  <2> QED
    BY <1>1, <2>1, <2>2, AppTypes, ReaderAwaits
<1>3. CASE RefreshStatus
  <2>1. Still /\ app' \in Apps /\ app'.gen = app.gen
    <3>1. \/ app' = app
          \/ app' = [app EXCEPT !.active = TRUE, !.phase = "up"]
          \/ app' = [app EXCEPT !.active = FALSE, !.phase = "idle", !.timer = FALSE]
      BY <1>3 DEF RefreshStatus
    <3>2. app \in Apps
      BY <1>1, AppTypes
    <3>3. app' \in Apps /\ app'.gen = app.gen
      BY <3>1, <3>2 DEF Apps
    <3> QED
      BY <1>3, <3>3 DEF RefreshStatus
  <2>2. Return("refresh") \/ Await("refresh", "exits", None, local["refresh"])
    BY <1>3 DEF RefreshStatus
  <2>3. local["refresh"].kind = "lost" => Rejects
    BY <1>1 DEF IInv, LostIsRejected
  <2> QED
    BY <1>1, <2>1, <2>2, <2>3, AppTypes, ReaderAwaits, ReaderReturns
<1>4. CASE RefreshExits
  <2> DEFINE a == SetExits(app, call["refresh"].found, call["refresh"].found)
  <2>1. a \in Apps /\ a.gen = app.gen
    BY <1>1, AppTypes, SetExitsTypes
  <2>2. app' \in {app, a}
    BY <1>4 DEF RefreshExits
  <2> HIDE DEF a
  <2>3. app' \in Apps /\ app'.gen = app.gen
    BY <1>1, <2>1, <2>2, AppTypes
  <2> QED
    BY <1>4, <2>3, ReaderReturns DEF RefreshExits
<1> QED
  BY <1>2, <1>3, <1>4

LEMMA SelectMoves ==
    ASSUME IInv, NEW e \in Exits, Select(e)
    PROVE  IInv'
<1>1. app \in Apps /\ app' = [app EXCEPT !.selected = e]
      /\ UNCHANGED <<world, core, pc, call, local, strays, past, count>>
  BY TypeParts DEF IInv, Select
<1>2. app' \in Apps /\ app'.gen = app.gen
  BY <1>1 DEF Apps
<1>3. TypeOK'
  <2>1. WorldTypes /\ CoreTypes /\ TaskTypes /\ PastTypes
    BY TypeParts DEF IInv
  <2> QED
    BY <1>1, <1>2, <2>1, TypePartsNext DEF WorldTypes, CoreTypes, TaskTypes, PastTypes,
                                           world, core, past
<1>4. UNCHANGED <<pc, call, local, strays, stopped, revoked, session, tunnel>>
      /\ (Calm' <=> Calm) /\ (Rejects' <=> Rejects)
  BY <1>1 DEF world, core, past, Calm, Rejects
<1> QED
  BY <1>2, <1>3, <1>4, Aside

LEMMA SignInMoves ==
    ASSUME IInv, SignIn
    PROVE  IInv'
<1>1. /\ session = "none" /\ ~revoked /\ count.signIns < MaxSignIns /\ session' = "ok"
      /\ count' = [count EXCEPT !.signIns = count.signIns + 1]
      /\ app' = [app EXCEPT !.scope = TRUE]
      /\ UNCHANGED <<world, offered, revoked, strays, past>>
      /\ Await("load", "exits", None, NoLocal) \/ UNCHANGED <<pc, call, local>>
  BY DEF SignIn
<1>2. "load" \in Tasks
  BY TasksApart
<1>3. app' \in Apps /\ app'.gen = app.gen
  BY <1>1, <1>2, AppTypes DEF Apps
<1>4. /\ Calm' <=> Calm
      /\ count'.lapses = count.lapses
      /\ count' \in [faults : 0..MaxEvents, signIns : 0..MaxSignIns, restarts : 0..MaxEvents,
                     turns : 0..MaxEvents, lapses : 0..MaxEvents]
  <2>1. count \in [faults : 0..MaxEvents, signIns : 0..MaxSignIns, restarts : 0..MaxEvents,
                   turns : 0..MaxEvents, lapses : 0..MaxEvents]
    BY TypeParts DEF IInv, PastTypes
  <2>2. count.signIns + 1 \in 0..MaxSignIns
    BY <1>1, <2>1, BoundsAssumption
  <2> QED
    BY <1>1, <2>1, <2>2 DEF Calm
<1>5. Rejects => Rejects'
  BY <1>1, <1>4 DEF Rejects
<1>6. WorldTypes' /\ CoreTypes' /\ PastTypes'
  <2>1. WorldTypes /\ CoreTypes /\ PastTypes
    BY TypeParts DEF IInv
  <2> QED
    BY <1>1, <1>4, <2>1 DEF WorldTypes, CoreTypes, PastTypes, world, past
<1>7. UNCHANGED <<tunnel, strays, stopped>>
  BY <1>1 DEF world, past
<1>8. CASE Await("load", "exits", None, NoLocal)
  <2>1. OnlyMoves("load") /\ pc'["load"] = "exits" /\ local'["load"] = NoLocal
    BY <1>2, <1>8, AwaitOnly, NoneTypes, TypeParts DEF IInv, Steps
  <2>2. TypeOK'
    BY <1>3, <1>6, <2>1, TypePartsNext DEF OnlyMoves
  <2>3. local'["load"].gen <= app.gen /\ local'["load"].kind # "lost"
    BY <2>1, NoLocalOld
  <2> QED
    BY <1>3, <1>4, <1>5, <1>7, <2>1, <2>2, <2>3, ReaderGoesOn
<1>9. CASE UNCHANGED <<pc, call, local>>
  <2>1. TypeOK'
    BY <1>3, <1>6, <1>9, TypeParts, TypePartsNext DEF IInv, TaskTypes
  <2> QED
    BY <1>3, <1>4, <1>5, <1>7, <1>9, <2>1, Aside
<1> QED
  BY <1>1, <1>8, <1>9

-----------------------------------------------------------------------------
(***************************************************************************)
(* connect goes on.                                                        *)
(***************************************************************************)
\* What the steps of connect have in common: an answer, the fields a they leave the app with,
\* and no tunnel that a superseded connect has brought up.
ConnectStep(a) ==
    /\ ~Idle("connect") /\ call["connect"].answered
    /\ UNCHANGED <<world, core, strays, stopped, count>>
    /\ a \in Apps /\ a.gen = app.gen /\ app' = a
    /\ Calm => ~Superseding

LEMMA ConnectLocal ==
    ASSUME IInv, ~Idle("connect")
    PROVE  /\ TaskTypes /\ "connect" \in Tasks /\ Mine \in Locals /\ Mine.exit \in Exits
           /\ owed \in BOOLEAN
<1>1. TaskTypes /\ "connect" \in Tasks /\ owed \in BOOLEAN
  BY TypeParts, TasksApart DEF IInv, PastTypes
<1> QED
  BY <1>1 DEF IInv, OnExit, TaskTypes, Mine

LEMMA ConnectKeeps ==
    ASSUME IInv, NEW a, ConnectStep(a), owed' \in BOOLEAN
    PROVE  KeepsWorld /\ UNCHANGED <<session, stopped>>
<1> QED
  BY DEF ConnectStep, KeepsWorld, core

LEMMA ConnectAwaits ==
    ASSUME IInv, NEW a, ConnectStep(a), UNCHANGED owed,
           NEW at \in {"install", "key", "register", "select", "connect", "check", "failed",
                       "remove"},
           NEW exit \in Exits \cup {None}, NEW l \in Locals, Await("connect", at, exit, l),
           l.gen = Mine.gen, l.exit = Mine.exit, l.kind = Mine.kind,
           at \in {"register", "select", "connect"} => exit \in Exits
    PROVE  IInv'
<1>1. ~Idle("connect") /\ TaskTypes /\ "connect" \in Tasks /\ Mine.exit \in Exits
      /\ owed' \in BOOLEAN
  BY ConnectLocal DEF ConnectStep
<1>2. KeepsWorld /\ UNCHANGED <<session, stopped>>
  BY <1>1, ConnectKeeps
<1>3. OnlyMoves("connect") /\ pc'["connect"] = at /\ local'["connect"] = l
      /\ call'["connect"].made.exit = exit
  <2>1. at \in Steps
    BY DEF Steps
  <2> QED
    BY <1>1, <2>1, AwaitOnly
<1>4. Calm => ~Superseding
  BY DEF ConnectStep
<1> QED
  BY <1>1, <1>2, <1>3, <1>4, ConnectMoves DEF Mine

LEMMA ConnectReturns ==
    ASSUME IInv, NEW a, ConnectStep(a), owed' \in BOOLEAN, Return("connect")
    PROVE  IInv'
<1>1. ~Idle("connect") /\ TaskTypes /\ "connect" \in Tasks
  BY ConnectLocal DEF ConnectStep
<1>2. KeepsWorld /\ UNCHANGED <<session, stopped>>
  BY ConnectKeeps
<1>3. OnlyMoves("connect") /\ pc'["connect"] = "idle"
  BY <1>1, ReturnOnly
<1>4. Calm => ~Superseding
  BY DEF ConnectStep
<1> QED
  BY <1>1, <1>2, <1>3, <1>4, ConnectMoves

LEMMA ConnectEnds ==
    ASSUME IInv, NEW a, ConnectStep(a), NEW registered, Finally(a, registered)
    PROVE  IInv'
<1> DEFINE back == registered /\ (Mine.gen # a.gen \/ a.phase = "idle")
<1>1. /\ \/ back /\ session = "ok" /\ Await("connect", "remove", None, Mine)
         \/ ~(back /\ session = "ok") /\ Return("connect")
      /\ owed' = (owed \/ (back /\ session # "ok"))
  BY DEF Finally
<1>2. ~Idle("connect") /\ TaskTypes /\ "connect" \in Tasks /\ Mine \in Locals
      /\ owed \in BOOLEAN
  BY ConnectLocal DEF ConnectStep
<1> HIDE DEF back
<1>3. owed' \in BOOLEAN
  BY <1>1
<1>4. CASE Return("connect")
  BY <1>3, <1>4, ConnectReturns
<1>5. CASE back /\ session = "ok" /\ Await("connect", "remove", None, Mine)
  <2>1. UNCHANGED owed
    BY <1>1, <1>2, <1>5
  <2> QED
    BY <1>2, <1>5, <2>1, ConnectAwaits
<1> QED
  BY <1>1, <1>4, <1>5

LEMMA ConnectCaught ==
    ASSUME IInv, ~Idle("connect"), call["connect"].answered,
           UNCHANGED <<world, core, strays, stopped, count>>, Calm => ~Superseding, Caught
    PROVE  IInv'
<1>1. app \in Apps /\ "connect" \in Tasks /\ Mine \in Locals
  BY ConnectLocal, TypeParts DEF IInv
<1>2. CASE app' = [app EXCEPT !.phase = "idle"] /\ GoOn("failed", None, Mine)
  <2>1. ConnectStep([app EXCEPT !.phase = "idle"])
    BY <1>1, <1>2 DEF ConnectStep, Apps
  <2> QED
    BY <1>1, <1>2, <2>1, ConnectAwaits DEF GoOn
<1>3. CASE Finally(app, Mine.registered)
  <2>1. ConnectStep(app)
    BY <1>1, <1>3 DEF ConnectStep, Finally
  <2> QED
    BY <1>3, <2>1, ConnectEnds
<1> QED
  BY <1>2, <1>3 DEF Caught

\* An answer that connect has got, but for its tunnel, finds no tunnel coming up.
LEMMA NotSuperseding ==
    ASSUME NEW at, at # "connect", Answered("connect", at)
    PROVE  ~Superseding /\ call["connect"].answered
<1> QED
  BY DEF Superseding, Answered

LEMMA ConnectStatusMoves ==
    ASSUME IInv, ConnectStatus
    PROVE  IInv'
<1> DEFINE a == [app EXCEPT !.active = Up("connect")]
<1>1. /\ Answered("connect", "status") /\ UNCHANGED <<world, core, strays, stopped, count>>
      /\ \/ Caught
         \/ Finally(a, FALSE)
         \/ Finally(Shown(a), FALSE)
         \/ app' = a /\ GoOn(IF installed THEN "key" ELSE "install", None, Mine)
  BY DEF ConnectStatus, Resume
<1>2. ~Idle("connect") /\ call["connect"].answered /\ ~Superseding
  BY <1>1, NotSuperseding DEF Answered, Idle
<1>3. "connect" \in Tasks /\ Mine \in Locals /\ app \in Apps
  BY <1>2, ConnectLocal, TypeParts DEF IInv
<1>4. a \in Apps /\ a.gen = app.gen
  BY <1>3, ActiveTypes DEF Up
<1>5. Shown(a) \in Apps /\ Shown(a).gen = app.gen
  BY <1>4, ShownTypes
<1> HIDE DEF a
<1>6. CASE Caught
  BY <1>1, <1>2, <1>6, ConnectCaught
<1>7. CASE Finally(a, FALSE)
  <2>1. ConnectStep(a)
    BY <1>1, <1>2, <1>4, <1>7 DEF ConnectStep, Finally
  <2> QED
    BY <1>7, <2>1, ConnectEnds
<1>8. CASE Finally(Shown(a), FALSE)
  <2>1. ConnectStep(Shown(a))
    BY <1>1, <1>2, <1>5, <1>8 DEF ConnectStep, Finally
  <2> QED
    BY <1>8, <2>1, ConnectEnds
<1>9. CASE app' = a /\ GoOn(IF installed THEN "key" ELSE "install", None, Mine)
  <2>1. ConnectStep(a)
    BY <1>1, <1>2, <1>4, <1>9 DEF ConnectStep
  <2> QED
    BY <1>3, <1>9, <2>1, ConnectAwaits DEF GoOn
<1> QED
  BY <1>1, <1>6, <1>7, <1>8, <1>9

LEMMA RegisterMoves ==
    ASSUME IInv, Install \/ Key \/ Register \/ Selected
    PROVE  IInv'
<1> DEFINE l == [Mine EXCEPT !.registered = TRUE]
<1>1. PICK at \in {"install", "key", "register", "select"} :
          /\ Answered("connect", at) /\ UNCHANGED <<world, core, strays, stopped, count>>
          /\ \/ Caught
             \/ Finally(app, FALSE) \/ Finally(app, TRUE)
             \/ UNCHANGED app /\ GoOn("key", None, Mine)
             \/ UNCHANGED app /\ GoOn("register", Mine.exit, Mine)
             \/ UNCHANGED app /\ GoOn("select", Mine.exit, l)
             \/ app' = [app EXCEPT !.phase = "up"] /\ GoOn("connect", Mine.exit, Mine)
  <2>1. CASE Install
    BY <2>1 DEF Install, Resume
  <2>2. CASE Key
    BY <2>2 DEF Key, Resume
  <2>3. CASE Register
    BY <2>3 DEF Register, Resume
  <2>4. CASE Selected
    BY <2>4 DEF Selected, Resume
  <2> QED
    BY <2>1, <2>2, <2>3, <2>4
<1>2. ~Idle("connect") /\ call["connect"].answered /\ ~Superseding
  BY <1>1, NotSuperseding DEF Answered, Idle
<1>3. "connect" \in Tasks /\ Mine \in Locals /\ app \in Apps /\ Mine.exit \in Exits
  BY <1>2, ConnectLocal, TypeParts DEF IInv
<1>4. l \in Locals /\ l.gen = Mine.gen /\ l.exit = Mine.exit /\ l.kind = Mine.kind
  BY <1>3 DEF Locals
<1> HIDE DEF l
<1>5. CASE Caught
  BY <1>1, <1>2, <1>5, ConnectCaught
<1>6. CASE UNCHANGED app \/ Finally(app, FALSE) \/ Finally(app, TRUE)
  <2>1. ConnectStep(app)
    BY <1>1, <1>2, <1>3, <1>6 DEF ConnectStep, Finally
  <2>2. CASE Finally(app, FALSE) \/ Finally(app, TRUE)
    BY <2>1, <2>2, ConnectEnds
  <2>3. CASE GoOn("key", None, Mine) \/ GoOn("register", Mine.exit, Mine)
             \/ GoOn("connect", Mine.exit, Mine)
    BY <1>3, <2>1, <2>3, ConnectAwaits DEF GoOn
  <2>4. CASE GoOn("select", Mine.exit, l)
    BY <1>3, <1>4, <2>1, <2>4, ConnectAwaits DEF GoOn
  <2> QED
    BY <1>1, <1>5, <2>2, <2>3, <2>4
<1>7. CASE app' = [app EXCEPT !.phase = "up"] /\ GoOn("connect", Mine.exit, Mine)
  <2>1. ConnectStep([app EXCEPT !.phase = "up"])
    BY <1>1, <1>2, <1>3, <1>7 DEF ConnectStep, Apps
  <2> QED
    BY <1>3, <1>7, <2>1, ConnectAwaits DEF GoOn
<1> QED
  BY <1>1, <1>5, <1>6, <1>7

\* The one step that ends a superseded tunnel: what has come up is taken down.
LEMMA ConnectedMoves ==
    ASSUME IInv, Connected
    PROVE  IInv'
<1>1. /\ Answered("connect", "connect") /\ UNCHANGED <<world, core, strays, stopped, count>>
      /\ \/ ~Ok("connect") /\ Caught
         \/ Ok("connect") /\ ~Current("connect") /\ UNCHANGED app /\ GoOn("cancelled", None, Mine)
         \/ Ok("connect") /\ Current("connect") /\ UNCHANGED app /\ GoOn("check", None, Mine)
  BY DEF Connected, Resume
<1>2. ~Idle("connect") /\ call["connect"].answered /\ pc["connect"] = "connect"
  BY <1>1 DEF Answered, Idle
<1>3. "connect" \in Tasks /\ Mine \in Locals /\ app \in Apps /\ TaskTypes /\ Mine.exit \in Exits
      /\ owed \in BOOLEAN
  BY <1>2, ConnectLocal, TypeParts DEF IInv
<1>4. CASE ~Ok("connect") /\ Caught
  <2>1. ~Calm
    BY <1>2, <1>3, <1>4 DEF IInv, Reliable, Awaits, Kind
  <2> QED
    BY <1>1, <1>2, <1>4, <2>1, ConnectCaught
<1>5. CASE Current("connect") /\ UNCHANGED app /\ GoOn("check", None, Mine)
  <2>1. ConnectStep(app)
    BY <1>1, <1>2, <1>3, <1>5 DEF ConnectStep, Superseding
  <2> QED
    BY <1>3, <1>5, <2>1, ConnectAwaits DEF GoOn
<1>6. CASE UNCHANGED app /\ GoOn("cancelled", None, Mine)
  <2>1. KeepsWorld /\ UNCHANGED <<session, stopped>>
    BY <1>1, <1>3, <1>6 DEF KeepsWorld, GoOn, core
  <2>2. OnlyMoves("connect") /\ pc'["connect"] = "cancelled" /\ local'["connect"] = Mine
    BY <1>3, <1>6, AwaitOnly DEF GoOn, Steps
  <2> QED
    BY <1>2, <1>3, <2>1, <2>2, ConnectMoves DEF Mine
<1> QED
  BY <1>1, <1>4, <1>5, <1>6

LEMMA LastMoves ==
    ASSUME IInv, Cancelled \/ Check \/ Failed \/ Removed
    PROVE  IInv'
<1> DEFINE up == Shown([app EXCEPT !.active = Up("connect")])
           down == [app EXCEPT !.active = FALSE]
<1>1. PICK at \in {"cancelled", "check", "failed", "remove"} :
          /\ Answered("connect", at) /\ UNCHANGED <<world, core, strays, stopped, count>>
          /\ \/ Caught
             \/ \E registered : \/ Finally(app, registered) \/ Finally(up, registered)
                                \/ Finally(down, registered)
             \/ UNCHANGED <<app, owed>> /\ Return("connect")
  <2>1. CASE Cancelled
    BY <2>1 DEF Cancelled, Resume
  <2>2. CASE Check
    BY <2>2 DEF Check, Resume
  <2>3. CASE Failed
    BY <2>3 DEF Failed
  <2>4. CASE Removed
    BY <2>4 DEF Removed, Still, past
  <2> QED
    BY <2>1, <2>2, <2>3, <2>4
<1>2. ~Idle("connect") /\ call["connect"].answered /\ ~Superseding
  BY <1>1, NotSuperseding DEF Answered, Idle
<1>3. app \in Apps /\ owed \in BOOLEAN
  BY <1>2, ConnectLocal, TypeParts DEF IInv
<1>4. down \in Apps /\ down.gen = app.gen
  BY <1>3, ActiveTypes
<1>5. up \in Apps /\ up.gen = app.gen
  BY <1>3, ActiveTypes, ShownTypes DEF Up
<1> HIDE DEF up, down
<1>6. CASE Caught
  BY <1>1, <1>2, <1>6, ConnectCaught
<1>7. ASSUME NEW registered, NEW a \in {app, up, down}, Finally(a, registered)
      PROVE  IInv'
  <2>1. ConnectStep(a)
    BY <1>1, <1>2, <1>3, <1>4, <1>5, <1>7 DEF ConnectStep, Finally
  <2> QED
    BY <1>7, <2>1, ConnectEnds
<1>8. CASE UNCHANGED <<app, owed>> /\ Return("connect")
  <2>1. ConnectStep(app)
    BY <1>1, <1>2, <1>3, <1>8 DEF ConnectStep
  <2> QED
    BY <1>3, <1>8, <2>1, ConnectReturns
<1> QED
  BY <1>1, <1>6, <1>7, <1>8

LEMMA ConnectStepsMove ==
    ASSUME IInv, ConnectSteps
    PROVE  IInv'
<1> QED
  BY ConnectStatusMoves, RegisterMoves, ConnectedMoves, LastMoves DEF ConnectSteps

-----------------------------------------------------------------------------
(***************************************************************************)
(* disconnect goes on.                                                     *)
(***************************************************************************)
LEMMA SlotReturns ==
    ASSUME IInv, NEW s \in Slots, ~Idle(s), Return(s), KeepsWorld,
           session' \in {session, "none"}, stopped' \in {stopped, local[s].gen},
           stopped' >= stopped, Calm /\ Current(s) /\ stopped' # stopped => GoesDown
    PROVE  IInv'
<1>1. OnlyMoves(s) /\ pc'[s] = "idle"
  BY ReturnOnly, TasksApart, TypeParts DEF IInv
<1> QED
  BY <1>1, SlotMoves

LEMMA SlotAwaits ==
    ASSUME IInv, NEW s \in Slots, ~Idle(s), NEW at \in {"disconnect", "remove"},
           Await(s, at, None, local[s]), UNCHANGED <<world, core, strays, past, count>>,
           app' \in Apps, app'.gen = app.gen,
           Calm /\ Current(s) /\ at = "remove" => GoesDown
    PROVE  IInv'
<1>1. OnlyMoves(s) /\ pc'[s] = at /\ local'[s] = local[s]
  <2>1. at \in Steps /\ local[s] \in Locals /\ TaskTypes /\ s \in Tasks
    BY TasksApart, TypeParts DEF IInv, Steps, TaskTypes
  <2> QED
    BY <2>1, AwaitOnly
<1>2. KeepsWorld /\ UNCHANGED <<session, stopped>> /\ stopped' >= stopped
  <2>1. stopped \in Nat /\ owed \in BOOLEAN
    BY TypeParts, BoundsAssumption DEF IInv, PastTypes
  <2> QED
    BY <2>1 DEF KeepsWorld, core, past
<1> QED
  BY <1>1, <1>2, SlotMoves

LEMMA SlotDone ==
    ASSUME IInv, NEW s \in Slots, ~Idle(s), NEW a \in Apps, a.gen = app.gen,
           NEW back, Done(s, a, back), UNCHANGED <<world, strays, count>>,
           Calm /\ Current(s) => GoesDown
    PROVE  IInv'
<1>1. /\ Return(s) /\ (app' = a \/ app' = [a EXCEPT !.scope = FALSE])
      /\ session' \in {session, "none"} /\ owed' = (owed \/ back)
      /\ UNCHANGED <<offered, revoked>>
      /\ stopped' = IF local[s].gen > stopped THEN local[s].gen ELSE stopped
  BY DEF Done
<1>2. app' \in Apps /\ app'.gen = app.gen
  BY <1>1 DEF Apps
<1>3. owed' \in BOOLEAN
  BY <1>1
<1>4. KeepsWorld
  BY <1>1, <1>2, <1>3 DEF KeepsWorld
<1>5. stopped' \in {stopped, local[s].gen} /\ stopped' >= stopped
  <2>1. stopped \in Nat /\ local[s].gen \in Nat
    BY TypeParts, TasksApart, BoundsAssumption DEF IInv, PastTypes, TaskTypes, Locals
  <2> QED
    BY <1>1, <2>1
<1> QED
  BY <1>1, <1>4, <1>5, SlotReturns

LEMMA SlotFailed ==
    ASSUME IInv, NEW s \in Slots, ~Idle(s), Return(s),
           UNCHANGED <<world, core, app, strays, past, count>>
    PROVE  IInv'
<1>1. stopped \in Nat /\ owed \in BOOLEAN /\ app \in Apps
  BY TypeParts, BoundsAssumption DEF IInv, PastTypes
<1>2. KeepsWorld /\ UNCHANGED <<session, stopped>> /\ stopped' >= stopped
  BY <1>1 DEF KeepsWorld, core, past
<1> QED
  BY <1>2, SlotReturns

LEMMA SlotStepsMove ==
    ASSUME IInv, NEW s \in Slots, DisconnectStatus(s) \/ Disconnected(s) \/ PeerRemoved(s)
    PROVE  IInv'
<1>1. UNCHANGED <<world, strays, count>> /\ ~Idle(s)
  BY DEF DisconnectStatus, Disconnected, PeerRemoved, Answered, Idle
<1>2. app \in Apps
  BY TypeParts DEF IInv
<1>3. CASE DisconnectStatus(s)
  <2> DEFINE a == [app EXCEPT !.active = Up(s)]
             b == [a EXCEPT !.phase = "disconnecting"]
  <2>1. /\ pc[s] = "status" /\ call[s].answered
        /\ \/ Return(s) /\ UNCHANGED <<core, app, past>>
           \/ ~Up(s) /\ Done(s, a, FALSE)
           \/ app' = b /\ Await(s, "disconnect", None, local[s]) /\ UNCHANGED <<core, past>>
    BY <1>3 DEF DisconnectStatus, Answered
  <2>2. a \in Apps /\ a.gen = app.gen
    BY <1>2, ActiveTypes DEF Up
  <2> HIDE DEF a
  <2>3. b \in Apps /\ b.gen = app.gen
    BY <2>2 DEF Apps
  <2> HIDE DEF b
  <2>4. CASE Return(s) /\ UNCHANGED <<core, app, past>>
    BY <1>1, <2>4, SlotFailed
  <2>5. CASE ~Up(s) /\ Done(s, a, FALSE)
    <3>1. Calm /\ Current(s) => GoesDown
      BY <2>1, <2>5 DEF IInv, LatestDisconnect, GoesDown
    <3> QED
      BY <1>1, <2>2, <2>5, <3>1, SlotDone
  <2>6. CASE app' = b /\ Await(s, "disconnect", None, local[s]) /\ UNCHANGED <<core, past>>
    BY <1>1, <2>3, <2>6, SlotAwaits
  <2> QED
    BY <2>1, <2>4, <2>5, <2>6
<1>4. CASE Disconnected(s)
  <2> DEFINE a == [app EXCEPT !.active = FALSE, !.phase = "idle"]
  <2>1. /\ pc[s] = "disconnect" /\ call[s].answered
        /\ \/ Return(s) /\ UNCHANGED <<core, app, past>>
           \/ Done(s, a, TRUE)
           \/ app' = a /\ Await(s, "remove", None, local[s]) /\ UNCHANGED <<core, past>>
    BY <1>4 DEF Disconnected, Answered
  <2>2. a \in Apps /\ a.gen = app.gen
    BY <1>2 DEF Apps
  <2>3. Calm /\ Current(s) => GoesDown
    BY <2>1 DEF IInv, LatestDisconnect
  <2> HIDE DEF a
  <2>4. CASE Return(s) /\ UNCHANGED <<core, app, past>>
    BY <1>1, <2>4, SlotFailed
  <2>5. CASE Done(s, a, TRUE)
    BY <1>1, <2>2, <2>3, <2>5, SlotDone
  <2>6. CASE app' = a /\ Await(s, "remove", None, local[s]) /\ UNCHANGED <<core, past>>
    BY <1>1, <2>2, <2>3, <2>6, SlotAwaits
  <2> QED
    BY <2>1, <2>4, <2>5, <2>6
<1>5. CASE PeerRemoved(s)
  <2>1. Calm /\ Current(s) => GoesDown
    BY <1>5 DEF IInv, LatestDisconnect, PeerRemoved, Answered
  <2> QED
    BY <1>1, <1>2, <1>5, <2>1, SlotDone DEF PeerRemoved
<1> QED
  BY <1>3, <1>4, <1>5

-----------------------------------------------------------------------------
(***************************************************************************)
(* The invariant.                                                          *)
(***************************************************************************)
LEMMA InitHolds == Init => IInv
<1> SUFFICES ASSUME Init PROVE IInv
  OBVIOUS
<1>1. \A t \in Tasks : pc[t] = (IF t = "restore" THEN "status" ELSE "idle")
                       /\ call[t] = NoCall /\ local[t] = NoLocal
  BY DEF Init
<1>2. /\ app = Fresh /\ stopped = 0 /\ strays = {} /\ app.gen = 0
      /\ NoLocal.gen = 0 /\ NoLocal.kind = "none"
  BY DEF Init, Fresh, NoLocal
<1>3. TypeOK
  <2>1. WorldTypes
    BY ExitsAssumption DEF Init, WorldTypes
  <2>2. CoreTypes
    BY DEF Init, CoreTypes
  <2>3. TaskTypes
    BY NoneTypes DEF Init, TaskTypes, Steps
  <2>4. PastTypes
    BY ZeroType DEF Init, PastTypes
  <2>5. app \in Apps
    BY <1>2, ZeroType DEF Apps, Fresh
  <2> QED
    BY <2>1, <2>2, <2>3, <2>4, <2>5, TypeParts
<1>4. Awaits
  BY <1>1, TasksApart DEF Awaits, Idle, Kind, NoCall, Request
<1>5. OnExit
  BY <1>1, TasksApart DEF OnExit, Idle
<1>6. LostIsRejected
  BY <1>1, <1>2 DEF LostIsRejected
<1>7. Generations
  BY <1>1, <1>2, TasksApart DEF Generations, Idle
<1>8. Reliable
  BY <1>1, <1>2 DEF Reliable, NoCall
<1>9. LatestDisconnect
  <2>1. \A s \in Slots : pc[s] = "idle"
    BY <1>1, TasksApart
  <2> QED
    BY <1>2, <2>1 DEF LatestDisconnect
<1> QED
  BY <1>3, <1>4, <1>5, <1>6, <1>7, <1>8, <1>9 DEF IInv

LEMMA StutterHolds ==
    ASSUME IInv, UNCHANGED vars
    PROVE  IInv'
<1>1. UNCHANGED <<tunnel, installed, saved, peer, offered, revoked, session, app, pc, call,
                  local, strays, stopped, owed, count>>
  BY DEF vars
<1>2. TypeOK'
  BY <1>1 DEF IInv, TypeOK
<1>3. (Calm' <=> Calm) /\ (Rejects' <=> Rejects)
  BY <1>1 DEF Calm, Rejects
<1> QED
  BY <1>1, <1>2, <1>3, Aside

LEMMA StepHolds == IInv /\ [Next]_vars => IInv'
<1> SUFFICES ASSUME IInv, [Next]_vars PROVE IInv'
  OBVIOUS
<1>1. ASSUME NEW t \in Tasks, GoesOn(t) PROVE IInv'
  BY <1>1, RestoreMoves, LoadMoves, RefreshMoves, ConnectStepsMove, SlotStepsMove DEF GoesOn
<1>2. ASSUME NEW t \in Tasks,
             Serve(t) \/ Unauthorized(t) \/ GoesOn(t) \/ Fail(t) \/ SaysInactive(t) \/ Abandon(t)
      PROVE  IInv'
  BY <1>1, <1>2, Served, UnauthorizedCall, FailedCall
<1>3. CASE Load \/ Refresh \/ (\E e \in Exits : Select(e)) \/ Connect
  BY <1>3, LoadMoves, RefreshMoves, SelectMoves, ConnectBegins
<1>4. CASE \E s \in Slots : PanelDisconnect(s) \/ CoreDisconnect(s) \/ Rejected(s)
  BY <1>4, DisconnectAsked
<1>5. CASE ServeStray \/ SignIn \/ Reach \/ Expired \/ Revoke \/ HomeGone \/ StoppedOutside
           \/ Restart
  BY <1>5, StrayServed, SignInMoves, LinkMoves, Restarted
<1>6. CASE UNCHANGED vars
  BY <1>6, StutterHolds
<1> QED
  BY <1>2, <1>3, <1>4, <1>5, <1>6 DEF Next

\* The inductive invariant holds in every state of VPNController.
THEOREM InvariantHolds == Spec => []IInv
<1> QED
  BY InitHolds, StepHolds, PTL DEF Spec

\* Every variable keeps its type, and the controller's generation its bound, through whatever
\* the calls of connect, disconnect, load and refresh meet (app/lib/vpn_controller.dart).
THEOREM TypeCorrect == Spec => []TypeOK
<1>1. IInv => TypeOK
  BY DEF IInv
<1> QED
  BY <1>1, InvariantHolds, PTL

LEMMA LatestStopped == IInv => DisconnectRestores
<1> SUFFICES ASSUME IInv, Calm, Settled, stopped > 0, stopped = app.gen
             PROVE  tunnel = None
  BY DEF DisconnectRestores, Calm
<1>1. pc["connect"] = "idle"
  BY TasksApart DEF Settled, Idle
<1>2. GoesDown
  BY DEF IInv, LatestDisconnect
<1> QED
  BY <1>1, <1>2 DEF GoesDown, Superseding

\* disconnect returned true and nothing was asked since: the tunnel is down, however many calls
\* of connect, load and refresh it met at their awaits (vpn_controller.dart, connect and
\* disconnect), if no call failed and the app did not end in the middle of one.
THEOREM DisconnectCorrect == Spec => []DisconnectRestores
<1> QED
  BY LatestStopped, InvariantHolds, PTL

-----------------------------------------------------------------------------
(***************************************************************************)
(* What a step never does.                                                 *)
(***************************************************************************)
\* Of what is served, only a disconnect takes a tunnel down.
LEMMA StepTakesDown ==
    ASSUME IInv, [Next]_vars, tunnel # None, tunnel' = None, call' # call
    PROVE  \/ \E s \in Slots : pc[s] = "disconnect" /\ (local[s].kind = "lost" => Rejects)
           \/ pc["connect"] \in {"cancelled", "failed"}
<1>1. ASSUME NEW t \in Tasks, Serve(t)
      PROVE  \/ \E s \in Slots : pc[s] = "disconnect" /\ (local[s].kind = "lost" => Rejects)
             \/ pc["connect"] \in {"cancelled", "failed"}
  <2> DEFINE r == call[t].made
  <2>1. ~Idle(t) /\ Effect(r)
    BY <1>1 DEF Serve
  <2>2. \/ r.kind = "connect" /\ r.exit = None
        \/ r.kind = "disconnect"
    BY <2>1 DEF Effect
  <2>3. CASE r.kind = "connect"
    <3>1. t = "connect" /\ pc["connect"] = "connect"
      BY <2>1, <2>3, WhoConnects
    <3>2. r.exit \in Exits
      BY <3>1 DEF IInv, OnExit
    <3>3. r.exit # None
      BY <3>2, ExitsAssumption
    <3> QED
      BY <2>2, <2>3, <3>3
  <2>4. CASE r.kind = "disconnect"
    <3>1. Kind(pc[t]) = "disconnect"
      BY <2>1, <2>4 DEF IInv, Awaits
    <3>2. pc[t] \in {"cancelled", "failed", "disconnect"}
      BY <3>1 DEF Kind
    <3>3. \/ t = "connect" /\ pc[t] # "disconnect"
          \/ t \in Slots /\ pc[t] = "disconnect"
      <4>1. t \notin {"restore", "load", "refresh"}
        BY <3>2 DEF IInv, Awaits
      <4>2. CASE t = "connect"
        <5>1. pc["connect"] # "disconnect"
          BY DEF IInv, Awaits
        <5> QED
          BY <4>2, <5>1
      <4>3. CASE t \in Slots
        <5>1. pc[t] \in {"idle", "status", "disconnect", "remove"}
          BY <4>3 DEF IInv, Awaits
        <5>2. pc[t] = "disconnect"
          BY <3>2, <5>1
        <5> QED
          BY <4>3, <5>2
      <4> QED
        BY <4>1, <4>2, <4>3 DEF Tasks
    <3> QED
      BY <3>2, <3>3 DEF IInv, LostIsRejected
  <2> QED
    BY <2>2, <2>3, <2>4
<1>2. ASSUME NEW t \in Tasks, GoesOn(t) PROVE UNCHANGED tunnel
  <2>1. RestoreStatus \/ RestoreSelection \/ LoadExits \/ LoadStatus \/ RefreshStatus
            \/ RefreshExits => UNCHANGED tunnel
    BY DEF RestoreStatus, RestoreSelection, LoadExits, LoadStatus, RefreshStatus, RefreshExits,
           Still, world
  <2>2. ConnectStatus \/ Install \/ Key \/ Register \/ Selected => UNCHANGED tunnel
    BY DEF ConnectStatus, Install, Key, Register, Selected, Resume, world
  <2>3. Connected \/ Cancelled \/ Check \/ Failed \/ Removed => UNCHANGED tunnel
    BY DEF Connected, Cancelled, Check, Failed, Removed, Resume, Still, world
  <2>4. \A s \in Slots : DisconnectStatus(s) \/ Disconnected(s) \/ PeerRemoved(s)
                             => UNCHANGED tunnel
    BY DEF DisconnectStatus, Disconnected, PeerRemoved, world
  <2> QED
    BY <1>2, <2>1, <2>2, <2>3, <2>4 DEF GoesOn, ConnectSteps
<1>3. \A t \in Tasks : Unauthorized(t) \/ Fail(t) \/ SaysInactive(t) \/ Abandon(t)
                         => UNCHANGED tunnel
  BY DEF Unauthorized, Fail, SaysInactive, Abandon, world
<1>4. Load \/ Refresh \/ (\E e \in Exits : Select(e)) \/ Connect => UNCHANGED tunnel
  BY DEF Load, Refresh, Select, Connect, Still, world
<1>5. (\E s \in Slots : PanelDisconnect(s) \/ CoreDisconnect(s) \/ Rejected(s)) => UNCHANGED tunnel
  BY DEF PanelDisconnect, CoreDisconnect, Rejected, Still, world
<1>6. SignIn \/ Reach \/ Expired \/ Revoke \/ HomeGone \/ Restart => UNCHANGED tunnel
  BY DEF SignIn, Reach, Expired, Revoke, HomeGone, Restart, world
<1>7. ServeStray \/ StoppedOutside => UNCHANGED call
  BY DEF ServeStray, StoppedOutside
<1>8. UNCHANGED vars => UNCHANGED call
  BY DEF vars
<1> QED
  BY <1>1, <1>2, <1>3, <1>4, <1>5, <1>6, <1>7, <1>8 DEF Next

\* A call that takes the tunnel down is one of disconnect, or of a connect that failed or was
\* superseded; and disconnect is called on behalf of the core only after a rejection, of a
\* device that was revoked or whose sign-in the core lost half way: an outage of management,
\* or an expired session, leaves the tunnel up (vpn_controller.dart, _coreChanged).
THEOREM OutageCorrect == Spec => OutagePreserves
<1>1. IInv /\ [Next]_vars =>
          [tunnel # None /\ tunnel' = None /\ call' # call =>
               \/ \E s \in Slots :
                     /\ pc[s] = "disconnect"
                     /\ local[s].kind = "lost" => revoked \/ count.lapses > 0
               \/ pc["connect"] \in {"cancelled", "failed"}]_vars
  BY StepTakesDown DEF Rejects
<1> QED
  BY <1>1, InvariantHolds, PTL DEF Spec, OutagePreserves

LEMMA SetExitsKeeps ==
    ASSUME NEW a \in Apps, a.phase = "up", a.selected # None, NEW found, NEW ready
    PROVE  SetExits(a, found, ready).selected = a.selected
<1> DEFINE kept == found \cup {a.selected}
<1>1. SetExits(a, found, ready) =
          [a EXCEPT !.exits = kept, !.ready = ready,
                    !.selected = IF a.selected \in kept THEN a.selected ELSE FirstOf(kept)]
  BY DEF SetExits, Active
<1>2. a.selected \in kept
  OBVIOUS
<1> HIDE DEF kept
<1> QED
  BY <1>1, <1>2 DEF Apps

LEMMA ShownKeeps ==
    ASSUME NEW a \in Apps
    PROVE  Shown(a).selected = a.selected
<1> QED
  BY DEF Shown, Apps

LEMMA ConnectSelects ==
    ASSUME IInv, ConnectSteps
    PROVE  app'.selected = app.selected
<1>1. app \in Apps /\ [app EXCEPT !.active = Up("connect")] \in Apps
  BY TypeParts, ActiveTypes DEF IInv, Up
<1>2. \/ app' = app \/ app' = [app EXCEPT !.phase = "idle"] \/ app' = [app EXCEPT !.phase = "up"]
      \/ app' = [app EXCEPT !.active = Up("connect")] \/ app' = [app EXCEPT !.active = FALSE]
      \/ app' = Shown([app EXCEPT !.active = Up("connect")])
  <2>1. CASE ConnectStatus
    BY <2>1 DEF ConnectStatus, Resume, Caught, Finally
  <2>2. CASE Install \/ Key \/ Register \/ Selected
    BY <2>2 DEF Install, Key, Register, Selected, Resume, Caught, Finally
  <2>3. CASE Connected \/ Cancelled
    BY <2>3 DEF Connected, Cancelled, Resume, Caught, Finally
  <2>4. CASE Check
    BY <2>4 DEF Check, Resume, Caught, Finally
  <2>5. CASE Failed \/ Removed
    BY <2>5 DEF Failed, Removed, Finally
  <2> QED
    BY <2>1, <2>2, <2>3, <2>4, <2>5 DEF ConnectSteps
<1>3. Shown([app EXCEPT !.active = Up("connect")]).selected = app.selected
  BY <1>1, ShownKeeps DEF Apps
<1> QED
  BY <1>1, <1>2, <1>3 DEF Apps

LEMMA SlotsSelect ==
    ASSUME IInv, NEW s \in Slots,
           \/ DisconnectStatus(s) \/ Disconnected(s) \/ PeerRemoved(s)
           \/ PanelDisconnect(s) \/ CoreDisconnect(s) \/ Rejected(s)
    PROVE  app'.selected = app.selected
<1>1. app \in Apps
  BY TypeParts DEF IInv
<1>2. CASE DisconnectStatus(s)
  <2> DEFINE a == [app EXCEPT !.active = Up(s)]
  <2>1. a \in Apps /\ a.selected = app.selected
    BY <1>1, ActiveTypes DEF Up, Apps
  <2>2. app' = app \/ app' = a \/ app' = [a EXCEPT !.scope = FALSE]
        \/ app' = [a EXCEPT !.phase = "disconnecting"]
    BY <1>2 DEF DisconnectStatus, Done
  <2> HIDE DEF a
  <2> QED
    BY <2>1, <2>2 DEF Apps
<1>3. CASE Disconnected(s)
  <2> DEFINE a == [app EXCEPT !.active = FALSE, !.phase = "idle"]
  <2>1. a \in Apps /\ a.selected = app.selected
    BY <1>1 DEF Apps
  <2>2. app' = app \/ app' = a \/ app' = [a EXCEPT !.scope = FALSE]
    BY <1>3 DEF Disconnected, Done
  <2> HIDE DEF a
  <2> QED
    BY <2>1, <2>2 DEF Apps
<1>4. CASE PeerRemoved(s)
  <2>1. app' = app \/ app' = [app EXCEPT !.scope = FALSE]
    BY <1>4 DEF PeerRemoved, Done
  <2> QED
    BY <1>1, <2>1 DEF Apps
<1>5. ASSUME NEW kind, Disconnect(s, kind) PROVE app'.selected = app.selected
  <2> DEFINE a == [app EXCEPT !.gen = @ + 1, !.timer = FALSE, !.scope = @ /\ kind # "lost"]
  <2>1. app' = a \/ app' = [a EXCEPT !.phase = "disconnecting"]
    BY <1>5 DEF Disconnect
  <2> QED
    BY <1>1, <2>1 DEF Apps
<1> QED
  BY <1>2, <1>3, <1>4, <1>5 DEF PanelDisconnect, CoreDisconnect, Rejected

LEMMA ReadersSelect ==
    ASSUME IInv, app.phase = "up", app.selected # None,
           RestoreStatus \/ LoadExits \/ LoadStatus \/ RefreshStatus \/ RefreshExits
    PROVE  app'.selected = app.selected
<1>1. app \in Apps
  BY TypeParts DEF IInv
<1>2. CASE RestoreStatus
  BY <1>2 DEF RestoreStatus
<1>3. CASE LoadExits
  BY <1>3 DEF LoadExits
<1>4. CASE LoadStatus
  <2> DEFINE b == [app EXCEPT !.active = Up("load")]
             a == SetExits(b, local["load"].found, local["load"].found)
  <2>1. b \in Apps /\ b.selected = app.selected /\ b.phase = "up"
    BY <1>1, ActiveTypes DEF Up, Apps
  <2>2. app' = app \/ app' = Shown(a) \/ app' = a
    BY <1>4 DEF LoadStatus
  <2> HIDE DEF b
  <2>3. a.selected = app.selected
    BY <2>1, SetExitsKeeps
  <2>4. a \in Apps
    BY <2>1, AppTypes, SetExitsTypes, TasksApart
  <2> HIDE DEF a
  <2> QED
    BY <2>2, <2>3, <2>4, ShownKeeps
<1>5. CASE RefreshStatus
  <2>1. \/ app' = app
        \/ app' = [app EXCEPT !.active = TRUE, !.phase = "up"]
        \/ app' = [app EXCEPT !.active = FALSE, !.phase = "idle", !.timer = FALSE]
    BY <1>5 DEF RefreshStatus
  <2> QED
    BY <1>1, <2>1 DEF Apps
<1>6. CASE RefreshExits
  BY <1>1, <1>6, SetExitsKeeps DEF RefreshExits
<1> QED
  BY <1>2, <1>3, <1>4, <1>5, <1>6

LEMMA StepSelects ==
    ASSUME IInv, [Next]_vars, Idle("restore"), app.phase = "up", app.selected # None
    PROVE  app'.selected = app.selected \/ app' = Fresh
<1>1. app \in Apps /\ Active(app)
  BY TypeParts DEF IInv, Active
<1>2. ASSUME NEW t \in Tasks, GoesOn(t) PROVE app'.selected = app.selected
  <2>1. ~RestoreSelection
    BY DEF RestoreSelection, Answered, Idle
  <2> QED
    BY <1>2, <2>1, ReadersSelect, ConnectSelects, SlotsSelect DEF GoesOn
<1>3. ASSUME NEW t \in Tasks,
             Serve(t) \/ Unauthorized(t) \/ Fail(t) \/ SaysInactive(t) \/ Abandon(t)
      PROVE  app' = app
  BY <1>3 DEF Serve, Unauthorized, Fail, SaysInactive, Abandon
<1>4. CASE Load \/ Refresh
  BY <1>4 DEF Load, Refresh
<1>5. ~(\E e \in Exits : Select(e)) /\ ~Connect
  BY <1>1 DEF Select, Connect
<1>6. CASE \E s \in Slots : PanelDisconnect(s) \/ CoreDisconnect(s) \/ Rejected(s)
  BY <1>6, SlotsSelect
<1>7. CASE SignIn \/ Expired
  BY <1>1, <1>7 DEF SignIn, Expired, Apps
<1>8. CASE ServeStray \/ Reach \/ Revoke \/ HomeGone \/ StoppedOutside \/ Restart
  BY <1>8 DEF ServeStray, Reach, Revoke, HomeGone, StoppedOutside, Restart
<1>9. CASE UNCHANGED vars
  BY <1>9 DEF vars
<1> QED
  BY <1>2, <1>3, <1>4, <1>5, <1>6, <1>7, <1>8, <1>9 DEF Next

\* The exit that is shown for a tunnel stays its exit for as long as the tunnel does, whatever
\* lists of exits load and refresh take over meanwhile (vpn_controller.dart, _setExits).
THEOREM SelectionCorrect == Spec => SelectionKept
<1>1. IInv /\ [Next]_vars =>
          [Idle("restore") /\ app.phase = "up" /\ tunnel # None /\ tunnel' = tunnel
             /\ app.selected = tunnel => app'.selected = tunnel \/ app' = Fresh]_vars
  BY StepSelects
<1> QED
  BY <1>1, InvariantHolds, PTL DEF Spec, SelectionKept

-----------------------------------------------------------------------------
(***************************************************************************)
(* Who sees to a tunnel that is up, and to a registration: what            *)
(* Disconnectable and PeerGivenBack rest on, as long as no call fails.     *)
(***************************************************************************)
\* Only what the core can refuse is refused.
Sound ==
    \A t \in Tasks : ~Idle(t) /\ call[t].answered
                     /\ call[t].made.kind \notin {"exits", "register", "remove"} => Ok(t)

\* connect has not brought its tunnel up yet and has read that there is none, or it has taken
\* it down.
Below ==
    \/ pc["connect"] \in {"install", "key", "register", "select", "failed"}
    \/ pc["connect"] = "connect" /\ ~call["connect"].answered
    \/ pc["connect"] = "status" /\ call["connect"].answered /\ ~Up("connect")
    \/ pc["connect"] = "cancelled" /\ call["connect"].answered
Rising == Below => tunnel = None

\* A refresh that is still current decides about polling, and what it has read is so.
Polled ==
    pc["refresh"] = "status" /\ Current("refresh") =>
        /\ app.timer /\ Idle("connect")
        /\ call["refresh"].answered /\ ~Up("refresh") => tunnel = None

\* A tunnel is polled for, or a task under way will show it or take it down.
ByRestore ==
    /\ Idle("connect") /\ Current("restore")
    /\ \/ /\ pc["restore"] = "status" /\ app.phase = "idle"
          /\ call["restore"].answered => Up("restore")
       \/ pc["restore"] = "selection"
BySlot(s) ==
    \/ pc[s] = "status" /\ (call[s].answered => Up(s))
    \/ pc[s] = "disconnect" /\ ~call[s].answered
ByConnect ==
    \/ pc["connect"] = "status" /\ Current("connect") /\ (call["connect"].answered => Up("connect"))
    \/ pc["connect"] = "connect" /\ call["connect"].answered
    \/ pc["connect"] = "cancelled" /\ ~call["connect"].answered
    \/ pc["connect"] = "check"
Tended == tunnel # None => app.timer \/ ByRestore \/ ByConnect \/ \E s \in Slots : BySlot(s)

\* A registration has its tunnel, or a task under way will give it back or own up to it.
BackBySlot(s) ==
    \/ pc[s] = "disconnect"
    \/ pc[s] = "remove" /\ ~call[s].answered
BackByConnect ==
    \/ pc["connect"] = "register" /\ call["connect"].answered /\ Ok("connect")
    \/ pc["connect"] = "select"
    \/ pc["connect"] = "connect" /\ ~call["connect"].answered
    \/ pc["connect"] \in {"connect", "cancelled", "check"} /\ ~Current("connect")
    \/ pc["connect"] = "remove" /\ ~call["connect"].answered
Accounted ==
    peer # None /\ ~owed => tunnel # None \/ BackByConnect \/ \E s \in Slots : BackBySlot(s)

\* The core keeps no peer of a revoked device; connect cancels only what was superseded.
Withdrawn ==
    /\ revoked => peer = None
    /\ pc["connect"] = "cancelled" => ~Current("connect")

Seen == Sound /\ Rising /\ Polled /\ Tended /\ Accounted /\ Withdrawn
JInv == Calm => Seen

-----------------------------------------------------------------------------
LEMMA CalmBefore ==
    ASSUME IInv, [Next]_vars, Calm'
    PROVE  Calm
<1>1. count.faults \in Nat /\ count.restarts \in Nat
  <2>1. count \in [faults : 0..MaxEvents, signIns : 0..MaxSignIns, restarts : 0..MaxEvents,
                   turns : 0..MaxEvents, lapses : 0..MaxEvents]
    BY TypeParts DEF IInv, PastTypes
  <2> QED
    BY <2>1, BoundsAssumption
<1>2. CASE UNCHANGED count
  BY <1>2 DEF Calm
<1>3. CASE Turn
  BY <1>3, TurnCounts
<1>4. CASE Fault
  BY <1>4, FaultCounts
<1>5. CASE count' = [count EXCEPT !.signIns = count.signIns + 1]
  <2>1. count \in [faults : 0..MaxEvents, signIns : 0..MaxSignIns, restarts : 0..MaxEvents,
                   turns : 0..MaxEvents, lapses : 0..MaxEvents]
    BY TypeParts DEF IInv, PastTypes
  <2> QED
    BY <1>5, <2>1 DEF Calm
<1>6. CASE count' = [count EXCEPT !.restarts = count.restarts + 1]
  BY <1>1, <1>6, CalmOver
<1>8. CASE Lapse
  BY <1>8, LapseCounts
<1>7. UNCHANGED count \/ Turn \/ Lapse \/ Fault \/ count' = [count EXCEPT !.signIns = count.signIns + 1]
      \/ count' = [count EXCEPT !.restarts = count.restarts + 1]
  <2>1. ASSUME NEW t \in Tasks, GoesOn(t) PROVE UNCHANGED count
    <3>1. RestoreStatus \/ RestoreSelection \/ LoadExits \/ LoadStatus \/ RefreshStatus
              \/ RefreshExits => UNCHANGED count
      BY DEF RestoreStatus, RestoreSelection, LoadExits, LoadStatus, RefreshStatus, RefreshExits,
             Still
    <3>2. ConnectStatus \/ Install \/ Key \/ Register \/ Selected => UNCHANGED count
      BY DEF ConnectStatus, Install, Key, Register, Selected, Resume
    <3>3. Connected \/ Cancelled \/ Check \/ Failed \/ Removed => UNCHANGED count
      BY DEF Connected, Cancelled, Check, Failed, Removed, Resume, Still
    <3>4. \A s \in Slots : DisconnectStatus(s) \/ Disconnected(s) \/ PeerRemoved(s)
                               => UNCHANGED count
      BY DEF DisconnectStatus, Disconnected, PeerRemoved
    <3> QED
      BY <2>1, <3>1, <3>2, <3>3, <3>4 DEF GoesOn, ConnectSteps
  <2>2. ASSUME NEW t \in Tasks,
               Serve(t) \/ Unauthorized(t) \/ Fail(t) \/ SaysInactive(t) \/ Abandon(t)
        PROVE  UNCHANGED count \/ Fault
    BY <2>2 DEF Serve, Unauthorized, Fail, SaysInactive, Abandon, MayFail
  <2>3. Load \/ Refresh \/ (\E e \in Exits : Select(e)) \/ Connect \/ ServeStray => UNCHANGED count
    BY DEF Load, Refresh, Select, Connect, ServeStray, Still
  <2>4. (\E s \in Slots : PanelDisconnect(s) \/ CoreDisconnect(s) \/ Rejected(s))
            => UNCHANGED count \/ Lapse
    BY DEF PanelDisconnect, CoreDisconnect, Rejected, Still
  <2>5. SignIn \/ Restart => \/ count' = [count EXCEPT !.signIns = count.signIns + 1]
                             \/ count' = [count EXCEPT !.restarts = count.restarts + 1]
    BY DEF SignIn, Restart
  <2>6. Reach \/ Expired \/ Revoke \/ HomeGone \/ StoppedOutside => UNCHANGED count \/ Turn \/ Fault
    BY DEF Reach, Expired, Revoke, HomeGone, StoppedOutside
  <2> QED
    BY <2>1, <2>2, <2>3, <2>4, <2>5, <2>6 DEF Next, vars
<1> QED
  BY <1>2, <1>3, <1>4, <1>5, <1>6, <1>7, <1>8

\* A task that goes on has no answer yet, and the answers of the others stand.
LEMMA SoundKept ==
    ASSUME Sound, NEW t \in Tasks, OnlyMoves(t)
    PROVE  Sound'
<1>1. \A u \in Tasks \ {t} : pc'[u] # "idle" /\ call'[u].answered
          /\ call'[u].made.kind \notin {"exits", "register", "remove"} => call'[u].ok
  BY DEF Sound, OnlyMoves, Idle, Ok
<1>2. pc'[t] # "idle" => ~call'[t].answered
  BY DEF OnlyMoves
<1> QED
  BY <1>1, <1>2 DEF Sound, Idle, Ok

\* restore, load and refresh: what they leave the app with keeps somebody at the tunnel.
LEMMA ReaderSeen ==
    ASSUME IInv, Seen, NEW t \in {"restore", "load", "refresh"}, OnlyMoves(t),
           UNCHANGED <<tunnel, peer, revoked, owed>>, app'.gen = app.gen,
           t = "refresh" /\ pc'["refresh"] = "status" => app'.timer /\ Idle("connect"),
           app.timer => app'.timer \/ (t = "refresh" /\ pc'["refresh"] # "status" /\ tunnel = None),
           ByRestore /\ tunnel # None =>
               ByRestore' \/ app'.timer \/ ByConnect \/ \E s \in Slots : BySlot(s)
    PROVE  Seen'
<1>1. /\ t \in Tasks /\ t # "connect" /\ t \notin Slots /\ {"connect", "refresh"} \subseteq Tasks
      /\ \A s \in Slots : s \in Tasks /\ s # t
  BY TasksApart
<1>2. /\ pc'["connect"] = pc["connect"] /\ local'["connect"] = local["connect"]
      /\ call'["connect"] = call["connect"]
      /\ \A s \in Slots : pc'[s] = pc[s] /\ local'[s] = local[s] /\ call'[s] = call[s]
  <2>1. "connect" \in Tasks \ {t} /\ \A s \in Slots : s \in Tasks \ {t}
    BY <1>1
  <2>2. \A u \in Tasks \ {t} : pc'[u] = pc[u] /\ local'[u] = local[u] /\ call'[u] = call[u]
    BY DEF OnlyMoves
  <2> QED
    BY <2>1, <2>2
<1>3. Sound'
  BY <1>1, SoundKept DEF Seen
<1>4. Rising' /\ Withdrawn'
  BY <1>2 DEF Seen, Rising, Below, Withdrawn, Current, Up
<1>5. Polled'
  <2>1. CASE t = "refresh"
    BY <1>2, <2>1 DEF Polled, OnlyMoves, Idle
  <2>2. CASE t # "refresh"
    <3>1. pc'["refresh"] = pc["refresh"] /\ local'["refresh"] = local["refresh"]
          /\ call'["refresh"] = call["refresh"]
      BY <1>1, <2>2 DEF OnlyMoves
    <3> QED
      BY <1>2, <2>2, <3>1 DEF Seen, Polled, Current, Idle, Up
  <2> QED
    BY <2>1, <2>2
<1>6. (ByConnect' <=> ByConnect) /\ \A s \in Slots : BySlot(s)' <=> BySlot(s)
  BY <1>2 DEF ByConnect, BySlot, Current, Up
<1>7. Tended'
  BY <1>6 DEF Seen, Tended
<1>8. (BackByConnect' <=> BackByConnect) /\ \A s \in Slots : BackBySlot(s)' <=> BackBySlot(s)
  BY <1>2 DEF BackByConnect, BackBySlot, Current, Ok
<1>9. Accounted'
  BY <1>8 DEF Seen, Accounted
<1> QED
  BY <1>3, <1>4, <1>5, <1>7, <1>9 DEF Seen

LEMMA ConnectSeen ==
    ASSUME IInv, Seen, ~Idle("connect"), OnlyMoves("connect"),
           UNCHANGED <<tunnel, peer, revoked>>, app'.gen = app.gen, app.timer => app'.timer,
           owed => owed',
           pc'["connect"] \in {"install", "key", "register", "select", "failed", "connect"}
               => tunnel = None,
           tunnel # None /\ ByConnect => ByConnect' \/ app'.timer,
           BackByConnect => BackByConnect' \/ owed',
           pc'["connect"] = "cancelled" => ~Current("connect")',
           pc'["connect"] # "status"
    PROVE  Seen'
<1>1. "connect" \in Tasks /\ "refresh" \in Tasks \ {"connect"}
      /\ \A s \in Slots : s \in Tasks \ {"connect"}
  BY TasksApart
<1>2. /\ pc'["refresh"] = pc["refresh"] /\ local'["refresh"] = local["refresh"]
      /\ \A s \in Slots : pc'[s] = pc[s] /\ local'[s] = local[s] /\ call'[s] = call[s]
  BY <1>1 DEF OnlyMoves
<1>3. Sound'
  BY <1>1, SoundKept DEF Seen
<1>4. Rising'
  BY DEF Rising, Below, OnlyMoves
<1>5. Polled'
  BY <1>2 DEF Seen, Polled, Current
<1>6. \A s \in Slots : BySlot(s)' <=> BySlot(s)
  BY <1>2 DEF BySlot, Up
<1>7. Tended'
  BY <1>6 DEF Seen, Tended, ByRestore
<1>8. \A s \in Slots : BackBySlot(s)' <=> BackBySlot(s)
  BY <1>2 DEF BackBySlot
<1>9. Accounted'
  BY <1>8 DEF Seen, Accounted
<1>10. Withdrawn'
  BY DEF Seen, Withdrawn
<1> QED
  BY <1>3, <1>4, <1>5, <1>7, <1>9, <1>10 DEF Seen

LEMMA SlotSeen ==
    ASSUME IInv, Seen, NEW s \in Slots, OnlyMoves(s), UNCHANGED <<tunnel, peer, revoked>>,
           app'.gen = app.gen, app'.timer = app.timer, owed => owed',
           BySlot(s) /\ tunnel # None => BySlot(s)',
           app'.phase = app.phase \/ app'.phase = "idle" \/ BySlot(s)',
           BackBySlot(s) => BackBySlot(s)' \/ owed'
    PROVE  Seen'
<1>1. s \in Tasks /\ {"connect", "refresh", "restore"} \subseteq Tasks \ {s}
      /\ \A u \in Slots : u \in Tasks
  BY TasksApart
<1>2. \A u \in Tasks \ {s} : pc'[u] = pc[u] /\ local'[u] = local[u] /\ call'[u] = call[u]
  BY DEF OnlyMoves
<1>3. /\ pc'["connect"] = pc["connect"] /\ local'["connect"] = local["connect"]
      /\ call'["connect"] = call["connect"]
      /\ pc'["refresh"] = pc["refresh"] /\ local'["refresh"] = local["refresh"]
      /\ call'["refresh"] = call["refresh"]
      /\ pc'["restore"] = pc["restore"] /\ local'["restore"] = local["restore"]
      /\ call'["restore"] = call["restore"]
  BY <1>1, <1>2
<1>4. Sound'
  BY <1>1, SoundKept DEF Seen
<1>5. Rising' /\ Withdrawn'
  BY <1>3 DEF Seen, Rising, Below, Withdrawn, Current, Up
<1>6. Polled'
  BY <1>3 DEF Seen, Polled, Current, Idle, Up
<1>7. Tended'
  <2>1. ByConnect' <=> ByConnect
    BY <1>3 DEF ByConnect, Current, Up
  <2>2. ByRestore => ByRestore' \/ BySlot(s)'
    BY <1>3 DEF ByRestore, Current, Idle, Up
  <2>3. \A u \in Slots \ {s} : BySlot(u)' <=> BySlot(u)
    BY <1>1, <1>2 DEF BySlot, Up
  <2> QED
    BY <2>1, <2>2, <2>3 DEF Seen, Tended
<1>8. Accounted'
  <2>1. BackByConnect' <=> BackByConnect
    BY <1>3 DEF BackByConnect, Current, Ok
  <2>2. \A u \in Slots \ {s} : BackBySlot(u)' <=> BackBySlot(u)
    BY <1>1, <1>2 DEF BackBySlot
  <2> QED
    BY <2>1, <2>2 DEF Seen, Accounted
<1> QED
  BY <1>4, <1>5, <1>6, <1>7, <1>8 DEF Seen

\* Nothing that is under way changes; the core may have dropped the peer.
LEMMA AsideSeen ==
    ASSUME Seen, UNCHANGED <<tunnel, pc, call, local, owed>>, app'.gen = app.gen,
           app'.timer = app.timer, app'.phase = app.phase,
           peer' \in {peer, None}, revoked' => revoked \/ peer' = None
    PROVE  Seen'
<1>1. Sound'
  BY DEF Seen, Sound, Idle, Ok
<1>2. Rising' /\ Polled'
  BY DEF Seen, Rising, Below, Polled, Current, Idle, Up
<1>3. Withdrawn'
  BY DEF Seen, Withdrawn, Current
<1>4. Tended'
  BY DEF Seen, Tended, ByRestore, ByConnect, BySlot, Current, Idle, Up
<1>5. Accounted'
  BY DEF Seen, Accounted, BackByConnect, BackBySlot, Current, Ok
<1> QED
  BY <1>1, <1>2, <1>3, <1>4, <1>5 DEF Seen

-----------------------------------------------------------------------------
(***************************************************************************)
(* Each step leaves somebody at the tunnel and at the registration.        *)
(***************************************************************************)
\* Of the tasks only connect registers.
LEMMA WhoRegisters ==
    ASSUME IInv, NEW t \in Tasks, ~Idle(t), call[t].made.kind = "register"
    PROVE  t = "connect" /\ pc["connect"] = "register"
<1>1. Kind(pc[t]) = "register"
  BY DEF IInv, Awaits
<1>2. pc[t] = "register"
  BY <1>1 DEF Kind
<1>3. pc["restore"] # "register" /\ pc["load"] # "register" /\ pc["refresh"] # "register"
      /\ \A s \in Slots : pc[s] # "register"
  BY DEF IInv, Awaits
<1> QED
  BY <1>2, <1>3 DEF Tasks

LEMMA ServedSeen ==
    ASSUME IInv, Seen, NEW t \in Tasks, Serve(t)
    PROVE  Seen'
<1> DEFINE r == call[t].made
           ok == ~Refused(r)
           exit == CASE r.kind = "status" -> tunnel [] r.kind = "selection" -> saved
                     [] OTHER -> None
           found == IF r.kind = "exits" /\ ~revoked THEN offered ELSE {}
<1>1. /\ ~Idle(t) /\ ~call[t].answered /\ Effect(r) /\ Answer(t, ok, exit, found)
      /\ UNCHANGED <<core, app, pc, local, strays, past, count>>
  BY DEF Serve
<1>2. r \in Requests /\ ok \in BOOLEAN /\ exit \in Exits \cup {None} /\ found \in SUBSET Exits
  <2>1. call[t] \in Calls
    BY TypeParts DEF IInv, TaskTypes
  <2>2. tunnel \in Exits \cup {None} /\ saved \in Exits \cup {None} /\ offered \in SUBSET Exits
    BY TypeParts DEF IInv, WorldTypes, CoreTypes
  <2>3. ok \in BOOLEAN
    BY DEF Refused
  <2> QED
    BY <2>1, <2>2, <2>3 DEF Calls
<1>3. r.kind = "status" => exit = tunnel
  OBVIOUS
<1>4. r.kind \notin {"exits", "register", "remove"} => ok
  BY DEF Refused
<1>5. r.kind = "register" /\ peer' # peer => ok /\ ~revoked
  BY <1>1 DEF Effect, Refused
<1> HIDE DEF ok, exit, found
<1>6. /\ AnswersOnly(t) /\ call'[t].answered /\ call'[t].ok = ok /\ call'[t].exit = exit
      /\ call'[t].made = r
  BY <1>1, <1>2, AnswerTypes DEF AnswersOnly, past
<1>7. /\ UNCHANGED <<app, pc, local, owed, revoked>>
      /\ \A u \in Tasks \ {t} : call'[u] = call[u]
      /\ {"connect", "refresh", "restore"} \subseteq Tasks
      /\ \A s \in Slots : s \in Tasks /\ s # "connect"
  BY <1>1, <1>6, TasksApart DEF AnswersOnly, core, past
<1>8. r.kind = Kind(pc[t])
  BY <1>1 DEF IInv, Awaits
<1>9. /\ tunnel' = tunnel \/ tunnel' = None \/ r.kind = "connect"
      /\ r.kind = "disconnect" => tunnel' = None
      /\ tunnel' # tunnel => r.kind \in {"connect", "disconnect"}
      /\ peer' = peer \/ peer' = None \/ r.kind = "register"
      /\ r.kind = "remove" => peer' = None
  BY <1>1 DEF Effect
<1>10. /\ r.kind = "connect" => t = "connect" /\ pc["connect"] = "connect"
       /\ r.kind = "register" => t = "connect" /\ pc["connect"] = "register"
  BY <1>1, WhoConnects, WhoRegisters
<1>11. r.kind = "connect" => tunnel' # None
  <2>1. r.kind = "connect" => r.exit \in Exits /\ tunnel' = r.exit
    BY <1>1, <1>10 DEF IInv, OnExit, Effect
  <2> QED
    BY <2>1, ExitsAssumption
<1>12. Sound'
  <2>1. \A u \in Tasks \ {t} : pc'[u] # "idle" /\ call'[u].answered
            /\ call'[u].made.kind \notin {"exits", "register", "remove"} => call'[u].ok
    BY <1>7 DEF Seen, Sound, Idle, Ok
  <2>2. call'[t].made.kind \notin {"exits", "register", "remove"} => call'[t].ok
    BY <1>4, <1>6
  <2> QED
    BY <2>1, <2>2 DEF Sound, Idle, Ok
<1>13. Rising'
  <2> SUFFICES ASSUME Below' PROVE tunnel' = None
    BY DEF Rising
  <2>1. CASE t # "connect"
    <3>1. Below /\ r.kind # "connect"
      BY <1>7, <1>10, <2>1 DEF Below, Up
    <3> QED
      BY <1>9, <3>1 DEF Seen, Rising
  <2>2. CASE t = "connect" /\ pc["connect"] \in {"install", "key", "register", "select", "failed"}
    <3>1. Below /\ r.kind # "connect"
      BY <1>10, <2>2 DEF Below
    <3> QED
      BY <1>9, <3>1 DEF Seen, Rising
  <2>3. CASE t = "connect" /\ pc["connect"] = "status" /\ ~(call'["connect"].exit # None)
    <3>1. r.kind = "status"
      BY <1>8, <2>3 DEF Kind
    <3> QED
      BY <1>3, <1>6, <1>9, <2>3, <3>1
  <2>4. CASE t = "connect" /\ pc["connect"] = "cancelled"
    <3>1. r.kind = "disconnect"
      BY <1>8, <2>4 DEF Kind
    <3> QED
      BY <1>9, <3>1
  <2> QED
    BY <1>6, <1>7, <2>1, <2>2, <2>3, <2>4 DEF Below, Up
<1>14. Polled'
  <2> SUFFICES ASSUME pc["refresh"] = "status", Current("refresh")
               PROVE  /\ app.timer /\ Idle("connect")
                      /\ call'["refresh"].answered /\ ~(call'["refresh"].exit # None)
                            => tunnel' = None
    BY <1>7 DEF Polled, Current, Idle, Up
  <2>1. app.timer /\ Idle("connect") /\ r.kind # "connect"
    BY <1>10 DEF Seen, Polled, Idle
  <2>2. CASE t # "refresh"
    <3>1. call'["refresh"] = call["refresh"]
      BY <1>7, <2>2
    <3> QED
      BY <1>9, <2>1, <3>1 DEF Seen, Polled, Up
  <2>3. CASE t = "refresh"
    <3>1. r.kind = "status"
      BY <1>8, <2>3 DEF Kind
    <3> QED
      BY <1>3, <1>6, <1>9, <2>1, <2>3, <3>1
  <2> QED
    BY <2>2, <2>3
<1>15. Tended'
  <2> SUFFICES ASSUME tunnel' # None
               PROVE  app.timer \/ ByRestore' \/ ByConnect' \/ \E s \in Slots : BySlot(s)'
    BY <1>7 DEF Tended
  <2>1. CASE r.kind = "connect"
    <3>1. pc'["connect"] = "connect" /\ call'["connect"].answered
      BY <1>6, <1>7, <1>10, <2>1
    <3> QED
      BY <3>1 DEF ByConnect
  <2>2. CASE r.kind # "connect"
    <3>1. tunnel # None /\ tunnel' = tunnel /\ r.kind # "disconnect"
      BY <1>9, <2>2
    <3>2. Kind(pc[t]) = "status" => call'[t].exit # None
      BY <1>3, <1>6, <1>8, <3>1
    <3>3. ByRestore => ByRestore'
      <4>1. CASE t # "restore"
        BY <1>7, <4>1 DEF ByRestore, Current, Idle, Up
      <4>2. CASE t = "restore"
        BY <1>7, <3>2, <4>2 DEF ByRestore, Current, Idle, Up, Kind
      <4> QED
        BY <4>1, <4>2
    <3>4. ByConnect => ByConnect'
      <4>1. CASE t # "connect"
        BY <1>7, <4>1 DEF ByConnect, Current, Up
      <4>2. CASE t = "connect"
        <5>1. pc["connect"] # "cancelled"
          BY <1>8, <3>1, <4>2 DEF Kind
        <5> QED
          BY <1>1, <1>7, <3>2, <4>2, <5>1 DEF ByConnect, Current, Up, Kind
      <4> QED
        BY <4>1, <4>2
    <3>5. ASSUME NEW s \in Slots, BySlot(s) PROVE BySlot(s)'
      <4>1. CASE t # s
        BY <1>7, <3>5, <4>1 DEF BySlot, Up
      <4>2. CASE t = s
        <5>1. pc[s] # "disconnect"
          BY <1>8, <3>1, <4>2 DEF Kind
        <5> QED
          BY <1>7, <3>2, <3>5, <4>2, <5>1 DEF BySlot, Up, Kind
      <4> QED
        BY <4>1, <4>2
    <3> QED
      BY <3>1, <3>3, <3>4, <3>5 DEF Seen, Tended
  <2> QED
    BY <2>1, <2>2
<1>16. Accounted'
  <2> SUFFICES ASSUME peer' # None, ~owed
               PROVE  tunnel' # None \/ BackByConnect' \/ \E s \in Slots : BackBySlot(s)'
    BY <1>7 DEF Accounted
  <2>1. CASE peer' # peer
    <3>1. r.kind = "register"
      BY <1>9, <2>1
    <3>2. pc'["connect"] = "register" /\ call'["connect"].answered /\ call'["connect"].ok
      BY <1>5, <1>6, <1>7, <1>10, <2>1, <3>1
    <3> QED
      BY <3>2 DEF BackByConnect, Ok
  <2>2. CASE peer' = peer
    <3>1. peer # None /\ ~revoked /\ r.kind # "remove"
      BY <1>9, <2>2 DEF Seen, Withdrawn
    <3>2. BackByConnect => BackByConnect' \/ tunnel' # None
      <4>1. CASE t # "connect"
        BY <1>7, <4>1 DEF BackByConnect, Current, Ok
      <4>2. CASE t = "connect"
        <5>1. pc["connect"] # "remove"
          BY <1>8, <3>1, <4>2 DEF Kind
        <5>2. pc["connect"] = "connect" => tunnel' # None
          BY <1>8, <1>11, <4>2 DEF Kind
        <5> QED
          BY <1>1, <1>7, <4>2, <5>1, <5>2 DEF BackByConnect, Current
      <4> QED
        BY <4>1, <4>2
    <3>3. ASSUME NEW s \in Slots, BackBySlot(s) PROVE BackBySlot(s)'
      <4>1. CASE t # s
        BY <1>7, <3>3, <4>1 DEF BackBySlot
      <4>2. CASE t = s
        <5>1. pc[s] # "remove"
          BY <1>8, <3>1, <4>2 DEF Kind
        <5> QED
          BY <1>7, <3>3, <5>1 DEF BackBySlot
      <4> QED
        BY <4>1, <4>2
    <3>4. CASE tunnel # None /\ tunnel' = None
      <4>1. r.kind = "disconnect"
        BY <1>9, <1>11, <3>4
      <4>2. pc[t] \in {"cancelled", "failed", "disconnect"}
        BY <1>8, <4>1 DEF Kind
      <4>3. t \notin {"restore", "load", "refresh"}
        BY <4>2 DEF IInv, Awaits
      <4>4. CASE t = "connect"
        <5>1. pc["connect"] # "failed"
          BY <3>4 DEF Seen, Rising, Below
        <5>2. pc["connect"] # "disconnect"
          BY DEF IInv, Awaits
        <5>3. pc["connect"] = "cancelled" /\ ~Current("connect")
          BY <4>2, <4>4, <5>1, <5>2 DEF Seen, Withdrawn
        <5> QED
          BY <1>7, <5>3 DEF BackByConnect, Current
      <4>5. CASE t \in Slots
        <5>1. pc[t] \in {"idle", "status", "disconnect", "remove"}
          BY <4>5 DEF IInv, Awaits
        <5>2. pc[t] = "disconnect"
          BY <4>2, <5>1
        <5> QED
          BY <1>7, <4>5, <5>2 DEF BackBySlot
      <4> QED
        BY <4>3, <4>4, <4>5 DEF Tasks
    <3> QED
      BY <3>1, <3>2, <3>3, <3>4 DEF Seen, Accounted
  <2> QED
    BY <2>1, <2>2
<1>17. Withdrawn'
  <2>1. revoked => peer' = None
    BY <1>5, <1>9 DEF Seen, Withdrawn
  <2> QED
    BY <1>7, <2>1 DEF Seen, Withdrawn, Current
<1> QED
  BY <1>12, <1>13, <1>14, <1>15, <1>16, <1>17 DEF Seen

\* The core answers a call of a session that ended there: a registration it did not give
\* back is owed.
LEMMA UnauthorizedSeen ==
    ASSUME IInv, Seen, NEW t \in Tasks, Unauthorized(t)
    PROVE  Seen'
<1>1. /\ ~Idle(t) /\ ~call[t].answered /\ call[t].made.kind \in {"exits", "register", "remove"}
      /\ Answer(t, FALSE, None, {}) /\ owed' = (owed \/ call[t].made.kind = "remove")
      /\ UNCHANGED <<world, core, app, pc, local, stopped>>
  BY DEF Unauthorized
<1>2. AnswersOnly(t) /\ call'[t].answered
  <2>1. PICK ok \in BOOLEAN : Answer(t, ok, None, {})
    BY <1>1
  <2> QED
    BY <1>1, <2>1, AnswerTypes
<1>3. /\ UNCHANGED <<tunnel, peer, revoked, app, pc, local>>
      /\ \A u \in Tasks \ {t} : call'[u] = call[u]
      /\ \A u \in Tasks : call'[u].made = call[u].made
      /\ {"restore", "load", "refresh", "connect"} \subseteq Tasks
      /\ \A s \in Slots : s \in Tasks
  BY <1>1, <1>2, TasksApart DEF AnswersOnly, world, core
<1>4. pc[t] \in {"exits", "register", "remove"} /\ Kind(pc[t]) = pc[t]
      /\ call[t].made.kind = pc[t]
  BY <1>1 DEF IInv, Awaits, Kind
<1>5. Sound'
  <2>1. \A u \in Tasks \ {t} : pc'[u] # "idle" /\ call'[u].answered
            /\ call'[u].made.kind \notin {"exits", "register", "remove"} => call'[u].ok
    BY <1>3 DEF Seen, Sound, Idle, Ok
  <2> QED
    BY <1>1, <1>3, <2>1 DEF Sound, Idle, Ok
<1>6. Rising'
  BY <1>3, <1>4 DEF Seen, Rising, Below, Up
<1>7. Polled'
  BY <1>3, <1>4 DEF Seen, Polled, Current, Idle, Up
<1>8. Tended'
  <2>1. ByRestore => ByRestore'
    BY <1>3, <1>4 DEF ByRestore, Current, Idle, Up
  <2>2. ByConnect => ByConnect'
    BY <1>3, <1>4 DEF ByConnect, Current, Up
  <2>3. \A s \in Slots : BySlot(s) => BySlot(s)'
    BY <1>3, <1>4 DEF BySlot, Up
  <2> QED
    BY <1>3, <2>1, <2>2, <2>3 DEF Seen, Tended
<1>9. Accounted'
  <2>1. CASE call[t].made.kind = "remove"
    BY <1>1, <2>1 DEF Accounted
  <2>2. CASE call[t].made.kind # "remove"
    <3>1. BackByConnect => BackByConnect'
      BY <1>1, <1>3, <1>4, <2>2 DEF BackByConnect, Current, Ok
    <3>2. \A s \in Slots : BackBySlot(s) => BackBySlot(s)'
      BY <1>3, <1>4, <2>2 DEF BackBySlot
    <3> QED
      BY <1>1, <1>3, <3>1, <3>2 DEF Seen, Accounted
  <2> QED
    BY <2>1, <2>2
<1>10. Withdrawn'
  BY <1>3 DEF Seen, Withdrawn, Current
<1> QED
  BY <1>5, <1>6, <1>7, <1>8, <1>9, <1>10 DEF Seen

LEMMA BeginsSeen ==
    ASSUME IInv, Seen, NEW t \in {"connect"} \cup Slots, Idle(t), OnlyMoves(t),
           UNCHANGED <<tunnel, peer, owed>>, revoked' = revoked,
           app'.gen = app.gen + 1, local'[t].gen = app.gen + 1, ~call'[t].answered,
           t = "connect" => pc'[t] = "status",
           t \in Slots => pc'[t] \in {"status", "disconnect"}
    PROVE  Seen'
<1>1. t \in Tasks /\ {"connect", "refresh"} \subseteq Tasks
      /\ \A s \in Slots : s \in Tasks /\ s # "connect" /\ s # "refresh"
  BY TasksApart
<1>2. \A u \in Tasks \ {t} : pc'[u] = pc[u] /\ local'[u] = local[u] /\ call'[u] = call[u]
  BY DEF OnlyMoves
<1>3. \A u \in Tasks : local[u].gen # app.gen + 1
  <2>1. app.gen \in Nat /\ \A u \in Tasks : local[u].gen \in Nat /\ local[u].gen <= app.gen
    BY <1>1, AppTypes, BoundsAssumption DEF Locals
  <2> QED
    BY <2>1
<1>4. Sound'
  BY <1>1, SoundKept DEF Seen
<1>5. Polled'
  <2>1. t # "refresh"
    BY <1>1
  <2>2. local'["refresh"] = local["refresh"]
    BY <1>1, <1>2, <2>1
  <2> QED
    BY <1>1, <1>3, <2>2 DEF Polled, Current
<1>6. CASE t = "connect"
  <2>1. \A s \in Slots : pc'[s] = pc[s] /\ local'[s] = local[s] /\ call'[s] = call[s]
    BY <1>1, <1>2, <1>6
  <2>2. Rising'
    BY <1>6 DEF Rising, Below
  <2>3. Tended'
    BY <1>6 DEF Tended, ByConnect, Current
  <2>4. Accounted'
    <3>1. ~BackByConnect
      BY <1>6 DEF BackByConnect, Idle
    <3>2. \A s \in Slots : BackBySlot(s)' <=> BackBySlot(s)
      BY <2>1 DEF BackBySlot
    <3> QED
      BY <3>1, <3>2 DEF Seen, Accounted
  <2>5. Withdrawn'
    BY <1>6 DEF Seen, Withdrawn
  <2> QED
    BY <1>4, <1>5, <2>2, <2>3, <2>4, <2>5 DEF Seen
<1>7. CASE t \in Slots
  <2>1. /\ pc'["connect"] = pc["connect"] /\ local'["connect"] = local["connect"]
        /\ call'["connect"] = call["connect"]
    BY <1>1, <1>2, <1>7
  <2>2. ~Current("connect")'
    BY <1>1, <1>3, <2>1 DEF Current
  <2>3. Rising'
    BY <2>1 DEF Seen, Rising, Below, Up
  <2>4. Tended'
    <3>1. BySlot(t)'
      BY <1>7 DEF BySlot
    <3> QED
      BY <1>7, <3>1 DEF Tended
  <2>5. Accounted'
    <3>1. BackByConnect => BackByConnect'
      BY <2>1, <2>2 DEF BackByConnect, Ok
    <3>2. \A s \in Slots \ {t} : BackBySlot(s)' <=> BackBySlot(s)
      BY <1>1, <1>2 DEF BackBySlot
    <3>3. ~BackBySlot(t)
      BY DEF BackBySlot, Idle
    <3> QED
      BY <3>1, <3>2, <3>3 DEF Seen, Accounted
  <2>6. Withdrawn'
    BY <2>2 DEF Seen, Withdrawn
  <2> QED
    BY <1>4, <1>5, <2>3, <2>4, <2>5, <2>6 DEF Seen
<1> QED
  BY <1>6, <1>7

LEMMA ConnectBeginsSeen ==
    ASSUME IInv, Seen, Connect
    PROVE  Seen'
<1> DEFINE l == [NoLocal EXCEPT !.gen = app.gen + 1, !.exit = app.selected]
<1>1. /\ ~Busy /\ app.gen < MaxAsks
      /\ app' = [app EXCEPT !.gen = app.gen + 1, !.phase = "provisioning"]
      /\ Await("connect", "status", None, l) /\ UNCHANGED owed
      /\ UNCHANGED <<world, core, strays, past, count>>
  BY DEF Connect, GoOn, Still
<1>2. "connect" \in Tasks /\ TaskTypes
  BY TasksApart, TypeParts DEF IInv
<1>3. app'.gen = app.gen + 1
  BY <1>1, <1>2, AppTypes DEF Apps
<1>4. l \in Locals /\ l.gen = app.gen + 1
  <2>1. app \in Apps /\ app.gen \in Nat
    BY <1>2, AppTypes
  <2>2. app.gen + 1 \in 0..MaxAsks + 1 /\ app.selected \in Exits \cup {None}
    BY <1>1, <2>1, BoundsAssumption DEF Apps
  <2> QED
    BY <2>2, NoneTypes DEF Locals, NoLocal
<1> HIDE DEF l
<1>5. OnlyMoves("connect") /\ pc'["connect"] = "status" /\ local'["connect"] = l
      /\ ~call'["connect"].answered
  BY <1>1, <1>2, <1>4, AwaitOnly DEF Steps
<1>6. UNCHANGED <<tunnel, peer, owed>> /\ revoked' = revoked /\ "connect" \notin Slots
  BY <1>1, TasksApart DEF world, core
<1> QED
  BY <1>1, <1>3, <1>4, <1>5, <1>6, BeginsSeen DEF Busy

LEMMA DisconnectBeginsSeen ==
    ASSUME IInv, Seen, NEW s \in Slots, NEW kind \in {"panel", "core", "lost"},
           Disconnect(s, kind), UNCHANGED <<world, revoked, past>>, app.gen <= MaxAsks
    PROVE  Seen'
<1> DEFINE l == [NoLocal EXCEPT !.gen = app.gen + 1, !.kind = kind]
<1>1. s \in Tasks /\ s # "connect" /\ TaskTypes
  BY TasksApart, TypeParts DEF IInv
<1>2. app \in Apps /\ app.gen \in Nat /\ app.gen + 1 \in 0..MaxAsks + 1
  <2>1. app \in Apps /\ app.gen \in Nat
    BY <1>1, AppTypes
  <2> QED
    BY <2>1, BoundsAssumption
<1>3. app'.gen = app.gen + 1
  <2> DEFINE a == [app EXCEPT !.gen = app.gen + 1, !.timer = FALSE,
                              !.scope = app.scope /\ kind # "lost"]
  <2>1. app' = a \/ app' = [a EXCEPT !.phase = "disconnecting"]
    BY DEF Disconnect
  <2> QED
    BY <1>2, <2>1 DEF Apps
<1>4. l \in Locals /\ l.gen = app.gen + 1
  BY <1>2, NoneTypes DEF Locals, NoLocal
<1>5. Idle(s) /\ \E at \in {"status", "disconnect"} : Await(s, at, None, l)
  BY DEF Disconnect
<1> HIDE DEF l
<1>6. PICK at \in {"status", "disconnect"} : Await(s, at, None, l)
  BY <1>5
<1>7. OnlyMoves(s) /\ pc'[s] = at /\ local'[s] = l /\ ~call'[s].answered
  BY <1>1, <1>4, <1>6, AwaitOnly DEF Steps
<1>8. UNCHANGED <<tunnel, peer, owed>>
  BY DEF world, past
<1> QED
  BY <1>1, <1>3, <1>4, <1>5, <1>7, <1>8, BeginsSeen

LEMMA AskedSeen ==
    ASSUME IInv, Seen, NEW s \in Slots, PanelDisconnect(s) \/ CoreDisconnect(s) \/ Rejected(s)
    PROVE  Seen'
<1>0. app.gen < MaxAsks => app.gen <= MaxAsks
  BY TypeParts, BoundsAssumption DEF IInv, Apps
<1>1. CASE PanelDisconnect(s)
  BY <1>0, <1>1, DisconnectBeginsSeen DEF PanelDisconnect, Still, core
<1>2. CASE CoreDisconnect(s)
  BY <1>0, <1>2, DisconnectBeginsSeen DEF CoreDisconnect, Still, core
<1>3. CASE Rejected(s)
  BY <1>3, DisconnectBeginsSeen DEF Rejected
<1> QED
  BY <1>1, <1>2, <1>3

\* Polling goes on, or ends because the tunnel is down, and restore's tunnel is not forgotten.
StillTended(t) ==
    /\ Still /\ app'.gen = app.gen
    /\ t = "refresh" /\ pc'["refresh"] = "status" => app'.timer /\ Idle("connect")
    /\ app.timer => app'.timer \/ (t = "refresh" /\ pc'["refresh"] # "status" /\ tunnel = None)
    /\ ByRestore /\ tunnel # None =>
          ByRestore' \/ app'.timer \/ ByConnect \/ \E s \in Slots : BySlot(s)

LEMMA ReaderKept ==
    ASSUME IInv, Seen, NEW t \in {"restore", "load", "refresh"}, OnlyMoves(t), StillTended(t)
    PROVE  Seen'
<1>1. UNCHANGED <<tunnel, peer, revoked, owed>>
  BY DEF StillTended, Still, world, core, past
<1> QED
  BY <1>1, ReaderSeen DEF StillTended

\* What load and refresh do to the app's fields does not take restore's tunnel from it.
LEMMA RestoreKept ==
    ASSUME IInv, NEW t \in {"load", "refresh"}, OnlyMoves(t), app'.gen = app.gen,
           app'.phase = app.phase \/ app'.phase = "idle" \/ app'.timer
    PROVE  ByRestore => ByRestore' \/ app'.timer
<1>1. {"restore", "connect"} \subseteq Tasks \ {t}
  BY TasksApart
<1>2. /\ pc'["restore"] = pc["restore"] /\ local'["restore"] = local["restore"]
      /\ call'["restore"] = call["restore"] /\ pc'["connect"] = pc["connect"]
  BY <1>1 DEF OnlyMoves
<1> QED
  BY <1>2 DEF ByRestore, Current, Idle, Up

LEMMA SetExitsRest ==
    ASSUME NEW a \in Apps, NEW found, NEW ready
    PROVE  /\ SetExits(a, found, ready).timer = a.timer
           /\ SetExits(a, found, ready).phase = a.phase
<1> QED
  BY DEF SetExits, Apps

LEMMA LoadSeen ==
    ASSUME IInv, Seen, Load \/ LoadExits \/ LoadStatus
    PROVE  Seen'
<1>1. "load" \in Tasks /\ TaskTypes /\ app \in Apps
  BY TasksApart, TypeParts DEF IInv
<1>2. OnlyMoves("load") /\ Still
  <2>1. CASE Load
    BY <1>1, <2>1, AwaitOnly, NoneTypes DEF Load, Steps
  <2>2. CASE LoadExits
    <3> DEFINE l == [NoLocal EXCEPT !.found = call["load"].found]
    <3>1. l \in Locals
      BY <1>1, AppTypes, NoneTypes DEF Locals, NoLocal
    <3>2. Still /\ (Await("load", "status", None, l) \/ Return("load"))
      BY <2>2 DEF LoadExits
    <3> HIDE DEF l
    <3> QED
      BY <1>1, <3>1, <3>2, AwaitOnly, ReturnOnly DEF Steps
  <2>3. CASE LoadStatus
    BY <1>1, <2>3, ReturnOnly DEF LoadStatus
  <2> QED
    BY <2>1, <2>2, <2>3
<1>3. /\ app'.gen = app.gen /\ (app.timer => app'.timer)
      /\ app'.phase = app.phase \/ app'.timer
  <2>1. CASE Load \/ LoadExits
    BY <2>1 DEF Load, LoadExits
  <2>2. CASE LoadStatus
    <3> DEFINE b == [app EXCEPT !.active = Up("load")]
               a == SetExits(b, local["load"].found, local["load"].found)
    <3>1. b \in Apps /\ b.gen = app.gen /\ b.timer = app.timer /\ b.phase = app.phase
      BY <1>1, ActiveTypes DEF Up, Apps
    <3>2. app' = IF ~Ok("load") THEN app ELSE IF Up("load") THEN Shown(a) ELSE a
      BY <2>2 DEF LoadStatus
    <3> HIDE DEF b
    <3>3. a \in Apps /\ a.gen = app.gen /\ a.timer = app.timer /\ a.phase = app.phase
      BY <1>1, <3>1, AppTypes, SetExitsTypes, SetExitsRest
    <3> HIDE DEF a
    <3> QED
      BY <1>1, <3>2, <3>3 DEF Shown, Apps
  <2> QED
    BY <2>1, <2>2
<1>4. ByRestore => ByRestore' \/ app'.timer
  BY <1>2, <1>3, RestoreKept
<1>5. StillTended("load")
  BY <1>2, <1>3, <1>4 DEF StillTended
<1> QED
  BY <1>2, <1>5, ReaderKept

LEMMA RefreshSeen ==
    ASSUME IInv, Seen, Refresh \/ RefreshStatus \/ RefreshExits
    PROVE  Seen'
<1>1. "refresh" \in Tasks /\ TaskTypes /\ app \in Apps /\ local["refresh"] \in Locals
  BY TasksApart, TypeParts DEF IInv, TaskTypes
<1>2. CASE Refresh
  <2> DEFINE l == [NoLocal EXCEPT !.gen = app.gen]
  <2>1. l \in Locals
    BY <1>1, NoneTypes DEF Locals, NoLocal, Apps
  <2>2. Await("refresh", "status", None, l) /\ Still /\ app' = app /\ app.timer /\ ~Busy
    BY <1>2 DEF Refresh
  <2> HIDE DEF l
  <2>3. OnlyMoves("refresh")
    BY <1>1, <2>1, <2>2, AwaitOnly DEF Steps
  <2>4. ByRestore => ByRestore' \/ app'.timer
    BY <2>2, <2>3, RestoreKept
  <2>5. StillTended("refresh")
    BY <2>2, <2>4 DEF StillTended, Busy
  <2> QED
    BY <2>3, <2>5, ReaderKept
<1>3. CASE RefreshStatus
  <2>1. /\ pc["refresh"] = "status" /\ call["refresh"].answered /\ Still
        /\ Return("refresh") \/ Await("refresh", "exits", None, local["refresh"])
    BY <1>3 DEF RefreshStatus, Answered
  <2>2. OnlyMoves("refresh") /\ pc'["refresh"] # "status"
    BY <1>1, <2>1, AwaitOnly, ReturnOnly DEF Steps
  <2>3. \/ app' = app
        \/ /\ app' = [app EXCEPT !.active = TRUE, !.phase = "up"]
           /\ Current("refresh")
        \/ /\ app' = [app EXCEPT !.active = FALSE, !.phase = "idle", !.timer = FALSE]
           /\ Current("refresh") /\ ~Up("refresh")
    BY <1>3 DEF RefreshStatus
  <2>4. Current("refresh") => app.timer /\ (~Up("refresh") => tunnel = None)
    BY <2>1 DEF Seen, Polled
  <2>5. /\ app'.gen = app.gen
        /\ app.timer => app'.timer \/ tunnel = None
        /\ app'.phase = app.phase \/ app'.phase = "idle" \/ app'.timer
    <3>1. CASE app' = [app EXCEPT !.active = TRUE, !.phase = "up"] /\ Current("refresh")
      BY <1>1, <2>4, <3>1 DEF Apps
    <3>2. CASE app' = [app EXCEPT !.active = FALSE, !.phase = "idle", !.timer = FALSE]
               /\ tunnel = None
      BY <1>1, <3>2 DEF Apps
    <3> QED
      BY <2>3, <2>4, <3>1, <3>2
  <2>6. ByRestore => ByRestore' \/ app'.timer
    BY <2>2, <2>5, RestoreKept
  <2>7. StillTended("refresh")
    BY <2>1, <2>2, <2>5, <2>6 DEF StillTended
  <2> QED
    BY <2>2, <2>7, ReaderKept
<1>4. CASE RefreshExits
  <2> DEFINE a == SetExits(app, call["refresh"].found, call["refresh"].found)
  <2>1. a.gen = app.gen /\ a.timer = app.timer /\ a.phase = app.phase
    BY <1>1, AppTypes, SetExitsTypes, SetExitsRest
  <2>2. app' \in {app, a} /\ Return("refresh") /\ Still
    BY <1>4 DEF RefreshExits
  <2> HIDE DEF a
  <2>3. OnlyMoves("refresh") /\ pc'["refresh"] = "idle"
    BY <1>1, <2>2, ReturnOnly
  <2>4. app'.gen = app.gen /\ app'.timer = app.timer /\ app'.phase = app.phase
    BY <2>1, <2>2
  <2>5. ByRestore => ByRestore' \/ app'.timer
    BY <2>3, <2>4, RestoreKept
  <2>6. StillTended("refresh")
    BY <2>2, <2>3, <2>4, <2>5 DEF StillTended
  <2> QED
    BY <2>3, <2>6, ReaderKept
<1> QED
  BY <1>2, <1>3, <1>4

LEMMA RestoreSeen ==
    ASSUME IInv, Seen, RestoreStatus \/ RestoreSelection
    PROVE  Seen'
<1>1. "restore" \in Tasks /\ TaskTypes /\ app \in Apps /\ local["restore"] \in Locals
  BY TasksApart, TypeParts DEF IInv, TaskTypes
<1>2. CASE RestoreStatus
  <2>1. /\ pc["restore"] = "status" /\ call["restore"].answered /\ Still
        /\ \/ /\ ~Ok("restore") \/ Busy \/ app.phase # "idle"
              /\ Return("restore") /\ UNCHANGED app
           \/ /\ ~Busy /\ app' = [app EXCEPT !.active = Up("restore")]
              /\ \/ Up("restore") /\ Await("restore", "selection", None, local["restore"])
                 \/ ~Up("restore") /\ Return("restore")
    BY <1>2 DEF RestoreStatus, Answered
  <2>2. Ok("restore")
    BY <1>1, <2>1 DEF Seen, Sound, IInv, Awaits, Idle, Kind
  <2>3. CASE Return("restore") /\ UNCHANGED app /\ (Busy \/ app.phase # "idle")
    <3>1. ~ByRestore
      BY <2>1, <2>3 DEF ByRestore, Busy
    <3>2. StillTended("restore")
      BY <2>1, <2>3, <3>1 DEF StillTended
    <3> QED
      BY <1>1, <2>3, <3>2, ReturnOnly, ReaderKept
  <2>4. app' = [app EXCEPT !.active = Up("restore")] => app'.gen = app.gen /\ app'.timer = app.timer
    BY <1>1 DEF Apps
  <2>5. CASE /\ ~Busy /\ app' = [app EXCEPT !.active = Up("restore")]
             /\ Await("restore", "selection", None, local["restore"])
    <3>1. OnlyMoves("restore") /\ pc'["restore"] = "selection" /\ local'["restore"] = local["restore"]
      BY <1>1, <2>5, AwaitOnly DEF Steps
    <3>2. pc'["connect"] = pc["connect"]
      BY <3>1, TasksApart DEF OnlyMoves
    <3>3. ByRestore => ByRestore'
      BY <2>4, <2>5, <3>1, <3>2 DEF ByRestore, Current, Idle
    <3>4. StillTended("restore")
      BY <2>1, <2>4, <2>5, <3>3 DEF StillTended
    <3> QED
      BY <3>1, <3>4, ReaderKept
  <2>6. CASE app' = [app EXCEPT !.active = Up("restore")] /\ ~Up("restore") /\ Return("restore")
    <3>1. ~ByRestore
      BY <2>1, <2>6 DEF ByRestore
    <3>2. StillTended("restore")
      BY <2>1, <2>4, <2>6, <3>1 DEF StillTended
    <3> QED
      BY <1>1, <2>6, <3>2, ReturnOnly, ReaderKept
  <2> QED
    BY <2>1, <2>2, <2>3, <2>5, <2>6
<1>3. CASE RestoreSelection
  <2> DEFINE a == IF Ok("restore") THEN [app EXCEPT !.selected = call["restore"].exit] ELSE app
             b == IF a.exits = {} THEN a ELSE SetExits(a, a.exits, a.ready)
  <2>1. /\ pc["restore"] = "selection" /\ Return("restore") /\ Still
        /\ app' = IF Busy \/ ~Current("restore") THEN a ELSE Shown(b)
    BY <1>3 DEF RestoreSelection, Answered
  <2>2. a \in Apps /\ a.gen = app.gen /\ a.timer = app.timer
    BY <1>1, AppTypes DEF Apps
  <2> HIDE DEF a
  <2>3. b \in Apps /\ b.gen = app.gen /\ b.timer = app.timer
    <3>1. a.exits \in SUBSET Exits /\ a.ready \in SUBSET Exits
      BY <2>2 DEF Apps
    <3>2. SetExits(a, a.exits, a.ready) \in Apps /\ SetExits(a, a.exits, a.ready).gen = a.gen
          /\ SetExits(a, a.exits, a.ready).timer = a.timer
      BY <2>2, <3>1, SetExitsTypes, SetExitsRest
    <3> QED
      BY <2>2, <3>2
  <2> HIDE DEF b
  <2>4. Shown(b).gen = app.gen /\ Shown(b).timer
    BY <2>3 DEF Shown, Apps
  <2>5. app'.gen = app.gen /\ (app.timer => app'.timer)
    BY <2>1, <2>2, <2>4
  <2>6. ByRestore => app'.timer
    BY <2>1, <2>4 DEF ByRestore, Busy
  <2>7. StillTended("restore")
    BY <2>1, <2>5, <2>6 DEF StillTended
  <2> QED
    BY <1>1, <2>1, <2>7, ReturnOnly, ReaderKept
<1> QED
  BY <1>2, <1>3

\* What a step of connect that goes on, or ends, has to show.
LEMMA AwaitsSeen ==
    ASSUME IInv, Seen, ~Idle("connect"), UNCHANGED <<world, core, owed>>,
           NEW at \in Steps \ {"status"}, NEW exit \in Exits \cup {None}, NEW l \in Locals,
           Await("connect", at, exit, l), l.gen = local["connect"].gen,
           app'.gen = app.gen, app'.timer = app.timer,
           at \in {"install", "key", "register", "select", "failed", "connect"} => tunnel = None,
           tunnel # None /\ ByConnect => at \in {"cancelled", "check"},
           BackByConnect => \/ at \in {"select", "connect", "remove"}
                            \/ at \in {"cancelled", "check"} /\ ~Current("connect"),
           at = "cancelled" => ~Current("connect")
    PROVE  Seen'
<1>1. /\ OnlyMoves("connect") /\ pc'["connect"] = at /\ ~call'["connect"].answered
      /\ local'["connect"] = l
  BY TasksApart, TypeParts, AwaitOnly DEF IInv
<1>2. Current("connect")' <=> Current("connect")
  BY <1>1 DEF Current
<1>3. ByConnect' <=> at \in {"cancelled", "check"}
  BY <1>1 DEF ByConnect
<1>4. BackByConnect' <=> \/ at \in {"select", "connect", "remove"}
                         \/ at \in {"cancelled", "check"} /\ ~Current("connect")
  BY <1>1, <1>2 DEF BackByConnect
<1>5. UNCHANGED <<tunnel, peer, revoked, owed>>
  BY DEF world, core
<1> QED
  BY <1>1, <1>2, <1>3, <1>4, <1>5, ConnectSeen

LEMMA EndsSeen ==
    ASSUME IInv, Seen, ~Idle("connect"), UNCHANGED <<world, core>>, NEW a, NEW registered,
           Finally(a, registered), a.gen = app.gen, app.timer => a.timer,
           tunnel # None /\ ByConnect => a.timer,
           BackByConnect => registered /\ ~Current("connect")
    PROVE  Seen'
<1> DEFINE back == registered /\ (Mine.gen # a.gen \/ a.phase = "idle")
<1>1. /\ app' = a /\ owed' = (owed \/ (back /\ session # "ok"))
      /\ IF back /\ session = "ok" THEN Await("connect", "remove", None, Mine)
         ELSE Return("connect")
  BY DEF Finally
<1>2. BackByConnect => back
  BY DEF Current, Mine
<1>3. TaskTypes /\ "connect" \in Tasks /\ Mine \in Locals /\ owed \in BOOLEAN
  BY ConnectLocal
<1> HIDE DEF back
<1>4. UNCHANGED <<tunnel, peer, revoked>> /\ (owed => owed')
  BY <1>1 DEF world, core
<1>5. CASE back /\ session = "ok" /\ Await("connect", "remove", None, Mine)
  <2>1. OnlyMoves("connect") /\ pc'["connect"] = "remove" /\ ~call'["connect"].answered
    BY <1>3, <1>5, AwaitOnly DEF Steps
  <2>2. BackByConnect'
    BY <2>1 DEF BackByConnect
  <2> QED
    BY <1>1, <1>4, <2>1, <2>2, ConnectSeen
<1>6. CASE ~(back /\ session = "ok") /\ Return("connect")
  <2>1. OnlyMoves("connect") /\ pc'["connect"] = "idle"
    BY <1>3, <1>6, ReturnOnly
  <2>2. BackByConnect => owed'
    BY <1>1, <1>2, <1>6
  <2> QED
    BY <1>1, <1>4, <2>1, <2>2, ConnectSeen
<1> QED
  BY <1>1, <1>5, <1>6

LEMMA CaughtSeen ==
    ASSUME IInv, Seen, ~Idle("connect"), UNCHANGED <<world, core>>, Caught,
           ~ByConnect, ~BackByConnect, Current("connect") => tunnel = None
    PROVE  Seen'
<1>1. app \in Apps /\ Mine \in Locals
  BY ConnectLocal, TypeParts DEF IInv
<1>2. CASE Current("connect") /\ app' = [app EXCEPT !.phase = "idle"] /\ GoOn("failed", None, Mine)
  <2>1. app'.gen = app.gen /\ app'.timer = app.timer
    BY <1>1, <1>2 DEF Apps
  <2> QED
    BY <1>1, <1>2, <2>1, AwaitsSeen DEF GoOn, Steps, Mine
<1>3. CASE Finally(app, Mine.registered)
  BY <1>3, EndsSeen
<1> QED
  BY <1>2, <1>3 DEF Caught

\* Without failures every answer connect gets is good, but that of the core to register.
LEMMA ConnectOk ==
    ASSUME IInv, Seen,
           NEW at \in {"status", "install", "key", "select", "connect", "cancelled", "check"},
           Answered("connect", at)
    PROVE  Ok("connect")
<1>1. "connect" \in Tasks /\ ~Idle("connect") /\ call["connect"].answered
      /\ call["connect"].made.kind = Kind(at)
  BY TasksApart DEF IInv, Awaits, Answered, Idle
<1>2. Kind(at) \notin {"exits", "register", "remove"}
  BY DEF Kind
<1> QED
  BY <1>1, <1>2 DEF Seen, Sound

LEMMA ConnectStatusSeen ==
    ASSUME IInv, Seen, ConnectStatus
    PROVE  Seen'
<1> DEFINE a == [app EXCEPT !.active = Up("connect")]
<1>1. /\ Answered("connect", "status") /\ UNCHANGED <<world, core, strays, stopped, count>>
      /\ \/ ~Ok("connect")
         \/ ~Current("connect") /\ Finally(a, FALSE)
         \/ Up("connect") /\ Finally(Shown(a), FALSE)
         \/ /\ ~Up("connect") /\ app' = a
            /\ GoOn(IF installed THEN "key" ELSE "install", None, Mine)
  BY DEF ConnectStatus, Resume
<1>2. ~Idle("connect") /\ pc["connect"] = "status" /\ call["connect"].answered
  BY <1>1 DEF Answered, Idle
<1>3. Mine \in Locals /\ app \in Apps
  BY <1>2, ConnectLocal, TypeParts DEF IInv
<1>4. a \in Apps /\ a.gen = app.gen /\ a.timer = app.timer
  BY <1>3, ActiveTypes DEF Up, Apps
<1>5. Shown(a).gen = app.gen /\ Shown(a).timer
  BY <1>4 DEF Shown, Apps
<1> HIDE DEF a
<1>6. Ok("connect")
  BY <1>1, ConnectOk
<1>7. ~BackByConnect
  BY <1>2 DEF BackByConnect
<1>8. CASE ~Current("connect") /\ Finally(a, FALSE)
  <2>1. ~ByConnect
    BY <1>2, <1>8 DEF ByConnect
  <2> QED
    BY <1>1, <1>2, <1>4, <1>7, <1>8, <2>1, EndsSeen
<1>9. CASE Finally(Shown(a), FALSE)
  BY <1>1, <1>2, <1>5, <1>7, <1>9, EndsSeen
<1>10. CASE /\ ~Up("connect") /\ app' = a
            /\ GoOn(IF installed THEN "key" ELSE "install", None, Mine)
  <2>1. tunnel = None
    BY <1>2, <1>10 DEF Seen, Rising, Below
  <2>2. PICK at \in {"install", "key"} : GoOn(at, None, Mine)
    BY <1>10
  <2> QED
    BY <1>1, <1>2, <1>3, <1>4, <1>7, <1>10, <2>1, <2>2, AwaitsSeen DEF GoOn, Steps, Mine
<1> QED
  BY <1>1, <1>6, <1>8, <1>9, <1>10

LEMMA RegisterSeen ==
    ASSUME IInv, Seen, Install \/ Key \/ Register
    PROVE  Seen'
<1> DEFINE l == [Mine EXCEPT !.registered = TRUE]
<1>1. /\ UNCHANGED <<world, core, strays, stopped, count>>
      /\ pc["connect"] \in {"install", "key", "register"} /\ call["connect"].answered
  BY DEF Install, Key, Register, Resume, Answered
<1>2. ~Idle("connect") /\ ~ByConnect /\ tunnel = None
  BY <1>1 DEF Idle, ByConnect, Seen, Rising, Below
<1>3. Mine \in Locals /\ Mine.exit \in Exits
  BY <1>2, ConnectLocal
<1>4. l \in Locals /\ l.gen = Mine.gen
  BY <1>3 DEF Locals
<1> HIDE DEF l
<1>5. CASE Install
  <2>1. ~BackByConnect /\ Answered("connect", "install")
    BY <1>5 DEF Install, Resume, Answered, BackByConnect
  <2>2. \/ Finally(app, FALSE)
        \/ UNCHANGED app /\ GoOn("key", None, Mine)
    BY <1>5, <2>1, ConnectOk DEF Install, Resume
  <2>3. CASE Finally(app, FALSE)
    BY <1>1, <1>2, <2>1, <2>3, EndsSeen
  <2>4. CASE UNCHANGED app /\ GoOn("key", None, Mine)
    BY <1>1, <1>2, <1>3, <2>1, <2>4, AwaitsSeen DEF GoOn, Steps, Mine
  <2> QED
    BY <2>2, <2>3, <2>4
<1>6. CASE Key
  <2>1. ~BackByConnect /\ Answered("connect", "key")
    BY <1>6 DEF Key, Resume, Answered, BackByConnect
  <2>2. \/ Finally(app, FALSE)
        \/ UNCHANGED app /\ GoOn("register", Mine.exit, Mine)
        \/ Caught
    BY <1>6, <2>1, ConnectOk DEF Key, Resume
  <2>3. CASE Finally(app, FALSE)
    BY <1>1, <1>2, <2>1, <2>3, EndsSeen
  <2>4. CASE UNCHANGED app /\ GoOn("register", Mine.exit, Mine)
    BY <1>1, <1>2, <1>3, <2>1, <2>4, AwaitsSeen DEF GoOn, Steps, Mine
  <2>5. CASE Caught
    BY <1>1, <1>2, <2>1, <2>5, CaughtSeen
  <2> QED
    BY <2>2, <2>3, <2>4, <2>5
<1>7. CASE Register
  <2>1. \/ ~Ok("connect") /\ Caught
        \/ ~Current("connect") /\ Finally(app, TRUE)
        \/ UNCHANGED app /\ GoOn("select", Mine.exit, l)
    BY <1>7 DEF Register, Resume, l
  <2>2. pc["connect"] = "register"
    BY <1>7 DEF Register, Resume, Answered
  <2>3. CASE ~Ok("connect") /\ Caught
    <3>1. ~BackByConnect
      BY <2>2, <2>3 DEF BackByConnect
    <3> QED
      BY <1>1, <1>2, <2>3, <3>1, CaughtSeen
  <2>4. CASE ~Current("connect") /\ Finally(app, TRUE)
    BY <1>1, <1>2, <2>4, EndsSeen
  <2>5. CASE UNCHANGED app /\ GoOn("select", Mine.exit, l)
    BY <1>1, <1>2, <1>3, <1>4, <2>5, AwaitsSeen DEF GoOn, Steps, Mine
  <2> QED
    BY <2>1, <2>3, <2>4, <2>5
<1> QED
  BY <1>5, <1>6, <1>7

LEMMA SelectedSeen ==
    ASSUME IInv, Seen, Selected
    PROVE  Seen'
<1> DEFINE a == [app EXCEPT !.phase = "up"]
<1>1. /\ Answered("connect", "select") /\ UNCHANGED <<world, core, strays, stopped, count>>
      /\ \/ ~Ok("connect")
         \/ ~Current("connect") /\ Finally(app, TRUE)
         \/ app' = a /\ GoOn("connect", Mine.exit, Mine)
  BY DEF Selected, Resume
<1>2. ~Idle("connect") /\ pc["connect"] = "select" /\ call["connect"].answered
  BY <1>1 DEF Answered, Idle
<1>3. Mine \in Locals /\ Mine.exit \in Exits /\ app \in Apps
  BY <1>2, ConnectLocal, TypeParts DEF IInv
<1>4. a.gen = app.gen /\ a.timer = app.timer
  BY <1>3 DEF Apps
<1> HIDE DEF a
<1>5. ~ByConnect /\ tunnel = None /\ Ok("connect")
  BY <1>1, <1>2, ConnectOk DEF ByConnect, Seen, Rising, Below
<1>6. CASE ~Current("connect") /\ Finally(app, TRUE)
  BY <1>1, <1>2, <1>5, <1>6, EndsSeen
<1>7. CASE app' = a /\ GoOn("connect", Mine.exit, Mine)
  BY <1>1, <1>2, <1>3, <1>4, <1>5, <1>7, AwaitsSeen DEF GoOn, Steps, Mine
<1> QED
  BY <1>1, <1>5, <1>6, <1>7

\* What came up is shown, or taken down again.
LEMMA ConnectedSeen ==
    ASSUME IInv, Seen, Connected
    PROVE  Seen'
<1>1. /\ Answered("connect", "connect") /\ UNCHANGED <<world, core, strays, stopped, count>>
      /\ UNCHANGED app
      /\ \/ ~Current("connect") /\ GoOn("cancelled", None, Mine)
         \/ Current("connect") /\ GoOn("check", None, Mine)
  <2>1. Answered("connect", "connect")
    BY DEF Connected, Resume
  <2> QED
    BY <2>1, ConnectOk DEF Connected, Resume
<1>2. ~Idle("connect") /\ pc["connect"] = "connect" /\ call["connect"].answered
  BY <1>1 DEF Answered, Idle
<1>3. Mine \in Locals
  BY <1>2, ConnectLocal
<1>4. BackByConnect => ~Current("connect")
  BY <1>2 DEF BackByConnect
<1>5. CASE ~Current("connect") /\ GoOn("cancelled", None, Mine)
  BY <1>1, <1>2, <1>3, <1>5, AwaitsSeen DEF GoOn, Steps, Mine
<1>6. CASE Current("connect") /\ GoOn("check", None, Mine)
  BY <1>1, <1>2, <1>3, <1>4, <1>6, AwaitsSeen DEF GoOn, Steps, Mine
<1> QED
  BY <1>1, <1>5, <1>6

LEMMA LastSeen ==
    ASSUME IInv, Seen, Cancelled \/ Check \/ Failed \/ Removed
    PROVE  Seen'
<1> DEFINE up == Shown([app EXCEPT !.active = Up("connect")])
           down == [app EXCEPT !.active = FALSE]
<1>1. /\ pc["connect"] \in {"cancelled", "check", "failed", "remove"} /\ call["connect"].answered
      /\ UNCHANGED <<world, core>>
  BY DEF Cancelled, Check, Failed, Removed, Resume, Answered, Still
<1>2. ~Idle("connect")
  BY <1>1 DEF Idle
<1>3. app \in Apps /\ TaskTypes
  BY TypeParts DEF IInv
<1>4. down.gen = app.gen /\ down.timer = app.timer
  BY <1>3 DEF Apps
<1>5. up.gen = app.gen /\ up.timer
  BY <1>3 DEF Shown, Apps
<1> HIDE DEF up, down
<1>6. CASE Cancelled
  <2>1. pc["connect"] = "cancelled" /\ Answered("connect", "cancelled")
    BY <1>6 DEF Cancelled, Resume, Answered
  <2>2. ~Current("connect") /\ ~ByConnect
    BY <1>1, <2>1 DEF Seen, Withdrawn, ByConnect
  <2>3. Finally(app, TRUE)
    BY <1>6, <2>1, ConnectOk DEF Cancelled, Resume
  <2> QED
    BY <1>1, <1>2, <2>2, <2>3, EndsSeen
<1>7. CASE Check
  <2>1. pc["connect"] = "check" /\ Answered("connect", "check")
    BY <1>7 DEF Check, Resume, Answered
  <2>2. BackByConnect => ~Current("connect")
    BY <2>1 DEF BackByConnect
  <2>3. Finally(up, TRUE)
    BY <1>7, <2>1, ConnectOk DEF Check, Resume, up
  <2> QED
    BY <1>1, <1>2, <1>5, <2>2, <2>3, EndsSeen
<1>8. CASE Failed
  <2>1. pc["connect"] = "failed" /\ Finally(down, Mine.registered)
    BY <1>8 DEF Failed, Answered, down
  <2>2. tunnel = None /\ ~BackByConnect
    BY <2>1 DEF Seen, Rising, Below, BackByConnect
  <2> QED
    BY <1>1, <1>2, <1>4, <2>1, <2>2, EndsSeen
<1>9. CASE Removed
  <2>1. pc["connect"] = "remove" /\ Return("connect") /\ Still /\ UNCHANGED app
    BY <1>9 DEF Removed, Answered
  <2>2. ~ByConnect /\ ~BackByConnect
    BY <1>1, <2>1 DEF ByConnect, BackByConnect
  <2>3. OnlyMoves("connect") /\ pc'["connect"] = "idle"
    BY <1>3, <2>1, TasksApart, ReturnOnly
  <2>4. UNCHANGED <<tunnel, peer, revoked, owed>>
    BY <2>1 DEF Still, world, core, past
  <2> QED
    BY <1>2, <2>1, <2>2, <2>3, <2>4, ConnectSeen
<1> QED
  BY <1>6, <1>7, <1>8, <1>9

\* disconnect takes the tunnel down and gives the registration back.
LEMMA SlotStepsSeen ==
    ASSUME IInv, Seen, NEW s \in Slots, DisconnectStatus(s) \/ Disconnected(s) \/ PeerRemoved(s)
    PROVE  Seen'
<1>1. /\ s \in Tasks /\ ~Idle(s) /\ call[s].answered /\ UNCHANGED <<tunnel, peer>>
      /\ UNCHANGED revoked
  BY TasksApart DEF DisconnectStatus, Disconnected, PeerRemoved, Answered, Idle, Done, world, core
<1>2. app \in Apps /\ TaskTypes /\ local[s] \in Locals /\ owed \in BOOLEAN
  BY <1>1, TypeParts DEF IInv, TaskTypes, PastTypes
<1>3. pc[s] \in {"status", "disconnect"} => Ok(s)
  BY <1>1 DEF IInv, Awaits, Kind, Seen, Sound
<1>4. ASSUME NEW a \in Apps, NEW back \in BOOLEAN, Done(s, a, back), a.gen = app.gen,
             a.timer = app.timer, a.phase = app.phase \/ a.phase = "idle",
             BySlot(s) => tunnel = None, BackBySlot(s) => back
      PROVE  Seen'
  <2>1. /\ Return(s) /\ (app' = a \/ app' = [a EXCEPT !.scope = FALSE])
        /\ owed' = (owed \/ back)
    BY <1>4 DEF Done
  <2>2. app'.gen = app.gen /\ app'.timer = app.timer
        /\ (app'.phase = app.phase \/ app'.phase = "idle")
    BY <1>4, <2>1 DEF Apps
  <2>3. OnlyMoves(s)
    BY <1>1, <1>2, <2>1, ReturnOnly
  <2> QED
    BY <1>1, <1>2, <1>4, <2>1, <2>2, <2>3, SlotSeen
<1>5. CASE DisconnectStatus(s)
  <2> DEFINE a == [app EXCEPT !.active = Up(s)]
             b == [a EXCEPT !.phase = "disconnecting"]
  <2>1. /\ pc[s] = "status"
        /\ \/ ~Ok(s)
           \/ ~Up(s) /\ Done(s, a, FALSE)
           \/ app' = b /\ Await(s, "disconnect", None, local[s]) /\ UNCHANGED past
    BY <1>5 DEF DisconnectStatus, Answered
  <2>2. a \in Apps /\ a.gen = app.gen /\ a.timer = app.timer /\ a.phase = app.phase
    BY <1>2, ActiveTypes DEF Up, Apps
  <2>3. ~BackBySlot(s)
    BY <2>1 DEF BackBySlot
  <2> HIDE DEF a
  <2>4. b.gen = app.gen /\ b.timer = app.timer
    BY <2>2 DEF Apps
  <2> HIDE DEF b
  <2>5. CASE ~Up(s) /\ Done(s, a, FALSE)
    <3>1. ~BySlot(s)
      BY <1>1, <2>1, <2>5 DEF BySlot
    <3> QED
      BY <1>4, <2>2, <2>3, <2>5, <3>1
  <2>6. CASE app' = b /\ Await(s, "disconnect", None, local[s]) /\ UNCHANGED past
    <3>1. OnlyMoves(s) /\ pc'[s] = "disconnect" /\ ~call'[s].answered
      BY <1>1, <1>2, <2>6, AwaitOnly DEF Steps
    <3>2. BySlot(s)' /\ owed' = owed
      BY <2>6, <3>1 DEF BySlot, past
    <3> QED
      BY <1>1, <2>3, <2>4, <2>6, <3>1, <3>2, SlotSeen
  <2> QED
    BY <1>3, <2>1, <2>5, <2>6
<1>6. CASE Disconnected(s)
  <2> DEFINE a == [app EXCEPT !.active = FALSE, !.phase = "idle"]
  <2>1. /\ pc[s] = "disconnect"
        /\ \/ ~Ok(s)
           \/ Done(s, a, TRUE)
           \/ app' = a /\ Await(s, "remove", None, local[s]) /\ UNCHANGED past
    BY <1>6 DEF Disconnected, Answered
  <2>2. a \in Apps /\ a.gen = app.gen /\ a.timer = app.timer /\ a.phase = "idle"
    BY <1>2 DEF Apps
  <2>3. ~BySlot(s)
    BY <1>1, <2>1 DEF BySlot
  <2> HIDE DEF a
  <2>4. CASE Done(s, a, TRUE)
    BY <1>4, <2>2, <2>3, <2>4
  <2>5. CASE app' = a /\ Await(s, "remove", None, local[s]) /\ UNCHANGED past
    <3>1. OnlyMoves(s) /\ pc'[s] = "remove" /\ ~call'[s].answered
      BY <1>1, <1>2, <2>5, AwaitOnly DEF Steps
    <3>2. BackBySlot(s)' /\ owed' = owed
      BY <2>5, <3>1 DEF BackBySlot, past
    <3> QED
      BY <1>1, <2>2, <2>3, <2>5, <3>1, <3>2, SlotSeen
  <2> QED
    BY <1>3, <2>1, <2>4, <2>5
<1>7. CASE PeerRemoved(s)
  <2>1. pc[s] = "remove" /\ Done(s, app, FALSE)
    BY <1>7 DEF PeerRemoved, Answered
  <2>2. ~BySlot(s) /\ ~BackBySlot(s)
    BY <1>1, <2>1 DEF BySlot, BackBySlot
  <2> QED
    BY <1>2, <1>4, <2>1, <2>2
<1> QED
  BY <1>5, <1>6, <1>7

-----------------------------------------------------------------------------
(***************************************************************************)
(* The second invariant.                                                   *)
(***************************************************************************)
\* The selection, the link to the core and the core itself change beside what is under way.
LEMMA BesideSeen ==
    ASSUME IInv, Seen,
           (\E e \in Exits : Select(e)) \/ SignIn \/ Reach \/ Expired \/ Revoke \/ HomeGone
    PROVE  Seen'
<1>1. "load" \in Tasks /\ TaskTypes /\ app \in Apps
  BY TasksApart, TypeParts DEF IInv
<1>2. app'.gen = app.gen /\ app'.timer = app.timer /\ app'.phase = app.phase
  BY <1>1 DEF Select, SignIn, Reach, Expired, Revoke, HomeGone, Apps
<1>3. UNCHANGED <<tunnel, owed>> /\ peer' \in {peer, None} /\ (revoked' => revoked \/ peer' = None)
  BY DEF Select, SignIn, Reach, Expired, Revoke, HomeGone, world, core, past
<1>4. CASE UNCHANGED <<pc, call, local>>
  BY <1>2, <1>3, <1>4, AsideSeen
<1>5. CASE SignIn /\ Await("load", "exits", None, NoLocal)
  <2>1. OnlyMoves("load")
    BY <1>1, <1>5, AwaitOnly, NoneTypes DEF Steps
  <2>2. ByRestore => ByRestore' \/ app'.timer
    BY <1>2, <2>1, RestoreKept
  <2>3. UNCHANGED <<tunnel, peer, revoked, owed>>
    BY <1>5 DEF SignIn, world, past
  <2> QED
    BY <1>2, <2>1, <2>2, <2>3, ReaderSeen
<1> QED
  BY <1>4, <1>5 DEF Select, SignIn, Reach, Expired, Revoke, HomeGone

LEMMA InitSeen == Init => JInv
<1> SUFFICES ASSUME Init PROVE Seen
  BY DEF JInv
<1>1. \A t \in Tasks : pc[t] = (IF t = "restore" THEN "status" ELSE "idle")
                       /\ call[t] = NoCall /\ local[t] = NoLocal
  BY DEF Init
<1>2. /\ {"restore", "refresh", "connect"} \subseteq Tasks /\ \A s \in Slots : pc[s] = "idle"
      /\ pc["connect"] = "idle" /\ pc["refresh"] = "idle" /\ pc["restore"] = "status"
      /\ \A t \in Tasks : ~call[t].answered
  BY <1>1, TasksApart DEF NoCall
<1>3. app.phase = "idle" /\ app.gen = local["restore"].gen
  BY <1>1, <1>2 DEF Init, Fresh, NoLocal
<1>4. Sound /\ Rising /\ Polled
  BY <1>2 DEF Sound, Rising, Below, Polled
<1>5. Tended
  BY <1>2, <1>3 DEF Tended, ByRestore, Idle, Current
<1>6. peer = tunnel /\ ~revoked
  BY DEF Init
<1> QED
  BY <1>2, <1>4, <1>5, <1>6 DEF Seen, Accounted, Withdrawn

LEMMA StepSeen == IInv /\ JInv /\ [Next]_vars => JInv'
<1> SUFFICES ASSUME IInv, JInv, [Next]_vars, Calm' PROVE Seen'
  BY DEF JInv
<1>1. Calm /\ Seen
  BY CalmBefore DEF JInv
<1>2. ~Fault
  BY FaultCounts
<1>3. ASSUME NEW t \in Tasks, Serve(t) PROVE Seen'
  BY <1>1, <1>3, ServedSeen
<1>4. ASSUME NEW t \in Tasks, GoesOn(t) PROVE Seen'
  <2>1. CASE RestoreStatus \/ RestoreSelection \/ LoadExits \/ LoadStatus \/ RefreshStatus
             \/ RefreshExits
    BY <1>1, <2>1, RestoreSeen, LoadSeen, RefreshSeen
  <2>2. CASE ConnectSteps
    BY <1>1, <2>2, ConnectStatusSeen, RegisterSeen, SelectedSeen, ConnectedSeen, LastSeen
    DEF ConnectSteps
  <2>3. CASE t \in Slots /\ (DisconnectStatus(t) \/ Disconnected(t) \/ PeerRemoved(t))
    BY <1>1, <2>3, SlotStepsSeen
  <2> QED
    BY <1>4, <2>1, <2>2, <2>3 DEF GoesOn
<1>12. ASSUME NEW t \in Tasks, Unauthorized(t) PROVE Seen'
  BY <1>1, <1>12, UnauthorizedSeen
<1>5. \A t \in Tasks : ~Fail(t) /\ ~SaysInactive(t) /\ ~Abandon(t)
  BY <1>2 DEF Fail, SaysInactive, Abandon, MayFail
<1>6. ~ServeStray /\ ~StoppedOutside
  BY <1>1, <1>2 DEF ServeStray, StoppedOutside, IInv, Reliable
<1>7. CASE Load \/ Refresh \/ Connect
  BY <1>1, <1>7, LoadSeen, RefreshSeen, ConnectBeginsSeen
<1>8. CASE \E s \in Slots : PanelDisconnect(s) \/ CoreDisconnect(s) \/ Rejected(s)
  BY <1>1, <1>8, AskedSeen
<1>9. CASE (\E e \in Exits : Select(e)) \/ SignIn \/ Reach \/ Expired \/ Revoke \/ HomeGone
  BY <1>1, <1>9, BesideSeen
<1>10. ~Restart
  <2>1. count.restarts \in Nat
    BY TypeParts, BoundsAssumption DEF IInv, PastTypes
  <2> QED
    BY <2>1, CalmOver DEF Restart
<1>11. CASE UNCHANGED vars
  BY <1>1, <1>11, AsideSeen DEF vars
<1> QED
  BY <1>3, <1>4, <1>5, <1>6, <1>7, <1>8, <1>9, <1>10, <1>11, <1>12 DEF Next

\* In every state of VPNController in which no call has failed, somebody sees to the tunnel and
\* to the registration.
THEOREM SeenHolds == Spec => []JInv
<1>1. IInv /\ JInv /\ [Next]_vars => (IInv /\ JInv)'
  BY StepHolds, StepSeen
<1>2. Init => IInv /\ JInv
  BY InitHolds, InitSeen
<1>3. IInv /\ JInv => JInv
  OBVIOUS
<1> QED
  BY <1>1, <1>2, <1>3, PTL DEF Spec

LEMMA SettledSeen ==
    ASSUME Seen, Settled
    PROVE  /\ tunnel # None => app.timer
           /\ tunnel = None /\ ~owed => peer = None
<1>1. pc["connect"] = "idle" /\ pc["restore"] = "idle" /\ \A s \in Slots : pc[s] = "idle"
  BY TasksApart DEF Settled, Idle
<1>2. tunnel # None => app.timer
  BY <1>1 DEF Seen, Tended, ByRestore, ByConnect, BySlot
<1>3. tunnel = None /\ ~owed => peer = None
  BY <1>1 DEF Seen, Accounted, BackByConnect, BackBySlot
<1> QED
  BY <1>2, <1>3

\* Once nothing is under way a tunnel that is up is polled for, whatever readings of the status
\* load, refresh, restoreStatus and connect applied late (vpn_controller.dart), so that the panel
\* comes to offer its Disconnect, if no call failed and the app did not end in the middle of one.
THEOREM DisconnectableCorrect == Spec => []Inv
<1>1. IInv /\ JInv => Inv
  BY SettledSeen DEF IInv, JInv, Calm, Inv, Disconnectable
<1> QED
  BY <1>1, InvariantHolds, SeenHolds, PTL

\* Once nothing is under way and the tunnel is down, the registration a connect made was given
\* back, by connect's finally or by disconnect, unless there was no session to do it with
\* or the core had rejected the device (vpn_controller.dart), if no call failed and the app did not end in the middle of one.
THEOREM GivenBackCorrect == Spec => []PeerGivenBack
<1>1. JInv => PeerGivenBack
  BY SettledSeen DEF JInv, Calm, PeerGivenBack
<1> QED
  BY <1>1, SeenHolds, PTL

-----------------------------------------------------------------------------
(***************************************************************************)
(* The supervisor of Windows: the inductive invariant, in parts.           *)
(***************************************************************************)
\* Execute stops a supervisor once, and install starts one only when there is none.
StopsOnce ==
    /\ sup # "stopping" => where[Stop] = "idle"
    /\ installer = "starts" => sup \in {"absent", "stopped"}

\* A tunnel that is down has no configuration.
DownIsClean == tun.state \in Down => tun.conf = Nil

\* A handler past stopTunnel connects, and the tunnel is down.
PastStop ==
    \A t \in Threads : where[t] \in {"write", "start"} => conf[t] # Nil /\ tun.state \in Down

\* After a disconnect nobody who holds the mutex connects.
OffIsOff ==
    off => tun.state \in Down /\ \A t \in Threads : where[t] \in Holding => conf[t] = Nil

WindowsIInv == WindowsTypeOK /\ StopsOnce /\ DownIsClean /\ PastStop /\ OffIsOff /\ ConfigCurrent

-----------------------------------------------------------------------------
(***************************************************************************)
(* The types of the supervisor.                                            *)
(***************************************************************************)
Counts == [requests : 0..MaxRequests, installs : 0..MaxInstalls, stops : 0..MaxStops,
           faults : 0..MaxFaults]

\* A spent goes up by one, and not over its bound.
LEMMA BoundedType ==
  ASSUME WindowsTypeOK
  PROVE  /\ Bounded("requests", MaxRequests) => spent' \in Counts
         /\ Bounded("installs", MaxInstalls) => spent' \in Counts
         /\ Bounded("stops", MaxStops) => spent' \in Counts
         /\ Bounded("faults", MaxFaults) => spent' \in Counts
  BY WindowsBounds DEF WindowsTypeOK, Bounded, Counts

\* The types of who holds the mutex.
Held(owner, places, confs) ==
    /\ owner \in Threads \cup {Nil}
    /\ places \in [Threads -> {"idle", "lock", "exit"} \cup Holding]
    /\ \A t \in Threads : places[t] \in Holding <=> owner = t
    /\ confs \in [Threads -> Configs \cup {Nil}]

\* Giving the mutex back, moving on with it, and the end of the process keep those types.
LEMMA HeldKept ==
  ASSUME WindowsTypeOK, NEW t \in Threads
  PROVE  /\ where[t] \in Holding /\ Release(t) => Held(mu', where', conf')
         /\ \A at \in Holding : where[t] \in Holding /\ Goto(t, at) => Held(mu, where', conf)
         /\ Dies => Held(mu', where', conf')
         /\ where[Stop] = "idle" /\ Control => Held(mu, where', conf)
  <1>1. Held(mu, where, conf)
    BY DEF WindowsTypeOK, Held
  <1> QED
    BY <1>1, NoConfig DEF Held, Release, Goto, Dies, Control, Threads, Holding, Stop

\* Every step keeps the types.
LEMMA TypeStep ==
  ASSUME WindowsTypeOK, StopsOnce, [WindowsNext]_windowsVars
  PROVE  WindowsTypeOK'
  <1> USE DEF Counts
  <1>1. ASSUME NEW r \in Handlers, NEW c \in Configs \cup {Nil}, Ask(r, c)
        PROVE  WindowsTypeOK'
    <2>1. spent' \in Counts
      BY <1>1, BoundedType DEF Ask
    <2> QED
      BY <1>1, <2>1, NoConfig DEF Ask, Goto, Threads, Holding, WindowsTypeOK
  <1>2. ASSUME NEW t \in Threads, Lock(t)
        PROVE  WindowsTypeOK'
    BY <1>2, NoConfig DEF Lock, Goto, Threads, Holding, Stop, WindowsTypeOK
  <1>3. ASSUME NEW t \in Threads, Query(t) \/ Wait(t)
        PROVE  WindowsTypeOK'
    <2>1. where[t] \in Holding
      BY <1>3 DEF Query, Wait, Holding
    <2>2. CASE StopDone(t) \/ StopFailed(t)
      <3>1. Held(mu', where', conf')
        BY <2>1, <2>2, HeldKept DEF StopDone, StopFailed, WindowsTypeOK, Held, Holding
      <3>2. file' \in Configs \cup {Nil} /\ off' \in BOOLEAN /\ sup' = sup
        BY <2>2 DEF StopDone, StopFailed, WindowsTypeOK
      <3> QED
        BY <1>3, <3>1, <3>2 DEF Query, Wait, WindowsTypeOK, Held
    <2>3. CASE ~(StopDone(t) \/ StopFailed(t))
      BY <1>3, <2>1, <2>3, HeldKept DEF Query, Wait, WindowsTypeOK, Held, Holding
    <2> QED
      BY <2>2, <2>3
  <1>4. ASSUME NEW t \in Threads, Write(t) \/ Start(t) \/ Poll(t)
        PROVE  WindowsTypeOK'
    <2>1. where[t] \in Holding
      BY <1>4 DEF Write, Start, Poll, Holding
    <2>2. Held(mu', where', conf')
      BY <1>4, <2>1, HeldKept DEF Write, Start, Poll, Holding
    <2> QED
      BY <1>4, <2>2 DEF Write, Start, Poll, WindowsTypeOK, Held
  <1>5. ASSUME NEW t \in Threads, SystemFails(t)
        PROVE  WindowsTypeOK'
    BY <1>5, HeldKept, BoundedType DEF SystemFails, WindowsTypeOK, Held
  <1>6. CASE Exit \/ ServeFails \/ Reboot
    <2>1. Held(mu', where', conf')
      BY <1>6, HeldKept DEF Exit, ServeFails, Reboot, Threads
    <2>2. spent' \in Counts
      BY <1>6, BoundedType DEF Exit, ServeFails, Reboot, WindowsTypeOK
    <2> QED
      BY <1>6, <2>1, <2>2 DEF Exit, ServeFails, Reboot, WindowsTypeOK, Held
  <1>7. CASE StopService \/ InstallBegins
    <2>1. Held(mu', where', conf')
      <3>1. CASE Control
        BY <1>7, <3>1, HeldKept DEF StopService, InstallBegins, StopsOnce, Control, Threads
      <3>2. CASE where' = where
        BY <1>7, <3>2 DEF StopService, InstallBegins, WindowsTypeOK, Held
      <3> QED
        BY <1>7, <3>1, <3>2 DEF StopService, InstallBegins
    <2>2. spent' \in Counts
      BY <1>7, BoundedType DEF StopService, InstallBegins
    <2> QED
      BY <1>7, <2>1, <2>2 DEF StopService, InstallBegins, Control, WindowsTypeOK, Held
  <1>8. CASE TunnelReads \/ TunnelUp \/ TunnelEnds
    BY <1>8 DEF TunnelReads, TunnelUp, TunnelEnds, Tunnel, WindowsTypeOK
  <1>9. CASE InstallWrites \/ InstallStarts
    BY <1>9 DEF InstallWrites, InstallStarts, WindowsTypeOK
  <1>10. CASE InstallFails
    BY <1>10, BoundedType DEF InstallFails, WindowsTypeOK
  <1>11. CASE UNCHANGED windowsVars
    BY <1>11 DEF windowsVars, WindowsTypeOK
  <1> QED
    BY <1>1, <1>2, <1>3, <1>4, <1>5, <1>6, <1>7, <1>8, <1>9, <1>10, <1>11 DEF WindowsNext, Handle

-----------------------------------------------------------------------------
(***************************************************************************)
(* The supervisor and its installer.                                       *)
(***************************************************************************)
\* A stop begins at a supervisor that runs and ends with it.
LEMMA StopsOnceStep ==
  ASSUME WindowsTypeOK, StopsOnce, [WindowsNext]_windowsVars
  PROVE  StopsOnce'
  <1> USE DEF StopsOnce
  <1>1. ASSUME NEW r \in Handlers, NEW c \in Configs \cup {Nil}, Ask(r, c)
        PROVE  StopsOnce'
    BY <1>1, NoConfig DEF Ask, Goto, Threads, Stop, WindowsTypeOK
  <1>2. ASSUME NEW t \in Threads, Handle(t) \/ SystemFails(t)
        PROVE  StopsOnce'
    <2>1. sup' = sup /\ installer' = installer
      BY <1>2 DEF Handle, SystemFails, Lock, Query, Wait, Write, Start, Poll, StopDone, StopFailed
    <2>2. where[t] # "idle" /\ where' = [where EXCEPT ![t] = where'[t]]
      BY <1>2 DEF Handle, SystemFails, Lock, Query, Wait, Write, Start, Poll, StopDone, StopFailed,
                  Release, Goto, Holding, WindowsTypeOK
    <2> QED
      BY <2>1, <2>2 DEF WindowsTypeOK, Threads
  <1>3. CASE Exit \/ ServeFails \/ Reboot
    BY <1>3 DEF Exit, ServeFails, Reboot, Dies, Threads
  <1>4. CASE StopService \/ InstallBegins
    BY <1>4 DEF StopService, InstallBegins, Control
  <1>5. CASE InstallWrites \/ InstallStarts \/ InstallFails
    BY <1>5 DEF InstallWrites, InstallStarts, InstallFails, InUse, WindowsTypeOK
  <1>6. CASE TunnelReads \/ TunnelUp \/ TunnelEnds \/ UNCHANGED windowsVars
    BY <1>6 DEF TunnelReads, TunnelUp, TunnelEnds, Tunnel, windowsVars
  <1> QED
    BY <1>1, <1>2, <1>3, <1>4, <1>5, <1>6 DEF WindowsNext

-----------------------------------------------------------------------------
(***************************************************************************)
(* The tunnel, its file and the handlers.                                  *)
(***************************************************************************)
TunnelFacts == DownIsClean /\ PastStop /\ OffIsOff /\ ConfigCurrent

\* Only who holds the mutex is between Holding's steps.
LEMMA OneHolder ==
  ASSUME WindowsTypeOK, NEW t \in Threads, where[t] \in Holding,
         NEW u \in Threads, where[u] \in Holding
  PROVE  u = t
  BY DEF WindowsTypeOK

\* A handler that ends leaves nobody with the mutex.
LEMMA Released ==
  ASSUME WindowsTypeOK, NEW t \in Threads, where[t] \in Holding, Release(t)
  PROVE  \A u \in Threads : where'[u] \notin Holding
  BY OneHolder DEF WindowsTypeOK, Release, Goto, Holding

\* stopTunnel leaves the tunnel down or going down, and only then does connect go on.
LEMMA StopStep ==
  ASSUME WindowsTypeOK, TunnelFacts, NEW t \in Threads, Query(t) \/ Wait(t)
  PROVE  TunnelFacts'
  <1> USE DEF TunnelFacts, DownIsClean, PastStop, OffIsOff, ConfigCurrent
  <1>1. where[t] \in Holding /\ where[t] \notin {"write", "start"}
    BY DEF Query, Wait, Holding
  <1>2. CASE StopFailed(t) /\ UNCHANGED tun
    <2>1. \A u \in Threads : where'[u] \notin Holding
      BY <1>1, <1>2, Released DEF StopFailed
    <2> QED
      BY <1>2, <2>1 DEF StopFailed, Holding
  <1>3. CASE StopDone(t) /\ UNCHANGED tun /\ tun.state \in Down /\ conf[t] = Nil
    <2>1. \A u \in Threads : where'[u] \notin Holding
      BY <1>1, <1>3, Released DEF StopDone
    <2> QED
      BY <1>3, <2>1 DEF StopDone, Holding
  <1>4. CASE StopDone(t) /\ UNCHANGED tun /\ tun.state \in Down /\ conf[t] # Nil
    <2>1. /\ where' = [where EXCEPT ![t] = "write"]
          /\ UNCHANGED <<conf, file, off, tun>>
      BY <1>4 DEF StopDone, Goto
    <2> QED
      BY <1>1, <1>4, <2>1 DEF WindowsTypeOK, Holding
  <1>5. CASE /\ tun.state = "running" /\ tun' = [tun EXCEPT !.state = "stopping"]
             /\ where' = [where EXCEPT ![t] = "wait"] /\ UNCHANGED <<conf, file, off>>
    <2>1. \A u \in Threads : where'[u] \notin {"write", "start"}
      BY <1>1, <1>5, OneHolder DEF WindowsTypeOK, Holding
    <2> QED
      BY <1>5, <2>1 DEF WindowsTypeOK, Down
  <1> QED
    BY <1>2, <1>3, <1>4, <1>5 DEF Query, Wait, Goto, Down

\* Every step keeps the tunnel in line with its file and with what was asked for.
LEMMA TunnelStep ==
  ASSUME WindowsTypeOK, TunnelFacts, [WindowsNext]_windowsVars
  PROVE  TunnelFacts'
  <1> USE DEF TunnelFacts, DownIsClean, PastStop, OffIsOff, ConfigCurrent
  <1>1. ASSUME NEW r \in Handlers, NEW c \in Configs \cup {Nil}, Ask(r, c)
        PROVE  TunnelFacts'
    BY <1>1 DEF Ask, Goto, Threads, Holding, WindowsTypeOK
  <1>2. ASSUME NEW t \in Threads, Lock(t)
        PROVE  TunnelFacts'
    <2>1. \A u \in Threads : where[u] \notin Holding
      BY <1>2, NoConfig DEF Lock, Threads, Stop, WindowsTypeOK
    <2> QED
      BY <1>2, <2>1 DEF Lock, Goto, Holding, WindowsTypeOK
  <1>3. ASSUME NEW t \in Threads, Query(t) \/ Wait(t)
        PROVE  TunnelFacts'
    BY <1>3, StopStep
  <1>4. ASSUME NEW t \in Threads, Write(t)
        PROVE  TunnelFacts'
    BY <1>4 DEF Write, Goto, Holding, WindowsTypeOK
  <1>5. ASSUME NEW t \in Threads, Start(t)
        PROVE  TunnelFacts'
    <2>1. where[t] \in Holding
      BY <1>5 DEF Start, Holding
    <2>2. CASE tun.state \in Down
      <3>1. ~off
        BY <1>5, <2>1 DEF Start
      <3>2. \A u \in Threads : where'[u] \notin {"write", "start"}
        BY <1>5, <2>1, <2>2, OneHolder DEF Start, Goto, Holding, WindowsTypeOK
      <3> QED
        BY <1>5, <2>2, <3>1, <3>2 DEF Start, Down
    <2>3. CASE tun.state \notin Down
      BY <1>5, <2>1, <2>3, Released DEF Start, Holding
    <2> QED
      BY <2>2, <2>3
  <1>6. ASSUME NEW t \in Threads, Poll(t) \/ SystemFails(t)
        PROVE  TunnelFacts'
    <2>1. \A u \in Threads : where'[u] \notin Holding
      BY <1>6, Released DEF Poll, SystemFails, Holding
    <2> QED
      BY <1>6, <2>1 DEF Poll, SystemFails, Holding
  <1>7. CASE Exit \/ ServeFails \/ Reboot
    <2>1. \A u \in Threads : where'[u] \notin Holding
      BY <1>7 DEF Exit, ServeFails, Reboot, Dies, Holding
    <2> QED
      BY <1>7, <2>1 DEF Exit, ServeFails, Reboot, Holding, Down
  <1>8. CASE StopService \/ InstallBegins
    <2>1. /\ UNCHANGED <<conf, tun, file, off>>
          /\ \A u \in Threads : where'[u] \in Holding => where'[u] = where[u]
      BY <1>8 DEF StopService, InstallBegins, Control, Goto, Holding, WindowsTypeOK
    <2> QED
      BY <2>1 DEF Holding
  <1>9. CASE TunnelReads \/ TunnelUp \/ TunnelEnds
    BY <1>9 DEF TunnelReads, TunnelUp, TunnelEnds, Tunnel, Down
  <1>10. CASE InstallWrites \/ InstallStarts \/ InstallFails \/ UNCHANGED windowsVars
    BY <1>10 DEF InstallWrites, InstallStarts, InstallFails, windowsVars
  <1> QED
    BY <1>1, <1>2, <1>3, <1>4, <1>5, <1>6, <1>7, <1>8, <1>9, <1>10 DEF WindowsNext, Handle

-----------------------------------------------------------------------------
(***************************************************************************)
(* What holds of the supervisor.                                           *)
(***************************************************************************)
\* The inductive invariant holds in every state.
LEMMA WindowsInductive == WindowsSpec => []WindowsIInv
  <1>1. WindowsInit => WindowsIInv
    <2> SUFFICES ASSUME WindowsInit
                 PROVE  WindowsIInv
      OBVIOUS
    <2>1. WindowsTypeOK
      <3>1. spent \in Counts
        BY WindowsBounds DEF WindowsInit, Counts
      <3>2. Held(mu, where, conf)
        BY NoConfig DEF WindowsInit, Held, Threads, Holding, Stop
      <3> QED
        BY <3>1, <3>2 DEF WindowsInit, WindowsTypeOK, Held, Counts
    <2>2. StopsOnce /\ DownIsClean /\ PastStop /\ OffIsOff /\ ConfigCurrent
      BY DEF WindowsInit, StopsOnce, DownIsClean, PastStop, OffIsOff, ConfigCurrent, Threads
    <2> QED
      BY <2>1, <2>2 DEF WindowsIInv
  <1>2. WindowsIInv /\ [WindowsNext]_windowsVars => WindowsIInv'
    BY TypeStep, StopsOnceStep, TunnelStep DEF WindowsIInv, TunnelFacts
  <1> QED
    BY <1>1, <1>2, PTL DEF WindowsSpec

\* What runs is what EasyPrivacy.conf says, and the mutex is held by the handler that is past
\* its lock, whatever gave up or was replaced meanwhile (connect and stopTunnel,
\* native/windows-vpn/main_windows.go).
THEOREM RunsItsFile == WindowsSpec => []WindowsInv
  <1>1. WindowsIInv => WindowsInv
    BY DEF WindowsIInv, WindowsInv
  <1> QED
    BY <1>1, WindowsInductive, PTL

\* After a disconnect that succeeded no tunnel comes up until a connect has the mutex (the
\* disconnect handler and stopTunnel, native/windows-vpn/main_windows.go).
THEOREM DisconnectFinal == WindowsSpec => []DisconnectHolds
  <1>1. WindowsIInv => DisconnectHolds
    BY DEF WindowsIInv, OffIsOff, DisconnectHolds
  <1> QED
    BY <1>1, WindowsInductive, PTL

==============================================================================
