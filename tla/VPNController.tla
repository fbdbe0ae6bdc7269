---------------------------- MODULE VPNController ----------------------------
(***************************************************************************)
(* The app's control of its tunnel (app/lib/vpn_controller.dart): connect, *)
(* disconnect, load, refresh and restoreStatus run in one isolate and meet *)
(* at every await.  What they await - the native helper, the key store,    *)
(* the core - serves calls in any order, and may fail or serve a call the  *)
(* app has given up.                                                       *)
(*                                                                         *)
(* One step runs from an await to the next one.  The core link             *)
(* (core_controller.dart) is only as much as this controller sees of it.   *)
(***************************************************************************)
EXTENDS Naturals, FiniteSets

CONSTANTS
    Exits,         \* exits a core can offer
    First,         \* the one it lists first: the VPS
    None,          \* not an exit
    Slots,         \* calls of disconnect that can be under way together
    MaxAsks,       \* bound: calls of connect and disconnect in one life of the app, of
                   \*   which a rejection may make one more
    MaxSignIns,    \* bound: sign-ins of the app at the core
    MaxEvents      \* bound: calls that fail, restarts of the app, tunnels stopped outside
                   \*   the app, and outages, expiries, revocations, exits lost at the core
                   \*   and sign-ins that it loses half way

ASSUME ExitsAssumption == First \in Exits /\ None \notin Exits
\* A call of disconnect is a task of its own.
ASSUME SlotsAssumption == Slots \cap {"restore", "load", "refresh", "connect"} = {}
ASSUME BoundsAssumption == MaxAsks \in Nat /\ MaxSignIns \in Nat /\ MaxEvents \in Nat

VARIABLES
    tunnel,     \* device: the exit its tunnel is up to
    installed,  \* device: the helper is there
    saved,      \* device: the selection in the key store
    peer,       \* core: the exit this device is registered for
    offered,    \* core: the exits it offers
    revoked,    \* core: this device was revoked
    session,    \* CoreController: hasSession and phase
    app,        \* the fields of VPNController
    pc,         \* what each task awaits
    call,       \* the call it awaits, and the answer once there is one
    local,      \* its local variables
    strays,     \* calls nobody awaits any more that can still be served
    stopped,    \* history: generation of the last disconnect that returned true
    owed,       \* history: a registration was not given back, for want of a session or
                \*   because the core had rejected the device
    count       \* calls failed, sign-ins, restarts and other events so far
vars == <<tunnel, installed, saved, peer, offered, revoked, session, app, pc, call, local,
          strays, stopped, owed, count>>
past == <<stopped, owed>>
world == <<tunnel, installed, saved, peer>>
core == <<offered, revoked, session>>
\* All but the controller's own state.
Still == UNCHANGED <<world, core, strays, past, count>>

Tasks == {"restore", "load", "refresh", "connect"} \cup Slots
Kinds == {"status", "install", "connect", "disconnect", "key", "select", "selection",
          "exits", "register", "remove"}
\* Calls that change something when they are served late.
Lasting == {"connect", "disconnect", "register", "remove"}

Request(kind, exit) == [kind |-> kind, exit |-> exit]
Requests == [kind : Kinds, exit : Exits \cup {None}]
NoCall == [made |-> Request("status", None), answered |-> FALSE, ok |-> FALSE, exit |-> None,
           found |-> {}]
NoLocal == [gen |-> 0, exit |-> None, registered |-> FALSE, found |-> {}, kind |-> "none"]
Fresh == [phase |-> "idle", active |-> FALSE, timer |-> FALSE, scope |-> FALSE,
          exits |-> {}, ready |-> {}, selected |-> None, gen |-> 0]

TypeOK ==
    /\ tunnel \in Exits \cup {None}
    /\ installed \in BOOLEAN
    /\ saved \in Exits \cup {None}
    /\ peer \in Exits \cup {None}
    /\ offered \in SUBSET Exits
    /\ revoked \in BOOLEAN
    /\ session \in {"none", "ok", "unreachable"}
    /\ app \in [phase : {"idle", "provisioning", "up", "disconnecting"}, active : BOOLEAN,
                timer : BOOLEAN, scope : BOOLEAN, exits : SUBSET Exits, ready : SUBSET Exits,
                selected : Exits \cup {None}, gen : 0..MaxAsks + 1]
    /\ pc \in [Tasks -> {"idle", "status", "selection", "exits", "install", "key", "register",
                         "select", "connect", "cancelled", "check", "failed", "disconnect",
                         "remove"}]
    /\ call \in [Tasks -> [made : Requests, answered : BOOLEAN, ok : BOOLEAN,
                           exit : Exits \cup {None}, found : SUBSET Exits]]
    /\ local \in [Tasks -> [gen : 0..MaxAsks + 1, exit : Exits \cup {None},
                            registered : BOOLEAN, found : SUBSET Exits,
                            kind : {"none", "panel", "core", "lost"}]]
    /\ strays \subseteq Requests
    /\ stopped \in 0..MaxAsks + 1 /\ owed \in BOOLEAN
    /\ count \in [faults : 0..MaxEvents, signIns : 0..MaxSignIns, restarts : 0..MaxEvents,
                 turns : 0..MaxEvents, lapses : 0..MaxEvents]

Idle(t) == pc[t] = "idle"
Busy == ~Idle("connect")
\* VPNController.active: what makes the panel offer Disconnect.
Active(a) == a.active \/ a.phase = "up"
\* Connect and disconnect alone end the generation of what began before them.
Current(t) == local[t].gen = app.gen

Init ==
    /\ tunnel \in {None, First}
    /\ installed = (tunnel # None) /\ saved = tunnel /\ peer = tunnel
    /\ offered = Exits /\ revoked = FALSE /\ session = "none"
    /\ app = Fresh
    /\ pc = [t \in Tasks |-> IF t = "restore" THEN "status" ELSE "idle"]
    /\ call = [t \in Tasks |-> NoCall]
    /\ local = [t \in Tasks |-> NoLocal]
    /\ strays = {} /\ stopped = 0 /\ owed = FALSE
    /\ count = [faults |-> 0, signIns |-> 0, restarts |-> 0, turns |-> 0,
                lapses |-> 0]

-----------------------------------------------------------------------------
(***************************************************************************)
(* Calls: an await, what serving it does, and how it can fail.             *)
(***************************************************************************)
Kind(at) == CASE at \in {"cancelled", "failed"} -> "disconnect"
              [] at = "check" -> "status"
              [] OTHER -> at

\* The task goes on to its next await, with these local variables.
Await(t, at, exit, l) ==
    /\ pc' = [pc EXCEPT ![t] = at]
    /\ call' = [call EXCEPT ![t] = [NoCall EXCEPT !.made = Request(Kind(at), exit)]]
    /\ local' = [local EXCEPT ![t] = l]

Return(t) ==
    /\ pc' = [pc EXCEPT ![t] = "idle"]
    /\ call' = [call EXCEPT ![t] = NoCall]
    /\ local' = [local EXCEPT ![t] = NoLocal]

Effect(r) ==
    /\ tunnel' = CASE r.kind = "connect" -> r.exit
                   [] r.kind = "disconnect" -> None
                   [] OTHER -> tunnel
    /\ installed' = (installed \/ r.kind = "install")
    /\ saved' = IF r.kind = "select" THEN r.exit ELSE saved
    /\ peer' = CASE r.kind = "register" /\ ~revoked /\ r.exit \in offered -> r.exit
                 [] r.kind = "remove" -> None
                 [] OTHER -> peer

Refused(r) ==
    \/ revoked /\ r.kind \in {"exits", "register", "remove"}
    \/ r.kind = "register" /\ r.exit \notin offered

Answer(t, ok, exit, found) ==
    call' = [call EXCEPT ![t].answered = TRUE, ![t].ok = ok, ![t].exit = exit, ![t].found = found]

Serve(t) ==
    /\ ~Idle(t) /\ ~call[t].answered
    /\ LET r == call[t].made IN
       /\ Effect(r)
       /\ Answer(t, ~Refused(r),
                 CASE r.kind = "status" -> tunnel [] r.kind = "selection" -> saved [] OTHER -> None,
                 IF r.kind = "exits" /\ ~revoked THEN offered ELSE {})
    /\ UNCHANGED <<core, app, pc, local, strays, past, count>>

\* The session a call was made with has ended at the core, which refuses it.
Unauthorized(t) ==
    /\ ~Idle(t) /\ ~call[t].answered /\ session = "none"
    /\ call[t].made.kind \in {"exits", "register", "remove"}
    /\ Answer(t, FALSE, None, {})
    /\ owed' = (owed \/ call[t].made.kind = "remove")
    /\ UNCHANGED <<world, core, app, pc, local, strays, stopped, count>>

MayHappen == count.faults + count.restarts + count.turns + count.lapses < MaxEvents
Fault == MayHappen /\ count' = [count EXCEPT !.faults = @ + 1]
Turn == MayHappen /\ count' = [count EXCEPT !.turns = @ + 1]

MayFail(t) == ~Idle(t) /\ ~call[t].answered /\ Fault

Fail(t) ==
    /\ MayFail(t) /\ Answer(t, FALSE, None, {})
    /\ UNCHANGED <<world, core, app, pc, local, strays, past>>

\* The Windows helper says "inactive" of a service it cannot reach.
SaysInactive(t) ==
    /\ MayFail(t) /\ call[t].made.kind = "status" /\ Answer(t, TRUE, None, {})
    /\ UNCHANGED <<world, core, app, pc, local, strays, past>>

\* The app gives the call up after its timeout, and it is served later or its answer was lost.
Abandon(t) ==
    /\ MayFail(t) /\ call[t].made.kind \in Lasting /\ Answer(t, FALSE, None, {})
    /\ strays' = strays \cup {call[t].made}
    /\ UNCHANGED <<world, core, app, pc, local, past>>

ServeStray ==
    \E r \in strays :
        /\ Effect(r) /\ strays' = strays \ {r}
        /\ UNCHANGED <<core, app, pc, call, local, past, count>>

Answered(t, at) == pc[t] = at /\ call[t].answered
Ok(t) == call[t].ok
\* The status that was read says that the tunnel is up.
Up(t) == call[t].exit # None

-----------------------------------------------------------------------------
(***************************************************************************)
(* restoreStatus, load and refresh.                                        *)
(***************************************************************************)
FirstOf(S) == CASE S = {} -> None [] First \in S -> First [] OTHER -> CHOOSE e \in S : TRUE

\* Mutant: the exit of the tunnel is not kept in the list.
ForgetExit(a, found, ready) ==
    [a EXCEPT !.exits = found, !.ready = ready, !.selected = IF @ \in found THEN @ ELSE FirstOf(found)]

\* _setExits: while a tunnel is up its exit stays in the list, as not ready.
SetExits(a, found, ready) ==
    LET kept == IF Active(a) /\ a.selected # None THEN found \cup {a.selected} ELSE found
    IN [a EXCEPT !.exits = kept, !.ready = ready,
                 !.selected = IF @ \in kept THEN @ ELSE FirstOf(kept)]

Shown(a) == [a EXCEPT !.phase = "up", !.timer = TRUE]

\* Mutant: a tunnel is restored only for an app that is signed in.
RestoreSignedIn ==
    /\ Answered("restore", "status") /\ Return("restore")
    /\ app' = [app EXCEPT !.active = Up("restore") /\ session = "ok"]
    /\ Still

RestoreStatus ==
    /\ Answered("restore", "status")
    /\ \/ /\ ~Ok("restore") \/ Busy \/ app.phase # "idle"
          /\ Return("restore") /\ UNCHANGED app
       \/ /\ Ok("restore") /\ ~Busy /\ app.phase = "idle"
          /\ app' = [app EXCEPT !.active = Up("restore")]
          /\ IF Up("restore") THEN Await("restore", "selection", None, local["restore"])
             ELSE Return("restore")
    /\ Still

RestoreSelection ==
    /\ Answered("restore", "selection")
    /\ LET a == IF Ok("restore") THEN [app EXCEPT !.selected = call["restore"].exit] ELSE app
       IN app' = IF Busy \/ ~Current("restore") THEN a
                 ELSE Shown(IF a.exits = {} THEN a ELSE SetExits(a, a.exits, a.ready))
    /\ Return("restore") /\ Still

Load ==
    /\ Idle("load") /\ ~Busy /\ ~Active(app) /\ session = "ok"
    /\ Await("load", "exits", None, NoLocal)
    /\ Still /\ UNCHANGED app

LoadExits ==
    /\ Answered("load", "exits")
    /\ IF Ok("load")
       THEN Await("load", "status", None, [NoLocal EXCEPT !.found = call["load"].found])
       ELSE Return("load")
    /\ Still /\ UNCHANGED app

LoadStatus ==
    /\ Answered("load", "status")
    /\ LET found == local["load"].found
           a == SetExits([app EXCEPT !.active = Up("load")], found, found)
       IN app' = IF ~Ok("load") THEN app ELSE IF Up("load") THEN Shown(a) ELSE a
    /\ Return("load") /\ Still

Refresh ==
    /\ app.timer /\ Idle("refresh") /\ ~Busy
    /\ Await("refresh", "status", None, [NoLocal EXCEPT !.gen = app.gen])
    /\ Still /\ UNCHANGED app

RefreshStatus ==
    /\ Answered("refresh", "status")
    /\ \/ /\ ~Ok("refresh") \/ ~Current("refresh")
          /\ Return("refresh") /\ UNCHANGED app
       \/ /\ Ok("refresh") /\ Current("refresh")
          /\ app' = IF Up("refresh") THEN [app EXCEPT !.active = TRUE, !.phase = "up"]
                    ELSE [app EXCEPT !.active = FALSE, !.phase = "idle", !.timer = FALSE]
          /\ \/ Return("refresh")
             \/ /\ Up("refresh") /\ session = "ok" /\ app.selected \in Exits \ {First}
                /\ Await("refresh", "exits", None, local["refresh"])
    /\ Still

RefreshExits ==
    /\ Answered("refresh", "exits")
    /\ app' = IF Ok("refresh") /\ Current("refresh")
              THEN SetExits(app, call["refresh"].found, call["refresh"].found) ELSE app
    /\ Return("refresh") /\ Still

Select(e) ==
    /\ ~Busy /\ ~Active(app) /\ e \in app.exits /\ e # app.selected
    /\ app' = [app EXCEPT !.selected = e]
    /\ UNCHANGED <<world, core, pc, call, local, strays, past, count>>

-----------------------------------------------------------------------------
(***************************************************************************)
(* connect.                                                                *)
(***************************************************************************)
Mine == local["connect"]
GoOn(at, exit, l) == Await("connect", at, exit, l) /\ UNCHANGED owed

\* Mutant: connect keeps its registration, however it ends.
KeepPeer(a, registered) ==
    app' = a /\ Return("connect") /\ owed' = (owed /\ registered)

\* finally: the registration is given back unless the tunnel is shown as up.
Finally(a, registered) ==
    /\ app' = a
    /\ LET back == registered /\ (Mine.gen # a.gen \/ a.phase = "idle") IN
       /\ IF back /\ session = "ok" THEN Await("connect", "remove", None, Mine)
          ELSE Return("connect")
       /\ owed' = (owed \/ (back /\ session # "ok"))

\* catch: a connect that was not superseded takes the tunnel down.
Caught ==
    \/ /\ Current("connect")
       /\ app' = [app EXCEPT !.phase = "idle"]
       /\ GoOn("failed", None, Mine)
    \/ ~Current("connect") /\ Finally(app, Mine.registered)

\* An await of connect ends: with an error, superseded, or as it should.
Resume(at, Superseded, Following) ==
    /\ Answered("connect", at)
    /\ \/ ~Ok("connect") /\ Caught
       \/ Ok("connect") /\ ~Current("connect") /\ Superseded
       \/ Ok("connect") /\ Current("connect") /\ Following
    /\ UNCHANGED <<world, core, strays, stopped, count>>

Connect ==
    /\ session # "none" /\ ~Busy /\ ~Active(app)
    /\ app.selected \in app.ready /\ app.gen < MaxAsks
    /\ app' = [app EXCEPT !.gen = @ + 1, !.phase = "provisioning"]
    /\ GoOn("status", None,
             [NoLocal EXCEPT !.gen = app.gen + 1, !.exit = app.selected])
    /\ Still

ConnectStatus ==
    LET a == [app EXCEPT !.active = Up("connect")]
    IN Resume("status", Finally(a, FALSE),
              \/ Up("connect") /\ Finally(Shown(a), FALSE)
              \/ /\ ~Up("connect") /\ app' = a
                 /\ GoOn(IF installed THEN "key" ELSE "install", None, Mine))

Install ==
    Resume("install", Finally(app, FALSE), UNCHANGED app /\ GoOn("key", None, Mine))

Key ==
    Resume("key", Finally(app, FALSE),
           \/ /\ session = "ok" /\ UNCHANGED app
              /\ GoOn("register", Mine.exit, Mine)
           \/ session # "ok" /\ Caught)

Register ==
    Resume("register", Finally(app, TRUE),
           /\ UNCHANGED app
           /\ GoOn("select", Mine.exit, [Mine EXCEPT !.registered = TRUE]))

Selected ==
    Resume("select", Finally(app, TRUE),
           /\ app' = [app EXCEPT !.phase = "up"]
           /\ GoOn("connect", Mine.exit, Mine))

\* Mutant: a connect that was superseded leaves the tunnel up.
ConnectedAnyway ==
    LET check == UNCHANGED app /\ GoOn("check", None, Mine) IN Resume("connect", check, check)

\* The tunnel came up for a connect that was superseded: it is taken down again.
Connected ==
    Resume("connect", UNCHANGED app /\ GoOn("cancelled", None, Mine),
           UNCHANGED app /\ GoOn("check", None, Mine))

Cancelled == Resume("cancelled", Finally(app, TRUE), FALSE)

\* The status after the tunnel came up is taken over without asking who is current.
Check ==
    LET shown == Finally(Shown([app EXCEPT !.active = Up("connect")]), TRUE)
    IN Resume("check", shown, shown)

Failed ==
    /\ Answered("connect", "failed")
    /\ Finally([app EXCEPT !.active = FALSE], Mine.registered)
    /\ UNCHANGED <<world, core, strays, stopped, count>>

Removed ==
    /\ Answered("connect", "remove")
    /\ Return("connect")
    /\ Still /\ UNCHANGED app

ConnectSteps ==
    \/ ConnectStatus \/ Install \/ Key \/ Register \/ Selected \/ Connected \/ Cancelled
    \/ Check \/ Failed \/ Removed

-----------------------------------------------------------------------------
(***************************************************************************)
(* disconnect, called by the panel, by the app's Disconnect and Forget,    *)
(* and when the core rejects the device.                                   *)
(***************************************************************************)
Disconnect(s, kind) ==
    LET a == [app EXCEPT !.gen = @ + 1, !.timer = FALSE, !.scope = @ /\ kind # "lost"]
        l == [NoLocal EXCEPT !.gen = app.gen + 1, !.kind = kind]
    IN /\ Idle(s)
       /\ \/ /\ ~Active(app) /\ ~Busy
             /\ app' = a /\ Await(s, "status", None, l)
          \/ /\ Active(app) \/ Busy
             /\ app' = [a EXCEPT !.phase = "disconnecting"]
             /\ Await(s, "disconnect", None, l)

\* disconnect returns true; the app's Disconnect then signs out of the core.
Done(s, a, back) ==
    /\ Return(s)
    /\ stopped' = IF local[s].gen > stopped THEN local[s].gen ELSE stopped
    /\ IF local[s].kind = "core"
       THEN session' = "none" /\ app' = [a EXCEPT !.scope = FALSE]
       ELSE UNCHANGED session /\ app' = a
    /\ owed' = (owed \/ back)
    /\ UNCHANGED <<offered, revoked>>

DisconnectStatus(s) ==
    /\ Answered(s, "status")
    /\ LET a == [app EXCEPT !.active = Up(s)] IN
       \/ ~Ok(s) /\ Return(s) /\ UNCHANGED <<core, app, past>>
       \/ Ok(s) /\ ~Up(s) /\ Done(s, a, FALSE)
       \/ /\ Ok(s) /\ Up(s) /\ app' = [a EXCEPT !.phase = "disconnecting"]
          /\ Await(s, "disconnect", None, local[s]) /\ UNCHANGED <<core, past>>
    /\ UNCHANGED <<world, strays, count>>

Disconnected(s) ==
    /\ Answered(s, "disconnect")
    /\ LET a == [app EXCEPT !.active = FALSE, !.phase = "idle"]
           back == local[s].kind # "lost"
       IN \/ ~Ok(s) /\ Return(s) /\ UNCHANGED <<core, app, past>>
          \/ Ok(s) /\ ~(back /\ session = "ok") /\ Done(s, a, TRUE)
          \/ /\ Ok(s) /\ back /\ session = "ok" /\ app' = a
             /\ Await(s, "remove", None, local[s]) /\ UNCHANGED <<core, past>>
    /\ UNCHANGED <<world, strays, count>>

PeerRemoved(s) ==
    /\ Answered(s, "remove") /\ Done(s, app, FALSE)
    /\ UNCHANGED <<world, strays, count>>

\* The panel's button shows Disconnect while active and is disabled while busy.
PanelDisconnect(s) ==
    /\ Active(app) /\ ~Busy /\ app.gen < MaxAsks
    /\ Disconnect(s, "panel")
    /\ Still

\* Disconnect of a connected core, and Forget of one that is not.
CoreDisconnect(s) ==
    /\ app.gen < MaxAsks
    /\ Disconnect(s, "core")
    /\ Still

-----------------------------------------------------------------------------
(***************************************************************************)
(* The core, the link to it (_coreChanged), and the end of the app.        *)
(***************************************************************************)
SignIn ==
    /\ session = "none" /\ ~revoked /\ count.signIns < MaxSignIns
    /\ session' = "ok" /\ count' = [count EXCEPT !.signIns = @ + 1]
    /\ app' = [app EXCEPT !.scope = TRUE]
    /\ IF ~app.scope /\ Idle("load") THEN Await("load", "exits", None, NoLocal)
       ELSE UNCHANGED <<pc, call, local>>
    /\ UNCHANGED <<world, offered, revoked, strays, past>>

\* Management is out and back: the session stays, and the tunnel with it.
Reach ==
    /\ \/ session = "ok" /\ session' = "unreachable" /\ Turn
       \/ session = "unreachable" /\ ~revoked /\ session' = "ok" /\ UNCHANGED count
    /\ UNCHANGED <<world, offered, revoked, app, pc, call, local, strays, past>>
\* Mutant: every end of a session stops the tunnel.
ExpiredStops ==
    /\ session # "none" /\ session' = "none" /\ Turn
    /\ \E s \in Slots : Disconnect(s, "lost")
    /\ UNCHANGED <<world, offered, revoked, strays, past>>

\* The session ended and could not be renewed, for no lack of authorization.
Expired ==
    /\ session # "none" /\ session' = "none" /\ Turn
    /\ app' = [app EXCEPT !.scope = FALSE]
    /\ UNCHANGED <<world, offered, revoked, pc, call, local, strays, past>>

Revoke ==
    /\ ~revoked /\ session # "none" /\ revoked' = TRUE /\ peer' = None /\ Turn
    /\ UNCHANGED <<tunnel, installed, saved, offered, session, app, pc, call, local, strays, past>>
Lapse == MayHappen /\ count' = [count EXCEPT !.lapses = @ + 1]

\* A sign-in or a renewal is answered with 401 or 403, and authorizationLost is set: the
\* device was revoked, or the core restarted, or let the challenge expire, between the
\* requests of the sign-in.
Rejected(s) ==
    /\ app.gen <= MaxAsks
    /\ (revoked /\ UNCHANGED count) \/ (~revoked /\ Lapse)
    /\ session' = "none"
    /\ Disconnect(s, "lost")
    /\ UNCHANGED <<world, offered, revoked, strays, past>>

\* The tunnel is stopped in the notification, or by its service.
StoppedOutside ==
    /\ tunnel # None /\ tunnel' = None /\ owed' = TRUE
    /\ Fault
    /\ UNCHANGED <<installed, saved, peer, core, app, pc, call, local, strays, stopped>>

HomeGone ==
    /\ offered # {First} /\ offered' = {First} /\ Turn
    /\ UNCHANGED <<world, revoked, session, app, pc, call, local, strays, past>>

\* The app ends and starts again; the calls it made are served or not.
Restart ==
    /\ MayHappen /\ count' = [count EXCEPT !.restarts = @ + 1]
    /\ app' = Fresh /\ session' = "none" /\ stopped' = 0 /\ owed' = FALSE
    /\ pc' = [t \in Tasks |-> IF t = "restore" THEN "status" ELSE "idle"]
    /\ call' = [t \in Tasks |-> NoCall] /\ local' = [t \in Tasks |-> NoLocal]
    /\ \E left \in SUBSET {call[t].made : t \in {u \in Tasks : ~Idle(u) /\ ~call[u].answered
                                                              /\ call[u].made.kind \in Lasting}} :
           strays' = strays \cup left
    /\ UNCHANGED <<world, offered, revoked>>

\* A task whose call was answered goes on.
GoesOn(t) ==
    \/ t = "restore" /\ (RestoreStatus \/ RestoreSelection)
    \/ t = "load" /\ (LoadExits \/ LoadStatus)
    \/ t = "refresh" /\ (RefreshStatus \/ RefreshExits)
    \/ t = "connect" /\ ConnectSteps
    \/ t \in Slots /\ (DisconnectStatus(t) \/ Disconnected(t) \/ PeerRemoved(t))

Next ==
    \/ \E t \in Tasks :
          Serve(t) \/ Unauthorized(t) \/ GoesOn(t) \/ Fail(t) \/ SaysInactive(t) \/ Abandon(t)
    \/ ServeStray
    \/ Load \/ Refresh \/ (\E e \in Exits : Select(e)) \/ Connect
    \/ \E s \in Slots : PanelDisconnect(s) \/ CoreDisconnect(s) \/ Rejected(s)
    \/ SignIn \/ Reach \/ Expired \/ Revoke \/ HomeGone \/ StoppedOutside \/ Restart

Spec == Init /\ [][Next]_vars

-----------------------------------------------------------------------------
(***************************************************************************)
(* Properties.                                                             *)
(***************************************************************************)
Settled == \A t \in Tasks : Idle(t)

\* disconnect returned true and nothing was asked since: the tunnel is down, whatever its
\* call met of connect, load and refresh (vpn_controller.dart, connect and disconnect), unless
\* a call failed, or the helper still serves a connect of a former life of the app.
DisconnectRestores ==
    count.faults + count.restarts = 0 /\ Settled /\ stopped > 0 /\ stopped = app.gen
        => tunnel = None

\* Once nothing is under way a tunnel that is up is polled for, before sign-in too, so that the
\* panel comes to offer its Disconnect, unless a call failed or the app ended in the middle of
\* one: a stale reading of load, connect or refresh does not hide it for good.
Disconnectable ==
    count.faults + count.restarts = 0 /\ Settled /\ tunnel # None => app.timer

\* The types, and what is shown.
Inv == TypeOK /\ Disconnectable

\* A registration whose tunnel did not stay up is given back (connect's finally and
\* disconnect), unless there was no session to do so when it came to it or when the core
\* served it, the core had rejected the device, or a call failed.
PeerGivenBack ==
    count.faults + count.restarts = 0 /\ Settled /\ tunnel = None /\ ~owed => peer = None

\* The exit shown for a tunnel stays the same while the tunnel does, whatever the core's
\* list of exits says meanwhile (_setExits).
SelectionKept ==
    [][Idle("restore") /\ app.phase = "up" /\ tunnel # None /\ tunnel' = tunnel /\ app.selected = tunnel
       => app'.selected = tunnel \/ app' = Fresh]_vars

\* The app takes a tunnel down in disconnect, or in a connect that failed or was superseded;
\* on behalf of the core (_coreChanged) not for an outage or the end of a session, but only
\* after a rejection: of a device that was revoked, or of one whose sign-in the core lost half
\* way.
OutagePreserves ==
    [][tunnel # None /\ tunnel' = None /\ call' # call =>
           \/ \E s \in Slots :
                 /\ pc[s] = "disconnect"
                 /\ local[s].kind = "lost" => revoked \/ count.lapses > 0
           \/ pc["connect"] \in {"cancelled", "failed"}]_vars
=============================================================================
