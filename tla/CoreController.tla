---------------------------- MODULE CoreController ----------------------------
(***************************************************************************)
(* The app's link to its core (app/lib/core_controller.dart): connect,     *)
(* refresh, disconnect and revokeDevice meet at every await, and a         *)
(* generation tells a late answer from a current one.  Signing in as a     *)
(* device takes a challenge and a login (core_client.dart, signInDevice);  *)
(* with a password it is one request.  Sign-outs are not waited for.       *)
(*                                                                         *)
(* The core is what its handlers in Sessions make of these requests.       *)
(***************************************************************************)
EXTENDS Naturals, FiniteSets

CONSTANTS
    Tokens,        \* sessions the core can have open for this app
    Connects,      \* calls of connect that can be under way together
    None,          \* not a token
    MaxAsks,       \* bound: calls of connect and disconnect
    MaxEnds,       \* bound: restarts of the core and sessions or challenges that expire,
                   \*   together
    MaxFaults      \* bound: requests and answers that are lost

ASSUME NoToken == None \notin Tokens
ASSUME OtherTasks == Connects \cap {"refresh", "revoke"} = {}
ASSUME BoundsAssumption == MaxAsks \in Nat /\ MaxEnds \in Nat /\ MaxFaults \in Nat

VARIABLES
    open,      \* core: the sessions of this app
    password,  \* core: those of them that were opened with a password
    revoked,   \* core: this device was revoked
    app,       \* the fields of CoreController
    pc,        \* the request each task awaits
    answer,    \* its answer, once there is one
    local,     \* its local variables
    leaving,   \* sign-outs under way
    strayed,   \* history: tokens whose answer or sign-out was lost, or that connect forgot
    off,       \* history: the last thing asked was disconnect
    count      \* restarts, expiries and faults so far
vars == <<open, password, revoked, app, pc, answer, local, leaving, strayed, off, count>>
core == <<open, password, revoked>>

Tasks == Connects \cup {"refresh", "revoke"}
NoLocal == [gen |-> 0, token |-> None, device |-> FALSE, challenged |-> FALSE]

TypeOK ==
    /\ open \subseteq Tokens /\ password \subseteq open
    /\ revoked \in BOOLEAN /\ off \in BOOLEAN
    /\ app \in [phase : {"disconnected", "connecting", "connected", "unreachable"},
                token : Tokens \cup {None}, device : BOOLEAN, lost : BOOLEAN,
                timer : BOOLEAN, gen : 0..MaxAsks + 1]
    /\ pc \in [Tasks -> {"idle", "challenge", "login", "status", "renewed", "revoke"}]
    /\ answer \in [Tasks -> {"none", "ok", "rejected", "failed"}]
    /\ local \in [Tasks -> [gen : 0..MaxAsks + 1, token : Tokens \cup {None}, device : BOOLEAN,
                            challenged : BOOLEAN]]
    /\ leaving \subseteq Tokens /\ strayed \subseteq Tokens
    /\ count \in [restarts : 0..MaxEnds, expiries : 0..MaxEnds, faults : 0..MaxFaults]

Init ==
    /\ open = {} /\ password = {} /\ revoked = FALSE
    /\ app = [phase |-> "disconnected", token |-> None, device |-> FALSE, lost |-> FALSE,
              timer |-> FALSE, gen |-> 0]
    /\ pc = [t \in Tasks |-> "idle"] /\ answer = [t \in Tasks |-> "none"]
    /\ local = [t \in Tasks |-> NoLocal]
    /\ leaving = {} /\ strayed = {} /\ off = TRUE
    /\ count = [restarts |-> 0, expiries |-> 0, faults |-> 0]

Idle(t) == pc[t] = "idle"
Current(t) == local[t].gen = app.gen
Await(t, at, l) ==
    /\ pc' = [pc EXCEPT ![t] = at] /\ answer' = [answer EXCEPT ![t] = "none"]
    /\ local' = [local EXCEPT ![t] = l]
Return(t) == Await(t, "idle", NoLocal)

-----------------------------------------------------------------------------
(***************************************************************************)
(* Requests at the core.                                                   *)
(***************************************************************************)
Held == {app.token} \cup {local[t].token : t \in Tasks} \cup leaving
\* A session ended at the core and unknown to the app is a name that can be used again.
Free == Tokens \ (open \cup Held)

Waits(t, at) == pc[t] = at /\ answer[t] = "none"
Answer(t, what) == answer' = [answer EXCEPT ![t] = what]

\* Only an authorized device is given a challenge.
Challenge(t) ==
    /\ Waits(t, "challenge")
    /\ \/ /\ ~revoked /\ Answer(t, "ok")
          /\ local' = [local EXCEPT ![t].challenged = TRUE]
       \/ revoked /\ Answer(t, "rejected") /\ UNCHANGED local
    /\ UNCHANGED <<core, app, pc, leaving, strayed, off, count>>

\* deviceLogin takes the challenge it issued, from a device that is authorized.
Accepts(t) == ~local[t].device \/ (local[t].challenged /\ ~revoked)

Login(t) ==
    /\ Waits(t, "login") /\ Accepts(t)
    /\ \E new \in Free :
        /\ open' = open \cup {new}
        /\ password' = IF local[t].device THEN password ELSE password \cup {new}
        /\ strayed' = strayed \ {new}
        /\ local' = [local EXCEPT ![t].token = new]
    /\ Answer(t, "ok")
    /\ UNCHANGED <<revoked, app, pc, leaving, off, count>>

LoginRejected(t) ==
    /\ Waits(t, "login") /\ (~Accepts(t) \/ ~local[t].device)
    /\ Answer(t, "rejected")
    /\ UNCHANGED <<core, app, pc, local, leaving, strayed, off, count>>

Known(t) == local[t].token \in open
Checks == {"status", "renewed", "revoke"}

Status(t) ==
    /\ pc[t] \in Checks \ {"revoke"} /\ answer[t] = "none"
    /\ Answer(t, IF Known(t) THEN "ok" ELSE "rejected")
    /\ UNCHANGED <<core, app, pc, local, leaving, strayed, off, count>>

\* The device is revoked, by itself or by another one; its sessions end.
Revoked == revoked' = TRUE /\ open' = open \cap password /\ UNCHANGED password

RevokeRequest ==
    /\ Waits("revoke", "revoke")
    /\ \/ Known("revoke") /\ Revoked /\ Answer("revoke", "ok")
       \/ ~Known("revoke") /\ UNCHANGED core /\ Answer("revoke", "rejected")
    /\ UNCHANGED <<app, pc, local, leaving, strayed, off, count>>

Revoke ==
    /\ ~revoked /\ Revoked
    /\ UNCHANGED <<app, pc, answer, local, leaving, strayed, off, count>>

SignOut(token) ==
    /\ token \in leaving /\ leaving' = leaving \ {token}
    /\ open' = open \ {token} /\ password' = password \ {token}
    /\ UNCHANGED <<revoked, app, pc, answer, local, strayed, off, count>>

Serve(t) ==
    \/ Challenge(t) \/ Login(t) \/ LoginRejected(t) \/ Status(t)
    \/ t = "revoke" /\ RevokeRequest

\* Sessions and challenges are in memory only.
CoreRestart ==
    /\ count.restarts + count.expiries < MaxEnds
    /\ count' = [count EXCEPT !.restarts = @ + 1]
    /\ open' = {} /\ password' = {}
    /\ local' = [t \in Tasks |-> [local[t] EXCEPT !.challenged = FALSE]]
    /\ UNCHANGED <<revoked, app, pc, answer, leaving, strayed, off>>

Expire(token) ==
    /\ token \in open /\ open' = open \ {token} /\ password' = password \ {token}
    /\ count.restarts + count.expiries < MaxEnds
    /\ count' = [count EXCEPT !.expiries = @ + 1]
    /\ UNCHANGED <<revoked, app, pc, answer, local, leaving, strayed, off>>

\* A challenge stands for 30 seconds.
ChallengeExpires(t) ==
    /\ pc[t] \in {"challenge", "login"} /\ local[t].challenged
    /\ local' = [local EXCEPT ![t].challenged = FALSE]
    /\ count.restarts + count.expiries < MaxEnds
    /\ count' = [count EXCEPT !.expiries = @ + 1]
    /\ UNCHANGED <<core, app, pc, answer, leaving, strayed, off>>

Fault == count.faults < MaxFaults /\ count' = [count EXCEPT !.faults = @ + 1]

\* A request is lost, or refused with 429, 502 or 503.
Fail(t) ==
    /\ ~Idle(t) /\ answer[t] = "none" /\ Fault /\ Answer(t, "failed")
    /\ UNCHANGED <<core, app, pc, local, leaving, strayed, off>>

\* The answer to a login is lost: nobody will sign out of the session.
LoginLost(t) ==
    /\ Waits(t, "login") /\ Accepts(t) /\ Fault /\ Answer(t, "failed")
    /\ \E new \in Free :
        /\ open' = open \cup {new} /\ strayed' = strayed \cup {new}
        /\ password' = IF local[t].device THEN password ELSE password \cup {new}
    /\ UNCHANGED <<revoked, app, pc, local, leaving, off>>

\* The device is revoked, but the answer is lost or warns that the peer's removal failed.
RevokeUntold ==
    /\ Waits("revoke", "revoke") /\ Known("revoke") /\ Revoked /\ Fault /\ Answer("revoke", "failed")
    /\ UNCHANGED <<app, pc, local, leaving, strayed, off>>

SignOutLost(token) ==
    /\ token \in leaving /\ leaving' = leaving \ {token} /\ strayed' = strayed \cup {token}
    /\ Fault
    /\ UNCHANGED <<core, app, pc, answer, local, off>>

-----------------------------------------------------------------------------
(***************************************************************************)
(* connect.                                                                *)
(***************************************************************************)
Answered(t, at) == pc[t] = at /\ answer[t] # "none"
Tok(token) == {token} \ {None}

\* A session the app still has is forgotten, not signed out of.
Connect(c, device) ==
    /\ Idle(c) /\ app.phase # "connecting" /\ app.gen < MaxAsks
    /\ app' = [app EXCEPT !.phase = "connecting", !.token = None, !.lost = FALSE,
                          !.timer = FALSE, !.gen = @ + 1]
    /\ strayed' = strayed \cup Tok(app.token) /\ off' = FALSE
    /\ Await(c, IF device THEN "challenge" ELSE "login",
             [NoLocal EXCEPT !.gen = app.gen + 1, !.device = device])
    /\ UNCHANGED <<core, leaving, count>>

\* signInDevice: the challenge was answered; or signing in was.
GoOn(t, at, next) ==
    /\ Answered(t, at) /\ answer[t] = "ok"
    /\ Await(t, next, local[t])
    /\ UNCHANGED <<core, app, leaving, strayed, off, count>>

ConnectFails(c) ==
    /\ ~Idle(c) /\ answer[c] \in {"rejected", "failed"}
    /\ leaving' = leaving \cup Tok(local[c].token)
    /\ app' = IF ~Current(c) THEN app
              ELSE [app EXCEPT !.phase = "disconnected",
                               !.lost = local[c].device /\ answer[c] = "rejected"]
    /\ Return(c)
    /\ UNCHANGED <<core, strayed, off, count>>

\* Mutant: a connect that was superseded does not sign out.
ConnectedQuietly(c) ==
    /\ Answered(c, "status") /\ answer[c] = "ok" /\ Return(c)
    /\ app' = IF ~Current(c) THEN app
              ELSE [app EXCEPT !.phase = "connected", !.token = local[c].token,
                               !.device = local[c].device, !.timer = TRUE]
    /\ UNCHANGED <<core, leaving, strayed, off, count>>

Connected(c) ==
    /\ Answered(c, "status") /\ answer[c] = "ok"
    /\ IF Current(c)
       THEN /\ app' = [app EXCEPT !.phase = "connected", !.token = local[c].token,
                                  !.device = local[c].device, !.timer = TRUE]
            /\ UNCHANGED leaving
       ELSE leaving' = leaving \cup {local[c].token} /\ UNCHANGED app
    /\ Return(c)
    /\ UNCHANGED <<core, strayed, off, count>>

-----------------------------------------------------------------------------
(***************************************************************************)
(* refresh, which renews a session the core has ended.                     *)
(***************************************************************************)
Refresh ==
    /\ Idle("refresh") /\ app.token # None
    /\ Await("refresh", "status", [NoLocal EXCEPT !.gen = app.gen, !.token = app.token])
    /\ UNCHANGED <<core, app, leaving, strayed, off, count>>

Ended == [app EXCEPT !.phase = "disconnected", !.token = None, !.timer = FALSE]

\* Mutant: an old answer is taken for one about the current session.
RefreshedLate ==
    /\ Answered("refresh", "status") /\ Return("refresh")
    /\ app' = IF answer["refresh"] = "rejected" THEN Ended ELSE app
    /\ UNCHANGED <<core, leaving, strayed, off, count>>

\* Mutant: a session the core has ended is given up, and not renewed.
RefreshedEnding ==
    /\ Answered("refresh", "status") /\ Return("refresh")
    /\ app' = IF Current("refresh") /\ answer["refresh"] = "rejected" THEN Ended ELSE app
    /\ UNCHANGED <<core, leaving, strayed, off, count>>

Refreshed ==
    /\ Answered("refresh", "status")
    /\ LET renews == Current("refresh") /\ answer["refresh"] = "rejected" /\ app.device IN
       /\ app' = IF ~Current("refresh") THEN app
                 ELSE CASE answer["refresh"] = "ok" -> [app EXCEPT !.phase = "connected"]
                        [] answer["refresh"] = "failed" \/ renews -> [app EXCEPT !.phase = "unreachable"]
                        [] OTHER -> Ended
       /\ IF renews THEN Await("refresh", "challenge", [NoLocal EXCEPT !.gen = app.gen, !.device = TRUE])
          ELSE Return("refresh")
    /\ UNCHANGED <<core, leaving, strayed, off, count>>

\* Mutant: a renewal does not ask whether it is current.
RenewedLate ==
    /\ Answered("refresh", "renewed") /\ answer["refresh"] = "ok" /\ Return("refresh")
    /\ app' = [app EXCEPT !.token = local["refresh"].token, !.phase = "connected"]
    /\ UNCHANGED <<core, leaving, strayed, off, count>>

Renewed ==
    /\ Answered("refresh", "renewed") /\ answer["refresh"] = "ok"
    /\ IF Current("refresh")
       THEN app' = [app EXCEPT !.token = local["refresh"].token, !.phase = "connected"]
            /\ UNCHANGED leaving
       ELSE leaving' = leaving \cup {local["refresh"].token} /\ UNCHANGED app
    /\ Return("refresh")
    /\ UNCHANGED <<core, strayed, off, count>>

RenewalFails ==
    /\ pc["refresh"] \in {"challenge", "login", "renewed"}
    /\ answer["refresh"] \in {"rejected", "failed"}
    /\ leaving' = leaving \cup Tok(local["refresh"].token)
    /\ app' = IF ~Current("refresh") THEN app
              ELSE [Ended EXCEPT !.lost = (answer["refresh"] = "rejected")]
    /\ Return("refresh")
    /\ UNCHANGED <<core, strayed, off, count>>

-----------------------------------------------------------------------------
(***************************************************************************)
(* disconnect, which dispose is as well, and revokeDevice.                 *)
(***************************************************************************)
Leave(lost) ==
    /\ app' = [Ended EXCEPT !.device = FALSE, !.gen = @ + 1, !.lost = lost]
    /\ leaving' = leaving \cup Tok(app.token) /\ off' = TRUE

Disconnect ==
    /\ app.gen < MaxAsks /\ Leave(FALSE)
    /\ UNCHANGED <<core, pc, answer, local, strayed, count>>

RevokeDevice ==
    /\ Idle("revoke") /\ app.device /\ app.phase = "connected" /\ app.token # None
    /\ Await("revoke", "revoke", [NoLocal EXCEPT !.token = app.token])
    /\ UNCHANGED <<core, app, leaving, strayed, off, count>>

RevokeAnswered ==
    /\ Answered("revoke", "revoke") /\ Return("revoke")
    /\ IF answer["revoke"] = "ok" /\ app.device THEN Leave(TRUE) ELSE UNCHANGED <<app, leaving, off>>
    /\ UNCHANGED <<core, strayed, count>>

GoesOn(t) ==
    \/ GoOn(t, "challenge", "login")
    \/ /\ t \in Connects
       /\ GoOn(t, "login", "status") \/ Connected(t) \/ ConnectFails(t)
    \/ /\ t = "refresh"
       /\ Refreshed \/ GoOn(t, "login", "renewed") \/ Renewed \/ RenewalFails
    \/ t = "revoke" /\ RevokeAnswered

Next ==
    \/ \E t \in Tasks : Serve(t) \/ ChallengeExpires(t) \/ Fail(t) \/ LoginLost(t) \/ GoesOn(t)
    \/ \E token \in Tokens : SignOut(token) \/ SignOutLost(token) \/ Expire(token)
    \/ CoreRestart \/ Revoke \/ RevokeUntold
    \/ \E c \in Connects, device \in BOOLEAN : Connect(c, device)
    \/ Refresh \/ Disconnect \/ RevokeDevice

Spec == Init /\ [][Next]_vars

\* Requests are answered, the isolate goes on, and the timer keeps firing.
FairSpec ==
    /\ Spec
    /\ \A t \in Tasks : WF_vars(Serve(t)) /\ WF_vars(GoesOn(t))
    /\ WF_vars(app.timer /\ Refresh)

-----------------------------------------------------------------------------
(***************************************************************************)
(* Properties.                                                             *)
(***************************************************************************)
\* Once nothing is under way, the core has no session of this app but the one it uses, apart
\* from those of a lost answer or sign-out and those a connect forgot (line 52).
TokensReturned ==
    (\A t \in Tasks : Idle(t)) /\ leaving = {} => open \subseteq {app.token} \cup strayed

\* After disconnect no late answer of connect or refresh brings a session or its timer back.
StaysOff == off => app.token = None /\ ~app.timer /\ app.phase = "disconnected"

\* The app gives a session up by itself only when the core has ended that session.
OnlyEndedDropped ==
    [][app.token # None /\ app'.token # app.token /\ app'.gen = app.gen => app.token \notin open]_vars

\* The phase that refuses further connects (connect's first line) lasts no longer than a connect.
ConnectingEnds == app.phase = "connecting" => \E c \in Connects : ~Idle(c) /\ Current(c)

\* The app tells that the authorization is lost - and stops the VPN - only when the device was
\* revoked, or the core has ended something by itself: a challenge or session that is gone
\* between two requests of one sign-in gets the same 401 (connect, line 90; refresh, line 137).
LostMeansRevoked == app.lost => revoked \/ count.restarts + count.expiries > 0

\* The types, and what holds at every await.
Inv == TypeOK /\ StaysOff /\ ConnectingEnds /\ LostMeansRevoked

\* A revoked device that has a session comes to know that it was rejected, whatever its user did
\* before, unless a request is lost: a renewal that fails for another reason drops the session
\* without a word (refresh, line 137).  The user asks for nothing more: MaxAsks is reached.
RevocationNoticed ==
    revoked /\ app.token # None /\ app.device /\ app.gen = MaxAsks ~> app.lost \/ count.faults > 0
=============================================================================
