----------------------------- MODULE HomeService -----------------------------
(***************************************************************************)
(* The home machine: its systemd unit, whose process registers with the    *)
(* core every 30 seconds and keeps the interface as the core answered      *)
(* (cmd/easyprivacy-node/service.go, serveService), the commands of its    *)
(* administrator, and the client they speak to the core with               *)
(* (core/internal/link/client.go).  One administrator command runs at a    *)
(* time, and only one process of the machine speaks to the core.           *)
(***************************************************************************)
EXTENDS SiteTunnel

CONSTANTS Identities    \* device identities the machine can be enrolled with

\* What the core answers besides a profile is no profile.
ASSUME HomeAssumption ==
    None \notin Identities /\ Profiles \cap {"none", "rejected", "failed", "ok"} = {}

VARIABLES
    records,   \* core: what devices.json says of each identity
    peer,      \* core: the identity its one home service is registered for
    offer,     \* core: the profile it answers a registration with
    sessions,  \* core: how many sessions of each identity are open
    config,    \* service.json: the identity in it
    unit,      \* easyprivacy-service.service
    enabled,   \* it starts with the machine
    stopping,  \* systemd was asked to stop it
    step,      \* where serveService is
    current,   \* serveService: the profile of the interface it has up
    active,    \* serveService: it has the interface up
    call,      \* registerSite or disconnectSite under way
    admin      \* the administrator's command under way
coreVars == <<records, peer, offer, sessions>>
unitVars == <<unit, stopping, step, current, active>>
vars == <<tunnelVars, coreVars, unitVars, enabled, config, call, admin>>

NoCall == [at |-> "none", what |-> "none", id |-> None, token |-> "none", answer |-> "none"]
NoCommand == [at |-> "none", id |-> None]

TypeOK ==
    /\ TunnelTypeOK
    /\ records \in [Identities -> {"unknown", "authorized", "revoked"}]
    /\ peer \in Identities \cup {None}
    /\ offer \in Profiles
    /\ sessions \in [Identities -> 0..MaxFaults + 1]
    /\ config \in Identities \cup {None}
    /\ unit \in {"stopped", "before", "serving", "after", "pause"}
    /\ enabled \in BOOLEAN
    /\ stopping \in BOOLEAN
    /\ step \in {"none", "due", "rejected", "down", "save", "up", "waiting", "exit"}
    /\ current \in Profiles \cup {None}
    /\ active \in BOOLEAN
    /\ call \in [at : {"none", "challenge", "login", "stale", "request", "logout", "answered"},
                 what : {"none", "service", "disconnect"}, id : Identities \cup {None},
                 token : {"none", "live", "dead"},
                 answer : Profiles \cup {"none", "rejected", "failed", "ok"}]
    /\ admin \in [at : {"none", "install", "register", "persist", "undo", "enable", "forget",
                        "leave", "remove"},
                  id : Identities \cup {None}]

Init ==
    /\ TunnelInit
    /\ records = [i \in Identities |-> "unknown"]
    /\ peer = None
    /\ offer \in Profiles
    /\ sessions = [i \in Identities |-> 0]
    /\ config = None
    /\ unit = "stopped" /\ enabled = FALSE /\ stopping = FALSE /\ step = "none"
    /\ current = None /\ active = FALSE
    /\ call = NoCall
    /\ admin = NoCommand

-----------------------------------------------------------------------------
(***************************************************************************)
(* registerSite and disconnectSite: sign in, one request, sign out.        *)
(***************************************************************************)
Begin(what, id) == call' = [NoCall EXCEPT !.at = "challenge", !.what = what, !.id = id]

Answer(at, answer, token) ==
    call' = [call EXCEPT !.at = at, !.answer = answer, !.token = token]

\* A session of the identity was opened at the core.
Opened == sessions' = [sessions EXCEPT ![call.id] = @ + 1]

Challenge ==
    /\ call.at = "challenge"
    /\ records[call.id] = "authorized"
    /\ Answer("login", "none", "none")
    /\ UNCHANGED <<tunnelVars, coreVars, unitVars, enabled, config, admin>>

Login ==
    /\ call.at = "login"
    /\ records[call.id] = "authorized"
    /\ Opened
    /\ Answer("request", "none", "live")
    /\ UNCHANGED <<tunnelVars, unitVars, records, peer, offer, enabled, config, admin>>

\* A device that is not authorized, or a challenge that the core does not know any more.
LoginRejected ==
    /\ call.at \in {"challenge", "login", "stale"}
    /\ records[call.id] # "authorized" \/ call.at = "stale"
    /\ Answer("answered", "rejected", "none")
    /\ UNCHANGED <<tunnelVars, coreVars, unitVars, enabled, config, admin>>

\* The core is out of reach, or only its answer is lost.
LoginFails ==
    /\ call.at \in {"challenge", "login", "stale"}
    /\ Fault
    /\ UNCHANGED sessions \/ (call.at = "login" /\ records[call.id] = "authorized" /\ Opened)
    /\ Answer("answered", "failed", "none")
    /\ UNCHANGED <<link, conf, rules, cmds, site, failed, unitVars, records, peer, offer, enabled, config, admin>>

\* One home service is registered at a time.
TakesEffect == peer' = IF call.what = "service" THEN call.id
                  ELSE IF peer = call.id THEN None ELSE peer
PlaceTaken == call.what = "service" /\ peer \notin {None, call.id}

Answered(answer) == Answer("logout", answer, call.token)

Request ==
    /\ call.at = "request"
    /\ call.token = "live"
    /\ ~PlaceTaken
    /\ TakesEffect
    /\ Answered(IF call.what = "service" THEN offer ELSE "ok")
    /\ UNCHANGED <<tunnelVars, unitVars, records, offer, sessions, enabled, config, admin>>

\* 401 or 403 when the session is gone, 503 when another service has the place.
RequestRefused ==
    /\ call.at = "request"
    /\ call.token = "dead" \/ PlaceTaken
    /\ Answered(IF call.token = "dead" THEN "rejected" ELSE "failed")
    /\ UNCHANGED <<tunnelVars, coreVars, unitVars, enabled, config, admin>>

RequestFails ==
    /\ call.at = "request"
    /\ Fault
    /\ UNCHANGED peer \/ (call.token = "live" /\ ~PlaceTaken /\ TakesEffect)
    /\ Answered("failed")
    /\ UNCHANGED <<link, conf, rules, cmds, site, failed, unitVars, records, offer, sessions, enabled, config, admin>>

Logout ==
    /\ call.at = "logout"
    /\ sessions' = IF call.token = "live" THEN [sessions EXCEPT ![call.id] = @ - 1] ELSE sessions
    /\ Answer("answered", call.answer, "none")
    /\ UNCHANGED <<tunnelVars, unitVars, records, peer, offer, enabled, config, admin>>

LogoutLost ==
    /\ call.at = "logout"
    /\ Fault
    /\ Answer("answered", call.answer, "none")
    /\ UNCHANGED <<link, conf, rules, cmds, site, failed, coreVars, unitVars, enabled, config, admin>>

Client == Challenge \/ Login \/ LoginRejected \/ LoginFails \/ Request \/ RequestRefused \/ RequestFails
              \/ Logout \/ LogoutLost

-----------------------------------------------------------------------------
(***************************************************************************)
(* serveService.                                                           *)
(***************************************************************************)
\* Mutant: no ExecStopPost.
NoStopPost == Abandoned
\* ExecStopPost runs service-cleanup.
StopPost == SiteDown

Idle == Finished /\ call.at = "none"

Goto(s) == step' = s /\ UNCHANGED <<unit, stopping>>

Due ==
    /\ step \in {"due", "waiting"} /\ Idle
    /\ ~(step = "waiting" /\ stopping)
    /\ Goto("due")
    /\ Begin("service", config)
    /\ UNCHANGED <<tunnelVars, coreVars, enabled, config, current, active, admin>>

Answering(answers) == step = "due" /\ call.at = "answered" /\ call.answer \in answers /\ call' = NoCall

\* Mutant: a rejection is taken for any other error.
NoneReject == {}
Rejections == {"rejected"}

TakeDown == IF active THEN SiteDown ELSE Abandoned

Rejected ==
    /\ Answering(Rejections)
    /\ TakeDown
    /\ Goto("rejected")
    /\ UNCHANGED <<link, conf, rules, faults, coreVars, enabled, config, current, active, admin>>

\* The result of SiteDown is ignored here.
RejectedDown ==
    /\ step = "rejected" /\ Finished
    /\ active' = FALSE
    /\ Goto("exit")
    /\ UNCHANGED <<tunnelVars, coreVars, enabled, config, current, call, admin>>

\* The core cannot be reached or refuses: the interface stays as it is.
Unreachable ==
    /\ Answering({"failed", "rejected"} \ Rejections)
    /\ Goto("waiting")
    /\ UNCHANGED <<tunnelVars, coreVars, enabled, config, current, active, admin>>

\* Mutant: a change of the profile is not noticed.
OnlyIfDown(profile) == ~active \/ link # "up"
MustChange(profile) == ~active \/ current # profile \/ link # "up"

Unchanged ==
    /\ Answering(Profiles)
    /\ ~MustChange(call.answer)
    /\ Goto("waiting")
    /\ UNCHANGED <<tunnelVars, coreVars, enabled, config, current, active, admin>>

\* SiteStatus may fail, which is taken for an interface that is not active.
Change ==
    /\ step = "due" /\ call.at = "answered" /\ call.answer \in Profiles
    /\ MustChange(call.answer) \/ faults < MaxFaults
    /\ faults' = IF MustChange(call.answer) THEN faults ELSE faults + 1
    /\ TakeDown
    /\ Goto("down")
    /\ UNCHANGED <<link, conf, rules, coreVars, enabled, config, current, active, call, admin>>

OldDown ==
    /\ step = "down" /\ Finished
    /\ active' = (active /\ failed)
    /\ Goto(IF failed THEN "exit" ELSE "save")
    /\ call' = IF failed THEN NoCall ELSE call
    /\ UNCHANGED <<tunnelVars, coreVars, enabled, config, current, admin>>

\* site.json; nothing reads it.
Save ==
    /\ step = "save"
    /\ SiteUp(call.answer)
    /\ Goto("up")
    /\ UNCHANGED <<link, conf, rules, faults, coreVars, enabled, config, current, active, call, admin>>

SaveFails ==
    /\ step = "save"
    /\ Fault
    /\ Goto("exit")
    /\ call' = NoCall
    /\ UNCHANGED <<link, conf, rules, cmds, site, failed, coreVars, enabled, config, current, active, admin>>

NewUp ==
    /\ step = "up" /\ Finished
    /\ Goto(IF failed THEN "exit" ELSE "waiting")
    /\ active' = ~failed
    /\ current' = IF failed THEN current ELSE call.answer
    /\ call' = NoCall
    /\ UNCHANGED <<tunnelVars, coreVars, enabled, config, admin>>

\* The context ends while it waits for the ticker.
Stopped ==
    /\ step = "waiting" /\ stopping
    /\ Goto("exit")
    /\ UNCHANGED <<tunnelVars, coreVars, enabled, config, current, active, call, admin>>

\* The deferred SiteDown; its result is ignored.
ExitDown ==
    /\ step = "exit" /\ active
    /\ SiteDown
    /\ active' = FALSE
    /\ Goto("exit")
    /\ UNCHANGED <<link, conf, rules, faults, coreVars, enabled, config, current, call, admin>>

Exit ==
    /\ step = "exit" /\ ~active /\ Finished
    /\ unit' = "after" /\ step' = "none" /\ current' = None
    /\ StopPost
    /\ UNCHANGED <<link, conf, rules, faults, coreVars, enabled, config, stopping, active, call, admin>>

Serve == Due \/ Rejected \/ RejectedDown \/ Unreachable \/ Unchanged \/ Change \/ OldDown \/ Save
             \/ SaveFails \/ NewUp \/ Stopped \/ ExitDown \/ Exit

-----------------------------------------------------------------------------
(***************************************************************************)
(* easyprivacy-service.service: ExecStartPre and ExecStopPost run          *)
(* service-cleanup, Restart=on-failure starts it again.                    *)
(***************************************************************************)
StartUnit == unit' = "before" /\ stopping' = FALSE /\ SiteDown

Cleaned ==
    /\ unit = "before" /\ Finished
    /\ unit' = IF failed \/ stopping THEN "after" ELSE "serving"
    /\ step' = IF failed \/ stopping THEN "none" ELSE "due"
    /\ IF failed \/ stopping THEN StopPost ELSE Abandoned
    /\ UNCHANGED <<link, conf, rules, faults, coreVars, stopping, current, active, enabled, config, call, admin>>

\* A process that was asked to stop is not started again.
Ended ==
    /\ unit = "after" /\ Finished
    /\ unit' = IF stopping THEN "stopped" ELSE "pause"
    /\ UNCHANGED <<tunnelVars, coreVars, stopping, step, current, active, enabled, config, call, admin>>

Restart ==
    /\ unit = "pause"
    /\ IF stopping THEN unit' = "stopped" /\ UNCHANGED <<stopping, cmds, site, failed>> ELSE StartUnit
    /\ UNCHANGED <<link, conf, rules, faults, coreVars, step, current, active, enabled, config, call, admin>>

Unit == Cleaned \/ Ended \/ Restart

\* The process is killed.
Crash ==
    /\ unit = "serving"
    /\ Fault
    /\ unit' = "after" /\ step' = "none" /\ current' = None /\ active' = FALSE
    /\ call' = NoCall
    /\ StopPost
    /\ UNCHANGED <<link, conf, rules, coreVars, stopping, enabled, config, admin>>

\* Kernel and memory are lost; the unit is enabled while there is a service.json.
Reboot ==
    /\ Fault
    /\ link' = "none" /\ conf' = None /\ rules' = FALSE
    /\ unit' = IF enabled /\ config # None THEN "before" ELSE "stopped"
    /\ stopping' = FALSE /\ step' = "none" /\ current' = None /\ active' = FALSE
    /\ call' = NoCall /\ admin' = NoCommand
    /\ cmds' = (IF unit' = "before" THEN SiteDownProgram ELSE <<>>) /\ site' = None /\ failed' = FALSE
    /\ UNCHANGED <<coreVars, enabled, config>>

-----------------------------------------------------------------------------
(***************************************************************************)
(* runService: what the administrator asks for, on the terminal or in the  *)
(* app.  service-setup and service-install go through installService.      *)
(***************************************************************************)
AdminTo(at) == admin' = [admin EXCEPT !.at = at]
NothingElse == UNCHANGED <<link, conf, rules, faults, step, current, active>>

\* link.Enroll (or the app's pairing) has made an identity.
Enroll(id) ==
    /\ admin = NoCommand
    /\ config = None
    /\ records[id] = "unknown"
    /\ records' = [records EXCEPT ![id] = "authorized"]
    /\ admin' = [at |-> "install", id |-> id]
    /\ UNCHANGED <<tunnelVars, unitVars, enabled, config, peer, offer, sessions, call>>

\* The core authorized the device, its answer is lost and the identity with it.
EnrollLost(id) ==
    /\ admin = NoCommand
    /\ config = None
    /\ records[id] = "unknown"
    /\ Fault
    /\ records' = [records EXCEPT ![id] = "authorized"]
    /\ UNCHANGED <<link, conf, rules, cmds, site, failed, unitVars, enabled, config, peer, offer, sessions, call, admin>>

\* A wrong answer to a prompt ends the setup; so does an unusable network.
GiveUp ==
    /\ admin.at = "install"
    /\ admin' = NoCommand
    /\ UNCHANGED <<tunnelVars, coreVars, unitVars, enabled, config, call>>

Install ==
    /\ admin.at = "install" /\ call.at = "none"
    /\ Begin("service", admin.id)
    /\ AdminTo("register")
    /\ UNCHANGED <<tunnelVars, coreVars, unitVars, enabled, config>>

Registered ==
    /\ admin.at = "register" /\ call.at = "answered"
    /\ call' = NoCall
    /\ IF call.answer \in Profiles THEN AdminTo("persist") ELSE admin' = NoCommand
    /\ UNCHANGED <<tunnelVars, coreVars, unitVars, enabled, config>>

\* Mutant: a failed installation stays registered.
UndoNothing == admin' = NoCommand /\ call' = NoCall
Undo == AdminTo("undo") /\ Begin("disconnect", admin.id)

\* The routes of the network overlap those of the home.
Overlap ==
    /\ admin.at = "persist"
    /\ Undo
    /\ UNCHANGED <<tunnelVars, coreVars, unitVars, enabled, config>>

Persist ==
    /\ admin.at = "persist"
    /\ config' = admin.id
    /\ AdminTo("enable")
    /\ UNCHANGED <<tunnelVars, coreVars, unitVars, enabled, call>>

PersistFails ==
    /\ admin.at = "persist"
    /\ Fault
    /\ config' \in {config, admin.id}
    /\ Undo
    /\ UNCHANGED <<link, conf, rules, cmds, site, failed, coreVars, unitVars, enabled>>

Undone ==
    /\ admin.at = "undo" /\ call.at = "answered"
    /\ call' = NoCall
    /\ admin' = NoCommand
    /\ UNCHANGED <<tunnelVars, coreVars, unitVars, enabled, config>>

Enable ==
    /\ admin.at = "enable"
    /\ enabled' = TRUE
    /\ StartUnit
    /\ admin' = NoCommand
    /\ NothingElse
    /\ UNCHANGED <<coreVars, config, call>>

\* A save after service.json fails: installed, but not started.
EnableFails ==
    /\ admin.at = "enable"
    /\ Fault
    /\ admin' = NoCommand
    /\ UNCHANGED <<link, conf, rules, cmds, site, failed, coreVars, unitVars, enabled, config, call>>

\* service-start, or service-setup where there is a service.json.
Start ==
    /\ admin = NoCommand
    /\ config # None
    /\ unit = "stopped"
    /\ StartUnit
    /\ enabled' \in {enabled, TRUE}
    /\ NothingElse
    /\ UNCHANGED <<coreVars, config, call, admin>>

Stop ==
    /\ admin = NoCommand
    /\ unit # "stopped" /\ ~stopping
    /\ stopping' = TRUE
    /\ UNCHANGED <<tunnelVars, coreVars, unit, step, current, active, enabled, config, call, admin>>

\* systemctl disable --now returns when the unit has stopped.
Forget ==
    /\ admin = NoCommand
    /\ admin' = [at |-> "forget", id |-> config]
    /\ enabled' = FALSE
    /\ stopping' = (unit # "stopped")
    /\ UNCHANGED <<tunnelVars, coreVars, unit, step, current, active, config, call>>

Leave ==
    /\ admin.at = "forget" /\ unit = "stopped"
    /\ IF admin.id = None THEN SiteDown /\ AdminTo("remove") /\ UNCHANGED call
       ELSE Begin("disconnect", admin.id) /\ AdminTo("leave") /\ UNCHANGED <<cmds, site, failed>>
    /\ NothingElse
    /\ UNCHANGED <<coreVars, unit, stopping, enabled, config>>

\* Whatever the core said.
Left ==
    /\ admin.at = "leave" /\ call.at = "answered"
    /\ call' = NoCall
    /\ SiteDown
    /\ AdminTo("remove")
    /\ NothingElse
    /\ UNCHANGED <<coreVars, unit, stopping, enabled, config>>

\* The files stay when the interface could not be taken down.
Remove ==
    /\ admin.at = "remove" /\ Finished
    /\ config' = IF failed THEN config ELSE None
    /\ admin' = NoCommand
    /\ UNCHANGED <<tunnelVars, coreVars, unitVars, enabled, call>>

\* The command is interrupted.
Interrupted ==
    /\ admin # NoCommand
    /\ Fault
    /\ admin' = NoCommand
    /\ call' = IF unit = "serving" THEN call ELSE NoCall
    /\ IF unit = "stopped" THEN Abandoned ELSE UNCHANGED <<cmds, site, failed>>
    /\ UNCHANGED <<link, conf, rules, coreVars, unitVars, enabled, config>>

Admin == Install \/ Registered \/ Overlap \/ Persist \/ PersistFails \/ Undone \/ Enable
             \/ EnableFails \/ Leave \/ Left \/ Remove
Wishes == (\E id \in Identities : Enroll(id) \/ EnrollLost(id)) \/ GiveUp \/ Start \/ Stop \/ Forget

-----------------------------------------------------------------------------
(***************************************************************************)
(* The core.                                                               *)
(***************************************************************************)
SignedOut(id) == [call EXCEPT !.token = IF call.id = id /\ @ = "live" THEN "dead" ELSE @]

Revoke(id) ==
    /\ records[id] = "authorized"
    /\ records' = [records EXCEPT ![id] = "revoked"]
    /\ peer' = IF peer = id THEN None ELSE peer
    /\ sessions' = [sessions EXCEPT ![id] = 0]
    /\ call' = SignedOut(id)
    /\ UNCHANGED <<tunnelVars, unitVars, enabled, config, offer, admin>>

\* The VPN of the core is set up again.
NewOffer ==
    /\ offer' \in Profiles \ {offer}
    /\ UNCHANGED <<tunnelVars, unitVars, enabled, config, records, peer, sessions, call, admin>>

\* Sessions and challenges are in memory only.
CoreRestart ==
    /\ Fault
    /\ sessions' = [i \in Identities |-> 0]
    /\ call' = [SignedOut(call.id) EXCEPT !.at = IF @ = "login" THEN "stale" ELSE @]
    /\ UNCHANGED <<link, conf, rules, cmds, site, failed, unitVars, enabled, config, records, peer, offer, admin>>

\* Somebody deletes the interface.
SiteLost ==
    /\ link = "up"
    /\ Fault
    /\ SetLink("none", None)
    /\ UNCHANGED <<cmds, site, failed, coreVars, unitVars, enabled, config, call, admin>>

\* A command of ip, wg or iptables.
Kernel == Command /\ UNCHANGED <<coreVars, unitVars, enabled, config, call, admin>>

Next ==
    \/ Client \/ Serve \/ Unit \/ Admin \/ Wishes \/ Kernel
    \/ Crash \/ Reboot \/ Interrupted
    \/ (\E id \in Identities : Revoke(id)) \/ NewOffer \/ CoreRestart \/ SiteLost

Spec == Init /\ [][Next]_vars

\* Processes that run go on, and systemd starts the service again.
FairSpec == Spec /\ WF_vars(Client) /\ WF_vars(Serve) /\ WF_vars(Unit) /\ WF_vars(Admin)
                 /\ WF_vars(Kernel)

-----------------------------------------------------------------------------
\* What the machine opened at the core it closes, unless a request or a process
\* was lost: a service that signs in twice a minute would fill the core's table.
SessionsReturned ==
    \A i \in Identities :
        sessions[i] <= faults + (IF call.id = i /\ call.token = "live" THEN 1 ELSE 0)

\* The interface that is up carries what the core answered last, with its rules.
UpAsAnswered ==
    active /\ step \in {"due", "waiting"} /\ link = "up" => conf = current /\ rules

\* What the machine reports to its owner (service.go:387, "Device authorization
\* was rejected") is so, unless something was lost: a core that restarted between the
\* challenge, the login and the registration rejects as well.
RejectionIsTrue == step = "rejected" /\ faults = 0 => records[config] # "authorized"

\* The types, and what the loop maintains.
Inv == TypeOK /\ SessionsReturned /\ UpAsAnswered /\ RejectionIsTrue

\* The core never keeps a home service that no machine holds, unless a request,
\* a save or a process was lost.
NoOrphan ==
    faults = 0 /\ peer # None => peer = config \/ peer = admin.id

\* A stopped unit leaves no interface that forwards, not after any one failure.
StoppedIsDown ==
    unit = "stopped" /\ faults <= 1 => link # "up"

\* Without service.json nothing of the service is in the kernel: no rule ever, and no
\* interface after any two failures (each of three cleanups may fail once).
ForgottenIsGone ==
    config = None => ~rules /\ (faults <= 2 => link # "up")

\* A machine that was stopped, or has forgotten its core, forwards nothing
\* (ExecStopPost, service-forget).
NothingLeft == StoppedIsDown /\ ForgottenIsGone

\* When the device is revoked its interface goes down and stays down, whatever
\* fails once.
RevokedGoesDown ==
    \A id \in Identities :
        (records[id] = "revoked") ~> (faults > 1 \/ [](config = id => link # "up"))

\* While it runs and is authorized, the interface comes to what the core offers.
Served(p) == link = "up" /\ conf = p
CanServe(p) ==
    /\ offer = p /\ config # None /\ unit # "stopped" /\ ~stopping
    /\ records[config] = "authorized" /\ peer \in {None, config} /\ link # "bare"
FollowsCore == \A p \in Profiles : CanServe(p) ~> (Served(p) \/ ~CanServe(p))
==============================================================================
