----------------------------- MODULE VPNManager -----------------------------
(***************************************************************************)
(* The VPN helper (core/internal/vpn/manager.go) over its Linux backend.   *)
(* Manager.mu serializes the operations, so one task runs at a time; each  *)
(* command of the backend, each read of the authorization records and each *)
(* save is a step of it, and the helper may crash between any two.  The    *)
(* records belong to the core, which may revoke a device at any moment.    *)
(***************************************************************************)
EXTENDS LinuxBackend

CONSTANTS
    Devices,     \* paired devices
    MaxPeers     \* (128)

ASSUME ManagerAssumption ==
    /\ IsFiniteSet(Devices)
    /\ None \notin Devices
    /\ MaxPeers \in Nat /\ MaxPeers < LastHost

VARIABLES
    authorized,  \* devices the core's records authorize
    peers,       \* Manager.peers
    stored,      \* peers.json
    serving,     \* the helper answers on its socket
    task,        \* what holds Manager.mu, or runs before and after serving
    promised     \* history: the exit last promised to the holder of each key

managerVars == <<authorized, peers, stored, serving, task, promised>>
vars == <<link, base, owner, gateway, chain, policy, cache, cmds, failed, faults,
          authorized, peers, stored, serving, task, promised>>

\* at: the next step; left: devices a loop has still to handle, of them now is
\* the one that the backend is called for.
Idle == [op |-> "idle", at |-> "done", id |-> None, key |-> None, exit |-> "vps",
         old |-> None, left |-> {}, now |-> None, dirty |-> FALSE]

Task == [op : {"idle", "register", "remove", "query", "tick", "start", "down"},
         at : {"done", "up", "read", "disable", "drop", "check", "replace", "apply",
               "retract", "restore", "unsaved", "remove", "set", "down"},
         id : Devices \cup {None}, key : Keys \cup {None}, exit : Exits,
         old : Peer \cup {None}, left : SUBSET Devices, now : Devices \cup {None},
         dirty : BOOLEAN]

TypeOK ==
    /\ BackendTypeOK
    /\ authorized \subseteq Devices
    /\ peers \in [Devices -> Peer \cup {None}]
    /\ stored \in [Devices -> Peer \cup {None}]
    /\ serving \in BOOLEAN
    /\ task \in Task
    /\ promised \in [Keys -> Exits \cup {None}]

Nobody == [d \in Devices |-> None]

Init ==
    /\ BackendInit
    /\ authorized = Devices
    /\ peers = Nobody
    /\ stored = Nobody
    /\ serving = FALSE
    /\ task = Idle
    /\ promised = [k \in Keys |-> None]

Listed(ps) == {d \in Devices : ps[d] # None}
HasService(ps) == \E d \in Listed(ps) : ps[d].exit = "service"

\* What NewManager accepts from peers.json; anything else keeps the helper down.
Loadable(ps) ==
    /\ Cardinality(Listed(ps)) <= MaxPeers
    /\ \A d, e \in Listed(ps) : d # e =>
          /\ ps[d].host # ps[e].host
          /\ ps[d].key # ps[e].key
          /\ ~(ps[d].exit = "service" /\ ps[e].exit = "service")

At(op, step) == task.op = op /\ task.at = step
Continue(step) == task' = [task EXCEPT !.at = step]
Finish == task' = Idle

KeepBackend == UNCHANGED <<kernelVars, cache, cmds, failed, faults>>
CallOnly(program) == Call(program) /\ UNCHANGED <<kernelVars, cache, faults>>

\* Mutant: the exit a peer selected is not part of the file.
SavedWithoutExit(new) ==
    /\ stored' = [d \in Devices |-> IF new[d] # None /\ new[d].exit = "home"
                                    THEN [new[d] EXCEPT !.exit = "vps"] ELSE new[d]]
    /\ UNCHANGED faults

\* A save fails before or after the rename.
Saved(new) == stored' = new /\ UNCHANGED faults
SaveFails(new) == CountFault /\ stored' \in {stored, new}

-----------------------------------------------------------------------------
\* Requests.

\* A device that asks for another exit gives up what it was promised.
KeysOf(d, k) == {k} \cup {peers[x].key : x \in Listed(peers) \cap {d}}

\* register finds the device authorized in the records it reads first.
BeginRegister(d, k, e) ==
    /\ serving /\ task = Idle
    /\ d \in authorized
    /\ task' = [Idle EXCEPT !.op = "register", !.at = "read", !.id = d, !.key = k, !.exit = e]
    /\ promised' = [x \in Keys |-> IF x \in KeysOf(d, k) /\ promised[x] # e THEN None
                                  ELSE promised[x]]
    /\ KeepBackend
    /\ UNCHANGED <<authorized, peers, stored, serving>>

BeginRemove(d) ==
    /\ serving /\ task = Idle
    /\ peers[d] # None
    /\ task' = [Idle EXCEPT !.op = "remove", !.at = "remove", !.id = d]
    /\ promised' = [promised EXCEPT ![peers[d].key] = None]
    /\ CallOnly(RemoveProgram(peers[d]))
    /\ UNCHANGED <<authorized, peers, stored, serving>>

\* Status, Exits
BeginQuery ==
    /\ serving /\ task = Idle
    /\ task' = [Idle EXCEPT !.op = "query", !.at = "read"]
    /\ KeepBackend
    /\ UNCHANGED <<authorized, peers, stored, serving, promised>>

\* Serve, each second
BeginTick ==
    /\ serving /\ task = Idle
    /\ task' = [Idle EXCEPT !.op = "tick", !.at = "read"]
    /\ KeepBackend
    /\ UNCHANGED <<authorized, peers, stored, serving, promised>>

-----------------------------------------------------------------------------
\* reconcile

ReadRecords ==
    /\ task.at = "read"
    /\ task' = [task EXCEPT !.at = "drop", !.left = Listed(peers) \ authorized]
    /\ KeepBackend
    /\ UNCHANGED <<authorized, peers, stored, serving, promised>>

RecordsUnavailable ==
    /\ task.at = "read"
    /\ CountFault
    /\ task' = [task EXCEPT !.at = "disable", !.left = Listed(peers)]
    /\ UNCHANGED <<kernelVars, cache, cmds, failed, authorized, peers, stored, serving, promised>>

RemoveNext(d) ==
    /\ task.at \in {"drop", "disable"}
    /\ task.now = None
    /\ d \in task.left
    /\ task' = [task EXCEPT !.now = d]
    /\ CallOnly(RemoveProgram(peers[d]))
    /\ UNCHANGED <<authorized, peers, stored, serving, promised>>

Removed ==
    /\ task.at \in {"drop", "disable"}
    /\ task.now # None
    /\ Returned /\ ~failed
    /\ task' = [task EXCEPT !.now = None, !.left = @ \ {task.now}, !.dirty = TRUE]
    /\ peers' = IF task.at = "drop" THEN [peers EXCEPT ![task.now] = None] ELSE peers
    /\ KeepBackend
    /\ UNCHANGED <<authorized, stored, serving, promised>>

\* Serve returns: the socket closes and the deferred Down runs.
StopServing ==
    /\ serving' = FALSE
    /\ task' = [Idle EXCEPT !.op = "down", !.at = "down"]
    /\ Call(DownProgram)

\* A request answers with the error; the ticker and the start stop the helper.
ReconcileFailed ==
    IF task.op \in {"tick", "start"} THEN StopServing
    ELSE Finish /\ UNCHANGED <<serving, cmds, failed>>

\* Mutant: a peer counts as removed although its removal failed.
RemovalIgnored ==
    /\ task.at = "drop"
    /\ task.now # None
    /\ Returned /\ failed
    /\ task' = [task EXCEPT !.now = None, !.left = @ \ {task.now}, !.dirty = TRUE]
    /\ peers' = [peers EXCEPT ![task.now] = None]
    /\ KeepBackend
    /\ UNCHANGED <<authorized, stored, serving, promised>>

RemovalFailed ==
    /\ task.at \in {"drop", "disable"}
    /\ task.now # None
    /\ Returned /\ failed
    /\ ReconcileFailed
    /\ UNCHANGED <<kernelVars, cache, faults, authorized, peers, stored, promised>>

Disabled ==
    /\ task.at = "disable"
    /\ task.left = {}
    /\ ReconcileFailed
    /\ UNCHANGED <<kernelVars, cache, faults, authorized, peers, stored, promised>>

Reconciled ==
    \/ task.op = "register" /\ Continue("check")
    \/ task.op \in {"query", "tick"} /\ Finish
    \/ task.op = "start" /\ task' = [task EXCEPT !.at = "set", !.left = Listed(peers)]

Dropped ==
    /\ task.at = "drop"
    /\ task.left = {}
    /\ Reconciled
    /\ IF task.dirty THEN Saved(peers) ELSE UNCHANGED <<stored, faults>>
    /\ UNCHANGED <<kernelVars, cache, cmds, failed, authorized, peers, serving, promised>>

DropUnsaved ==
    /\ task.at = "drop"
    /\ task.left = {} /\ task.dirty
    /\ SaveFails(peers)
    /\ ReconcileFailed
    /\ UNCHANGED <<kernelVars, cache, authorized, peers, promised>>

-----------------------------------------------------------------------------
\* register, once the records were reconciled

Free == {h \in Hosts : \A d \in Listed(peers) : peers[d].host # h}

HostFor(d) ==
    IF peers[d] # None THEN peers[d].host
    ELSE CHOOSE h \in Free : \A g \in Free : h <= g

Admissible(d, k, e) ==
    /\ peers[d] # None => (peers[d].exit = "service") = (e = "service")
    /\ \A o \in Listed(peers) \ {d} :
          /\ ~(e = "service" /\ peers[o].exit = "service")
          /\ peers[o].key # k
    /\ e = "home" => HasService(peers)
    /\ peers[d] = None => Cardinality(Listed(peers)) < MaxPeers

RegisterRefused ==
    /\ At("register", "check")
    /\ ~Admissible(task.id, task.key, task.exit)
    /\ Finish
    /\ KeepBackend
    /\ UNCHANGED <<authorized, peers, stored, serving, promised>>

Admit ==
    /\ At("register", "check")
    /\ Admissible(task.id, task.key, task.exit)
    /\ task' = [task EXCEPT !.at = "replace", !.old = peers[task.id]]
    /\ CallOnly(IF peers[task.id] # None /\ peers[task.id].key # task.key
                THEN RemoveProgram(peers[task.id]) ELSE <<>>)
    /\ UNCHANGED <<authorized, peers, stored, serving, promised>>

Requested == [key |-> task.key, host |-> HostFor(task.id), exit |-> task.exit]

ReplaceFailed ==
    /\ At("register", "replace")
    /\ Returned /\ failed
    /\ Finish
    /\ KeepBackend
    /\ UNCHANGED <<authorized, peers, stored, serving, promised>>

Record ==
    /\ At("register", "replace")
    /\ Returned /\ ~failed
    /\ peers' = [peers EXCEPT ![task.id] = Requested]
    /\ Saved(peers')
    /\ Continue("apply")
    /\ Call(SetProgram(Requested))
    /\ UNCHANGED <<kernelVars, cache, authorized, serving, promised>>

\* The old peer is put back; whether that works is not looked at.
RecordUnsaved ==
    /\ At("register", "replace")
    /\ Returned /\ ~failed
    /\ SaveFails([peers EXCEPT ![task.id] = Requested])
    /\ IF task.old = None THEN Finish /\ UNCHANGED <<cmds, failed>>
       ELSE Continue("restore") /\ Call(SetProgram(task.old))
    /\ UNCHANGED <<kernelVars, cache, authorized, peers, serving, promised>>

Registered ==
    /\ At("register", "apply")
    /\ Returned /\ ~failed
    /\ promised' = [promised EXCEPT ![task.key] = task.exit]
    /\ Finish
    /\ KeepBackend
    /\ UNCHANGED <<authorized, peers, stored, serving>>

\* Mutant: what the failed call left in the kernel is not taken out.
ApplyFailedKept ==
    /\ At("register", "apply")
    /\ Returned /\ failed
    /\ Continue("retract")
    /\ CallOnly(<<>>)
    /\ UNCHANGED <<authorized, peers, stored, serving, promised>>

ApplyFailed ==
    /\ At("register", "apply")
    /\ Returned /\ failed
    /\ Continue("retract")
    /\ CallOnly(RemoveProgram(peers[task.id]))
    /\ UNCHANGED <<authorized, peers, stored, serving, promised>>

\* Mutant: the kernel gets the old peer back, the records do not.
RetractedKept ==
    /\ At("register", "retract")
    /\ Returned
    /\ Continue("unsaved")
    /\ CallOnly(IF task.old = None THEN <<>> ELSE SetProgram(task.old))
    /\ UNCHANGED <<authorized, peers, stored, serving, promised>>

Retracted ==
    /\ At("register", "retract")
    /\ Returned
    /\ peers' = [peers EXCEPT ![task.id] = task.old]
    /\ Continue("unsaved")
    /\ CallOnly(IF task.old = None THEN <<>> ELSE SetProgram(task.old))
    /\ UNCHANGED <<authorized, stored, serving, promised>>

\* Mutant: the peer put back is not saved.
PutBackUnsaved ==
    /\ At("register", "unsaved")
    /\ Returned
    /\ Finish
    /\ KeepBackend
    /\ UNCHANGED <<authorized, peers, stored, serving, promised>>

\* The save of the peer put back may fail as well; the request has failed.
PutBack ==
    /\ At("register", "unsaved")
    /\ Returned
    /\ Saved(peers) \/ SaveFails(peers)
    /\ Finish
    /\ UNCHANGED <<kernelVars, cache, cmds, failed, authorized, peers, serving, promised>>

Restored ==
    /\ At("register", "restore")
    /\ Returned
    /\ Finish
    /\ KeepBackend
    /\ UNCHANGED <<authorized, peers, stored, serving, promised>>

-----------------------------------------------------------------------------
\* Remove

RemoveFailed ==
    /\ task.at = "remove"
    /\ Returned /\ failed
    /\ Finish
    /\ KeepBackend
    /\ UNCHANGED <<authorized, peers, stored, serving, promised>>

RemoveDone ==
    /\ task.at = "remove"
    /\ Returned /\ ~failed
    /\ peers' = [peers EXCEPT ![task.id] = None]
    /\ Saved(peers') \/ SaveFails(peers')
    /\ Finish
    /\ UNCHANGED <<kernelVars, cache, cmds, failed, authorized, serving, promised>>

-----------------------------------------------------------------------------
\* Serve, from start to stop; systemd starts the helper again.

Start ==
    /\ ~serving /\ task = Idle
    /\ Loadable(stored)
    /\ peers' = stored
    /\ cache' = [k \in Keys |-> None]
    /\ task' = [Idle EXCEPT !.op = "start", !.at = "up"]
    /\ Call(UpProgram)
    /\ UNCHANGED <<kernelVars, faults, authorized, stored, serving, promised>>

UpFailed ==
    /\ At("start", "up")
    /\ Returned /\ failed
    /\ Finish
    /\ KeepBackend
    /\ UNCHANGED <<authorized, peers, stored, serving, promised>>

Up ==
    /\ At("start", "up")
    /\ Returned /\ ~failed
    /\ Continue("read")
    /\ KeepBackend
    /\ UNCHANGED <<authorized, peers, stored, serving, promised>>

SetNext(d) ==
    /\ At("start", "set")
    /\ task.now = None
    /\ d \in task.left
    /\ task' = [task EXCEPT !.now = d]
    /\ CallOnly(SetProgram(peers[d]))
    /\ UNCHANGED <<authorized, peers, stored, serving, promised>>

IsSet ==
    /\ At("start", "set")
    /\ task.now # None
    /\ Returned /\ ~failed
    /\ task' = [task EXCEPT !.now = None, !.left = @ \ {task.now}]
    /\ KeepBackend
    /\ UNCHANGED <<authorized, peers, stored, serving, promised>>

SetFailed ==
    /\ At("start", "set")
    /\ task.now # None
    /\ Returned /\ failed
    /\ StopServing
    /\ UNCHANGED <<kernelVars, cache, faults, authorized, peers, stored, promised>>

Serve ==
    /\ At("start", "set")
    /\ task.left = {}
    /\ serving' = TRUE
    /\ Finish
    /\ KeepBackend
    /\ UNCHANGED <<authorized, peers, stored, promised>>

\* The service is stopped, by an update for instance.
Stop ==
    /\ serving /\ task = Idle
    /\ StopServing
    /\ UNCHANGED <<kernelVars, cache, faults, authorized, peers, stored, promised>>

\* vpn-cleanup, which systemd runs once the helper has stopped (ExecStopPost)
Cleanup ==
    /\ ~serving /\ task = Idle
    /\ task' = [Idle EXCEPT !.op = "down", !.at = "down"]
    /\ CallOnly(DownProgram)
    /\ UNCHANGED <<authorized, peers, stored, serving, promised>>

Down ==
    /\ task.at = "down"
    /\ Returned
    /\ Finish
    /\ KeepBackend
    /\ UNCHANGED <<authorized, peers, stored, serving, promised>>

\* The process is killed, with a command possibly under way.
Crash ==
    /\ serving \/ task # Idle
    /\ CountFault
    /\ serving' = FALSE
    /\ task' = Idle
    /\ peers' = Nobody
    /\ cache' = [k \in Keys |-> None]
    /\ cmds' = <<>>
    /\ failed' = FALSE
    /\ UNCHANGED <<kernelVars, authorized, stored, promised>>

\* The core revokes a device in the records the helper reads.
Revoke(d) ==
    /\ d \in authorized
    /\ authorized' = authorized \ {d}
    /\ UNCHANGED <<kernelVars, cache, cmds, failed, faults, peers, stored, serving, task, promised>>

Command == BackendStep /\ UNCHANGED managerVars

-----------------------------------------------------------------------------
Reconcile ==
    \/ ReadRecords \/ RecordsUnavailable \/ Removed \/ RemovalFailed \/ Disabled
    \/ Dropped \/ DropUnsaved
    \/ \E d \in Devices : RemoveNext(d)

Register ==
    \/ RegisterRefused \/ Admit \/ ReplaceFailed \/ Record \/ RecordUnsaved
    \/ Registered \/ ApplyFailed \/ Retracted \/ PutBack \/ Restored

Lifecycle ==
    \/ UpFailed \/ Up \/ IsSet \/ SetFailed \/ Serve \/ Down
    \/ \E d \in Devices : SetNext(d)

\* The steps of a task that is under way.
Progress == Command \/ Reconcile \/ Register \/ RemoveFailed \/ RemoveDone \/ Lifecycle

Next ==
    \/ Progress
    \/ \E d \in Devices, k \in Keys, e \in Exits : BeginRegister(d, k, e)
    \/ \E d \in Devices : BeginRemove(d)
    \/ BeginQuery \/ BeginTick
    \/ Start \/ Stop \/ Cleanup \/ Crash
    \/ \E d \in Devices : Revoke(d)

Spec == Init /\ [][Next]_vars

\* Commands end within four seconds, the ticker gets the lock that requests
\* compete for (sync.Mutex starves nobody), and systemd restarts the helper.
FairSpec ==
    /\ Spec
    /\ WF_vars(Progress)
    /\ SF_vars(BeginTick)
    /\ SF_vars(Start)

-----------------------------------------------------------------------------
\* Home-selected traffic cannot fall back to the VPS exit (core/README.md:20):
\* the packets of a key that was promised the home exit, and for which no other
\* was asked since, never leave through the VPS's uplink: not in the middle of
\* an update, nor after one that failed, nor after a crash.
HomeNeverFallsBack ==
    \A h \in Hosts : owner[h] # None /\ promised[owner[h]] = "home" => ~LeavesAtVPS(h)

\* peers.json is always something NewManager accepts, so the helper can start
\* again whatever sequence of registrations, failures and crashes wrote it.
AlwaysLoadable == Loadable(stored)

\* Nothing but recorded peers is in the kernel between two tasks of a helper: an
\* unknown one would survive its device's revocation, which goes by the records.
Working == serving /\ task = Idle
KernelKnown ==
    Working => \A h \in Hosts : owner[h] # None =>
        \E d \in Listed(peers) : peers[d].key = owner[h] /\ peers[d].host = h

Connected(p) == IF p.exit = "service" THEN gateway = p.key ELSE owner[p.host] = p.key

\* Without faults the kernel, the backend's cache and the file all say the same.
AllAgree ==
    Working /\ faults = 0 =>
        /\ stored = peers
        /\ \A d \in Listed(peers) : Connected(peers[d]) /\ cache[peers[d].key] = peers[d]
        /\ \A h \in Hosts :
              LET here == {d \in Listed(peers) : peers[d].host = h}
              IN  /\ chain[h] = IF here = {} THEN <<>>
                                ELSE Reverse(Rules(peers[CHOOSE d \in here : TRUE].exit))
                  /\ h \in policy <=> \E d \in here : peers[d].exit = "home"

\* The types, and what the file and the kernel say.
Inv == TypeOK /\ AlwaysLoadable /\ AllAgree

\* A registration that fails leaves the one before it in the map (manager_test.go:108-110),
\* and one that failed in the kernel, in peers.json too, unless the roll-back's own save
\* fails (manager.go:216-226).  A save that failed after its rename (manager.go:207-214)
\* has left the refused registration in the file.
FailureKeepsRegistration ==
    [][task.op = "register" /\ task.at \in {"replace", "apply", "unsaved", "restore"}
        /\ task' = Idle /\ serving' /\ ~Registered =>
            /\ peers'[task.id] = task.old
            /\ task.at = "unsaved" /\ faults' = faults => stored' = peers']_vars

\* What revocation takes away is gone for good: in the end every address belongs
\* to a device that is still authorized (core/README.md:66-68).
RevocationTakesEffect ==
    <>[](\A h \in Hosts : owner[h] # None =>
            \E d \in authorized \cap Listed(peers) : peers[d].key = owner[h])

-----------------------------------------------------------------------------
\* What a comment says and the code does not keep.

\* "Remove the ingress interface first, including on crash cleanup"
\* (linux.go:255).  Killed before it tagged the interface, the helper takes it
\* for somebody else's.
InterfaceReclaimed == [](link = "bare" => <>(link # "bare"))
=============================================================================
