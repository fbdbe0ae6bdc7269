---------------------------- MODULE WindowsTunnel ----------------------------
(***************************************************************************)
(* The supervisor service of the Windows app                               *)
(* (native/windows-vpn/main_windows.go): it serves connect and disconnect  *)
(* under a mutex by stopping and starting the tunnel, a service of its     *)
(* own, and install replaces it while requests and the tunnel may be under *)
(* way.  The service manager, the tunnel process and the rule that a file  *)
(* being executed cannot be written are Windows's.                         *)
(***************************************************************************)
EXTENDS Naturals

CONSTANTS
    Handlers,     \* requests that can be under way together
    Configs,      \* tunnel configurations
    Nil,          \* no configuration, nobody
    MaxRequests,  \* bound: requests
    MaxInstalls,  \* bound: runs of install
    MaxStops,     \* bound: stops of the supervisor and restarts of the computer
    MaxFaults     \* bound: calls of the system that fail

\* "stop" is the name of Execute's stop, below.
ASSUME NoConfig == Nil \notin Configs \cup Handlers \cup {"stop"} /\ "stop" \notin Handlers
ASSUME WindowsBounds ==
    /\ MaxRequests \in Nat /\ MaxInstalls \in Nat
    /\ MaxStops \in Nat /\ MaxFaults \in Nat

VARIABLES
    sup,        \* the supervisor service
    mu,         \* who has the supervisor's mutex
    where,      \* where each handler, and Execute's stop, is
    conf,       \* what each request asks for: a configuration, or Nil to disconnect
    tun,        \* the tunnel service and the configuration its process has read
    file,       \* EasyPrivacy.conf
    installer,  \* where install is
    off,        \* history: the last request the mutex let in was a disconnect, and it succeeded
    spent       \* requests, installs, stops and faults so far
windowsVars == <<sup, mu, where, conf, tun, file, installer, off, spent>>

Stop == "stop"
Threads == Handlers \cup {Stop}
Holding == {"query", "wait", "write", "start", "poll"}
Down == {"absent", "stopped"}

WindowsTypeOK ==
    /\ sup \in {"absent", "running", "stopping", "stopped"}
    /\ mu \in Threads \cup {Nil}
    /\ where \in [Threads -> {"idle", "lock", "exit"} \cup Holding]
    /\ \A t \in Threads : where[t] \in Holding <=> mu = t
    /\ conf \in [Threads -> Configs \cup {Nil}]
    /\ tun \in [state : {"absent", "stopped", "starting", "running", "stopping"},
                conf : Configs \cup {Nil}]
    /\ file \in Configs \cup {Nil} /\ installer \in {"idle", "waits", "starts"} /\ off \in BOOLEAN
    /\ spent \in [requests : 0..MaxRequests, installs : 0..MaxInstalls, stops : 0..MaxStops,
                  faults : 0..MaxFaults]

WindowsInit ==
    /\ sup = "absent" /\ mu = Nil
    /\ where = [t \in Threads |-> "idle"] /\ conf = [t \in Threads |-> Nil]
    /\ tun = [state |-> "absent", conf |-> Nil] /\ file = Nil
    /\ installer = "idle" /\ off = FALSE
    /\ spent = [requests |-> 0, installs |-> 0, stops |-> 0, faults |-> 0]

Bounded(what, max) == spent[what] < max /\ spent' = [spent EXCEPT ![what] = @ + 1]
Goto(t, at) == where' = [where EXCEPT ![t] = at]

-----------------------------------------------------------------------------
(***************************************************************************)
(* The handlers of connect and disconnect, and the stop in Execute.        *)
(***************************************************************************)
Ask(r, c) ==
    /\ sup = "running" /\ where[r] = "idle" /\ Bounded("requests", MaxRequests)
    /\ Goto(r, "lock") /\ conf' = [conf EXCEPT ![r] = c]
    /\ UNCHANGED <<sup, mu, tun, file, installer, off>>

Lock(t) ==
    /\ where[t] = "lock" /\ mu = Nil /\ mu' = t /\ Goto(t, "query")
    /\ off' = (off /\ conf[t] = Nil)
    /\ UNCHANGED <<sup, conf, tun, file, installer, spent>>

\* The handler answers; Execute returns after its unlock.
Release(t) ==
    /\ mu' = Nil /\ Goto(t, IF t = Stop THEN "exit" ELSE "idle")
    /\ conf' = [conf EXCEPT ![t] = Nil]

\* Mutant: connect goes on when the tunnel did not stop.
ConnectAnyway(t) ==
    /\ IF conf[t] # Nil THEN Goto(t, "write") /\ UNCHANGED <<mu, conf>> ELSE Release(t)
    /\ UNCHANGED <<sup, file, off>>

\* stopTunnel returned an error; Execute ignores it.
StopFailed(t) == Release(t) /\ UNCHANGED <<sup, file, off>>

StopDone(t) ==
    /\ IF conf[t] # Nil THEN Goto(t, "write") /\ UNCHANGED <<mu, conf, file, off>>
       ELSE /\ Release(t)
            /\ IF t = Stop THEN UNCHANGED <<file, off>> ELSE file' = Nil /\ off' = TRUE
    /\ UNCHANGED sup

\* Mutant: whatever the service manager answers, the tunnel counts as stopped.
QueryIgnoring(t) ==
    /\ where[t] = "query"
    /\ IF tun.state = "running"
       THEN /\ tun' = [tun EXCEPT !.state = "stopping"] /\ Goto(t, "wait")
            /\ UNCHANGED <<sup, mu, conf, file, off>>
       ELSE StopDone(t) /\ UNCHANGED tun
    /\ UNCHANGED <<installer, spent>>

\* The service manager refuses the control of a service that is starting or stopping.
Query(t) ==
    /\ where[t] = "query"
    /\ \/ tun.state \in Down /\ StopDone(t) /\ UNCHANGED tun
       \/ tun.state \in {"starting", "stopping"} /\ StopFailed(t) /\ UNCHANGED tun
       \/ /\ tun.state = "running" /\ tun' = [tun EXCEPT !.state = "stopping"]
          /\ Goto(t, "wait") /\ UNCHANGED <<sup, mu, conf, file, off>>
    /\ UNCHANGED <<installer, spent>>

\* The poll sees the tunnel stopped, or gives up after eight seconds.
Wait(t) ==
    /\ where[t] = "wait"
    /\ IF tun.state = "stopped" THEN StopDone(t) ELSE StopFailed(t)
    /\ UNCHANGED <<tun, installer, spent>>

Write(t) ==
    /\ where[t] = "write" /\ file' = conf[t] /\ Goto(t, "start")
    /\ UNCHANGED <<sup, mu, conf, tun, installer, off, spent>>

Start(t) ==
    /\ where[t] = "start"
    /\ IF tun.state \in Down
       THEN tun' = [state |-> "starting", conf |-> Nil] /\ Goto(t, "poll") /\ UNCHANGED <<mu, conf>>
       ELSE Release(t) /\ UNCHANGED tun
    /\ UNCHANGED <<sup, file, installer, off, spent>>

\* Mutant: the poll has no end.
PollOn(t) ==
    /\ where[t] = "poll" /\ tun.state # "starting" /\ Release(t)
    /\ UNCHANGED <<sup, tun, file, installer, off, spent>>

\* The poll sees the tunnel running, or stopped, or gives up after ten seconds.
Poll(t) ==
    /\ where[t] = "poll" /\ Release(t)
    /\ UNCHANGED <<sup, tun, file, installer, off, spent>>

SystemFails(t) ==
    /\ where[t] \in Holding /\ Bounded("faults", MaxFaults) /\ Release(t)
    /\ UNCHANGED <<sup, tun, file, installer, off>>

Handle(t) == Lock(t) \/ Query(t) \/ Wait(t) \/ Write(t) \/ Start(t) \/ Poll(t)

\* Execute gets the stop: no new requests, but those in a handler go on.
Control == sup = "running" /\ sup' = "stopping" /\ Goto(Stop, "lock")

\* The process ends, and with it every handler.
Dies == mu' = Nil /\ where' = [t \in Threads |-> "idle"] /\ conf' = [t \in Threads |-> Nil]

Exit ==
    /\ where[Stop] = "exit" /\ Dies /\ sup' = "stopped"
    /\ UNCHANGED <<tun, file, installer, off, spent>>

\* The server ends by itself; nobody stops the tunnel.
ServeFails ==
    /\ sup = "running" /\ Bounded("stops", MaxStops) /\ Dies /\ sup' = "stopped"
    /\ UNCHANGED <<tun, file, installer, off>>

StopService ==
    /\ Bounded("stops", MaxStops) /\ Control
    /\ UNCHANGED <<mu, conf, tun, file, installer, off>>

\* The supervisor starts with the computer, the tunnel does not.
Reboot ==
    /\ Bounded("stops", MaxStops)
    /\ sup' = IF sup = "absent" THEN sup ELSE "running"
    /\ Dies /\ tun' = [state |-> IF tun.state = "absent" THEN "absent" ELSE "stopped", conf |-> Nil]
    /\ installer' = "idle" /\ UNCHANGED <<file, off>>

-----------------------------------------------------------------------------
(***************************************************************************)
(* The tunnel process.                                                     *)
(***************************************************************************)
Tunnel(from, to, c) ==
    /\ tun.state = from /\ tun' = [state |-> to, conf |-> c]
    /\ UNCHANGED <<sup, mu, where, conf, file, installer, off, spent>>

TunnelReads == tun.conf = Nil /\ file # Nil /\ Tunnel("starting", "starting", file)
TunnelUp == tun.conf # Nil /\ Tunnel("starting", "running", tun.conf)
TunnelEnds == \E from \in {"starting", "running", "stopping"} : Tunnel(from, "stopped", Nil)

-----------------------------------------------------------------------------
(***************************************************************************)
(* install.                                                                *)
(***************************************************************************)
InstallBegins ==
    /\ installer = "idle" /\ Bounded("installs", MaxInstalls)
    /\ installer' = "waits"
    /\ IF sup = "running" THEN Control ELSE UNCHANGED <<sup, where>>
    /\ UNCHANGED <<mu, conf, tun, file, off>>

\* The supervisor has stopped, or three seconds are over.  Both services execute the file.
InUse == sup \in {"running", "stopping"} \/ tun.state \notin Down
InstallWrites ==
    /\ installer = "waits"
    /\ installer' = IF InUse THEN "idle" ELSE "starts"
    /\ UNCHANGED <<sup, mu, where, conf, tun, file, off, spent>>

InstallStarts ==
    /\ installer = "starts" /\ installer' = "idle" /\ sup' = "running"
    /\ UNCHANGED <<mu, where, conf, tun, file, off, spent>>

InstallFails ==
    /\ installer # "idle" /\ Bounded("faults", MaxFaults) /\ installer' = "idle"
    /\ UNCHANGED <<sup, mu, where, conf, tun, file, off>>

WindowsNext ==
    \/ \E r \in Handlers, c \in Configs \cup {Nil} : Ask(r, c)
    \/ \E t \in Threads : Handle(t) \/ SystemFails(t)
    \/ Exit \/ StopService \/ ServeFails \/ Reboot
    \/ TunnelReads \/ TunnelUp \/ TunnelEnds
    \/ InstallBegins \/ InstallWrites \/ InstallStarts \/ InstallFails

WindowsSpec == WindowsInit /\ [][WindowsNext]_windowsVars

\* Handlers run and polls end; the mutex starves nobody.  Nothing is assumed of the tunnel.
WindowsFairSpec == WindowsSpec /\ \A t \in Threads : SF_windowsVars(Handle(t))

-----------------------------------------------------------------------------
(***************************************************************************)
(* Properties.                                                             *)
(***************************************************************************)
\* After a disconnect that answered 200 no tunnel comes up, not even one whose start was
\* still going on, until a connect gets the mutex.
DisconnectHolds == off => tun.state \in Down

\* The file of a tunnel is neither replaced nor removed under it: what runs is what the file
\* says, whatever gave up, failed or was replaced meanwhile.
ConfigCurrent == tun.conf # Nil => tun.conf = file

\* The types, with who holds the mutex, and the file of what runs.
WindowsInv == WindowsTypeOK /\ ConfigCurrent

\* Every request is answered, or ends with the supervisor, whatever the tunnel does.
Handled == \A r \in Handlers : where[r] # "idle" ~> where[r] = "idle"
=============================================================================
