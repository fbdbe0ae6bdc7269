---------------------------- MODULE LinuxBackend ----------------------------
(***************************************************************************)
(* The Linux backend of the VPN helper (core/internal/vpn/linux.go,        *)
(* home_routing.go) and the part of the kernel it configures.  A call of   *)
(* the backend is a program of ip, wg and iptables commands, each a step.  *)
(* A command may fail without effect, or fail after it took effect when it *)
(* is killed at its time limit of four seconds; a query that fails is read *)
(* as "not there" (linux.go:43-46, 87-96).                                 *)
(***************************************************************************)
EXTENDS Naturals, FiniteSets, SequencesExt

CONSTANTS
    Keys,        \* WireGuard public keys
    LastHost,    \* the highest host number of the /24 (254)
    None,
    MaxFaults    \* bound: commands, saves and reads that fail, and crashes

ASSUME BackendAssumption ==
    /\ LastHost \in Nat /\ LastHost >= 2
    /\ MaxFaults \in Nat
    /\ None \notin Keys

VARIABLES
    link,        \* the interface epwg0: not there, there, or tagged as ours
    base,        \* the rules of the interface itself: drop, and NAT to the uplink
    owner,       \* WireGuard: the key whose allowed-ips hold an address
    gateway,     \* WireGuard: the key whose allowed-ips are 0.0.0.0/0
    chain,       \* FORWARD: the rules tagged with a host, first match first
    policy,      \* addresses routed by the table of the home exit
    cache,       \* Linux.peers
    cmds,        \* what is left of the call that runs
    failed,      \* the call has failed
    faults       \* how many faults there were

kernelVars == <<link, base, owner, gateway, chain, policy>>
backendVars == <<link, base, owner, gateway, chain, policy, cache, cmds, failed, faults>>

Hosts == 2..LastHost
Exits == {"vps", "home", "service"}

\* A home service is a peer of its own; it has no exit.
Peer == [key : Keys, host : Hosts, exit : Exits]

\* None stands for no peer and for no exit promised.
ASSUME NoneAssumption == None \notin Peer /\ None \notin Exits

\* peerRules, in the order they are inserted; each goes in front of the last.
Rules(exit) ==
    CASE exit = "vps" -> <<"accept">>
      [] exit = "home" -> <<"guard", "return", "out">>
      [] exit = "service" -> <<>>

RuleNames == {"accept", "guard", "return", "out"}

Cmd(do, p, r) == [do |-> do, peer |-> p, rule |-> r]

BackendTypeOK ==
    /\ link \in {"none", "bare", "ours"}
    /\ base \in BOOLEAN
    /\ owner \in [Hosts -> Keys \cup {None}]
    /\ gateway \in Keys \cup {None}
    /\ \A h \in Hosts : ToSet(chain[h]) \subseteq RuleNames
    /\ policy \subseteq Hosts
    /\ cache \in [Keys -> Peer \cup {None}]
    /\ failed \in BOOLEAN
    /\ faults \in 0..MaxFaults

BackendInit ==
    /\ link = "none"
    /\ base = FALSE
    /\ owner = [h \in Hosts |-> None]
    /\ gateway = None
    /\ chain = [h \in Hosts |-> <<>>]
    /\ policy = {}
    /\ cache = [k \in Keys |-> None]
    /\ cmds = <<>>
    /\ failed = FALSE
    /\ faults = 0

-----------------------------------------------------------------------------
\* The programs.

ForRules(do, p) == [i \in DOMAIN Rules(p.exit) |-> Cmd(do, p, Rules(p.exit)[i])]

WhenHome(do, p) == IF p.exit = "home" THEN <<Cmd(do, p, None)>> ELSE <<>>

\* configurePeerRouting
RoutingProgram(p) == WhenHome("policy add", p) \o ForRules("insert", p)
RoutingRemoval(p) == ForRules("delete", p) \o WhenHome("policy del", p)

\* Mutant: the routing of a peer stays when the peer goes.
RemoveKeyOnly(p) == <<Cmd("wg remove", p, None), Cmd("forget", p, None)>>

\* RemovePeer, by the key of p: what the cache says of it is taken down.
RemoveProgram(p) ==
    <<Cmd("wg remove", p, None)>> \o
        IF cache[p.key] = None THEN <<>>
        ELSE RoutingRemoval(cache[p.key]) \o <<Cmd("forget", p, None)>>

\* SetPeer
SetProgram(p) ==
    IF cache[p.key] = p THEN <<>>
    ELSE (IF cache[p.key] = None THEN <<>> ELSE RemoveProgram(p))
             \o RoutingProgram(p)
             \o <<Cmd("wg set", p, None), Cmd("remember", p, None)>>

ForInterface(do) == Cmd(do, None, None)

\* Down
DownProgram == <<ForInterface("link delete"), ForInterface("clean rules"),
                 ForInterface("clean policies")>>

\* Up
UpProgram ==
    DownProgram \o <<ForInterface("link add"), ForInterface("link alias"),
                     ForInterface("configure")>>

-----------------------------------------------------------------------------
\* What the commands do.

SetLink(state) ==
    /\ link' = state
    /\ owner' = [h \in Hosts |-> None]
    /\ gateway' = None
    /\ UNCHANGED <<base, chain, policy>>

\* WireGuard takes an address away from the key that had it, and the other
\* addresses away from the key that gets it.
WgSet(p) ==
    /\ owner' = [h \in Hosts |->
                    IF p.exit # "service" /\ h = p.host THEN p.key
                    ELSE IF owner[h] = p.key THEN None ELSE owner[h]]
    /\ gateway' = IF p.exit = "service" THEN p.key
                  ELSE IF gateway = p.key THEN None ELSE gateway
    /\ UNCHANGED <<link, base, chain, policy>>

WgRemove(p) ==
    /\ owner' = [h \in Hosts |-> IF owner[h] = p.key THEN None ELSE owner[h]]
    /\ gateway' = IF gateway = p.key THEN None ELSE gateway
    /\ UNCHANGED <<link, base, chain, policy>>

SetChain(h, rules) ==
    /\ chain' = [chain EXCEPT ![h] = rules]
    /\ UNCHANGED <<link, base, owner, gateway, policy>>

SetPolicy(addresses) ==
    /\ policy' = addresses
    /\ UNCHANGED <<link, base, owner, gateway, chain>>

SetBase(there) ==
    /\ base' = there
    /\ UNCHANGED <<link, owner, gateway, policy>>

\* applyRules inserts what is not there yet, deletes what is.
Insert(c) == SetChain(c.peer.host, <<c.rule>> \o chain[c.peer.host])
Present(c) == Contains(chain[c.peer.host], c.rule)

Change(c) ==
    \/ c.do = "wg set" /\ WgSet(c.peer)
    \/ c.do = "wg remove" /\ WgRemove(c.peer)
    \/ c.do = "insert" /\ ~Present(c) /\ Insert(c)
    \/ c.do = "delete" /\ Present(c)
         /\ SetChain(c.peer.host, RemoveFirst(chain[c.peer.host], c.rule))
    \/ c.do = "insert" /\ Present(c) /\ UNCHANGED kernelVars
    \/ c.do = "delete" /\ ~Present(c) /\ UNCHANGED kernelVars
    \/ c.do = "policy add" /\ SetPolicy(policy \cup {c.peer.host})
    \/ c.do = "policy del" /\ SetPolicy(policy \ {c.peer.host})
    \/ c.do \in {"link delete", "link scrap"} /\ SetLink("none")
    \/ c.do = "link add" /\ SetLink("bare")
    \/ c.do = "link alias" /\ SetLink("ours")
    \/ c.do = "clean rules" /\ chain' = [h \in Hosts |-> <<>>] /\ SetBase(FALSE)
    \/ c.do = "clean policies" /\ SetPolicy({})
    \/ c.do = "configure" /\ UNCHANGED chain /\ SetBase(TRUE)

\* What the kernel, or the backend before it asks the kernel, refuses.
Possible(c) ==
    /\ c.do \in {"wg set", "wg remove"} => link = "ours"
    /\ c.do = "policy add" => c.peer.host \notin policy
    /\ c.do = "policy del" => c.peer.host \in policy
    /\ c.do = "link add" => link = "none"
    /\ c.do = "link delete" => link # "bare"

\* Entries of Linux.peers are written between commands.
Bookkeeping(c) == c.do \in {"forget", "remember"}

-----------------------------------------------------------------------------
\* Running a program.

Returned == cmds = <<>>
Call(program) == cmds' = program /\ failed' = FALSE

\* What runs instead of the rest of the program when c fails.
Rollback(c) ==
    CASE c.do = "wg set" -> RoutingRemoval(c.peer)
      [] c.do = "link alias" -> <<ForInterface("link scrap")>>
      [] c.do = "configure" -> DownProgram
      [] OTHER -> <<>>

CountFault ==
    /\ faults < MaxFaults
    /\ faults' = faults + 1

RunBookkeeping ==
    /\ ~Returned
    /\ Bookkeeping(Head(cmds))
    /\ cache' = [cache EXCEPT ![Head(cmds).peer.key] =
                    IF Head(cmds).do = "remember" THEN Head(cmds).peer ELSE None]
    /\ cmds' = Tail(cmds)
    /\ UNCHANGED <<kernelVars, failed, faults>>

RunCommand ==
    /\ ~Returned
    /\ ~Bookkeeping(Head(cmds))
    /\ Possible(Head(cmds))
    /\ Change(Head(cmds))
    /\ cmds' = Tail(cmds)
    /\ UNCHANGED <<cache, failed, faults>>

GiveUp ==
    /\ failed' = TRUE
    /\ cmds' = Rollback(Head(cmds))
    /\ UNCHANGED cache

CommandRefused ==
    /\ ~Returned
    /\ ~Possible(Head(cmds))
    /\ GiveUp
    /\ UNCHANGED <<kernelVars, faults>>

CommandFails ==
    /\ ~Returned
    /\ ~Bookkeeping(Head(cmds))
    /\ CountFault
    /\ GiveUp
    /\ \/ UNCHANGED kernelVars
       \/ Possible(Head(cmds)) /\ Change(Head(cmds))

\* The query before a command fails, so that a rule is inserted twice, or a
\* rule or the interface is left where it is, and nobody notices.
QueryFails ==
    /\ ~Returned
    /\ Head(cmds).do \in {"insert", "delete", "link delete"}
    /\ CountFault
    /\ IF Head(cmds).do = "insert" THEN Insert(Head(cmds)) ELSE UNCHANGED kernelVars
    /\ cmds' = Tail(cmds)
    /\ UNCHANGED <<cache, failed>>

BackendStep ==
    \/ RunBookkeeping \/ RunCommand \/ CommandRefused \/ CommandFails \/ QueryFails

-----------------------------------------------------------------------------
\* Where the traffic of an address leaves.

\* The first rule for the uplink that matches accepts.
UplinkAccepts(h) ==
    \E i \in DOMAIN chain[h] :
        /\ chain[h][i] = "accept"
        /\ \A j \in 1..(i - 1) : chain[h][j] # "guard"

\* To the Internet through the VPS: routed to the uplink, accepted, translated.
LeavesAtVPS(h) ==
    /\ link = "ours" /\ base /\ owner[h] # None /\ h \notin policy
    /\ UplinkAccepts(h)
=============================================================================
