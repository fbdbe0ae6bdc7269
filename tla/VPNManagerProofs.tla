-------------------------- MODULE VPNManagerProofs --------------------------
(***************************************************************************)
(* Proofs about VPNManager for any number of devices, keys, addresses and  *)
(* faults.                                                                 *)
(***************************************************************************)
EXTENDS VPNManager, FiniteSetTheorems, SequenceTheorems, TLAPS

-----------------------------------------------------------------------------
(***************************************************************************)
(* The inductive invariant, in parts.                                      *)
(***************************************************************************)
PeerCommands == {"wg set", "wg remove", "insert", "delete", "policy add", "policy del",
                 "forget", "remember"}
InterfaceCommands == {"link delete", "link scrap", "link add", "link alias", "clean rules",
                      "clean policies", "configure"}

\* A command names the interface, or a peer and, for a rule, which one.
Commands ==
    {c \in [do : PeerCommands \cup InterfaceCommands, peer : Peer \cup {None},
            rule : RuleNames \cup {None}] :
        /\ c.do \in PeerCommands => c.peer \in Peer
        /\ c.do \in {"insert", "delete"} => c.rule \in RuleNames}

\* TypeOK, with what runs and what the chains hold.
KernelTypes ==
    /\ link \in {"none", "bare", "ours"}
    /\ base \in BOOLEAN
    /\ owner \in [Hosts -> Keys \cup {None}]
    /\ gateway \in Keys \cup {None}
    /\ chain \in [Hosts -> Seq(RuleNames)]
    /\ policy \subseteq Hosts

\* What a call may write besides the kernel.
CallTypes ==
    /\ cache \in [Keys -> Peer \cup {None}]
    /\ cmds \in Seq(Commands)
    /\ failed \in BOOLEAN
    /\ faults \in 0..MaxFaults

ManagerTypes ==
    /\ authorized \subseteq Devices
    /\ peers \in [Devices -> Peer \cup {None}]
    /\ stored \in [Devices -> Peer \cup {None}]
    /\ serving \in BOOLEAN
    /\ task \in Task
    /\ promised \in [Keys -> Exits \cup {None}]

\* Which step belongs to which operation, and which of them the socket answers.
Places ==
    /\ task.op = "idle" => task = Idle
    /\ task.op \in {"register", "query", "tick", "remove"} => serving
    /\ task.op \in {"start", "down"} => ~serving
    /\ task.op = "register" =>
          /\ task.id # None /\ task.key # None
          /\ task.at \in {"read", "disable", "drop", "check", "replace", "apply", "retract",
                          "restore", "unsaved"}
    /\ task.op \in {"query", "tick"} => task.at \in {"read", "disable", "drop"}
    /\ task.op = "remove" => task.id # None /\ task.at = "remove"
    /\ task.op = "start" => task.at \in {"up", "read", "disable", "drop", "set"}
    /\ task.op = "down" => task.at = "down"

\* A loop goes over peers that are there.
Looping ==
    /\ task.now # None => task.now \in task.left /\ task.at \in {"drop", "disable", "set"}
    /\ task.at \in {"drop", "disable", "set"} => task.left \subseteq Listed(peers)

\* What an attempt to register has done so far, and what would undo it.
Attempt ==
    /\ task.at = "replace" => task.old = peers[task.id] /\ Admissible(task.id, task.key, task.exit)
    /\ task.at \in {"apply", "retract"} =>
          peers[task.id] # None /\ Loadable([peers EXCEPT ![task.id] = task.old])
    /\ task.at \in {"unsaved", "restore"} => peers[task.id] = task.old
    /\ task.at = "restore" => task.old # None

IInv ==
    /\ KernelTypes /\ CallTypes /\ ManagerTypes
    /\ Places /\ Looping /\ Attempt
    /\ Loadable(peers) /\ AlwaysLoadable

-----------------------------------------------------------------------------
(***************************************************************************)
(* Lemmas about the operators.                                             *)
(***************************************************************************)
\* A non-empty set of numbers has a lowest one: the address register takes, the first rule
\* that a delete finds.
LEMMA Lowest ==
    ASSUME NEW S \in SUBSET Nat, S # {}
    PROVE  \E h \in S : \A g \in S : h <= g
<1>1. PICK h \in S : \A g \in S : ~(<<g, h>> \in OpToRel(<, Nat))
  BY NatLessThanWellFounded, WFMin
<1>2. \A g \in S : ~(g < h)
  BY <1>1 DEF OpToRel
<1>3. h \in Nat /\ \A g \in S : g \in Nat
  OBVIOUS
<1>4. \A g \in S : h <= g
  BY <1>2, <1>3
<1> QED
  BY <1>4

\* A file that can be loaded can be loaded without one of its peers.
LEMMA LoadableWithout ==
    ASSUME ManagerAssumption, NEW ps \in [Devices -> Peer \cup {None}], NEW d \in Devices,
           Loadable(ps)
    PROVE  Loadable([ps EXCEPT ![d] = None])
<1> DEFINE qs == [ps EXCEPT ![d] = None]
<1>1. Listed(qs) \subseteq Listed(ps) /\ \A x \in Listed(qs) : qs[x] = ps[x]
  BY DEF Listed
<1>2. IsFiniteSet(Listed(ps))
  BY FS_Subset DEF ManagerAssumption, Listed
<1>3. Cardinality(Listed(qs)) <= MaxPeers
  <2>1. Cardinality(Listed(qs)) <= Cardinality(Listed(ps))
    BY <1>1, <1>2, FS_Subset
  <2>2. Cardinality(Listed(qs)) \in Nat /\ Cardinality(Listed(ps)) \in Nat
    BY <1>1, <1>2, FS_Subset, FS_CardinalityType
  <2> QED
    BY <2>1, <2>2 DEF Loadable, ManagerAssumption
<1> QED
  BY <1>1, <1>3 DEF Loadable

\* There is an address for one more peer while there are fewer than MaxPeers of them.
LEMMA SomeFree ==
    ASSUME BackendAssumption, ManagerAssumption, peers \in [Devices -> Peer \cup {None}],
           Cardinality(Listed(peers)) < MaxPeers
    PROVE  Free # {}
<1> SUFFICES ASSUME Free = {} PROVE FALSE
  OBVIOUS
<1>1. IsFiniteSet(Listed(peers))
  BY FS_Subset DEF ManagerAssumption, Listed
<1>2. \A h \in Hosts : \E d \in Listed(peers) : peers[d].host = h
  BY DEF Free
<1> DEFINE holder == [h \in Hosts |-> CHOOSE d \in Listed(peers) : peers[d].host = h]
<1>3. \A h \in Hosts : holder[h] \in Listed(peers) /\ peers[holder[h]].host = h
  BY <1>2
<1>4. holder \in Injection(Hosts, Listed(peers))
  <2>1. holder \in [Hosts -> Listed(peers)]
    BY <1>3
  <2>2. \A g, h \in Hosts : holder[g] = holder[h] => g = h
    BY <1>3
  <2> HIDE DEF holder
  <2> QED
    BY <2>1, <2>2 DEF Injection, IsInjective
<1>5. Cardinality(Hosts) <= Cardinality(Listed(peers))
  BY <1>1, <1>4, FS_Injection
<1>6. Cardinality(Hosts) = LastHost - 1
  BY FS_Interval DEF Hosts, BackendAssumption
<1>7. Cardinality(Listed(peers)) \in Nat
  BY <1>1, FS_CardinalityType
<1> QED
  BY <1>5, <1>6, <1>7 DEF ManagerAssumption, BackendAssumption

\* The address register gives is the device's own, or one nobody has.
LEMMA HostGiven ==
    ASSUME BackendAssumption, ManagerAssumption, peers \in [Devices -> Peer \cup {None}],
           NEW d \in Devices, peers[d] = None => Cardinality(Listed(peers)) < MaxPeers
    PROVE  /\ HostFor(d) \in Hosts
           /\ peers[d] # None => HostFor(d) = peers[d].host
           /\ peers[d] = None => HostFor(d) \in Free
<1>1. CASE peers[d] # None
  BY <1>1 DEF HostFor, Peer
<1>2. CASE peers[d] = None
  <2>1. Free # {} /\ Free \subseteq Hosts
    BY <1>2, SomeFree DEF Free
  <2>2. Free \subseteq Nat
    BY <2>1 DEF Hosts, BackendAssumption
  <2>3. \E h \in Free : \A g \in Free : h <= g
    BY <2>1, <2>2, Lowest
  <2> QED
    BY <1>2, <2>1, <2>3 DEF HostFor
<1> QED
  BY <1>1, <1>2

\* What register records of an admissible request can be loaded.
LEMMA LoadableWith ==
    ASSUME BackendAssumption, ManagerAssumption, peers \in [Devices -> Peer \cup {None}],
           NEW d \in Devices, NEW k \in Keys, NEW e \in Exits,
           Loadable(peers), Admissible(d, k, e)
    PROVE  /\ [key |-> k, host |-> HostFor(d), exit |-> e] \in Peer
           /\ Loadable([peers EXCEPT ![d] = [key |-> k, host |-> HostFor(d), exit |-> e]])
<1> DEFINE p == [key |-> k, host |-> HostFor(d), exit |-> e]
           qs == [peers EXCEPT ![d] = p]
<1>1. /\ HostFor(d) \in Hosts
      /\ peers[d] # None => HostFor(d) = peers[d].host
      /\ peers[d] = None => HostFor(d) \in Free
  BY HostGiven DEF Admissible
<1>2. p \in Peer
  BY <1>1 DEF Peer
<1>3. None \notin Peer
  BY NoneAssumption
<1>4. qs[d] = p /\ \A x \in Devices \ {d} : qs[x] = peers[x]
  OBVIOUS
<1>5. Listed(qs) = Listed(peers) \cup {d}
  BY <1>2, <1>3, <1>4 DEF Listed
<1>6. Cardinality(Listed(qs)) <= MaxPeers
  <2>1. IsFiniteSet(Listed(peers))
    BY FS_Subset DEF ManagerAssumption, Listed
  <2>2. Cardinality(Listed(qs)) = IF d \in Listed(peers) THEN Cardinality(Listed(peers))
                                  ELSE Cardinality(Listed(peers)) + 1
    BY <1>5, <2>1, FS_AddElement
  <2>3. Cardinality(Listed(peers)) \in Nat
    BY <2>1, FS_CardinalityType
  <2>4. d \notin Listed(peers) => Cardinality(Listed(peers)) < MaxPeers
    BY DEF Listed, Admissible
  <2>5. Cardinality(Listed(peers)) <= MaxPeers
    BY DEF Loadable
  <2> QED
    BY <2>2, <2>3, <2>4, <2>5 DEF ManagerAssumption
<1>7. ASSUME NEW x \in Listed(qs), NEW y \in Listed(qs), x # y, x # d, y # d
      PROVE  /\ qs[x].host # qs[y].host
             /\ qs[x].key # qs[y].key
             /\ ~(qs[x].exit = "service" /\ qs[y].exit = "service")
  BY <1>4, <1>5, <1>7 DEF Loadable, Listed
<1>8. ASSUME NEW x \in Listed(qs), x # d
      PROVE  /\ qs[x].host # p.host
             /\ qs[x].key # p.key
             /\ ~(qs[x].exit = "service" /\ p.exit = "service")
  <2>1. x \in Listed(peers) /\ qs[x] = peers[x]
    BY <1>4, <1>5, <1>8 DEF Listed
  <2>2. qs[x].host # p.host
    <3>1. CASE peers[d] # None
      BY <1>1, <1>8, <2>1, <3>1 DEF Loadable, Listed
    <3>2. CASE peers[d] = None
      BY <1>1, <2>1, <3>2 DEF Free
    <3> QED
      BY <3>1, <3>2
  <2>3. qs[x].key # p.key /\ ~(qs[x].exit = "service" /\ p.exit = "service")
    BY <1>8, <2>1 DEF Admissible
  <2> QED
    BY <2>2, <2>3
<1> HIDE DEF p, qs
<1>9. Loadable(qs)
  BY <1>4, <1>6, <1>7, <1>8 DEF Loadable
<1> QED
  BY <1>2, <1>9 DEF p, qs

-----------------------------------------------------------------------------
(***************************************************************************)
(* Programs are sequences of commands.                                     *)
(***************************************************************************)
LEMMA ShortSequences ==
    ASSUME NEW S, NEW a \in S, NEW b \in S, NEW c \in S
    PROVE  <<a>> \in Seq(S) /\ <<a, b>> \in Seq(S) /\ <<a, b, c>> \in Seq(S)
<1> QED
  OBVIOUS

LEMMA CommandTypes ==
    /\ \A do \in InterfaceCommands : ForInterface(do) \in Commands
    /\ \A do \in PeerCommands \ {"insert", "delete"}, p \in Peer : Cmd(do, p, None) \in Commands
    /\ \A do \in PeerCommands, p \in Peer, r \in RuleNames : Cmd(do, p, r) \in Commands
<1>1. \A do \in InterfaceCommands : ForInterface(do) \in Commands
  BY DEF InterfaceCommands, PeerCommands, ForInterface, Cmd, Commands
<1>2. \A do \in PeerCommands \ {"insert", "delete"}, p \in Peer : Cmd(do, p, None) \in Commands
  BY DEF InterfaceCommands, PeerCommands, Cmd, Commands
<1>3. \A do \in PeerCommands, p \in Peer, r \in RuleNames : Cmd(do, p, r) \in Commands
  BY DEF InterfaceCommands, PeerCommands, Cmd, Commands
<1> QED
  BY <1>1, <1>2, <1>3

LEMMA RuleTypes ==
    ASSUME NEW e \in Exits
    PROVE  Rules(e) \in Seq(RuleNames)
<1>1. CASE e = "vps"
  BY <1>1 DEF Rules, RuleNames
<1>2. CASE e = "home"
  BY <1>2 DEF Rules, RuleNames
<1>3. CASE e = "service"
  BY <1>3 DEF Rules, RuleNames
<1> QED
  BY <1>1, <1>2, <1>3 DEF Exits

LEMMA RoutingTypes ==
    ASSUME NEW p \in Peer
    PROVE  RoutingProgram(p) \in Seq(Commands) /\ RoutingRemoval(p) \in Seq(Commands)
<1>1. p.exit \in Exits
  BY DEF Peer
<1>2. ASSUME NEW do \in {"insert", "delete"}
      PROVE  ForRules(do, p) \in Seq(Commands)
  <2> DEFINE n == Len(Rules(p.exit))
  <2>1. n \in Nat /\ DOMAIN Rules(p.exit) = 1..n /\ \A i \in 1..n : Rules(p.exit)[i] \in RuleNames
    BY <1>1, RuleTypes, LenProperties, ElementOfSeq
  <2> HIDE DEF n
  <2>2. \A i \in 1..n : Cmd(do, p, Rules(p.exit)[i]) \in Commands
    BY <2>1, CommandTypes DEF PeerCommands
  <2>3. ForRules(do, p) \in [1..n -> Commands]
    BY <2>1, <2>2 DEF ForRules
  <2> QED
    BY <2>1, <2>3, SeqDef
<1>3. ASSUME NEW do \in {"policy add", "policy del"}
      PROVE  WhenHome(do, p) \in Seq(Commands)
  <2>1. Cmd(do, p, None) \in Commands
    BY CommandTypes DEF PeerCommands
  <2> HIDE DEF Commands
  <2> QED
    BY <2>1, ShortSequences, EmptySeq DEF WhenHome
<1>4. ForRules("insert", p) \in Seq(Commands) /\ ForRules("delete", p) \in Seq(Commands)
  BY <1>2
<1>5. WhenHome("policy add", p) \in Seq(Commands) /\ WhenHome("policy del", p) \in Seq(Commands)
  BY <1>3
<1> QED
  BY <1>4, <1>5, ConcatProperties DEF RoutingProgram, RoutingRemoval

LEMMA RemoveTypes ==
    ASSUME cache \in [Keys -> Peer \cup {None}], NEW p \in Peer
    PROVE  RemoveProgram(p) \in Seq(Commands)
<1>1. Cmd("wg remove", p, None) \in Commands /\ Cmd("forget", p, None) \in Commands
  BY CommandTypes DEF PeerCommands
<1>2. <<Cmd("wg remove", p, None)>> \in Seq(Commands) /\ <<Cmd("forget", p, None)>> \in Seq(Commands)
  BY <1>1, ShortSequences
<1>3. p.key \in Keys
  BY DEF Peer
<1>4. cache[p.key] # None => RoutingRemoval(cache[p.key]) \in Seq(Commands)
  BY <1>3, RoutingTypes
<1>5. cache[p.key] # None =>
          RoutingRemoval(cache[p.key]) \o <<Cmd("forget", p, None)>> \in Seq(Commands)
  BY <1>2, <1>4, ConcatProperties
<1>6. <<>> \in Seq(Commands)
  BY EmptySeq
<1> QED
  BY <1>2, <1>5, <1>6, ConcatProperties DEF RemoveProgram

LEMMA SetTypes ==
    ASSUME cache \in [Keys -> Peer \cup {None}], NEW p \in Peer
    PROVE  SetProgram(p) \in Seq(Commands)
<1>1. Cmd("wg set", p, None) \in Commands /\ Cmd("remember", p, None) \in Commands
  BY CommandTypes DEF PeerCommands
<1>2. <<Cmd("wg set", p, None), Cmd("remember", p, None)>> \in Seq(Commands)
  BY <1>1, ShortSequences
<1>3. RemoveProgram(p) \in Seq(Commands) /\ RoutingProgram(p) \in Seq(Commands)
  BY RemoveTypes, RoutingTypes
<1>4. <<>> \in Seq(Commands)
  BY EmptySeq
<1>5. (IF cache[p.key] = None THEN <<>> ELSE RemoveProgram(p)) \in Seq(Commands)
  BY <1>3, <1>4
<1>6. (IF cache[p.key] = None THEN <<>> ELSE RemoveProgram(p)) \o RoutingProgram(p)
          \in Seq(Commands)
  BY <1>3, <1>5, ConcatProperties
<1>7. (IF cache[p.key] = None THEN <<>> ELSE RemoveProgram(p)) \o RoutingProgram(p)
          \o <<Cmd("wg set", p, None), Cmd("remember", p, None)>> \in Seq(Commands)
  BY <1>2, <1>6, ConcatProperties
<1> QED
  BY <1>4, <1>7 DEF SetProgram

LEMMA InterfaceTypes ==
    DownProgram \in Seq(Commands) /\ UpProgram \in Seq(Commands)
<1>1. \A do \in InterfaceCommands : ForInterface(do) \in Commands
  BY CommandTypes
<1>2. /\ ForInterface("link delete") \in Commands /\ ForInterface("clean rules") \in Commands
      /\ ForInterface("clean policies") \in Commands /\ ForInterface("link add") \in Commands
      /\ ForInterface("link alias") \in Commands /\ ForInterface("configure") \in Commands
  BY <1>1 DEF InterfaceCommands
<1>3. DownProgram \in Seq(Commands)
  BY <1>2, ShortSequences DEF DownProgram
<1>4. <<ForInterface("link add"), ForInterface("link alias"), ForInterface("configure")>>
          \in Seq(Commands)
  BY <1>2, ShortSequences
<1> QED
  BY <1>3, <1>4, ConcatProperties DEF UpProgram

LEMMA RollbackTypes ==
    ASSUME NEW c \in Commands
    PROVE  Rollback(c) \in Seq(Commands)
<1>1. CASE c.do = "wg set"
  <2>1. c.peer \in Peer
    BY <1>1 DEF Commands, PeerCommands
  <2> QED
    BY <1>1, <2>1, RoutingTypes DEF Rollback
<1>2. CASE c.do = "link alias"
  <2>1. ForInterface("link scrap") \in Commands
    BY CommandTypes DEF InterfaceCommands
  <2> QED
    BY <1>2, <2>1, ShortSequences DEF Rollback
<1>3. CASE c.do = "configure"
  BY <1>3, InterfaceTypes DEF Rollback
<1>4. CASE c.do \notin {"wg set", "link alias", "configure"}
  BY <1>4, EmptySeq DEF Rollback
<1> QED
  BY <1>1, <1>2, <1>3, <1>4

\* Deleting the first rule of a name leaves a chain.
LEMMA DeleteTypes ==
    ASSUME NEW S, NEW s \in Seq(S), NEW r
    PROVE  RemoveFirst(s, r) \in Seq(S)
<1>1. CASE \E i \in 1..Len(s) : s[i] = r
  <2> DEFINE I == {i \in 1..Len(s) : s[i] = r}
             m == CHOOSE x \in I : \A y \in I : x <= y
  <2>1. I # {} /\ I \subseteq Nat
    BY <1>1, LenProperties
  <2>2. m \in I
    BY <2>1, Lowest
  <2>3. RemoveFirst(s, r) = SubSeq(s, 1, m - 1) \o SubSeq(s, m + 1, Len(s))
    BY <1>1, <2>1 DEF RemoveFirst, RemoveAt, SelectInSeq, Min
  <2>4. m \in 1..Len(s) /\ Len(s) \in Nat
    BY <2>2, LenProperties
  <2> HIDE DEF I, m
  <2>5. \A i \in 1..Len(s) : s[i] \in S
    BY ElementOfSeq
  <2>6. m - 1 \in Int /\ m + 1 \in Int /\ Len(s) \in Int
    BY <2>4
  <2>7. \A i \in 1..(m - 1) : s[i] \in S
    BY <2>4, <2>5
  <2>8. \A i \in (m + 1)..Len(s) : s[i] \in S
    BY <2>4, <2>5
  <2>9. SubSeq(s, 1, m - 1) \in Seq(S)
    BY <2>6, <2>7, SubSeqProperties
  <2>10. SubSeq(s, m + 1, Len(s)) \in Seq(S)
    BY <2>6, <2>8, SubSeqProperties
  <2> QED
    BY <2>3, <2>9, <2>10, ConcatProperties
<1>2. CASE ~(\E i \in 1..Len(s) : s[i] = r)
  BY <1>2 DEF RemoveFirst
<1> QED
  BY <1>1, <1>2

-----------------------------------------------------------------------------
(***************************************************************************)
(* The kernel keeps its types, whatever a command does or fails to do.     *)
(***************************************************************************)
LEMMA InsertTypes ==
    ASSUME KernelTypes, NEW c \in Commands, c.do = "insert", Insert(c)
    PROVE  KernelTypes'
<1>1. c.peer.host \in Hosts /\ c.rule \in RuleNames
  BY DEF Commands, PeerCommands, Peer
<1>2. <<c.rule>> \o chain[c.peer.host] \in Seq(RuleNames)
  <2>1. <<c.rule>> \in Seq(RuleNames) /\ chain[c.peer.host] \in Seq(RuleNames)
    BY <1>1, ShortSequences DEF KernelTypes
  <2> QED
    BY <2>1, ConcatProperties
<1> QED
  BY <1>1, <1>2 DEF KernelTypes, Insert, SetChain

LEMMA ChangeTypes ==
    ASSUME KernelTypes, NEW c \in Commands, Change(c)
    PROVE  KernelTypes'
<1>1. c.do \in PeerCommands => c.peer \in Peer /\ c.peer.key \in Keys /\ c.peer.host \in Hosts
  BY DEF Commands, Peer
<1>2. CASE c.do = "wg set" /\ WgSet(c.peer)
  <2>1. c.peer \in Peer /\ c.peer.key \in Keys /\ c.peer.host \in Hosts
    BY <1>1, <1>2 DEF PeerCommands
  <2> QED
    BY <1>2, <2>1 DEF WgSet, KernelTypes
<1>3. CASE c.do = "wg remove" /\ WgRemove(c.peer)
  BY <1>3 DEF WgRemove, KernelTypes
<1>4. CASE c.do = "insert" /\ ~Present(c) /\ Insert(c)
  BY <1>4, InsertTypes
<1>5. CASE c.do = "delete" /\ SetChain(c.peer.host, RemoveFirst(chain[c.peer.host], c.rule))
  <2>1. c.peer.host \in Hosts /\ c.rule \in RuleNames
    BY <1>1, <1>5 DEF PeerCommands, Commands
  <2>2. RemoveFirst(chain[c.peer.host], c.rule) \in Seq(RuleNames)
    BY <2>1, DeleteTypes DEF KernelTypes
  <2> QED
    BY <1>5, <2>1, <2>2 DEF SetChain, KernelTypes
<1>6. CASE UNCHANGED kernelVars
  BY <1>6 DEF kernelVars, KernelTypes
<1>7. CASE c.do = "policy add" /\ SetPolicy(policy \cup {c.peer.host})
  BY <1>1, <1>7 DEF SetPolicy, KernelTypes, PeerCommands
<1>8. CASE c.do = "policy del" /\ SetPolicy(policy \ {c.peer.host})
  BY <1>8 DEF SetPolicy, KernelTypes
<1>9. CASE SetLink("none") \/ SetLink("bare") \/ SetLink("ours")
  BY <1>9 DEF SetLink, KernelTypes
<1>10. CASE chain' = [h \in Hosts |-> <<>>] /\ SetBase(FALSE)
  <2>1. <<>> \in Seq(RuleNames)
    BY EmptySeq
  <2>2. chain' \in [Hosts -> Seq(RuleNames)]
    BY <1>10, <2>1
  <2> QED
    BY <1>10, <2>2 DEF SetBase, KernelTypes
<1>11. CASE SetPolicy({})
  BY <1>11 DEF SetPolicy, KernelTypes
<1>12. CASE UNCHANGED chain /\ SetBase(TRUE)
  BY <1>12 DEF SetBase, KernelTypes
<1> QED
  BY <1>2, <1>3, <1>4, <1>5, <1>6, <1>7, <1>8, <1>9, <1>10, <1>11, <1>12 DEF Change

LEMMA BackendTypes ==
    ASSUME BackendAssumption, KernelTypes, CallTypes, BackendStep
    PROVE  KernelTypes' /\ CallTypes'
<1> DEFINE c == Head(cmds)
<1>1. c \in Commands /\ Tail(cmds) \in Seq(Commands)
  <2>1. cmds # <<>>
    BY DEF BackendStep, RunBookkeeping, RunCommand, CommandRefused, CommandFails, QueryFails,
           Returned, CallTypes, Possible, Bookkeeping
  <2> QED
    BY <2>1, HeadTailProperties DEF CallTypes
<1>2. CASE RunBookkeeping
  <2>1. c.peer \in Peer /\ c.peer.key \in Keys
    BY <1>1, <1>2 DEF RunBookkeeping, Bookkeeping, Commands, PeerCommands, Peer
  <2>2. cache' \in [Keys -> Peer \cup {None}]
    BY <1>2, <2>1 DEF RunBookkeeping, CallTypes
  <2> QED
    BY <1>1, <1>2, <2>2 DEF RunBookkeeping, KernelTypes, CallTypes, kernelVars
<1>3. CASE RunCommand
  <2>1. KernelTypes'
    BY <1>1, <1>3, ChangeTypes DEF RunCommand
  <2> QED
    BY <1>1, <1>3, <2>1 DEF RunCommand, CallTypes
<1>4. CASE CommandRefused
  <2>1. cmds' \in Seq(Commands)
    BY <1>1, <1>4, RollbackTypes DEF CommandRefused, GiveUp
  <2> QED
    BY <1>4, <2>1 DEF CommandRefused, GiveUp, KernelTypes, CallTypes, kernelVars
<1>5. faults \in Nat /\ MaxFaults \in Nat
  BY DEF CallTypes, BackendAssumption
<1>6. CASE CommandFails
  <2>1. cmds' \in Seq(Commands) /\ failed' \in BOOLEAN /\ cache' = cache
    BY <1>1, <1>6, RollbackTypes DEF CommandFails, GiveUp
  <2>2. faults' \in 0..MaxFaults
    BY <1>5, <1>6 DEF CommandFails, CountFault
  <2>3. CASE UNCHANGED kernelVars
    BY <2>1, <2>2, <2>3 DEF KernelTypes, CallTypes, kernelVars
  <2>4. CASE Change(c)
    <3>1. KernelTypes'
      BY <1>1, <2>4, ChangeTypes
    <3> QED
      BY <2>1, <2>2, <3>1 DEF CallTypes
  <2> QED
    BY <1>6, <2>3, <2>4 DEF CommandFails
<1>7. CASE QueryFails
  <2>1. cmds' \in Seq(Commands) /\ failed' = failed /\ cache' = cache
    BY <1>1, <1>7 DEF QueryFails
  <2>2. faults' \in 0..MaxFaults
    <3>1. CountFault
      BY <1>7 DEF QueryFails
    <3> QED
      BY <1>5, <3>1 DEF CountFault, CallTypes
  <2>3. CASE c.do = "insert"
    <3>1. KernelTypes'
      BY <1>1, <1>7, <2>3, InsertTypes DEF QueryFails
    <3> QED
      BY <2>1, <2>2, <3>1 DEF CallTypes
  <2>4. CASE c.do # "insert"
    BY <1>7, <2>1, <2>2, <2>4 DEF QueryFails, KernelTypes, CallTypes, kernelVars
  <2> QED
    BY <2>3, <2>4
<1> QED
  BY <1>2, <1>3, <1>4, <1>6, <1>7 DEF BackendStep

-----------------------------------------------------------------------------
(***************************************************************************)
(* The inductive invariant.                                                *)
(***************************************************************************)
LEMMA TypesHold ==
    ASSUME KernelTypes, CallTypes, ManagerTypes
    PROVE  TypeOK
<1>1. ASSUME NEW h \in Hosts PROVE ToSet(chain[h]) \subseteq RuleNames
  <2>1. chain[h] \in Seq(RuleNames)
    BY DEF KernelTypes
  <2> QED
    BY <2>1, LenProperties, ElementOfSeq DEF ToSet
<1>2. BackendTypeOK
  BY <1>1 DEF BackendTypeOK, KernelTypes, CallTypes
<1> QED
  BY <1>2 DEF TypeOK, ManagerTypes

LEMMA NobodyLoadable ==
    ASSUME ManagerAssumption
    PROVE  Loadable(Nobody)
<1>1. Listed(Nobody) = {}
  BY DEF Listed, Nobody
<1>2. Cardinality({}) = 0
  BY FS_EmptySet
<1> QED
  BY <1>1, <1>2 DEF Loadable, ManagerAssumption

LEMMA IdleIsTask ==
    Idle \in Task
<1> QED
  BY DEF Idle, Task, Exits

LEMMA InitHolds ==
    Init => IInv
<1> SUFFICES ASSUME Init PROVE IInv
  OBVIOUS
<1>1. <<>> \in Seq(Commands) /\ <<>> \in Seq(RuleNames)
  BY EmptySeq
<1>2. KernelTypes
  BY <1>1 DEF Init, BackendInit, KernelTypes
<1>3. CallTypes
  <2>1. 0 \in 0..MaxFaults
    BY BackendAssumption DEF BackendAssumption
  <2> QED
    BY <1>1, <2>1 DEF Init, BackendInit, CallTypes
<1>4. ManagerTypes
  BY IdleIsTask DEF Init, ManagerTypes, Nobody
<1>5. Places /\ Looping /\ Attempt
  BY DEF Init, Places, Looping, Attempt, Idle
<1>6. Loadable(peers) /\ AlwaysLoadable
  BY ManagerAssumption, NobodyLoadable DEF Init, AlwaysLoadable
<1> QED
  BY <1>2, <1>3, <1>4, <1>5, <1>6 DEF IInv

\* Steps that run no command: they leave the backend alone, or call a program.
LEMMA BackendKept ==
    ASSUME KernelTypes, CallTypes, KeepBackend
    PROVE  KernelTypes' /\ CallTypes'
<1> QED
  BY DEF KeepBackend, kernelVars, KernelTypes, CallTypes

LEMMA BackendCalled ==
    ASSUME KernelTypes, CallTypes, UNCHANGED <<kernelVars, cache, faults>>,
           NEW program \in Seq(Commands), Call(program)
    PROVE  KernelTypes' /\ CallTypes'
<1> QED
  BY DEF Call, kernelVars, KernelTypes, CallTypes

\* A task that ends leaves peers and file as they are, or as they may be.
LEMMA EndHolds ==
    ASSUME IInv, KernelTypes', CallTypes', authorized' \subseteq Devices,
           serving' \in BOOLEAN, task' = Idle,
           peers' \in [Devices -> Peer \cup {None}], stored' \in [Devices -> Peer \cup {None}],
           promised' \in [Keys -> Exits \cup {None}],
           Loadable(peers'), Loadable(stored')
    PROVE  IInv'
<1>1. ManagerTypes'
  BY IdleIsTask DEF ManagerTypes
<1>2. Places' /\ Looping' /\ Attempt'
  BY DEF Places, Looping, Attempt, Idle
<1> QED
  BY <1>1, <1>2 DEF IInv, AlwaysLoadable

\* The helper stops: Down runs.
LEMMA StopHolds ==
    ASSUME IInv, StopServing,
           UNCHANGED <<kernelVars, cache, faults, authorized, peers, promised>>,
           stored' \in [Devices -> Peer \cup {None}], Loadable(stored')
    PROVE  IInv'
<1>1. KernelTypes' /\ CallTypes'
  BY InterfaceTypes, BackendCalled DEF IInv, StopServing
<1>2. task' \in Task /\ task'.op = "down" /\ task'.at = "down" /\ task'.now = None
  BY DEF StopServing, Idle, Task, Exits
<1>3. ManagerTypes'
  BY <1>2 DEF IInv, ManagerTypes, StopServing
<1>4. Places' /\ Looping' /\ Attempt'
  BY <1>2 DEF IInv, Places, Looping, Attempt, StopServing
<1> QED
  BY <1>1, <1>3, <1>4 DEF IInv, AlwaysLoadable

-----------------------------------------------------------------------------
(***************************************************************************)
(* Requests.                                                               *)
(***************************************************************************)
LEMMA BeginRegisterHolds ==
    ASSUME ManagerAssumption, BackendAssumption, IInv,
           NEW d \in Devices, NEW k \in Keys, NEW e \in Exits, BeginRegister(d, k, e)
    PROVE  IInv'
<1>1. KernelTypes' /\ CallTypes'
  BY BackendKept DEF IInv, BeginRegister
<1>2. /\ task' = [Idle EXCEPT !.op = "register", !.at = "read", !.id = d, !.key = k, !.exit = e]
      /\ task'.op = "register" /\ task'.at = "read" /\ task'.id = d /\ task'.key = k
      /\ task'.now = None /\ serving
      /\ UNCHANGED <<authorized, peers, stored, serving>>
  BY DEF BeginRegister, Idle
<1>3. task' \in Task
  BY <1>2 DEF Idle, Task, Exits
<1>4. promised' \in [Keys -> Exits \cup {None}]
  BY DEF BeginRegister, IInv, ManagerTypes
<1>5. ManagerTypes'
  BY <1>2, <1>3, <1>4 DEF IInv, ManagerTypes
<1>6. Places' /\ Looping' /\ Attempt'
  BY <1>2, ManagerAssumption, BackendAssumption
     DEF Places, Looping, Attempt, ManagerAssumption, BackendAssumption
<1> QED
  BY <1>1, <1>2, <1>5, <1>6 DEF IInv, AlwaysLoadable

LEMMA BeginRemoveHolds ==
    ASSUME ManagerAssumption, IInv, NEW d \in Devices, BeginRemove(d)
    PROVE  IInv'
<1>1. peers[d] \in Peer /\ peers[d].key \in Keys
  BY DEF BeginRemove, IInv, ManagerTypes, Peer
<1>2. KernelTypes' /\ CallTypes'
  <2>1. RemoveProgram(peers[d]) \in Seq(Commands)
    BY <1>1, RemoveTypes DEF IInv, CallTypes
  <2> QED
    BY <2>1, BackendCalled DEF IInv, BeginRemove, CallOnly
<1>3. /\ task' = [Idle EXCEPT !.op = "remove", !.at = "remove", !.id = d]
      /\ task'.op = "remove" /\ task'.at = "remove" /\ task'.id = d /\ task'.now = None /\ serving
      /\ UNCHANGED <<authorized, peers, stored, serving>>
  BY DEF BeginRemove, Idle
<1>4. task' \in Task
  BY <1>3 DEF Idle, Task, Exits
<1>5. promised' \in [Keys -> Exits \cup {None}]
  BY <1>1 DEF BeginRemove, IInv, ManagerTypes
<1>6. ManagerTypes'
  BY <1>3, <1>4, <1>5 DEF IInv, ManagerTypes
<1>7. Places' /\ Looping' /\ Attempt'
  BY <1>3, ManagerAssumption DEF Places, Looping, Attempt, ManagerAssumption
<1> QED
  BY <1>2, <1>3, <1>6, <1>7 DEF IInv, AlwaysLoadable

LEMMA BeginReconcileHolds ==
    ASSUME IInv, BeginQuery \/ BeginTick
    PROVE  IInv'
<1>1. KernelTypes' /\ CallTypes'
  BY BackendKept DEF IInv, BeginQuery, BeginTick
<1>2. /\ \/ task' = [Idle EXCEPT !.op = "query", !.at = "read"]
         \/ task' = [Idle EXCEPT !.op = "tick", !.at = "read"]
      /\ task'.op \in {"query", "tick"} /\ task'.at = "read" /\ task'.now = None /\ serving
      /\ UNCHANGED <<authorized, peers, stored, serving, promised>>
  BY DEF BeginQuery, BeginTick, Idle
<1>3. task' \in Task
  <2>1. \A op \in {"query", "tick"} : [Idle EXCEPT !.op = op, !.at = "read"] \in Task
    BY ONLY IdleIsTask DEF Task
  <2> QED
    BY ONLY <1>2, <2>1
<1>4. ManagerTypes'
  BY <1>2, <1>3 DEF IInv, ManagerTypes
<1>5. Places' /\ Looping' /\ Attempt'
  BY <1>2 DEF Places, Looping, Attempt
<1> QED
  BY <1>1, <1>2, <1>4, <1>5 DEF IInv, AlwaysLoadable

-----------------------------------------------------------------------------
(***************************************************************************)
(* reconcile                                                               *)
(***************************************************************************)
LEMMA ReadRecordsHolds ==
    ASSUME IInv, ReadRecords \/ RecordsUnavailable
    PROVE  IInv'
<1>1. KernelTypes' /\ CallTypes'
  <2>1. CASE ReadRecords
    BY <2>1, BackendKept DEF IInv, ReadRecords
  <2>2. CASE RecordsUnavailable
    <3>1. faults' \in 0..MaxFaults
      BY <2>2, BackendAssumption
         DEF RecordsUnavailable, CountFault, IInv, CallTypes, BackendAssumption
    <3> QED
      BY <2>2, <3>1 DEF RecordsUnavailable, IInv, KernelTypes, CallTypes, kernelVars
  <2> QED
    BY <2>1, <2>2
<1>2. /\ task' = [task EXCEPT !.at = task'.at, !.left = task'.left]
      /\ task'.at \in {"drop", "disable"} /\ task'.left \subseteq Listed(peers)
      /\ task.at = "read" /\ UNCHANGED <<authorized, peers, stored, serving, promised>>
  <2>1. task \in Task
    BY DEF IInv, ManagerTypes
  <2>2. CASE ReadRecords
    <3>1. task' = [task EXCEPT !.at = "drop", !.left = Listed(peers) \ authorized] /\ task.at = "read"
          /\ UNCHANGED <<authorized, peers, stored, serving, promised>>
      BY <2>2 DEF ReadRecords
    <3>2. task'.at = "drop" /\ task'.left = Listed(peers) \ authorized
      BY ONLY <2>1, <3>1 DEF Task
    <3> QED
      BY ONLY <3>1, <3>2
  <2>3. CASE RecordsUnavailable
    <3>1. task' = [task EXCEPT !.at = "disable", !.left = Listed(peers)] /\ task.at = "read"
          /\ UNCHANGED <<authorized, peers, stored, serving, promised>>
      BY <2>3 DEF RecordsUnavailable
    <3>2. task'.at = "disable" /\ task'.left = Listed(peers)
      BY ONLY <2>1, <3>1 DEF Task
    <3> QED
      BY ONLY <3>1, <3>2
  <2> QED
    BY <2>2, <2>3
<1>3. Listed(peers) \subseteq Devices /\ task \in Task
  BY DEF Listed, IInv, ManagerTypes
<1>4. task' \in Task /\ task'.op = task.op /\ task'.id = task.id /\ task'.key = task.key
      /\ task'.now = task.now
  <2>1. task'.left \in SUBSET Devices
    BY <1>2, <1>3
  <2>2. task' = [task EXCEPT !.at = task'.at, !.left = task'.left] /\ task'.at \in {"drop", "disable"}
    BY <1>2
  <2>3. PICK at \in {"drop", "disable"}, left \in SUBSET Devices :
            task' = [task EXCEPT !.at = at, !.left = left]
    BY ONLY <2>1, <2>2
  <2> QED
    BY ONLY <1>3, <2>3 DEF Task
<1>5. ManagerTypes'
  BY <1>2, <1>4 DEF IInv, ManagerTypes
<1>6. task.now = None
  BY <1>2 DEF IInv, Looping
<1>7. Places'
  BY <1>2, <1>4 DEF IInv, Places, Idle
<1>8. Looping' /\ Attempt'
  BY <1>2, <1>4, <1>6 DEF Looping, Attempt
<1> QED
  BY <1>1, <1>2, <1>5, <1>7, <1>8 DEF IInv, AlwaysLoadable

LEMMA RemoveNextHolds ==
    ASSUME ManagerAssumption, IInv, NEW d \in Devices, RemoveNext(d) \/ SetNext(d)
    PROVE  IInv'
<1>1. d \in task.left /\ task.left \subseteq Listed(peers) /\ task.at \in {"drop", "disable", "set"}
  BY DEF RemoveNext, SetNext, At, IInv, Looping
<1>2. peers[d] \in Peer
  BY <1>1 DEF Listed, IInv, ManagerTypes
<1>3. KernelTypes' /\ CallTypes'
  <2>1. RemoveProgram(peers[d]) \in Seq(Commands) /\ SetProgram(peers[d]) \in Seq(Commands)
    BY <1>2, RemoveTypes, SetTypes DEF IInv, CallTypes
  <2> QED
    BY <2>1, BackendCalled DEF IInv, RemoveNext, SetNext, CallOnly
<1>4. /\ task' = [task EXCEPT !.now = d]
      /\ UNCHANGED <<authorized, peers, stored, serving, promised>>
  BY DEF RemoveNext, SetNext
<1>5. /\ task' \in Task /\ task'.op = task.op /\ task'.at = task.at /\ task'.id = task.id
      /\ task'.key = task.key /\ task'.now = d /\ task'.left = task.left
  BY <1>4 DEF IInv, ManagerTypes, Task
<1>6. ManagerTypes'
  BY <1>4, <1>5 DEF IInv, ManagerTypes
<1>7. Places'
  BY <1>1, <1>4, <1>5 DEF IInv, Places, Idle
<1>8. Looping' /\ Attempt'
  BY <1>1, <1>4, <1>5 DEF Looping, Attempt, Listed
<1> QED
  BY <1>3, <1>4, <1>6, <1>7, <1>8 DEF IInv, AlwaysLoadable

LEMMA RemovedHolds ==
    ASSUME ManagerAssumption, IInv, Removed
    PROVE  IInv'
<1>1. KernelTypes' /\ CallTypes'
  BY BackendKept DEF IInv, Removed
<1>2. task.now \in task.left /\ task.left \subseteq Listed(peers) /\ task.now \in Devices
      /\ task.at \in {"drop", "disable"} /\ task \in Task
  BY DEF Removed, IInv, Looping, ManagerTypes, Task
<1>3. /\ task' = [task EXCEPT !.now = None, !.left = task.left \ {task.now}, !.dirty = TRUE]
      /\ peers' = IF task.at = "drop" THEN [peers EXCEPT ![task.now] = None] ELSE peers
      /\ UNCHANGED <<authorized, stored, serving, promised>>
  BY DEF Removed
<1>4. task' \in Task
  BY <1>2, <1>3 DEF Task
<1>5. /\ task'.op = task.op /\ task'.at = task.at /\ task'.id = task.id
      /\ task'.key = task.key /\ task'.now = None /\ task'.left = task.left \ {task.now}
  BY <1>2, <1>3 DEF Task
<1>6. peers' \in [Devices -> Peer \cup {None}] /\ Loadable(peers')
  BY <1>2, <1>3, LoadableWithout DEF IInv, ManagerTypes
<1>7. ManagerTypes'
  BY <1>3, <1>4, <1>6 DEF IInv, ManagerTypes
<1>8. Places'
  BY <1>2, <1>3, <1>5 DEF IInv, Places, Idle
<1>9. task'.left \subseteq Listed(peers')
  BY <1>2, <1>3, <1>5, <1>6 DEF Listed, IInv, ManagerTypes
<1>10. Looping' /\ Attempt'
  BY <1>2, <1>5, <1>9 DEF Looping, Attempt
<1> QED
  BY <1>1, <1>3, <1>6, <1>7, <1>8, <1>10 DEF IInv, AlwaysLoadable

\* A loop that does not get to its end ends its request, or the helper.
LEMMA ReconcileFailedHolds ==
    ASSUME IInv, ReconcileFailed,
           UNCHANGED <<kernelVars, cache, authorized, peers, promised>>,
           faults' \in 0..MaxFaults,
           stored' \in [Devices -> Peer \cup {None}], Loadable(stored')
    PROVE  IInv'
<1>1. KernelTypes'
  BY DEF IInv, KernelTypes, kernelVars
<1>2. CASE StopServing
  <2>1. CallTypes'
    BY <1>2, InterfaceTypes DEF StopServing, Call, IInv, CallTypes
  <2>2. task' \in Task /\ task'.op = "down" /\ task'.at = "down" /\ task'.now = None
    BY <1>2 DEF StopServing, Idle, Task, Exits
  <2>3. ManagerTypes'
    BY <1>2, <2>2 DEF IInv, ManagerTypes, StopServing
  <2>4. Places' /\ Looping' /\ Attempt'
    BY <1>2, <2>2 DEF Places, Looping, Attempt, StopServing
  <2> QED
    BY <1>1, <2>1, <2>3, <2>4 DEF IInv, AlwaysLoadable
<1>3. CASE Finish /\ UNCHANGED <<serving, cmds, failed>>
  <2>1. CallTypes'
    BY <1>3 DEF IInv, CallTypes
  <2> QED
    BY <1>1, <1>3, <2>1, EndHolds DEF IInv, ManagerTypes, Finish
<1> QED
  BY <1>2, <1>3 DEF ReconcileFailed

LEMMA RemovalFailedHolds ==
    ASSUME IInv, RemovalFailed \/ Disabled \/ DropUnsaved
    PROVE  IInv'
<1>1. faults' \in 0..MaxFaults
  BY BackendAssumption
     DEF RemovalFailed, Disabled, DropUnsaved, SaveFails, CountFault, IInv, CallTypes,
         BackendAssumption
<1>2. stored' \in {stored, peers}
  BY DEF RemovalFailed, Disabled, DropUnsaved, SaveFails
<1>3. stored' \in [Devices -> Peer \cup {None}] /\ Loadable(stored')
  BY <1>2 DEF IInv, ManagerTypes, AlwaysLoadable
<1>4. ReconcileFailed /\ UNCHANGED <<kernelVars, cache, authorized, peers, promised>>
  BY DEF RemovalFailed, Disabled, DropUnsaved
<1> QED
  BY <1>1, <1>3, <1>4, ReconcileFailedHolds

LEMMA DroppedHolds ==
    ASSUME ManagerAssumption, IInv, Dropped
    PROVE  IInv'
<1>1. KernelTypes' /\ CallTypes'
  BY DEF IInv, Dropped, Saved, KernelTypes, CallTypes, kernelVars
<1>2. stored' \in {stored, peers} /\ UNCHANGED <<authorized, peers, serving, promised>>
      /\ task.at = "drop" /\ task.left = {}
  BY DEF Dropped, Saved
<1>3. stored' \in [Devices -> Peer \cup {None}] /\ Loadable(stored')
  BY <1>2 DEF IInv, ManagerTypes, AlwaysLoadable
<1>4. task.now = None
  BY <1>2 DEF IInv, Looping
<1>5. CASE task.op = "register" /\ Continue("check")
  <2>1. /\ task' \in Task /\ task'.op = task.op /\ task'.at = "check" /\ task'.id = task.id
        /\ task'.key = task.key /\ task'.now = None
    BY <1>4, <1>5 DEF Continue, IInv, ManagerTypes, Task
  <2>2. ManagerTypes'
    BY <1>2, <1>3, <2>1 DEF IInv, ManagerTypes
  <2>3. Places' /\ Looping' /\ Attempt'
    BY <1>2, <1>5, <2>1 DEF IInv, Places, Looping, Attempt
  <2> QED
    BY <1>1, <1>2, <1>3, <2>2, <2>3 DEF IInv, AlwaysLoadable
<1>6. CASE Finish
  BY <1>1, <1>2, <1>3, <1>6, EndHolds DEF IInv, ManagerTypes, Finish
<1>7. CASE task.op = "start" /\ task' = [task EXCEPT !.at = "set", !.left = Listed(peers)]
  <2>1. Listed(peers) \subseteq Devices
    BY DEF Listed
  <2>2. task' \in Task
    BY <1>7, <2>1 DEF IInv, ManagerTypes, Task
  <2>3. task'.op = "start" /\ task'.at = "set" /\ task'.left = Listed(peers) /\ task'.now = None
    BY <1>4, <1>7 DEF IInv, ManagerTypes, Task
  <2>4. ManagerTypes'
    BY <1>2, <1>3, <2>2 DEF IInv, ManagerTypes
  <2>5. Places' /\ Looping' /\ Attempt'
    BY <1>2, <1>7, <2>3 DEF IInv, Places, Looping, Attempt, Listed
  <2> QED
    BY <1>1, <1>2, <1>3, <2>4, <2>5 DEF IInv, AlwaysLoadable
<1> QED
  BY <1>5, <1>6, <1>7 DEF Dropped, Reconciled

-----------------------------------------------------------------------------
(***************************************************************************)
(* register and Remove                                                     *)
(***************************************************************************)
\* Who registers, with what.
LEMMA Registering ==
    ASSUME IInv, task.op = "register"
    PROVE  /\ task \in Task /\ task.id \in Devices /\ task.key \in Keys /\ task.exit \in Exits
           /\ task.old \in Peer \cup {None} /\ serving /\ peers[task.id] \in Peer \cup {None}
<1> QED
  BY DEF IInv, ManagerTypes, Places, Task

\* The next step of a registration, in which a program runs.
LEMMA RegisterMoves ==
    ASSUME IInv, task.op = "register",
           NEW step \in {"replace", "apply", "retract", "restore", "unsaved"},
           task.at \in {"check", "replace", "apply", "retract"},
           NEW old \in Peer \cup {None},
           task' = [task EXCEPT !.at = step, !.old = old]
    PROVE  /\ task' \in Task /\ task'.op = "register" /\ task'.at = step /\ task'.id = task.id
           /\ task'.key = task.key /\ task'.exit = task.exit /\ task'.old = old
           /\ task'.now = None
           /\ Looping' /\ (serving' = serving => Places')
<1>1. task \in Task /\ task.now = None /\ serving /\ task.id # None /\ task.key # None
  BY DEF IInv, ManagerTypes, Looping, Places
<1>2. /\ task' \in Task /\ task'.op = "register" /\ task'.at = step /\ task'.id = task.id
      /\ task'.key = task.key /\ task'.exit = task.exit /\ task'.old = old /\ task'.now = None
  <2>1. step \in {"replace", "apply", "retract", "restore", "unsaved"} /\ old \in Peer \cup {None}
        /\ task' = [task EXCEPT !.at = step, !.old = old] /\ task.op = "register"
    OBVIOUS
  <2>2. task' \in Task
    <3>1. task \in Task /\ old \in Peer \cup {None}
          /\ task' = [task EXCEPT !.at = step, !.old = old]
      BY <1>1, <2>1
    <3>2. step \in {"done", "up", "read", "disable", "drop", "check", "replace", "apply",
                    "retract", "restore", "unsaved", "remove", "set", "down"}
      BY ONLY <2>1
    <3> QED
      BY ONLY <3>1, <3>2 DEF Task
  <2>3. /\ task'.op = task.op /\ task'.at = step /\ task'.id = task.id /\ task'.key = task.key
        /\ task'.exit = task.exit /\ task'.old = old /\ task'.now = task.now
    BY ONLY <1>1, <2>1 DEF Task
  <2> QED
    BY ONLY <1>1, <2>1, <2>2, <2>3
<1>3. Looping' /\ (serving' = serving => Places')
  BY <1>1, <1>2 DEF Looping, Places
<1> QED
  BY <1>2, <1>3

LEMMA RegisterEnds ==
    ASSUME IInv, RegisterRefused \/ ReplaceFailed \/ Registered \/ Restored
    PROVE  IInv'
<1>1. KernelTypes' /\ CallTypes'
  BY BackendKept DEF IInv, RegisterRefused, ReplaceFailed, Registered, Restored
<1>2. task' = Idle /\ UNCHANGED <<authorized, peers, stored, serving>> /\ task.op = "register"
  BY DEF RegisterRefused, ReplaceFailed, Registered, Restored, Finish, At
<1>3. promised' \in [Keys -> Exits \cup {None}]
  <2>1. promised' = promised \/ promised' = [promised EXCEPT ![task.key] = task.exit]
    BY DEF RegisterRefused, ReplaceFailed, Registered, Restored
  <2> QED
    BY <1>2, <2>1, Registering DEF IInv, ManagerTypes
<1> QED
  BY <1>1, <1>2, <1>3, EndHolds DEF IInv, ManagerTypes, AlwaysLoadable

LEMMA AdmitHolds ==
    ASSUME IInv, Admit
    PROVE  IInv'
<1>1. /\ task.op = "register" /\ task.at = "check"
      /\ Admissible(task.id, task.key, task.exit)
      /\ task' = [task EXCEPT !.at = "replace", !.old = peers[task.id]]
      /\ UNCHANGED <<authorized, peers, stored, serving, promised>>
  BY DEF Admit, At
<1>2. KernelTypes' /\ CallTypes'
  <2>1. peers[task.id] # None => RemoveProgram(peers[task.id]) \in Seq(Commands)
    BY <1>1, Registering, RemoveTypes DEF IInv, CallTypes
  <2>2. (IF peers[task.id] # None /\ peers[task.id].key # task.key
         THEN RemoveProgram(peers[task.id]) ELSE <<>>) \in Seq(Commands)
    BY <2>1, EmptySeq
  <2> QED
    BY <2>2, BackendCalled DEF IInv, Admit, CallOnly
<1>3. /\ task' \in Task /\ task'.at = "replace" /\ task'.id = task.id /\ task'.key = task.key
      /\ task'.exit = task.exit /\ task'.old = peers[task.id] /\ Looping' /\ Places'
  BY <1>1, Registering, RegisterMoves
<1>4. ManagerTypes'
  BY <1>1, <1>3 DEF IInv, ManagerTypes
<1>5. Attempt'
  BY <1>1, <1>3 DEF Attempt, Admissible, HasService, Listed
<1> QED
  BY <1>1, <1>2, <1>3, <1>4, <1>5 DEF IInv, AlwaysLoadable

\* What register is about to record, of which the file may be loaded.
LEMMA RequestedLoadable ==
    ASSUME IInv, At("register", "replace")
    PROVE  /\ Requested \in Peer
           /\ Loadable([peers EXCEPT ![task.id] = Requested])
           /\ [peers EXCEPT ![task.id] = Requested] \in [Devices -> Peer \cup {None}]
           /\ task.old = peers[task.id]
<1>1. /\ task.id \in Devices /\ task.key \in Keys /\ task.exit \in Exits
      /\ Admissible(task.id, task.key, task.exit) /\ task.old = peers[task.id]
  BY Registering DEF At, IInv, Attempt
<1>2. peers \in [Devices -> Peer \cup {None}] /\ Loadable(peers)
  BY DEF IInv, ManagerTypes
<1>3. Requested \in Peer /\ Loadable([peers EXCEPT ![task.id] = Requested])
  BY <1>1, <1>2, LoadableWith, BackendAssumption, ManagerAssumption DEF Requested
<1> QED
  BY <1>1, <1>2, <1>3

LEMMA RecordHolds ==
    ASSUME IInv, Record
    PROVE  IInv'
<1>1. /\ task.op = "register" /\ task.at = "replace"
      /\ task' = [task EXCEPT !.at = "apply"]
      /\ peers' = [peers EXCEPT ![task.id] = Requested] /\ stored' = peers'
      /\ UNCHANGED <<authorized, serving, promised>>
  BY DEF Record, At, Continue, Saved
<1>2. /\ Requested \in Peer /\ Loadable(peers')
      /\ peers' \in [Devices -> Peer \cup {None}] /\ task.old = peers[task.id]
  BY <1>1, RequestedLoadable DEF At
<1>3. KernelTypes' /\ CallTypes'
  <2>1. SetProgram(Requested) \in Seq(Commands)
    BY <1>2, SetTypes DEF IInv, CallTypes
  <2>2. Call(SetProgram(Requested)) /\ UNCHANGED <<kernelVars, cache, faults>>
    BY DEF Record, Saved
  <2> QED
    BY <2>1, <2>2, BackendCalled DEF IInv
<1>4. task' = [task EXCEPT !.at = "apply", !.old = task.old]
  BY <1>1, Registering DEF Task
<1>5. /\ task' \in Task /\ task'.at = "apply" /\ task'.id = task.id /\ task'.old = task.old
      /\ Looping' /\ Places'
  BY <1>1, <1>4, Registering, RegisterMoves
<1>6. ManagerTypes'
  BY <1>1, <1>2, <1>5 DEF IInv, ManagerTypes
<1>7. Attempt'
  <2>1. [peers' EXCEPT ![task.id] = task.old] = peers
    BY <1>1, <1>2, Registering DEF IInv, ManagerTypes
  <2>2. peers'[task.id] # None
    BY <1>1, <1>2, Registering, NoneAssumption DEF IInv, ManagerTypes
  <2>3. Loadable([peers' EXCEPT ![task'.id] = task'.old])
    BY <1>5, <2>1 DEF IInv
  <2> QED
    BY <1>5, <2>2, <2>3 DEF Attempt
<1> QED
  BY <1>1, <1>2, <1>3, <1>5, <1>6, <1>7 DEF IInv, AlwaysLoadable

LEMMA RecordUnsavedHolds ==
    ASSUME IInv, RecordUnsaved
    PROVE  IInv'
<1>1. /\ task.op = "register" /\ task.at = "replace"
      /\ stored' \in {stored, [peers EXCEPT ![task.id] = Requested]}
      /\ UNCHANGED <<kernelVars, cache, authorized, peers, serving, promised>>
  BY DEF RecordUnsaved, At, SaveFails
<1>2. stored' \in [Devices -> Peer \cup {None}] /\ Loadable(stored')
  BY <1>1, RequestedLoadable DEF At, IInv, ManagerTypes, AlwaysLoadable
<1>3. faults' \in 0..MaxFaults
  BY BackendAssumption
     DEF RecordUnsaved, SaveFails, CountFault, IInv, CallTypes, BackendAssumption
<1>4. KernelTypes'
  BY <1>1 DEF IInv, KernelTypes, kernelVars
<1>5. CASE task.old = None /\ Finish /\ UNCHANGED <<cmds, failed>>
  <2>1. CallTypes'
    BY <1>1, <1>3, <1>5 DEF IInv, CallTypes
  <2> QED
    BY <1>1, <1>2, <1>4, <1>5, <2>1, EndHolds DEF IInv, ManagerTypes, Finish
<1>6. CASE task.old # None /\ Continue("restore") /\ Call(SetProgram(task.old))
  <2>1. SetProgram(task.old) \in Seq(Commands)
    BY <1>1, <1>6, Registering, SetTypes DEF IInv, CallTypes
  <2>2. CallTypes'
    BY <1>1, <1>3, <1>6, <2>1 DEF Call, IInv, CallTypes
  <2>3. task' = [task EXCEPT !.at = "restore", !.old = task.old]
    BY <1>1, <1>6, Registering DEF Task, Continue
  <2>4. /\ task' \in Task /\ task'.at = "restore" /\ task'.id = task.id /\ task'.old = task.old
        /\ Looping' /\ Places'
    BY <1>1, <2>3, Registering, RegisterMoves
  <2>5. ManagerTypes'
    BY <1>1, <1>2, <2>4 DEF IInv, ManagerTypes
  <2>6. Attempt'
    BY <1>1, <1>6, <2>4 DEF IInv, Attempt
  <2> QED
    BY <1>1, <1>2, <1>4, <2>2, <2>4, <2>5, <2>6 DEF IInv, AlwaysLoadable
<1> QED
  BY <1>5, <1>6 DEF RecordUnsaved

LEMMA ApplyFailedHolds ==
    ASSUME IInv, ApplyFailed
    PROVE  IInv'
<1>1. /\ task.op = "register" /\ task.at = "apply" /\ task' = [task EXCEPT !.at = "retract"]
      /\ UNCHANGED <<authorized, peers, stored, serving, promised>>
  BY DEF ApplyFailed, At, Continue
<1>2. KernelTypes' /\ CallTypes'
  <2>1. peers[task.id] \in Peer
    BY <1>1, Registering DEF IInv, Attempt
  <2>2. RemoveProgram(peers[task.id]) \in Seq(Commands)
    BY <2>1, RemoveTypes DEF IInv, CallTypes
  <2> QED
    BY <2>2, BackendCalled DEF IInv, ApplyFailed, CallOnly
<1>3. task' = [task EXCEPT !.at = "retract", !.old = task.old]
  BY <1>1, Registering DEF Task
<1>4. /\ task' \in Task /\ task'.at = "retract" /\ task'.id = task.id /\ task'.old = task.old
      /\ Looping' /\ Places'
  BY <1>1, <1>3, Registering, RegisterMoves
<1>5. ManagerTypes'
  BY <1>1, <1>4 DEF IInv, ManagerTypes
<1>6. Attempt'
  <2>1. peers'[task'.id] # None /\ Loadable([peers' EXCEPT ![task'.id] = task'.old])
    BY <1>1, <1>4 DEF IInv, Attempt
  <2> QED
    BY <1>4, <2>1 DEF Attempt
<1> QED
  BY <1>1, <1>2, <1>4, <1>5, <1>6 DEF IInv, AlwaysLoadable

LEMMA RetractedHolds ==
    ASSUME IInv, Retracted
    PROVE  IInv'
<1>1. /\ task.op = "register" /\ task.at = "retract" /\ task' = [task EXCEPT !.at = "unsaved"]
      /\ peers' = [peers EXCEPT ![task.id] = task.old]
      /\ UNCHANGED <<authorized, stored, serving, promised>>
  BY DEF Retracted, At, Continue
<1>2. peers' \in [Devices -> Peer \cup {None}] /\ Loadable(peers') /\ peers'[task.id] = task.old
  BY <1>1, Registering DEF IInv, ManagerTypes, Attempt
<1>3. KernelTypes' /\ CallTypes'
  <2>1. task.old # None => SetProgram(task.old) \in Seq(Commands)
    BY <1>1, Registering, SetTypes DEF IInv, CallTypes
  <2>2. (IF task.old = None THEN <<>> ELSE SetProgram(task.old)) \in Seq(Commands)
    BY <2>1, EmptySeq
  <2> QED
    BY <2>2, BackendCalled DEF IInv, Retracted, CallOnly
<1>4. task' = [task EXCEPT !.at = "unsaved", !.old = task.old]
  BY <1>1, Registering DEF Task
<1>5. /\ task' \in Task /\ task'.at = "unsaved" /\ task'.id = task.id /\ task'.old = task.old
      /\ Looping' /\ Places'
  BY <1>1, <1>4, Registering, RegisterMoves
<1>6. ManagerTypes'
  BY <1>1, <1>2, <1>5 DEF IInv, ManagerTypes
<1>7. Attempt'
  BY <1>2, <1>5 DEF Attempt
<1> QED
  BY <1>1, <1>2, <1>3, <1>5, <1>6, <1>7 DEF IInv, AlwaysLoadable

\* A save that follows, whether or not it fails.
LEMMA SaveTypes ==
    ASSUME BackendAssumption, CallTypes, UNCHANGED <<cache, cmds, failed>>, NEW new,
           Saved(new) \/ SaveFails(new)
    PROVE  CallTypes' /\ stored' \in {stored, new}
<1>1. faults' \in 0..MaxFaults
  BY DEF Saved, SaveFails, CountFault, CallTypes, BackendAssumption
<1> QED
  BY <1>1 DEF Saved, SaveFails, CallTypes

LEMMA PutBackHolds ==
    ASSUME IInv, PutBack
    PROVE  IInv'
<1>1. /\ task' = Idle
      /\ UNCHANGED <<kernelVars, cache, cmds, failed, authorized, peers, serving, promised>>
      /\ Saved(peers) \/ SaveFails(peers)
  BY DEF PutBack, Finish
<1>2. CallTypes' /\ stored' \in {stored, peers}
  BY <1>1, SaveTypes, BackendAssumption DEF IInv
<1>3. KernelTypes'
  BY <1>1 DEF IInv, KernelTypes, kernelVars
<1> QED
  BY <1>1, <1>2, <1>3, EndHolds DEF IInv, ManagerTypes, AlwaysLoadable

LEMMA RemoveFailedHolds ==
    ASSUME IInv, RemoveFailed
    PROVE  IInv'
<1>1. KernelTypes' /\ CallTypes'
  BY BackendKept DEF IInv, RemoveFailed
<1> QED
  BY <1>1, EndHolds DEF RemoveFailed, Finish, IInv, ManagerTypes, AlwaysLoadable

LEMMA RemoveDoneHolds ==
    ASSUME IInv, RemoveDone
    PROVE  IInv'
<1>1. /\ task' = Idle /\ peers' = [peers EXCEPT ![task.id] = None]
      /\ UNCHANGED <<kernelVars, cache, cmds, failed, authorized, serving, promised>>
      /\ Saved(peers') \/ SaveFails(peers')
  BY DEF RemoveDone, Finish
<1>2. task.id \in Devices
  BY DEF RemoveDone, IInv, ManagerTypes, Places, Task, Idle
<1>3. peers' \in [Devices -> Peer \cup {None}] /\ Loadable(peers')
  BY <1>1, <1>2, LoadableWithout, ManagerAssumption DEF IInv, ManagerTypes
<1>4. CallTypes' /\ stored' \in {stored, peers'}
  BY <1>1, SaveTypes, BackendAssumption DEF IInv
<1>5. KernelTypes'
  BY <1>1 DEF IInv, KernelTypes, kernelVars
<1> QED
  BY <1>1, <1>3, <1>4, <1>5, EndHolds DEF IInv, ManagerTypes, AlwaysLoadable

-----------------------------------------------------------------------------
(***************************************************************************)
(* Start to stop.                                                          *)
(***************************************************************************)
LEMMA StartHolds ==
    ASSUME IInv, Start
    PROVE  IInv'
<1>1. /\ ~serving /\ peers' = stored /\ cache' = [k \in Keys |-> None]
      /\ task' = [Idle EXCEPT !.op = "start", !.at = "up"] /\ Call(UpProgram)
      /\ UNCHANGED <<kernelVars, faults, authorized, stored, serving, promised>>
  BY DEF Start
<1>2. KernelTypes'
  BY <1>1 DEF IInv, KernelTypes, kernelVars
<1>3. CallTypes'
  BY <1>1, InterfaceTypes DEF IInv, CallTypes, Call
<1>4. task' \in Task /\ task'.op = "start" /\ task'.at = "up" /\ task'.now = None
  BY <1>1 DEF Idle, Task, Exits
<1>5. ManagerTypes'
  BY <1>1, <1>4 DEF IInv, ManagerTypes
<1>6. Places' /\ Looping' /\ Attempt'
  BY <1>1, <1>4 DEF Places, Looping, Attempt
<1> QED
  BY <1>1, <1>2, <1>3, <1>5, <1>6 DEF IInv, AlwaysLoadable

LEMMA UpHolds ==
    ASSUME IInv, UpFailed \/ Up \/ Down \/ Serve
    PROVE  IInv'
<1>1. KernelTypes' /\ CallTypes'
  BY BackendKept DEF IInv, UpFailed, Up, Down, Serve
<1>2. serving' \in BOOLEAN /\ UNCHANGED <<authorized, peers, stored, promised>>
  BY DEF UpFailed, Up, Down, Serve, IInv, ManagerTypes
<1>3. CASE Finish
  BY <1>1, <1>2, <1>3, EndHolds DEF Finish, IInv, ManagerTypes, AlwaysLoadable
<1>4. CASE Up
  <2>1. /\ task' \in Task /\ task'.op = "start" /\ task'.at = "read" /\ task.at = "up"
        /\ task'.now = task.now /\ serving' = serving /\ task.op = "start"
    BY <1>4 DEF Up, At, Continue, IInv, ManagerTypes, Task
  <2>2. ManagerTypes'
    BY <1>2, <2>1 DEF IInv, ManagerTypes
  <2>3. Places' /\ Looping' /\ Attempt'
    BY <2>1 DEF IInv, Places, Looping, Attempt
  <2> QED
    BY <1>1, <1>2, <2>2, <2>3 DEF IInv, AlwaysLoadable
<1> QED
  BY <1>3, <1>4 DEF UpFailed, Down, Serve

LEMMA IsSetHolds ==
    ASSUME IInv, IsSet
    PROVE  IInv'
<1>1. KernelTypes' /\ CallTypes'
  BY BackendKept DEF IInv, IsSet
<1>2. /\ task.op = "start" /\ task.at = "set" /\ task \in Task /\ task.left \subseteq Listed(peers)
      /\ task' = [task EXCEPT !.now = None, !.left = task.left \ {task.now}]
      /\ UNCHANGED <<authorized, peers, stored, serving, promised>>
  BY DEF IsSet, At, IInv, ManagerTypes, Looping
<1>3. task' \in Task
  BY <1>2 DEF Task
<1>4. task'.op = "start" /\ task'.at = "set" /\ task'.now = None /\ task'.left \subseteq task.left
  BY <1>2 DEF Task
<1>5. ManagerTypes'
  BY <1>2, <1>3 DEF IInv, ManagerTypes
<1>6. Places' /\ Looping' /\ Attempt'
  BY <1>2, <1>4 DEF IInv, Places, Looping, Attempt, Listed
<1> QED
  BY <1>1, <1>2, <1>5, <1>6 DEF IInv, AlwaysLoadable

LEMMA StoppedHolds ==
    ASSUME IInv, SetFailed \/ Stop
    PROVE  IInv'
<1>1. StopServing /\ UNCHANGED <<kernelVars, cache, faults, authorized, peers, stored, promised>>
  BY DEF SetFailed, Stop
<1> QED
  BY <1>1, StopHolds DEF IInv, ManagerTypes, AlwaysLoadable

LEMMA CleanupHolds ==
    ASSUME IInv, Cleanup
    PROVE  IInv'
<1>1. KernelTypes' /\ CallTypes'
  BY InterfaceTypes, BackendCalled DEF IInv, Cleanup, CallOnly
<1>2. /\ task' \in Task /\ task'.op = "down" /\ task'.at = "down" /\ task'.now = None /\ ~serving
      /\ UNCHANGED <<authorized, peers, stored, serving, promised>>
  BY DEF Cleanup, Idle, Task, Exits
<1>3. ManagerTypes'
  BY <1>2 DEF IInv, ManagerTypes
<1>4. Places' /\ Looping' /\ Attempt'
  BY <1>2 DEF Places, Looping, Attempt
<1> QED
  BY <1>1, <1>2, <1>3, <1>4 DEF IInv, AlwaysLoadable

LEMMA CrashHolds ==
    ASSUME IInv, Crash
    PROVE  IInv'
<1>1. /\ task' = Idle /\ serving' = FALSE /\ peers' = Nobody /\ cache' = [k \in Keys |-> None]
      /\ cmds' = <<>> /\ failed' = FALSE /\ CountFault
      /\ UNCHANGED <<kernelVars, authorized, stored, promised>>
  BY DEF Crash
<1>2. KernelTypes'
  BY <1>1 DEF IInv, KernelTypes, kernelVars
<1>3. CallTypes'
  <2>1. faults' \in 0..MaxFaults
    BY <1>1, BackendAssumption DEF CountFault, IInv, CallTypes, BackendAssumption
  <2> QED
    BY <1>1, <2>1, EmptySeq DEF CallTypes
<1>4. peers' \in [Devices -> Peer \cup {None}] /\ Loadable(peers')
  BY <1>1, NobodyLoadable, ManagerAssumption DEF Nobody
<1> QED
  BY <1>1, <1>2, <1>3, <1>4, EndHolds DEF IInv, ManagerTypes, AlwaysLoadable

LEMMA RevokeHolds ==
    ASSUME IInv, NEW d \in Devices, Revoke(d)
    PROVE  IInv'
<1>1. /\ UNCHANGED <<kernelVars, cache, cmds, failed, faults, peers, stored, serving, task, promised>>
      /\ authorized' \subseteq Devices
  BY DEF Revoke, IInv, ManagerTypes
<1>2. KernelTypes' /\ CallTypes' /\ ManagerTypes'
  BY <1>1 DEF IInv, KernelTypes, CallTypes, ManagerTypes, kernelVars
<1>3. Places' /\ Looping'
  BY <1>1 DEF IInv, Places, Looping, Listed
<1>4. Attempt'
  BY <1>1 DEF IInv, Attempt, Admissible, HasService, Listed, Loadable
<1> QED
  BY <1>1, <1>2, <1>3, <1>4 DEF IInv, AlwaysLoadable

LEMMA CommandHolds ==
    ASSUME IInv, Command
    PROVE  IInv'
<1>1. KernelTypes' /\ CallTypes'
  BY BackendTypes, BackendAssumption DEF IInv, Command
<1>2. UNCHANGED <<authorized, peers, stored, serving, task, promised>>
  BY DEF Command, managerVars
<1>3. ManagerTypes' /\ Places' /\ Looping'
  BY <1>2 DEF IInv, ManagerTypes, Places, Looping, Listed
<1>4. Attempt'
  BY <1>2 DEF IInv, Attempt, Admissible, HasService, Listed, Loadable
<1> QED
  BY <1>1, <1>2, <1>3, <1>4 DEF IInv, AlwaysLoadable

-----------------------------------------------------------------------------
(***************************************************************************)
(* The theorems that rest on the first invariant.                         *)
(***************************************************************************)
LEMMA StutterHolds ==
    ASSUME IInv, UNCHANGED vars
    PROVE  IInv'
<1>1. /\ UNCHANGED <<kernelVars, cache, cmds, failed, faults>>
      /\ UNCHANGED <<authorized, peers, stored, serving, task, promised>>
  BY DEF vars, kernelVars
<1>2. KernelTypes' /\ CallTypes' /\ ManagerTypes'
  BY <1>1 DEF IInv, KernelTypes, CallTypes, ManagerTypes, kernelVars
<1>3. Places' /\ Looping'
  BY <1>1 DEF IInv, Places, Looping, Listed
<1>4. Attempt'
  BY <1>1 DEF IInv, Attempt, Admissible, HasService, Listed, Loadable
<1> QED
  BY <1>1, <1>2, <1>3, <1>4 DEF IInv, AlwaysLoadable

LEMMA StepHolds ==
    IInv /\ [Next]_vars => IInv'
<1> SUFFICES ASSUME IInv, [Next]_vars PROVE IInv'
  OBVIOUS
<1>1. CASE Command
  BY <1>1, CommandHolds
<1>2. CASE Reconcile
  BY <1>2, ReadRecordsHolds, RemovedHolds, RemovalFailedHolds, DroppedHolds, RemoveNextHolds,
     ManagerAssumption DEF Reconcile
<1>3. CASE Register
  BY <1>3, RegisterEnds, AdmitHolds, RecordHolds, RecordUnsavedHolds, ApplyFailedHolds,
     RetractedHolds, PutBackHolds DEF Register
<1>4. CASE RemoveFailed \/ RemoveDone
  BY <1>4, RemoveFailedHolds, RemoveDoneHolds
<1>5. CASE Lifecycle
  BY <1>5, UpHolds, IsSetHolds, StoppedHolds, RemoveNextHolds, ManagerAssumption DEF Lifecycle
<1>6. CASE \E d \in Devices, k \in Keys, e \in Exits : BeginRegister(d, k, e)
  BY <1>6, BeginRegisterHolds, ManagerAssumption, BackendAssumption
<1>7. CASE (\E d \in Devices : BeginRemove(d)) \/ BeginQuery \/ BeginTick
  BY <1>7, BeginRemoveHolds, BeginReconcileHolds, ManagerAssumption
<1>8. CASE Start \/ Stop \/ Cleanup \/ Crash
  BY <1>8, StartHolds, StoppedHolds, CleanupHolds, CrashHolds
<1>9. CASE \E d \in Devices : Revoke(d)
  BY <1>9, RevokeHolds
<1>10. CASE UNCHANGED vars
  BY <1>10, StutterHolds
<1> QED
  BY <1>1, <1>2, <1>3, <1>4, <1>5, <1>6, <1>7, <1>8, <1>9, <1>10 DEF Next, Progress

\* The helper's records, the file and what runs are what they should be after any sequence of
\* requests, failures and crashes.
THEOREM InvariantHolds == Spec => []IInv
<1> QED
  BY InitHolds, StepHolds, PTL DEF Spec

\* The types of VPNManager and its backend (manager.go, linux.go).
THEOREM TypeCorrect == Spec => []TypeOK
<1>1. IInv => TypeOK
  BY TypesHold DEF IInv
<1> QED
  BY <1>1, InvariantHolds, PTL

\* Whatever wrote peers.json last, a save, one that failed after the rename, or one before a
\* crash, NewManager accepts it (manager.go:42-73): the helper can always start again.
THEOREM FileAlwaysLoadable == Spec => []AlwaysLoadable
<1>1. IInv => AlwaysLoadable
  BY DEF IInv
<1> QED
  BY <1>1, InvariantHolds, PTL

\* register: an attempt that ends without success leaves in the map the peer that was there
\* when it began (manager.go:201-237), with any number of failures on the way; and one that
\* failed in the kernel leaves the file like the map, unless its last save fails as well.
THEOREM FailedRegistrationKeeps == Spec => FailureKeepsRegistration
<1>1. ASSUME IInv, Next,
             task.op = "register", task.at \in {"replace", "apply", "unsaved", "restore"},
             task' = Idle, serving', ~Registered
      PROVE  /\ peers'[task.id] = task.old
             /\ task.at = "unsaved" /\ faults' = faults => stored' = peers'
  <2>1. task.at # "done" /\ task # task'
    BY <1>1 DEF Idle
  <2>2. \/ ReplaceFailed \/ RecordUnsaved \/ PutBack \/ Restored
    <3>1. CASE Command \/ \E d \in Devices : Revoke(d)
      BY <2>1, <3>1 DEF Command, managerVars, Revoke
    <3>2. CASE Reconcile \/ RemoveFailed \/ RemoveDone \/ Lifecycle
      BY <1>1, <3>2 DEF Reconcile, ReadRecords, RecordsUnavailable, Removed, RemovalFailed,
         Disabled, Dropped, DropUnsaved, RemoveNext, RemoveFailed, RemoveDone, Lifecycle,
         UpFailed, Up, IsSet, SetFailed, Serve, Down, SetNext, At
    <3>3. CASE Register
      <4>1. task \in Task /\ task.at # "check" /\ task'.at = "done"
        BY <1>1 DEF Idle, IInv, ManagerTypes
      <4>2. ~RegisterRefused /\ ~Admit
        BY <4>1 DEF RegisterRefused, Admit, At
      <4>3. ~Continue("apply") /\ ~Continue("retract") /\ ~Continue("unsaved")
        BY ONLY <4>1 DEF Continue, Task
      <4>4. ~Record /\ ~ApplyFailed /\ ~Retracted
        BY <4>3 DEF Record, ApplyFailed, Retracted
      <4> QED
        BY <1>1, <3>3, <4>2, <4>4 DEF Register
    <3>4. CASE \/ \E d \in Devices, k \in Keys, e \in Exits : BeginRegister(d, k, e)
               \/ \E d \in Devices : BeginRemove(d)
               \/ BeginQuery \/ BeginTick \/ Start \/ Stop \/ Cleanup
      BY <2>1, <1>1, <3>4 DEF BeginRegister, BeginRemove, BeginQuery, BeginTick, Start, Stop,
         Cleanup, Idle
    <3>5. CASE Crash
      BY <1>1, <3>5 DEF Crash
    <3> QED
      BY <1>1, <3>1, <3>2, <3>3, <3>4, <3>5 DEF Next, Progress
  <2>3. peers' = peers /\ task.at \in {"replace", "unsaved", "restore"}
    BY <2>2 DEF ReplaceFailed, RecordUnsaved, PutBack, Restored, At
  <2>4. peers[task.id] = task.old
    BY <1>1, <2>3 DEF IInv, Attempt
  <2>5. ASSUME task.at = "unsaved", faults' = faults
        PROVE  stored' = peers'
    <3>1. PutBack
      BY <2>2, <2>5 DEF ReplaceFailed, RecordUnsaved, Restored, At
    <3>2. faults \in Nat
      BY <1>1, BackendAssumption DEF IInv, CallTypes
    <3>3. ~SaveFails(peers)
      BY <2>5, <3>2 DEF SaveFails, CountFault
    <3> QED
      BY <2>3, <3>1, <3>3 DEF PutBack, Saved
  <2> QED
    BY <2>3, <2>4, <2>5
<1>2. IInv /\ [Next]_vars =>
          [task.op = "register" /\ task.at \in {"replace", "apply", "unsaved", "restore"}
              /\ task' = Idle /\ serving' /\ ~Registered =>
                  /\ peers'[task.id] = task.old
                  /\ task.at = "unsaved" /\ faults' = faults => stored' = peers']_vars
  BY <1>1
<1> QED
  BY <1>2, InvariantHolds, PTL DEF Spec, FailureKeepsRegistration

-----------------------------------------------------------------------------
(***************************************************************************)
(* While nothing fails, the kernel, the backend's map and the file agree.  *)
(* What follows says so for every state, and not only between two tasks:   *)
(* which part of the running program is left, and what the commands before *)
(* it have made of the address it is about.                                *)
(***************************************************************************)
\* The chain of an address that all the rules of an exit were inserted in.
Standing(exit) == Reverse(Rules(exit))

Looks(h, rules, routed) == chain[h] = rules /\ (h \in policy <=> routed)
Clean(h) == Looks(h, <<>>, FALSE)
Routed(p) == Looks(p.host, Standing(p.exit), p.exit = "home")
InPlace(p) == Connected(p) /\ Routed(p)

\* What is left of SetPeer, from a command on.
Remember(p) == <<Cmd("remember", p, None)>> \o <<>>
SetKey(p) == <<Cmd("wg set", p, None)>> \o Remember(p)
InsertAccept(p) == <<Cmd("insert", p, "accept")>> \o SetKey(p)
InsertOut(p) == <<Cmd("insert", p, "out")>> \o SetKey(p)
InsertReturn(p) == <<Cmd("insert", p, "return")>> \o InsertOut(p)
InsertGuard(p) == <<Cmd("insert", p, "guard")>> \o InsertReturn(p)
AddPolicy(p) == <<Cmd("policy add", p, None)>> \o InsertGuard(p)

AddFrom(p) == CASE p.exit = "vps" -> InsertAccept(p)
                [] p.exit = "home" -> AddPolicy(p)
                [] p.exit = "service" -> SetKey(p)

\* What is left of RemovePeer, from a command on: q is the peer the backend knows by the key of
\* p, and r what follows.
Forget(p, r) == <<Cmd("forget", p, None)>> \o r
DelPolicy(q, p, r) == <<Cmd("policy del", q, None)>> \o Forget(p, r)
DeleteAccept(q, p, r) == <<Cmd("delete", q, "accept")>> \o Forget(p, r)
DeleteOut(q, p, r) == <<Cmd("delete", q, "out")>> \o DelPolicy(q, p, r)
DeleteReturn(q, p, r) == <<Cmd("delete", q, "return")>> \o DeleteOut(q, p, r)
DeleteGuard(q, p, r) == <<Cmd("delete", q, "guard")>> \o DeleteReturn(q, p, r)

UnrouteFrom(q, p, r) == CASE q.exit = "vps" -> DeleteAccept(q, p, r)
                          [] q.exit = "home" -> DeleteGuard(q, p, r)
                          [] q.exit = "service" -> Forget(p, r)
RemoveFrom(q, p, r) == <<Cmd("wg remove", p, None)>> \o UnrouteFrom(q, p, r)

\* The address of p after each command.
Adding(p) ==
    /\ cache[p.key] = None
    /\ \/ cmds = AddPolicy(p) /\ p.exit = "home" /\ Looks(p.host, <<>>, FALSE)
       \/ cmds = InsertGuard(p) /\ p.exit = "home" /\ Looks(p.host, <<>>, TRUE)
       \/ cmds = InsertReturn(p) /\ p.exit = "home" /\ Looks(p.host, <<"guard">>, TRUE)
       \/ cmds = InsertOut(p) /\ p.exit = "home" /\ Looks(p.host, <<"return", "guard">>, TRUE)
       \/ cmds = InsertAccept(p) /\ p.exit = "vps" /\ Looks(p.host, <<>>, FALSE)
       \/ cmds = SetKey(p) /\ Routed(p)
       \/ cmds = Remember(p) /\ InPlace(p)

Removing(q, p, r) ==
    /\ cache[p.key] = q /\ q.key = p.key /\ q.host = p.host
    /\ \/ cmds = RemoveFrom(q, p, r) /\ InPlace(q)
       \/ cmds = DeleteGuard(q, p, r) /\ q.exit = "home" /\ Routed(q)
       \/ cmds = DeleteReturn(q, p, r) /\ q.exit = "home" /\ Looks(p.host, <<"out", "return">>, TRUE)
       \/ cmds = DeleteOut(q, p, r) /\ q.exit = "home" /\ Looks(p.host, <<"out">>, TRUE)
       \/ cmds = DelPolicy(q, p, r) /\ q.exit = "home" /\ Looks(p.host, <<>>, TRUE)
       \/ cmds = DeleteAccept(q, p, r) /\ q.exit = "vps" /\ Routed(q)
       \/ cmds = Forget(p, r) /\ Clean(p.host)

\* The other peers are all in place, and nothing of p is among them.
Held(h) == \E k \in Keys : cache[k] # None /\ cache[k].host = h

Apart(p) ==
    /\ \A k \in Keys \ {p.key} : cache[k] # None =>
          /\ cache[k].key = k
          /\ InPlace(cache[k])
          /\ cache[k].host # p.host
          /\ ~(cache[k].exit = "service" /\ p.exit = "service")
    /\ \A h \in Hosts \ {p.host} : ~Held(h) => Clean(h)

Setting(p) == Apart(p) /\ (Adding(p) \/ \E q \in Peer : Removing(q, p, AddFrom(p)))

Dropping(p) ==
    /\ Apart(p)
    /\ \/ cmds = <<Cmd("wg remove", p, None)>> \o <<>> /\ cache[p.key] = None /\ Clean(p.host)
       \/ \E q \in Peer : Removing(q, p, <<>>)

\* Between two calls.
Whole ==
    /\ \A k \in Keys : cache[k] # None => cache[k].key = k /\ InPlace(cache[k])
    /\ \A h \in Hosts : ~Held(h) => Clean(h)

Resting == Returned /\ Whole
Come(p) == Setting(p) \/ (Resting /\ cache[p.key] = p)
Gone(p) == Dropping(p) \/ (Resting /\ cache[p.key] = None)

\* Down and Up, which take over what was left of the interface.
Downing ==
    \/ cmds = DownProgram /\ link # "bare"
    \/ /\ cmds \in {<<ForInterface("clean rules"), ForInterface("clean policies")>>,
                    <<ForInterface("clean policies")>>, <<>>}
       /\ link = "none"

NoRules == chain = [h \in Hosts |-> <<>>]
Upping ==
    \/ cmds = UpProgram /\ link # "bare"
    \/ /\ cmds = <<ForInterface("clean rules"), ForInterface("clean policies"),
                   ForInterface("link add"), ForInterface("link alias"), ForInterface("configure")>>
       /\ link = "none"
    \/ /\ cmds = <<ForInterface("clean policies"), ForInterface("link add"),
                   ForInterface("link alias"), ForInterface("configure")>>
       /\ link = "none" /\ NoRules
    \/ /\ NoRules /\ policy = {}
       /\ \/ /\ cmds = <<ForInterface("link add"), ForInterface("link alias"),
                         ForInterface("configure")>>
             /\ link = "none"
          \/ cmds = <<ForInterface("link alias"), ForInterface("configure")>> /\ link = "bare"
          \/ cmds = <<ForInterface("configure")>> /\ link = "ours"
          \/ cmds = <<>> /\ link = "ours"

\* The map holds recorded peers, perhaps with another of the two exits of a device.
Matches(ps) ==
    \A k \in Keys : cache[k] # None =>
        \E d \in Listed(ps) :
            /\ ps[d].key = k
            /\ ps[d].host = cache[k].host
            /\ ps[d].exit = "service" <=> cache[k].exit = "service"

\* The devices whose peers the task has still to bring into the kernel, or out of it.
Pending ==
    CASE task.at \in {"replace", "apply", "remove"} -> {task.id}
      [] task.op = "start" /\ task.at \in {"read", "drop"} -> Devices
      [] task.op # "start" /\ task.at = "drop" -> {task.now}
      [] task.at = "set" -> task.left
      [] OTHER -> {}

InForce == \A d \in Listed(peers) \ Pending : cache[peers[d].key] = peers[d]

\* What the backend does at each step of a task.
Calls ==
    /\ task.at \in {"done", "read", "check"} => Resting
    /\ task.at \in {"drop", "set"} /\ task.now = None => Resting
    /\ \A p \in Peer :
          /\ task.at = "drop" /\ task.now # None /\ p = peers[task.now] => Gone(p)
          /\ task.at = "set" /\ task.now # None /\ p = peers[task.now] => Come(p)
          /\ task.at = "remove" /\ p = peers[task.id] => Gone(p)
          /\ task.at = "replace" /\ p = peers[task.id] /\ p.key # task.key => Gone(p)
          /\ task.at = "replace" /\ p = peers[task.id] /\ p.key = task.key => Resting
          /\ task.at = "apply" /\ p = peers[task.id] => Come(p)
    /\ task.at = "replace" /\ peers[task.id] = None => Resting
    /\ task.at = "remove" => peers[task.id] # None

InUse == serving \/ (task.op = "start" /\ task.at # "up")

Sure ==
    /\ ~failed
    /\ ~serving /\ task = Idle => Returned /\ link = "none"
    /\ task.at = "down" => Downing
    /\ task.at = "up" => Upping /\ stored = peers /\ cache = [k \in Keys |-> None]
    /\ task.at \in {"up", "read"} => ~task.dirty
    /\ task.at \notin {"disable", "retract", "unsaved", "restore"}
    /\ InUse =>
          /\ link = "ours"
          /\ task.at # "drop" \/ ~task.dirty => stored = peers
          /\ Matches(peers) /\ InForce /\ Calls

\* The second inductive invariant.
SureInv == faults = 0 => Sure

\* A command in front of a program is the one that runs next.
LEMMA NextCommand ==
    ASSUME NEW S, NEW c \in S, NEW r \in Seq(S)
    PROVE  <<c>> \o r \in Seq(S) /\ <<c>> \o r # <<>> /\ Head(<<c>> \o r) = c /\ Tail(<<c>> \o r) = r
<1> QED
  OBVIOUS

\* The chain after each rule that configurePeerRouting inserts, and after each that
\* removePeerRouting deletes.
LEMMA RulesStanding ==
    /\ Standing("vps") = <<"accept">>
    /\ Standing("home") = <<"out", "return", "guard">>
    /\ Standing("service") = <<>>
<1> QED
  BY DEF Standing, Reverse, Rules

LEMMA RuleInFront ==
    /\ \A r \in RuleNames : <<r>> \o <<>> = <<r>>
    /\ <<"return">> \o <<"guard">> = <<"return", "guard">>
    /\ <<"out">> \o <<"return", "guard">> = <<"out", "return", "guard">>
<1>1. \A r \in RuleNames : <<r>> \o <<>> = <<r>>
  BY ConcatEmptySeq
<1>2. <<"return">> \o <<"guard">> = <<"return", "guard">>
  <2>1. <<"return">> \in Seq(RuleNames) /\ <<"guard">> \in Seq(RuleNames)
        /\ <<"return", "guard">> \in Seq(RuleNames)
    BY DEF RuleNames
  <2> DEFINE s == <<"return">> \o <<"guard">>
  <2>2. s \in Seq(RuleNames) /\ Len(s) = 2 /\ s[1] = "return" /\ s[2] = "guard"
    BY <2>1, ConcatProperties
  <2> HIDE DEF s
  <2>3. s = <<"return", "guard">>
    BY <2>1, <2>2, SeqEqual
  <2> QED
    BY <2>3 DEF s
<1>3. <<"out">> \o <<"return", "guard">> = <<"out", "return", "guard">>
  <2>1. <<"out">> \in Seq(RuleNames) /\ <<"return", "guard">> \in Seq(RuleNames)
        /\ <<"out", "return", "guard">> \in Seq(RuleNames)
    BY DEF RuleNames
  <2> DEFINE s == <<"out">> \o <<"return", "guard">>
  <2>2. /\ s \in Seq(RuleNames) /\ Len(s) = 3
        /\ s[1] = "out" /\ s[2] = "return" /\ s[3] = "guard"
    BY <2>1, ConcatProperties
  <2> HIDE DEF s
  <2>3. s = <<"out", "return", "guard">>
    BY <2>1, <2>2, SeqEqual
  <2> QED
    BY <2>3 DEF s
<1> QED
  BY <1>1, <1>2, <1>3

\* The rule that is deleted is always the last of the chain.
LEMMA LastDeleted ==
    ASSUME NEW s \in Seq(RuleNames), NEW t \in Seq(RuleNames), NEW r \in RuleNames,
           Len(s) = Len(t) + 1, s[Len(s)] = r,
           \A i \in 1..Len(t) : t[i] = s[i] /\ t[i] # r
    PROVE  RemoveFirst(s, r) = t
<1> DEFINE n == Len(t)
           I == {i \in 1..Len(s) : s[i] = r}
<1> HIDE DEF n
<1>0. /\ n \in Nat /\ n = Len(t) /\ Len(s) = n + 1 /\ s[n + 1] = r
      /\ \A i \in 1..n : t[i] = s[i] /\ t[i] # r
  BY LenProperties DEF n
<1>1. I = {n + 1}
  BY <1>0
<1>2. Min(I) = n + 1
  <2>1. \A x \in I : (\A y \in I : x <= y) <=> x = n + 1
    BY <1>0, <1>1
  <2> HIDE DEF I
  <2>2. (CHOOSE x \in I : \A y \in I : x <= y) = n + 1
    BY <1>0, <1>1, <2>1
  <2> QED
    BY <2>2 DEF Min
<1>3. RemoveFirst(s, r) = SubSeq(s, 1, n) \o SubSeq(s, n + 2, n + 1)
  <2>1. \E i \in 1..Len(s) : s[i] = r
    BY <1>0, <1>1
  <2>2. SelectInSeq(s, LAMBDA v : v = r) = n + 1
    BY <1>1, <1>2 DEF SelectInSeq
  <2>3. RemoveFirst(s, r) = RemoveAt(s, n + 1)
    BY <2>1, <2>2 DEF RemoveFirst
  <2>4. (n + 1) - 1 = n /\ (n + 1) + 1 = n + 2
    BY <1>0
  <2> QED
    BY <1>0, <2>3, <2>4 DEF RemoveAt
<1>4. SubSeq(s, n + 2, n + 1) = <<>>
  BY <1>0, SubSeqEmpty
<1>5. SubSeq(s, 1, n) = t
  <2>1. \A i \in 1..n : s[i] \in RuleNames
    BY <1>0
  <2>2. /\ SubSeq(s, 1, n) \in Seq(RuleNames) /\ Len(SubSeq(s, 1, n)) = n
        /\ \A i \in 1..n : SubSeq(s, 1, n)[i] = s[i]
    BY <1>0, <2>1, SubSeqProperties
  <2> QED
    BY <1>0, <2>2, SeqEqual
<1> QED
  BY <1>3, <1>4, <1>5, ConcatEmptySeq

LEMMA RuleDeleted ==
    /\ RemoveFirst(<<"accept">>, "accept") = <<>>
    /\ RemoveFirst(<<"out", "return", "guard">>, "guard") = <<"out", "return">>
    /\ RemoveFirst(<<"out", "return">>, "return") = <<"out">>
    /\ RemoveFirst(<<"out">>, "out") = <<>>
<1>1. ASSUME NEW r \in RuleNames
      PROVE  RemoveFirst(<<r>>, r) = <<>>
  <2> DEFINE s == <<r>>
             t == <<>>
  <2>1. s \in Seq(RuleNames) /\ t \in Seq(RuleNames)
    OBVIOUS
  <2>2. Len(t) = 0 /\ Len(s) = 1 /\ s[1] = r
    OBVIOUS
  <2> HIDE DEF s, t
  <2>3. Len(s) = Len(t) + 1 /\ s[Len(s)] = r /\ \A i \in 1..Len(t) : t[i] = s[i] /\ t[i] # r
    BY <2>2
  <2>4. RemoveFirst(s, r) = t
    BY <2>1, <2>3, LastDeleted
  <2> QED
    BY <2>4 DEF s, t
<1>2. RemoveFirst(<<"out", "return">>, "return") = <<"out">>
  <2> DEFINE s == <<"out", "return">>
             t == <<"out">>
  <2>1. s \in Seq(RuleNames) /\ t \in Seq(RuleNames) /\ "return" \in RuleNames
    BY DEF RuleNames
  <2>2. Len(t) = 1 /\ Len(s) = 2 /\ s[2] = "return" /\ t[1] = s[1] /\ t[1] # "return"
    OBVIOUS
  <2> HIDE DEF s, t
  <2>3. /\ Len(s) = Len(t) + 1 /\ s[Len(s)] = "return"
        /\ \A i \in 1..Len(t) : t[i] = s[i] /\ t[i] # "return"
    BY <2>2
  <2>4. RemoveFirst(s, "return") = t
    BY <2>1, <2>3, LastDeleted
  <2> QED
    BY <2>4 DEF s, t
<1>3. RemoveFirst(<<"out", "return", "guard">>, "guard") = <<"out", "return">>
  <2> DEFINE s == <<"out", "return", "guard">>
             t == <<"out", "return">>
  <2>1. s \in Seq(RuleNames) /\ t \in Seq(RuleNames) /\ "guard" \in RuleNames
    BY DEF RuleNames
  <2>2. /\ Len(t) = 2 /\ Len(s) = 3 /\ s[3] = "guard"
        /\ t[1] = s[1] /\ t[1] # "guard" /\ t[2] = s[2] /\ t[2] # "guard"
    OBVIOUS
  <2> HIDE DEF s, t
  <2>3. /\ Len(s) = Len(t) + 1 /\ s[Len(s)] = "guard"
        /\ \A i \in 1..Len(t) : t[i] = s[i] /\ t[i] # "guard"
    BY <2>2
  <2>4. RemoveFirst(s, "guard") = t
    BY <2>1, <2>3, LastDeleted
  <2> QED
    BY <2>4 DEF s, t
<1> QED
  BY <1>1, <1>2, <1>3 DEF RuleNames

\* The programs, command by command.  Concatenations have names of their own, which hide from
\* the provers what they need not expand.
InFront(a, t) == <<a>> \o t
TwoOf(a, b, t) == <<a, b>> \o t
ThreeOf(a, b, c, t) == <<a, b, c>> \o t
Joined(s, t) == s \o t

LEMMA CommandsInFront ==
    \A a, b, c \in Commands, t \in Seq(Commands) :
        /\ TwoOf(a, b, t) = InFront(a, InFront(b, t))
        /\ ThreeOf(a, b, c, t) = InFront(a, InFront(b, InFront(c, t)))
<1> SUFFICES ASSUME NEW a \in Commands, NEW b \in Commands, NEW c \in Commands,
                    NEW t \in Seq(Commands)
             PROVE  /\ TwoOf(a, b, t) = InFront(a, InFront(b, t))
                    /\ ThreeOf(a, b, c, t) = InFront(a, InFront(b, InFront(c, t)))
  OBVIOUS
<1>1. <<a>> \in Seq(Commands) /\ <<b>> \in Seq(Commands) /\ <<c>> \in Seq(Commands) /\ <<a, b>> \in Seq(Commands)
      /\ <<a, b, c>> \in Seq(Commands)
  OBVIOUS
<1>2. <<a>> \o <<b>> = <<a, b>>
  <2> DEFINE u == <<a>> \o <<b>>
  <2>1. u \in Seq(Commands) /\ Len(u) = 2 /\ u[1] = a /\ u[2] = b
    BY <1>1, ConcatProperties
  <2> HIDE DEF u
  <2>2. u = <<a, b>>
    BY <1>1, <2>1, SeqEqual
  <2> QED
    BY <2>2 DEF u
<1>3. <<a, b>> \o <<c>> = <<a, b, c>>
  <2> DEFINE u == <<a, b>> \o <<c>>
  <2>1. u \in Seq(Commands) /\ Len(u) = 3 /\ u[1] = a /\ u[2] = b /\ u[3] = c
    BY <1>1, ConcatProperties
  <2> HIDE DEF u
  <2>2. u = <<a, b, c>>
    BY <1>1, <2>1, SeqEqual
  <2> QED
    BY <2>2 DEF u
<1>4. ASSUME NEW s \in Seq(Commands)
      PROVE  TwoOf(a, b, s) = InFront(a, InFront(b, s))
  <2>1. (<<a>> \o <<b>>) \o s = <<a>> \o (<<b>> \o s)
    BY <1>1, ConcatAssociative
  <2> QED
    BY <1>2, <2>1 DEF TwoOf, InFront
<1>5. ThreeOf(a, b, c, t) = TwoOf(a, b, InFront(c, t))
  <2>1. (<<a, b>> \o <<c>>) \o t = <<a, b>> \o (<<c>> \o t)
    BY <1>1, ConcatAssociative
  <2> QED
    BY <1>3, <2>1 DEF ThreeOf, TwoOf, InFront
<1>6. InFront(c, t) \in Seq(Commands)
  BY <1>1, ConcatProperties DEF InFront
<1> QED
  BY <1>4, <1>5, <1>6

LEMMA JoinedAssociates ==
    \A a, b, c \in Seq(Commands) : Joined(Joined(a, b), c) = Joined(a, Joined(b, c))
<1> SUFFICES ASSUME NEW a \in Seq(Commands), NEW b \in Seq(Commands), NEW c \in Seq(Commands)
             PROVE  Joined(Joined(a, b), c) = Joined(a, Joined(b, c))
  OBVIOUS
<1>1. (a \o b) \o c = a \o (b \o c)
  BY ONLY ConcatAssociative, a \in Seq(Commands), b \in Seq(Commands), c \in Seq(Commands)
<1> QED
  BY ONLY <1>1 DEF Joined

LEMMA AddingTypes ==
    ASSUME NEW p \in Peer
    PROVE  /\ Remember(p) \in Seq(Commands) /\ SetKey(p) \in Seq(Commands)
           /\ InsertAccept(p) \in Seq(Commands) /\ InsertOut(p) \in Seq(Commands)
           /\ InsertReturn(p) \in Seq(Commands) /\ InsertGuard(p) \in Seq(Commands)
           /\ AddPolicy(p) \in Seq(Commands) /\ AddFrom(p) \in Seq(Commands)
<1>1. /\ Cmd("remember", p, None) \in Commands /\ Cmd("wg set", p, None) \in Commands
      /\ Cmd("policy add", p, None) \in Commands
      /\ \A r \in RuleNames : Cmd("insert", p, r) \in Commands
  BY CommandTypes DEF PeerCommands
<1>2. Remember(p) \in Seq(Commands)
  BY <1>1, NextCommand, EmptySeq DEF Remember
<1>3. SetKey(p) \in Seq(Commands)
  BY <1>1, <1>2, NextCommand DEF SetKey
<1>4. InsertAccept(p) \in Seq(Commands) /\ InsertOut(p) \in Seq(Commands)
  BY <1>1, <1>3, NextCommand DEF InsertAccept, InsertOut, RuleNames
<1>5. InsertReturn(p) \in Seq(Commands)
  BY <1>1, <1>4, NextCommand DEF InsertReturn, RuleNames
<1>6. InsertGuard(p) \in Seq(Commands)
  BY <1>1, <1>5, NextCommand DEF InsertGuard, RuleNames
<1>7. AddPolicy(p) \in Seq(Commands)
  BY <1>1, <1>6, NextCommand DEF AddPolicy
<1>8. p.exit \in {"vps", "home", "service"}
  BY DEF Peer, Exits
<1> QED
  BY <1>2, <1>3, <1>4, <1>5, <1>6, <1>7, <1>8 DEF AddFrom

LEMMA RemovingTypes ==
    ASSUME NEW p \in Peer, NEW q \in Peer, NEW r \in Seq(Commands)
    PROVE  /\ Forget(p, r) \in Seq(Commands) /\ DelPolicy(q, p, r) \in Seq(Commands)
           /\ DeleteAccept(q, p, r) \in Seq(Commands) /\ DeleteOut(q, p, r) \in Seq(Commands)
           /\ DeleteReturn(q, p, r) \in Seq(Commands) /\ DeleteGuard(q, p, r) \in Seq(Commands)
           /\ UnrouteFrom(q, p, r) \in Seq(Commands) /\ RemoveFrom(q, p, r) \in Seq(Commands)
<1>1. /\ Cmd("forget", p, None) \in Commands /\ Cmd("wg remove", p, None) \in Commands
      /\ Cmd("policy del", q, None) \in Commands
      /\ \A x \in RuleNames : Cmd("delete", q, x) \in Commands
  BY CommandTypes DEF PeerCommands
<1>2. Forget(p, r) \in Seq(Commands)
  BY <1>1, NextCommand DEF Forget
<1>3. DelPolicy(q, p, r) \in Seq(Commands) /\ DeleteAccept(q, p, r) \in Seq(Commands)
  BY <1>1, <1>2, NextCommand DEF DelPolicy, DeleteAccept, RuleNames
<1>4. DeleteOut(q, p, r) \in Seq(Commands)
  BY <1>1, <1>3, NextCommand DEF DeleteOut, RuleNames
<1>5. DeleteReturn(q, p, r) \in Seq(Commands)
  BY <1>1, <1>4, NextCommand DEF DeleteReturn, RuleNames
<1>6. DeleteGuard(q, p, r) \in Seq(Commands)
  BY <1>1, <1>5, NextCommand DEF DeleteGuard, RuleNames
<1>7. q.exit \in {"vps", "home", "service"}
  BY DEF Peer, Exits
<1>8. UnrouteFrom(q, p, r) \in Seq(Commands)
  BY <1>2, <1>3, <1>6, <1>7 DEF UnrouteFrom
<1> QED
  BY <1>1, <1>2, <1>3, <1>4, <1>5, <1>6, <1>8, NextCommand DEF RemoveFrom

LEMMA RoutingIs ==
    ASSUME NEW p \in Peer
    PROVE  /\ p.exit = "service" => RoutingProgram(p) = <<>> /\ RoutingRemoval(p) = <<>>
           /\ p.exit = "vps" => /\ RoutingProgram(p) = <<Cmd("insert", p, "accept")>>
                                /\ RoutingRemoval(p) = <<Cmd("delete", p, "accept")>>
           /\ p.exit = "home" =>
                 /\ RoutingProgram(p) =
                        <<Cmd("policy add", p, None)>> \o
                        <<Cmd("insert", p, "guard"), Cmd("insert", p, "return"), Cmd("insert", p, "out")>>
                 /\ RoutingRemoval(p) =
                        <<Cmd("delete", p, "guard"), Cmd("delete", p, "return"), Cmd("delete", p, "out")>>
                        \o <<Cmd("policy del", p, None)>>
<1>1. CASE p.exit = "service"
  <2>1. \A do : ForRules(do, p) = <<>> /\ WhenHome(do, p) = <<>>
    BY <1>1 DEF ForRules, WhenHome, Rules
  <2>2. <<>> \o <<>> = <<>>
    BY EmptySeq, ConcatEmptySeq
  <2> QED
    BY <1>1, <2>1, <2>2 DEF RoutingProgram, RoutingRemoval
<1>2. CASE p.exit = "vps"
  <2>1. Rules(p.exit) = <<"accept">>
    BY <1>2 DEF Rules
  <2>2. \A do : ForRules(do, p) = <<Cmd(do, p, "accept")>> /\ WhenHome(do, p) = <<>>
    BY <1>2, <2>1 DEF ForRules, WhenHome
  <2>3. \A c : c \in Commands => <<c>> \o <<>> = <<c>> /\ <<>> \o <<c>> = <<c>>
    <3>1. \A c \in Commands : <<c>> \in Seq(Commands)
      BY ShortSequences
    <3> QED
      BY <3>1, ConcatEmptySeq
  <2>4. Cmd("insert", p, "accept") \in Commands /\ Cmd("delete", p, "accept") \in Commands
    BY CommandTypes DEF PeerCommands, RuleNames
  <2> QED
    BY <1>2, <2>2, <2>3, <2>4 DEF RoutingProgram, RoutingRemoval
<1>3. CASE p.exit = "home"
  <2>1. Rules(p.exit) = <<"guard", "return", "out">>
    BY <1>3 DEF Rules
  <2>2. ASSUME NEW do
        PROVE  /\ ForRules(do, p) = <<Cmd(do, p, "guard"), Cmd(do, p, "return"), Cmd(do, p, "out")>>
               /\ WhenHome(do, p) = <<Cmd(do, p, None)>>
    BY <1>3, <2>1 DEF ForRules, WhenHome
  <2> QED
    BY <1>3, <2>2 DEF RoutingProgram, RoutingRemoval
<1>4. p.exit \in {"vps", "home", "service"}
  BY DEF Peer, Exits
<1> QED
  BY <1>1, <1>2, <1>3, <1>4

LEMMA AddFromIs ==
    ASSUME NEW p \in Peer
    PROVE  RoutingProgram(p) \o <<Cmd("wg set", p, None), Cmd("remember", p, None)>> = AddFrom(p)
<1> DEFINE set == Cmd("wg set", p, None)
           remember == Cmd("remember", p, None)
           end == <<set, remember>>
<1>1. set \in Commands /\ remember \in Commands /\ Cmd("policy add", p, None) \in Commands
  BY CommandTypes DEF PeerCommands
<1>2. /\ Cmd("insert", p, "accept") \in Commands /\ Cmd("insert", p, "guard") \in Commands
      /\ Cmd("insert", p, "return") \in Commands /\ Cmd("insert", p, "out") \in Commands
  BY CommandTypes DEF PeerCommands, RuleNames
<1>3. SetKey(p) = <<set>> \o (<<remember>> \o <<>>)
  BY DEF SetKey, Remember
<1> HIDE DEF set, remember
<1>4. end \in Seq(Commands) /\ <<>> \in Seq(Commands)
  BY <1>1, ShortSequences, EmptySeq
<1>5. end = SetKey(p)
  <2>1. end \o <<>> = <<set>> \o (<<remember>> \o <<>>)
    <3>1. TwoOf(set, remember, <<>>) = InFront(set, InFront(remember, <<>>))
      BY ONLY <1>1, <1>4, CommandsInFront
    <3> QED
      BY ONLY <3>1 DEF end, TwoOf, InFront
  <2> QED
    BY <1>3, <1>4, <2>1, ConcatEmptySeq
<1> HIDE DEF end
<1>6. RoutingProgram(p) \o end = AddFrom(p)
  <2>1. CASE p.exit = "service"
    <3>1. <<>> \o end = end
      BY <1>4, ConcatEmptySeq
    <3> QED
      BY <1>5, <2>1, <3>1, RoutingIs DEF AddFrom
  <2>2. CASE p.exit = "vps"
    BY <1>5, <2>2, RoutingIs DEF AddFrom, InsertAccept
  <2>3. CASE p.exit = "home"
    <3> DEFINE add == <<Cmd("policy add", p, None)>>
               rules == <<Cmd("insert", p, "guard"), Cmd("insert", p, "return"),
                          Cmd("insert", p, "out")>>
    <3>1. RoutingProgram(p) = add \o rules
      BY <2>3, RoutingIs
    <3>2. add \in Seq(Commands) /\ rules \in Seq(Commands)
      BY <1>1, <1>2, ShortSequences
    <3>3. rules \o end = InsertGuard(p)
      <4> DEFINE g == Cmd("insert", p, "guard")
                 t == Cmd("insert", p, "return")
                 o == Cmd("insert", p, "out")
      <4>1. g \in Commands /\ t \in Commands /\ o \in Commands
        BY <1>2
      <4> HIDE DEF g, t, o
      <4>2. ThreeOf(g, t, o, end) = InFront(g, InFront(t, InFront(o, end)))
        BY ONLY <1>4, <4>1, CommandsInFront
      <4>3. <<g, t, o>> \o SetKey(p) = <<g>> \o (<<t>> \o (<<o>> \o SetKey(p)))
        BY ONLY <1>5, <4>2 DEF ThreeOf, InFront
      <4> QED
        BY ONLY <1>5, <4>3 DEF g, t, o, rules, InsertGuard, InsertReturn, InsertOut
    <3>4. AddFrom(p) = add \o InsertGuard(p)
      BY <2>3 DEF AddFrom, AddPolicy
    <3> HIDE DEF rules, add
    <3>5. (add \o rules) \o end = add \o (rules \o end)
      BY <1>4, <3>2, ConcatAssociative
    <3> QED
      BY <3>1, <3>3, <3>4, <3>5
  <2>4. p.exit \in {"vps", "home", "service"}
    BY DEF Peer, Exits
  <2> QED
    BY <2>1, <2>2, <2>3, <2>4
<1> QED
  BY <1>6 DEF end, set, remember

LEMMA UnrouteFromIs ==
    ASSUME NEW p \in Peer, NEW q \in Peer, NEW r \in Seq(Commands)
    PROVE  RoutingRemoval(q) \o (<<Cmd("forget", p, None)>> \o r) = UnrouteFrom(q, p, r)
<1>1. /\ Cmd("policy del", q, None) \in Commands
      /\ Cmd("delete", q, "guard") \in Commands /\ Cmd("delete", q, "return") \in Commands
      /\ Cmd("delete", q, "out") \in Commands
  BY CommandTypes DEF PeerCommands, RuleNames
<1>2. Forget(p, r) \in Seq(Commands) /\ DelPolicy(q, p, r) \in Seq(Commands)
  BY RemovingTypes
<1>3. RoutingRemoval(q) \o Forget(p, r) = UnrouteFrom(q, p, r)
  <2>1. CASE q.exit = "service"
    <3>1. <<>> \o Forget(p, r) = Forget(p, r)
      BY <1>2, ConcatEmptySeq
    <3> QED
      BY <2>1, <3>1, RoutingIs DEF UnrouteFrom
  <2>2. CASE q.exit = "vps"
    BY <2>2, RoutingIs DEF UnrouteFrom, DeleteAccept
  <2>3. CASE q.exit = "home"
    <3> DEFINE del == <<Cmd("policy del", q, None)>>
               rules == <<Cmd("delete", q, "guard"), Cmd("delete", q, "return"),
                          Cmd("delete", q, "out")>>
    <3>1. RoutingRemoval(q) = rules \o del
      BY <2>3, RoutingIs
    <3>2. del \in Seq(Commands) /\ rules \in Seq(Commands)
      BY <1>1, ShortSequences
    <3>3. rules \o DelPolicy(q, p, r) = DeleteGuard(q, p, r)
      <4> DEFINE g == Cmd("delete", q, "guard")
                 t == Cmd("delete", q, "return")
                 o == Cmd("delete", q, "out")
                 after == DelPolicy(q, p, r)
      <4>1. g \in Commands /\ t \in Commands /\ o \in Commands /\ after \in Seq(Commands)
        BY <1>1, <1>2
      <4> HIDE DEF g, t, o, after
      <4>2. ThreeOf(g, t, o, after) = InFront(g, InFront(t, InFront(o, after)))
        BY ONLY <4>1, CommandsInFront
      <4>3. <<g, t, o>> \o after = <<g>> \o (<<t>> \o (<<o>> \o after))
        BY ONLY <4>2 DEF ThreeOf, InFront
      <4> QED
        BY ONLY <4>3 DEF g, t, o, after, rules, DeleteGuard, DeleteReturn, DeleteOut
    <3>4. UnrouteFrom(q, p, r) = DeleteGuard(q, p, r) /\ DelPolicy(q, p, r) = del \o Forget(p, r)
      BY <2>3 DEF UnrouteFrom, DelPolicy
    <3> DEFINE last == Forget(p, r)
    <3>5. last \in Seq(Commands)
      BY <1>2
    <3> HIDE DEF rules, del, last
    <3>6. (rules \o del) \o last = rules \o (del \o last)
      BY ONLY <3>2, <3>5, ConcatAssociative
    <3> QED
      BY <3>1, <3>3, <3>4, <3>6 DEF last
  <2>4. q.exit \in {"vps", "home", "service"}
    BY DEF Peer, Exits
  <2> QED
    BY <2>1, <2>2, <2>3, <2>4
<1> QED
  BY <1>3 DEF Forget

\* RemovePeer and SetPeer, by what the backend knows of the key.
LEMMA RemoveProgramIs ==
    ASSUME cache \in [Keys -> Peer \cup {None}], NEW p \in Peer
    PROVE  RemoveProgram(p) = IF cache[p.key] = None THEN <<Cmd("wg remove", p, None)>> \o <<>>
                              ELSE RemoveFrom(cache[p.key], p, <<>>)
<1>1. CASE cache[p.key] = None
  BY <1>1 DEF RemoveProgram
<1>2. CASE cache[p.key] # None
  <2> DEFINE q == cache[p.key]
  <2>1. q \in Peer
    BY <1>2 DEF Peer
  <2>2. Cmd("forget", p, None) \in Commands
    BY CommandTypes DEF PeerCommands
  <2>3. <<Cmd("forget", p, None)>> \o <<>> = <<Cmd("forget", p, None)>>
    BY <2>2, ConcatEmptySeq
  <2>4. RoutingRemoval(q) \o (<<Cmd("forget", p, None)>> \o <<>>) = UnrouteFrom(q, p, <<>>)
    BY <2>1, UnrouteFromIs, EmptySeq
  <2> QED
    BY <1>2, <2>3, <2>4 DEF RemoveProgram, RemoveFrom
<1> QED
  BY <1>1, <1>2

LEMMA SetProgramIs ==
    ASSUME cache \in [Keys -> Peer \cup {None}], NEW p \in Peer
    PROVE  SetProgram(p) = IF cache[p.key] = p THEN <<>>
                           ELSE IF cache[p.key] = None THEN AddFrom(p)
                           ELSE RemoveFrom(cache[p.key], p, AddFrom(p))
<1> DEFINE end == <<Cmd("wg set", p, None), Cmd("remember", p, None)>>
<1>1. RoutingProgram(p) \o end = AddFrom(p) /\ p # None
  BY AddFromIs, NoneAssumption
<1>2. end \in Seq(Commands) /\ RoutingProgram(p) \in Seq(Commands)
  <2>1. Cmd("wg set", p, None) \in Commands /\ Cmd("remember", p, None) \in Commands
    BY CommandTypes DEF PeerCommands
  <2> QED
    BY <2>1, RoutingTypes, ShortSequences
<1> HIDE DEF end
<1>3. CASE cache[p.key] = None
  <2>1. <<>> \o RoutingProgram(p) = RoutingProgram(p)
    BY <1>2, ConcatEmptySeq
  <2> QED
    BY <1>1, <1>3, <2>1 DEF SetProgram, end
<1>4. CASE cache[p.key] # None /\ cache[p.key] # p
  <2> DEFINE q == cache[p.key]
             u == RoutingRemoval(q)
             f == <<Cmd("forget", p, None)>>
             w == <<Cmd("wg remove", p, None)>>
             a == AddFrom(p)
  <2>1. q \in Peer
    BY <1>4 DEF Peer
  <2>2. u \in Seq(Commands) /\ f \in Seq(Commands) /\ w \in Seq(Commands) /\ a \in Seq(Commands)
    <3>1. Cmd("forget", p, None) \in Commands /\ Cmd("wg remove", p, None) \in Commands
      BY CommandTypes DEF PeerCommands
    <3>2. u \in Seq(Commands)
      BY <2>1, RoutingTypes
    <3>3. f \in Seq(Commands) /\ w \in Seq(Commands)
      BY <3>1, ShortSequences
    <3>4. a \in Seq(Commands)
      BY AddingTypes
    <3> QED
      BY <3>2, <3>3, <3>4
  <2>3. u \o (f \o a) = UnrouteFrom(q, p, a)
    BY <2>1, <2>2, UnrouteFromIs
  <2>4. SetProgram(p) = ((w \o (u \o f)) \o RoutingProgram(p)) \o end
    BY <1>4, <2>1, NoneAssumption DEF SetProgram, RemoveProgram, end
  <2>5. RemoveFrom(q, p, a) = w \o UnrouteFrom(q, p, a)
    BY DEF RemoveFrom
  <2> DEFINE v == u \o f
  <2>6. v \in Seq(Commands) /\ w \o v \in Seq(Commands)
    BY <2>2, ConcatProperties
  <2> HIDE DEF u, f, w, a, q, v
  <2>7. ((w \o v) \o RoutingProgram(p)) \o end = (w \o v) \o a
    <3>1. ((w \o v) \o RoutingProgram(p)) \o end = (w \o v) \o (RoutingProgram(p) \o end)
      <4>1. LET z == RoutingProgram(p)
            IN Joined(Joined(Joined(w, v), z), end) = Joined(Joined(w, v), Joined(z, end))
        BY ONLY <1>2, <2>6, JoinedAssociates DEF Joined
      <4> QED
        BY ONLY <4>1 DEF Joined
    <3> QED
      BY <1>1, <3>1 DEF a
  <2>8. (w \o v) \o a = w \o (v \o a)
    <3>1. Joined(Joined(w, v), a) = Joined(w, Joined(v, a))
      BY ONLY <2>2, <2>6, JoinedAssociates
    <3> QED
      BY ONLY <3>1 DEF Joined
  <2>9. v \o a = u \o (f \o a)
    <3>1. Joined(Joined(u, f), a) = Joined(u, Joined(f, a))
      BY ONLY <2>2, JoinedAssociates
    <3> QED
      BY ONLY <3>1 DEF Joined, v
  <2>10. SetProgram(p) = RemoveFrom(q, p, a)
    BY <2>3, <2>4, <2>5, <2>7, <2>8, <2>9 DEF v
  <2> QED
    BY <1>4, <2>10 DEF q, a
<1>5. CASE cache[p.key] = p
  BY <1>5 DEF SetProgram
<1> QED
  BY <1>1, <1>3, <1>4, <1>5

-----------------------------------------------------------------------------
(***************************************************************************)
(* One command of a call, when nothing fails.                              *)
(***************************************************************************)
Runs(c) ==
    IF Bookkeeping(c)
    THEN /\ cache' = [cache EXCEPT ![c.peer.key] = IF c.do = "remember" THEN c.peer ELSE None]
         /\ UNCHANGED kernelVars
    ELSE Change(c) /\ UNCHANGED cache

LEMMA CommandRuns ==
    ASSUME faults = 0, faults' = 0, BackendStep,
           NEW c \in Commands, NEW r \in Seq(Commands), cmds = <<c>> \o r, Possible(c)
    PROVE  cmds' = r /\ failed' = failed /\ Runs(c)
<1>1. cmds # <<>> /\ Head(cmds) = c /\ Tail(cmds) = r
  BY NextCommand
<1>2. ~CountFault
  BY DEF CountFault
<1>3. RunBookkeeping \/ RunCommand
  BY <1>1, <1>2 DEF BackendStep, CommandRefused, CommandFails, QueryFails
<1> QED
  BY <1>1, <1>3 DEF RunBookkeeping, RunCommand, Runs

LEMMA RuleInserted ==
    ASSUME KernelTypes, NEW c \in Commands, c.do = "insert", Change(c),
           ~Contains(chain[c.peer.host], c.rule)
    PROVE  /\ chain'[c.peer.host] = <<c.rule>> \o chain[c.peer.host]
           /\ UNCHANGED <<policy, owner, gateway>>
<1>1. c.peer.host \in Hosts
  BY DEF Commands, PeerCommands, Peer
<1>2. Insert(c)
  BY DEF Change, Present
<1> QED
  BY <1>1, <1>2 DEF Insert, SetChain, KernelTypes

LEMMA RuleTaken ==
    ASSUME KernelTypes, NEW c \in Commands, c.do = "delete", Change(c),
           Contains(chain[c.peer.host], c.rule)
    PROVE  /\ chain'[c.peer.host] = RemoveFirst(chain[c.peer.host], c.rule)
           /\ UNCHANGED <<policy, owner, gateway>>
<1>1. c.peer.host \in Hosts
  BY DEF Commands, PeerCommands, Peer
<1>2. SetChain(c.peer.host, RemoveFirst(chain[c.peer.host], c.rule))
  BY DEF Change, Present
<1> QED
  BY <1>1, <1>2 DEF SetChain, KernelTypes

LEMMA RulesContained ==
    /\ ~Contains(<<>>, "guard") /\ ~Contains(<<>>, "accept")
    /\ ~Contains(<<"guard">>, "return") /\ ~Contains(<<"return", "guard">>, "out")
    /\ Contains(<<"accept">>, "accept") /\ Contains(<<"out">>, "out")
    /\ Contains(<<"out", "return">>, "return") /\ Contains(<<"out", "return", "guard">>, "guard")
<1> QED
  BY DEF Contains

\* A command for one peer touches no other: not the address, the key or the entry of the map.
LEMMA OthersKept ==
    ASSUME KernelTypes, CallTypes, NEW p \in Peer, NEW c \in Commands, c.do \in PeerCommands,
           c.peer.key = p.key, c.peer.host = p.host, c.do = "wg set" => c.peer = p,
           Apart(p), cache[p.key] # None => cache[p.key].host = p.host, Runs(c)
    PROVE  Apart(p)' /\ link' = link /\ \A k \in Keys \ {p.key} : cache'[k] = cache[k]
<1>0. p.key \in Keys /\ p.host \in Hosts /\ c.peer \in Peer
  BY DEF Peer, Commands
<1>1. \A k \in Keys \ {p.key} : cache'[k] = cache[k]
  BY <1>0 DEF Runs, CallTypes
<1>2. \/ WgSet(p) \/ WgRemove(c.peer) \/ UNCHANGED kernelVars
      \/ \E s : SetChain(p.host, s)
      \/ SetPolicy(policy \cup {p.host}) \/ SetPolicy(policy \ {p.host})
  BY DEF Runs, Change, Insert, PeerCommands
<1>3. link' = link
  BY <1>2 DEF WgSet, WgRemove, SetChain, SetPolicy, kernelVars
<1>4. \A h \in Hosts \ {p.host} : chain'[h] = chain[h] /\ (h \in policy' <=> h \in policy)
  BY <1>2 DEF WgSet, WgRemove, SetChain, SetPolicy, kernelVars, KernelTypes
<1>5. \A h \in Hosts \ {p.host} : owner[h] # p.key => owner'[h] = owner[h]
  BY <1>2 DEF WgSet, WgRemove, SetChain, SetPolicy, kernelVars, KernelTypes
<1>6. p.exit # "service" /\ gateway # p.key => gateway' = gateway
  BY <1>2 DEF WgSet, WgRemove, SetChain, SetPolicy, kernelVars
<1>7. p.exit = "service" /\ gateway # p.key => gateway' = gateway \/ gateway' = p.key
  BY <1>2 DEF WgSet, WgRemove, SetChain, SetPolicy, kernelVars
<1>8. ASSUME NEW k \in Keys \ {p.key}, cache'[k] # None
      PROVE  /\ cache'[k].key = k
             /\ InPlace(cache[k])'
             /\ cache'[k].host # p.host
             /\ ~(cache'[k].exit = "service" /\ p.exit = "service")
  <2>0. PICK x \in Peer : x = cache[k]
    BY <1>1, <1>8 DEF CallTypes
  <2>1. /\ x = cache'[k] /\ x.key = k /\ InPlace(x) /\ x.host # p.host
        /\ ~(x.exit = "service" /\ p.exit = "service")
    BY <1>1, <1>8, <2>0 DEF Apart
  <2>2. x.host \in Hosts
    BY <2>1 DEF Peer
  <2>3. x.exit = "service" => gateway' = gateway
    BY <1>6, <2>1 DEF InPlace, Connected
  <2>4. x.exit # "service" => owner'[x.host] = owner[x.host]
    BY <1>5, <2>1, <2>2 DEF InPlace, Connected
  <2>5. chain'[x.host] = chain[x.host] /\ (x.host \in policy' <=> x.host \in policy)
    BY <1>4, <2>1, <2>2
  <2>6. Connected(x)'
    BY <2>1, <2>3, <2>4 DEF InPlace, Connected
  <2>7. Routed(x)'
    BY <2>1, <2>5 DEF InPlace, Routed, Looks
  <2>8. InPlace(x)'
    BY <2>6, <2>7 DEF InPlace
  <2> QED
    BY <2>1, <2>8 DEF InPlace, Connected, Routed, Looks
<1>9. ASSUME NEW h \in Hosts \ {p.host}, ~Held(h)'
      PROVE  Clean(h)'
  <2>1. ~Held(h)
    BY <1>0, <1>1, <1>9 DEF Held
  <2>2. Clean(h)
    BY <2>1 DEF Apart
  <2> QED
    BY <1>4, <2>2 DEF Clean, Looks
<1> QED
  BY <1>1, <1>3, <1>8, <1>9 DEF Apart

\* A state in which the backend works for p and nothing failed, and a step of it.
BusyFor(p) ==
    /\ KernelTypes /\ CallTypes
    /\ faults = 0 /\ link = "ours"
    /\ Apart(p)
    /\ cache[p.key] # None => cache[p.key].host = p.host

StillBusyFor(p) ==
    /\ Apart(p)' /\ link' = "ours" /\ failed' = failed
    /\ \A k \in Keys \ {p.key} : cache'[k] = cache[k]

LEMMA PeerCommandRuns ==
    ASSUME NEW p \in Peer, BusyFor(p), faults' = 0, BackendStep,
           NEW c \in Commands, NEW r \in Seq(Commands), cmds = <<c>> \o r,
           c.do \in PeerCommands, c.peer.key = p.key, c.peer.host = p.host,
           c.do = "wg set" => c.peer = p,
           c.do = "policy add" => p.host \notin policy,
           c.do = "policy del" => p.host \in policy
    PROVE  cmds' = r /\ Runs(c) /\ StillBusyFor(p)
<1>1. Possible(c)
  BY DEF Possible, PeerCommands, BusyFor
<1>2. cmds' = r /\ failed' = failed /\ Runs(c)
  BY <1>1, CommandRuns DEF BusyFor
<1>3. Apart(p)' /\ link' = link /\ \A k \in Keys \ {p.key} : cache'[k] = cache[k]
  BY <1>2, OthersKept DEF BusyFor
<1> QED
  BY <1>2, <1>3 DEF StillBusyFor, BusyFor

\* What a command for p does to the address, the key and the entry of p.
LEMMA InsertDone ==
    ASSUME NEW p \in Peer, BusyFor(p), faults' = 0, BackendStep, NEW rule \in RuleNames,
           NEW r \in Seq(Commands), cmds = <<Cmd("insert", p, rule)>> \o r,
           ~Contains(chain[p.host], rule)
    PROVE  /\ cmds' = r /\ StillBusyFor(p) /\ cache' = cache
           /\ chain'[p.host] = <<rule>> \o chain[p.host]
           /\ UNCHANGED <<policy, owner, gateway>>
<1> DEFINE c == Cmd("insert", p, rule)
<1>1. c \in Commands /\ c.do = "insert" /\ c.peer = p /\ c.rule = rule
  BY CommandTypes DEF PeerCommands, Cmd
<1> HIDE DEF c
<1>2. cmds' = r /\ Runs(c) /\ StillBusyFor(p)
  BY <1>1, PeerCommandRuns DEF PeerCommands, c
<1>3. Change(c) /\ cache' = cache
  BY <1>1, <1>2 DEF Runs, Bookkeeping
<1> QED
  BY <1>1, <1>2, <1>3, RuleInserted DEF BusyFor

LEMMA DeleteDone ==
    ASSUME NEW p \in Peer, NEW q \in Peer, q.key = p.key, q.host = p.host,
           BusyFor(p), faults' = 0, BackendStep, NEW rule \in RuleNames,
           NEW r \in Seq(Commands), cmds = <<Cmd("delete", q, rule)>> \o r,
           Contains(chain[p.host], rule)
    PROVE  /\ cmds' = r /\ StillBusyFor(p) /\ cache' = cache
           /\ chain'[p.host] = RemoveFirst(chain[p.host], rule)
           /\ UNCHANGED <<policy, owner, gateway>>
<1> DEFINE c == Cmd("delete", q, rule)
<1>1. c \in Commands /\ c.do = "delete" /\ c.peer = q /\ c.rule = rule
  BY CommandTypes DEF PeerCommands, Cmd
<1> HIDE DEF c
<1>2. cmds' = r /\ Runs(c) /\ StillBusyFor(p)
  BY <1>1, PeerCommandRuns DEF PeerCommands, c
<1>3. Change(c) /\ cache' = cache
  BY <1>1, <1>2 DEF Runs, Bookkeeping
<1> QED
  BY <1>1, <1>2, <1>3, RuleTaken DEF BusyFor

LEMMA PolicyDone ==
    ASSUME NEW p \in Peer, NEW q \in Peer, q.key = p.key, q.host = p.host,
           BusyFor(p), faults' = 0, BackendStep, NEW r \in Seq(Commands),
           NEW do \in {"policy add", "policy del"},
           cmds = <<Cmd(do, q, None)>> \o r, p.host \in policy <=> do = "policy del"
    PROVE  /\ cmds' = r /\ StillBusyFor(p) /\ cache' = cache
           /\ p.host \in policy' <=> do = "policy add"
           /\ UNCHANGED <<chain, owner, gateway>>
<1> DEFINE c == Cmd(do, q, None)
<1>1. c \in Commands /\ c.do = do /\ c.peer = q
  BY CommandTypes DEF PeerCommands, Cmd
<1> HIDE DEF c
<1>2. cmds' = r /\ Runs(c) /\ StillBusyFor(p)
  BY <1>1, PeerCommandRuns DEF PeerCommands, c
<1>3. Change(c) /\ cache' = cache
  BY <1>1, <1>2 DEF Runs, Bookkeeping
<1>4. \/ do = "policy add" /\ SetPolicy(policy \cup {p.host})
      \/ do = "policy del" /\ SetPolicy(policy \ {p.host})
  BY <1>1, <1>3 DEF Change
<1> QED
  BY <1>2, <1>3, <1>4 DEF SetPolicy

LEMMA KeyDone ==
    ASSUME NEW p \in Peer, BusyFor(p), faults' = 0, BackendStep, NEW r \in Seq(Commands),
           NEW do \in {"wg set", "wg remove"}, cmds = <<Cmd(do, p, None)>> \o r
    PROVE  /\ cmds' = r /\ StillBusyFor(p) /\ cache' = cache
           /\ do = "wg set" => Connected(p)'
           /\ UNCHANGED <<chain, policy>>
<1> DEFINE c == Cmd(do, p, None)
<1>1. c \in Commands /\ c.do = do /\ c.peer = p
  BY CommandTypes DEF PeerCommands, Cmd
<1> HIDE DEF c
<1>2. cmds' = r /\ Runs(c) /\ StillBusyFor(p)
  BY <1>1, PeerCommandRuns DEF PeerCommands, c
<1>3. Change(c) /\ cache' = cache
  BY <1>1, <1>2 DEF Runs, Bookkeeping
<1>4. (do = "wg set" /\ WgSet(p)) \/ (do = "wg remove" /\ WgRemove(p))
  BY <1>1, <1>3 DEF Change
<1>5. p.host \in Hosts
  BY DEF Peer
<1> QED
  BY <1>2, <1>3, <1>4, <1>5 DEF WgSet, WgRemove, Connected

LEMMA EntryDone ==
    ASSUME NEW p \in Peer, BusyFor(p), faults' = 0, BackendStep, NEW r \in Seq(Commands),
           NEW do \in {"remember", "forget"}, cmds = <<Cmd(do, p, None)>> \o r
    PROVE  /\ cmds' = r /\ StillBusyFor(p) /\ UNCHANGED kernelVars
           /\ cache'[p.key] = IF do = "remember" THEN p ELSE None
<1> DEFINE c == Cmd(do, p, None)
<1>1. c \in Commands /\ c.do = do /\ c.peer = p
  BY CommandTypes DEF PeerCommands, Cmd
<1> HIDE DEF c
<1>2. cmds' = r /\ Runs(c) /\ StillBusyFor(p)
  BY <1>1, PeerCommandRuns DEF PeerCommands, c
<1>3. p.key \in Keys
  BY DEF Peer
<1> QED
  BY <1>1, <1>2, <1>3 DEF Runs, Bookkeeping, BusyFor, CallTypes

-----------------------------------------------------------------------------
(***************************************************************************)
(* A call, when nothing fails.                                             *)
(***************************************************************************)
Added(p) == cmds = <<>> /\ cache[p.key] = p /\ InPlace(p)
Taken(p, r) == cmds = r /\ cache[p.key] = None /\ Clean(p.host)

LEMMA AddingStep ==
    ASSUME NEW p \in Peer, BusyFor(p), faults' = 0, BackendStep, Adding(p)
    PROVE  StillBusyFor(p) /\ (Adding(p)' \/ Added(p)')
<1>0. p.key \in Keys /\ p # None
  BY NoneAssumption DEF Peer
<1>1. CASE cmds = AddPolicy(p) /\ p.exit = "home" /\ Looks(p.host, <<>>, FALSE)
  <2>1. /\ cmds' = InsertGuard(p) /\ StillBusyFor(p) /\ cache' = cache
        /\ p.host \in policy' /\ chain' = chain
    BY <1>1, PolicyDone, AddingTypes DEF AddPolicy, Looks
  <2> QED
    BY <1>1, <2>1 DEF Adding, Looks
<1>2. CASE cmds = InsertGuard(p) /\ p.exit = "home" /\ Looks(p.host, <<>>, TRUE)
  <2>1. "guard" \in RuleNames /\ chain[p.host] = <<>> /\ p.host \in policy
    BY <1>2 DEF RuleNames, Looks
  <2>2. /\ cmds' = InsertReturn(p) /\ StillBusyFor(p) /\ cache' = cache
        /\ policy' = policy /\ chain'[p.host] = <<"guard">> \o <<>>
    BY <1>2, <2>1, InsertDone, AddingTypes, RulesContained DEF InsertGuard
  <2> QED
    BY <1>2, <2>1, <2>2, RuleInFront DEF Adding, Looks
<1>3. CASE cmds = InsertReturn(p) /\ p.exit = "home" /\ Looks(p.host, <<"guard">>, TRUE)
  <2>1. "return" \in RuleNames /\ chain[p.host] = <<"guard">> /\ p.host \in policy
    BY <1>3 DEF RuleNames, Looks
  <2>2. /\ cmds' = InsertOut(p) /\ StillBusyFor(p) /\ cache' = cache
        /\ policy' = policy /\ chain'[p.host] = <<"return">> \o <<"guard">>
    BY <1>3, <2>1, InsertDone, AddingTypes, RulesContained DEF InsertReturn
  <2> QED
    BY <1>3, <2>1, <2>2, RuleInFront DEF Adding, Looks
<1>4. CASE cmds = InsertOut(p) /\ p.exit = "home" /\ Looks(p.host, <<"return", "guard">>, TRUE)
  <2>1. "out" \in RuleNames /\ chain[p.host] = <<"return", "guard">> /\ p.host \in policy
    BY <1>4 DEF RuleNames, Looks
  <2>2. /\ cmds' = SetKey(p) /\ StillBusyFor(p) /\ cache' = cache
        /\ policy' = policy /\ chain'[p.host] = <<"out">> \o <<"return", "guard">>
    BY <1>4, <2>1, InsertDone, AddingTypes, RulesContained DEF InsertOut
  <2>3. chain'[p.host] = Standing(p.exit)
    BY <1>4, <2>2, RuleInFront, RulesStanding
  <2>4. Routed(p)'
    BY <1>4, <2>1, <2>2, <2>3 DEF Routed, Looks
  <2> QED
    BY <1>4, <2>2, <2>4 DEF Adding
<1>5. CASE cmds = InsertAccept(p) /\ p.exit = "vps" /\ Looks(p.host, <<>>, FALSE)
  <2>1. "accept" \in RuleNames /\ chain[p.host] = <<>> /\ p.host \notin policy
    BY <1>5 DEF RuleNames, Looks
  <2>2. /\ cmds' = SetKey(p) /\ StillBusyFor(p) /\ cache' = cache
        /\ policy' = policy /\ chain'[p.host] = <<"accept">> \o <<>>
    BY <1>5, <2>1, InsertDone, AddingTypes, RulesContained DEF InsertAccept
  <2>3. chain'[p.host] = Standing(p.exit)
    BY <1>5, <2>1, <2>2, RuleInFront, RulesStanding
  <2>4. Routed(p)'
    BY <1>5, <2>1, <2>2, <2>3 DEF Routed, Looks
  <2> QED
    BY <1>5, <2>2, <2>4 DEF Adding
<1>6. CASE cmds = SetKey(p) /\ Routed(p)
  <2>1. /\ cmds' = Remember(p) /\ StillBusyFor(p) /\ cache' = cache
        /\ Connected(p)' /\ UNCHANGED <<chain, policy>>
    BY <1>6, KeyDone, AddingTypes DEF SetKey
  <2>2. Routed(p)'
    BY <1>6, <2>1 DEF Routed, Looks
  <2>3. InPlace(p)'
    BY <2>1, <2>2 DEF InPlace
  <2> QED
    BY <1>6, <2>1, <2>3 DEF Adding
<1>7. CASE cmds = Remember(p) /\ InPlace(p)
  <2>1. /\ cmds' = <<>> /\ StillBusyFor(p) /\ cache'[p.key] = p
        /\ UNCHANGED kernelVars
    BY <1>7, EntryDone, EmptySeq DEF Remember
  <2>2. InPlace(p)'
    BY <1>7, <2>1 DEF InPlace, Connected, Routed, Looks, kernelVars
  <2> QED
    BY <2>1, <2>2 DEF Added
<1> QED
  BY <1>1, <1>2, <1>3, <1>4, <1>5, <1>6, <1>7 DEF Adding

LEMMA RemovingStep ==
    ASSUME NEW p \in Peer, NEW q \in Peer, NEW r \in Seq(Commands),
           BusyFor(p), faults' = 0, BackendStep, Removing(q, p, r)
    PROVE  StillBusyFor(p) /\ (Removing(q, p, r)' \/ Taken(p, r)')
<1>0. q.key = p.key /\ q.host = p.host /\ cache[p.key] = q
  BY DEF Removing
<1>1. CASE cmds = RemoveFrom(q, p, r) /\ InPlace(q)
  <2>1. /\ cmds' = UnrouteFrom(q, p, r) /\ StillBusyFor(p) /\ cache' = cache
        /\ UNCHANGED <<chain, policy>>
    BY <1>1, KeyDone, RemovingTypes DEF RemoveFrom
  <2>2. Routed(q)'
    BY <1>1, <2>1 DEF InPlace, Routed, Looks
  <2>3. q.exit = "service" => Clean(p.host)'
    BY <1>0, <2>2, RulesStanding DEF Routed, Clean, Looks
  <2>4. q.exit \in {"vps", "home", "service"}
    BY DEF Peer, Exits
  <2> QED
    BY <1>0, <2>1, <2>2, <2>3, <2>4 DEF Removing, UnrouteFrom
<1>2. CASE cmds = DeleteGuard(q, p, r) /\ q.exit = "home" /\ Routed(q)
  <2>1. "guard" \in RuleNames /\ chain[p.host] = <<"out", "return", "guard">> /\ p.host \in policy
    BY <1>0, <1>2, RulesStanding DEF RuleNames, Routed, Looks
  <2>2. Contains(chain[p.host], "guard")
    BY <2>1, RulesContained
  <2>3. cmds = <<Cmd("delete", q, "guard")>> \o DeleteReturn(q, p, r) /\ DeleteReturn(q, p, r) \in Seq(Commands)
    BY <1>2, RemovingTypes DEF DeleteGuard
  <2>4. /\ cmds' = DeleteReturn(q, p, r) /\ StillBusyFor(p) /\ cache' = cache
        /\ policy' = policy /\ chain'[p.host] = RemoveFirst(<<"out", "return", "guard">>, "guard")
    BY <1>0, <2>1, <2>2, <2>3, DeleteDone
  <2> QED
    BY <1>0, <1>2, <2>1, <2>4, RuleDeleted DEF Removing, Looks
<1>3. CASE cmds = DeleteReturn(q, p, r) /\ q.exit = "home" /\ Looks(p.host, <<"out", "return">>, TRUE)
  <2>1. "return" \in RuleNames /\ chain[p.host] = <<"out", "return">> /\ p.host \in policy
    BY <1>3 DEF RuleNames, Looks
  <2>2. Contains(chain[p.host], "return")
    BY <2>1, RulesContained
  <2>3. cmds = <<Cmd("delete", q, "return")>> \o DeleteOut(q, p, r) /\ DeleteOut(q, p, r) \in Seq(Commands)
    BY <1>3, RemovingTypes DEF DeleteReturn
  <2>4. /\ cmds' = DeleteOut(q, p, r) /\ StillBusyFor(p) /\ cache' = cache
        /\ policy' = policy /\ chain'[p.host] = RemoveFirst(<<"out", "return">>, "return")
    BY <1>0, <2>1, <2>2, <2>3, DeleteDone
  <2> QED
    BY <1>0, <1>3, <2>1, <2>4, RuleDeleted DEF Removing, Looks
<1>4. CASE cmds = DeleteOut(q, p, r) /\ q.exit = "home" /\ Looks(p.host, <<"out">>, TRUE)
  <2>1. "out" \in RuleNames /\ chain[p.host] = <<"out">> /\ p.host \in policy
    BY <1>4 DEF RuleNames, Looks
  <2>2. Contains(chain[p.host], "out")
    BY <2>1, RulesContained
  <2>3. cmds = <<Cmd("delete", q, "out")>> \o DelPolicy(q, p, r) /\ DelPolicy(q, p, r) \in Seq(Commands)
    BY <1>4, RemovingTypes DEF DeleteOut
  <2>4. /\ cmds' = DelPolicy(q, p, r) /\ StillBusyFor(p) /\ cache' = cache
        /\ policy' = policy /\ chain'[p.host] = RemoveFirst(<<"out">>, "out")
    BY <1>0, <2>1, <2>2, <2>3, DeleteDone
  <2> QED
    BY <1>0, <1>4, <2>1, <2>4, RuleDeleted DEF Removing, Looks
<1>5. CASE cmds = DelPolicy(q, p, r) /\ q.exit = "home" /\ Looks(p.host, <<>>, TRUE)
  <2>1. /\ cmds' = Forget(p, r) /\ StillBusyFor(p) /\ cache' = cache
        /\ p.host \notin policy' /\ chain' = chain
    BY <1>0, <1>5, PolicyDone, RemovingTypes DEF DelPolicy, Looks
  <2> QED
    BY <1>0, <1>5, <2>1 DEF Removing, Looks, Clean
<1>6. CASE cmds = DeleteAccept(q, p, r) /\ q.exit = "vps" /\ Routed(q)
  <2>1. "accept" \in RuleNames /\ chain[p.host] = <<"accept">> /\ p.host \notin policy
    BY <1>0, <1>6, RulesStanding DEF RuleNames, Routed, Looks
  <2>2. Contains(chain[p.host], "accept")
    BY <2>1, RulesContained
  <2>3. cmds = <<Cmd("delete", q, "accept")>> \o Forget(p, r) /\ Forget(p, r) \in Seq(Commands)
    BY <1>6, RemovingTypes DEF DeleteAccept
  <2>4. /\ cmds' = Forget(p, r) /\ StillBusyFor(p) /\ cache' = cache
        /\ policy' = policy /\ chain'[p.host] = RemoveFirst(<<"accept">>, "accept")
    BY <1>0, <2>1, <2>2, <2>3, DeleteDone
  <2> QED
    BY <1>0, <1>6, <2>1, <2>4, RuleDeleted DEF Removing, Looks, Clean
<1>7. CASE cmds = Forget(p, r) /\ Clean(p.host)
  <2>1. cmds' = r /\ StillBusyFor(p) /\ cache'[p.key] = None /\ UNCHANGED kernelVars
    BY <1>7, EntryDone DEF Forget
  <2> QED
    BY <1>7, <2>1 DEF Taken, Clean, Looks, kernelVars
<1> QED
  BY <1>1, <1>2, <1>3, <1>4, <1>5, <1>6, <1>7 DEF Removing

LEMMA WholeAgain ==
    ASSUME NEW p \in Peer, Apart(p)',
           (cache'[p.key] = None /\ Clean(p.host)') \/ (cache'[p.key] = p /\ InPlace(p)')
    PROVE  Whole'
<1>0. p # None /\ p.key \in Keys
  BY NoneAssumption DEF Peer
<1>1. ASSUME NEW k \in Keys, cache'[k] # None
      PROVE  cache'[k].key = k /\ InPlace(cache[k])'
  <2>1. CASE k # p.key
    BY <1>1, <2>1 DEF Apart
  <2>2. CASE k = p.key
    <3>1. cache'[k] = p /\ InPlace(p)'
      BY <1>1, <2>2
    <3> QED
      BY <2>2, <3>1 DEF InPlace, Connected, Routed, Looks
  <2> QED
    BY <2>1, <2>2
<1>2. ASSUME NEW h \in Hosts, ~Held(h)'
      PROVE  Clean(h)'
  <2>1. CASE h # p.host
    BY <1>2, <2>1 DEF Apart
  <2>2. CASE h = p.host
    BY <1>0, <1>2, <2>2 DEF Held
  <2> QED
    BY <2>1, <2>2
<1> QED
  BY <1>1, <1>2 DEF Whole

LEMMA CallBusy ==
    ASSUME NEW p \in Peer, KernelTypes, CallTypes, faults = 0, link = "ours",
           Setting(p) \/ Dropping(p)
    PROVE  BusyFor(p)
<1> QED
  BY DEF BusyFor, Setting, Dropping, Adding, Removing

\* SetPeer, step by step.
LEMMA SettingStep ==
    ASSUME NEW p \in Peer, KernelTypes, CallTypes, faults = 0, link = "ours",
           Setting(p), faults' = 0, BackendStep
    PROVE  StillBusyFor(p) /\ Come(p)' /\ cache'[p.key] \in {cache[p.key], None, p}
<1>1. BusyFor(p)
  BY CallBusy
<1>2. CASE Adding(p)
  <2>1. StillBusyFor(p) /\ (Adding(p)' \/ Added(p)')
    BY <1>1, <1>2, AddingStep
  <2>2. CASE Adding(p)'
    BY <2>1, <2>2 DEF StillBusyFor, Come, Setting, Adding
  <2>3. CASE Added(p)'
    <3>1. Whole'
      BY <2>1, <2>3, WholeAgain DEF StillBusyFor, Added
    <3> QED
      BY <2>1, <2>3, <3>1 DEF Come, Added, Resting, Returned
  <2> QED
    BY <2>1, <2>2, <2>3
<1>3. ASSUME NEW q \in Peer, Removing(q, p, AddFrom(p))
      PROVE  StillBusyFor(p) /\ Come(p)' /\ cache'[p.key] \in {cache[p.key], None, p}
  <2>1. StillBusyFor(p) /\ (Removing(q, p, AddFrom(p))' \/ Taken(p, AddFrom(p))')
    BY <1>1, <1>3, RemovingStep, AddingTypes
  <2>2. CASE Removing(q, p, AddFrom(p))'
    BY <1>3, <2>1, <2>2 DEF StillBusyFor, Come, Setting, Removing
  <2>3. CASE Taken(p, AddFrom(p))'
    <3>1. cmds' = AddFrom(p) /\ cache'[p.key] = None /\ Clean(p.host)'
      BY <2>3 DEF Taken
    <3>2. p.exit \in {"vps", "home", "service"}
      BY DEF Peer, Exits
    <3>3. p.exit = "service" => Routed(p)'
      BY <3>1, RulesStanding DEF Routed, Clean, Looks
    <3>4. Adding(p)'
      BY <3>1, <3>2, <3>3 DEF Adding, AddFrom, Clean
    <3> QED
      BY <2>1, <3>1, <3>4 DEF StillBusyFor, Come, Setting
  <2> QED
    BY <2>1, <2>2, <2>3
<1> QED
  BY <1>2, <1>3 DEF Setting

\* RemovePeer, step by step.
LEMMA DroppingStep ==
    ASSUME NEW p \in Peer, KernelTypes, CallTypes, faults = 0, link = "ours",
           Dropping(p), faults' = 0, BackendStep
    PROVE  StillBusyFor(p) /\ Gone(p)' /\ cache'[p.key] \in {cache[p.key], None}
<1>1. BusyFor(p)
  BY CallBusy
<1>2. CASE /\ cmds = <<Cmd("wg remove", p, None)>> \o <<>>
           /\ cache[p.key] = None /\ Clean(p.host)
  <2>1. /\ cmds' = <<>> /\ StillBusyFor(p) /\ cache' = cache
        /\ UNCHANGED <<chain, policy>>
    BY <1>1, <1>2, KeyDone, EmptySeq
  <2>2. cache'[p.key] = None /\ Clean(p.host)'
    BY <1>2, <2>1 DEF Clean, Looks
  <2>3. Whole'
    BY <2>1, <2>2, WholeAgain DEF StillBusyFor
  <2> QED
    BY <1>2, <2>1, <2>2, <2>3 DEF Gone, Resting, Returned
<1>3. ASSUME NEW q \in Peer, Removing(q, p, <<>>)
      PROVE  StillBusyFor(p) /\ Gone(p)' /\ cache'[p.key] \in {cache[p.key], None}
  <2>1. StillBusyFor(p) /\ (Removing(q, p, <<>>)' \/ Taken(p, <<>>)')
    BY <1>1, <1>3, RemovingStep, EmptySeq
  <2>2. CASE Removing(q, p, <<>>)'
    BY <1>3, <2>1, <2>2 DEF StillBusyFor, Gone, Dropping, Removing
  <2>3. CASE Taken(p, <<>>)'
    <3>1. cmds' = <<>> /\ cache'[p.key] = None /\ Clean(p.host)'
      BY <2>3 DEF Taken
    <3>2. Whole'
      BY <2>1, <3>1, WholeAgain DEF StillBusyFor
    <3> QED
      BY <2>1, <3>1, <3>2 DEF Gone, Resting, Returned
  <2> QED
    BY <2>1, <2>2, <2>3
<1> QED
  BY <1>2, <1>3 DEF Dropping

\* A peer that a call may begin for: what the map holds by its key is an earlier form of it, and
\* what it holds by other keys has other addresses.
Fits(p) ==
    \A k \in Keys : cache[k] # None =>
        IF k = p.key
        THEN cache[k].host = p.host /\ (cache[k].exit = "service" <=> p.exit = "service")
        ELSE cache[k].host # p.host /\ ~(cache[k].exit = "service" /\ p.exit = "service")

LEMMA MatchesFits ==
    ASSUME CallTypes, NEW ps \in [Devices -> Peer \cup {None}], Loadable(ps), Matches(ps),
           NEW d \in Listed(ps)
    PROVE  ps[d] \in Peer /\ Fits(ps[d])
<1>1. ps[d] \in Peer
  BY DEF Listed
<1>2. ASSUME NEW k \in Keys, cache[k] # None
      PROVE  IF k = ps[d].key
             THEN cache[k].host = ps[d].host /\ (cache[k].exit = "service" <=> ps[d].exit = "service")
             ELSE cache[k].host # ps[d].host
                  /\ ~(cache[k].exit = "service" /\ ps[d].exit = "service")
  <2>1. PICK e \in Listed(ps) :
            /\ ps[e].key = k /\ ps[e].host = cache[k].host
            /\ ps[e].exit = "service" <=> cache[k].exit = "service"
    BY <1>2 DEF Matches
  <2>2. e # d => /\ ps[e].host # ps[d].host /\ ps[e].key # ps[d].key
                 /\ ~(ps[e].exit = "service" /\ ps[d].exit = "service")
    BY DEF Loadable
  <2>3. CASE e = d
    BY <2>1, <2>3
  <2>4. CASE e # d
    BY <2>1, <2>2, <2>4
  <2> QED
    BY <2>3, <2>4
<1> QED
  BY <1>1, <1>2 DEF Fits

\* The records change for one device, of which the map holds nothing or what it held before.
LEMMA MatchesWith ==
    ASSUME NEW ps \in [Devices -> Peer \cup {None}], NEW d \in Devices, NEW q \in Peer \cup {None},
           Matches(ps),
           ps[d] # None => \/ cache[ps[d].key] = None
                           \/ /\ q # None /\ q.key = ps[d].key /\ q.host = ps[d].host
                              /\ q.exit = "service" <=> ps[d].exit = "service"
    PROVE  Matches([ps EXCEPT ![d] = q])
<1> DEFINE qs == [ps EXCEPT ![d] = q]
<1>1. qs[d] = q /\ \A x \in Devices \ {d} : qs[x] = ps[x]
  OBVIOUS
<1> HIDE DEF qs
<1>2. ASSUME NEW k \in Keys, cache[k] # None
      PROVE  \E x \in Listed(qs) :
                 /\ qs[x].key = k
                 /\ qs[x].host = cache[k].host
                 /\ qs[x].exit = "service" <=> cache[k].exit = "service"
  <2>1. PICK x \in Listed(ps) :
            /\ ps[x].key = k /\ ps[x].host = cache[k].host
            /\ ps[x].exit = "service" <=> cache[k].exit = "service"
    BY <1>2 DEF Matches
  <2>2. CASE x # d
    <3>1. x \in Listed(qs) /\ qs[x] = ps[x]
      BY <1>1, <2>2 DEF Listed
    <3> QED
      BY <2>1, <3>1
  <2>3. CASE x = d
    <3>1. /\ q # None /\ q.key = k /\ q.host = cache[k].host
          /\ q.exit = "service" <=> cache[k].exit = "service"
      BY <1>2, <2>1, <2>3 DEF Listed
    <3>2. d \in Listed(qs) /\ qs[d] = q
      BY <1>1, <3>1 DEF Listed
    <3> QED
      BY <3>1, <3>2
  <2> QED
    BY <2>2, <2>3
<1> QED
  BY <1>2 DEF Matches, qs

LEMMA ApartAtFirst ==
    ASSUME NEW p \in Peer, CallTypes, Whole, Fits(p), UNCHANGED <<kernelVars, cache>>
    PROVE  /\ Apart(p)'
           /\ cache[p.key] = None => Clean(p.host)'
           /\ cache[p.key] # None => InPlace(cache[p.key])'
<1>0. p.key \in Keys /\ p.host \in Hosts
  BY DEF Peer
<1>1. UNCHANGED <<chain, policy, owner, gateway, cache>>
  BY DEF kernelVars
<1>2. ASSUME NEW k \in Keys, cache[k] # None
      PROVE  cache[k].key = k /\ InPlace(cache[k])'
  BY <1>1, <1>2 DEF Whole, InPlace, Connected, Routed, Looks
<1>3. ASSUME NEW h \in Hosts, ~Held(h)
      PROVE  Clean(h)'
  BY <1>1, <1>3 DEF Whole, Clean, Looks
<1>4. \A h \in Hosts : Held(h)' <=> Held(h)
  BY <1>1 DEF Held
<1>5. cache[p.key] = None => ~Held(p.host)
  BY DEF Held, Fits
<1>6. ASSUME NEW k \in Keys \ {p.key}, cache'[k] # None
      PROVE  /\ cache'[k].key = k
             /\ InPlace(cache[k])'
             /\ cache'[k].host # p.host
             /\ ~(cache'[k].exit = "service" /\ p.exit = "service")
  BY <1>1, <1>2, <1>6 DEF Fits
<1>7. Apart(p)'
  BY <1>3, <1>4, <1>6 DEF Apart
<1> QED
  BY <1>0, <1>2, <1>3, <1>5, <1>7

LEMMA CallRemove ==
    ASSUME NEW p \in Peer, CallTypes, Resting, Fits(p),
           cmds' = RemoveProgram(p), UNCHANGED <<kernelVars, cache>>
    PROVE  Gone(p)'
<1>0. p.key \in Keys /\ cache' = cache /\ cache \in [Keys -> Peer \cup {None}]
  BY DEF Peer, CallTypes
<1>1. /\ Apart(p)'
      /\ cache[p.key] = None => Clean(p.host)'
      /\ cache[p.key] # None => InPlace(cache[p.key])'
  BY ApartAtFirst DEF Resting
<1>2. CASE cache[p.key] = None
  <2>1. cmds' = <<Cmd("wg remove", p, None)>> \o <<>>
    BY <1>0, <1>2, RemoveProgramIs
  <2> QED
    BY <1>0, <1>1, <1>2, <2>1 DEF Gone, Dropping
<1>3. CASE cache[p.key] # None
  <2>1. PICK q \in Peer : q = cache[p.key]
    BY <1>0, <1>3
  <2>2. cmds' = RemoveFrom(q, p, <<>>)
    BY <1>0, <1>3, <2>1, RemoveProgramIs
  <2>3. q.key = p.key /\ q.host = p.host
    BY <1>0, <1>3, <2>1 DEF Resting, Whole, Fits
  <2>4. InPlace(q)'
    BY <1>0, <1>1, <1>3, <2>1 DEF InPlace, Connected, Routed, Looks
  <2>5. Removing(q, p, <<>>)'
    BY <1>0, <2>1, <2>2, <2>3, <2>4 DEF Removing
  <2> QED
    BY <1>1, <2>5 DEF Gone, Dropping
<1> QED
  BY <1>2, <1>3

LEMMA CallSet ==
    ASSUME NEW p \in Peer, CallTypes, Resting, Fits(p),
           cmds' = SetProgram(p), UNCHANGED <<kernelVars, cache>>
    PROVE  Come(p)'
<1>0. p.key \in Keys /\ cache' = cache /\ cache \in [Keys -> Peer \cup {None}]
  BY DEF Peer, CallTypes
<1>1. /\ Apart(p)'
      /\ cache[p.key] = None => Clean(p.host)'
      /\ cache[p.key] # None => InPlace(cache[p.key])'
  BY ApartAtFirst DEF Resting
<1>2. CASE cache[p.key] = p
  <2>1. cmds' = <<>>
    BY <1>0, <1>2, SetProgramIs
  <2>2. InPlace(p)'
    BY <1>0, <1>1, <1>2, NoneAssumption DEF InPlace, Connected, Routed, Looks
  <2>3. Whole'
    BY <1>0, <1>1, <1>2, <2>2, WholeAgain
  <2> QED
    BY <1>0, <1>2, <2>1, <2>3 DEF Come, Resting, Returned
<1>3. CASE cache[p.key] = None
  <2>1. cmds' = AddFrom(p)
    BY <1>0, <1>3, SetProgramIs, NoneAssumption
  <2>2. p.exit \in {"vps", "home", "service"} /\ Clean(p.host)'
    BY <1>1, <1>3 DEF Peer, Exits
  <2>3. p.exit = "service" => Routed(p)'
    BY <2>2, RulesStanding DEF Routed, Clean, Looks
  <2>4. Adding(p)'
    BY <1>0, <1>3, <2>1, <2>2, <2>3 DEF Adding, AddFrom, Clean
  <2> QED
    BY <1>1, <2>4 DEF Come, Setting
<1>4. CASE cache[p.key] # None /\ cache[p.key] # p
  <2>1. PICK q \in Peer : q = cache[p.key]
    BY <1>0, <1>4
  <2>2. cmds' = RemoveFrom(q, p, AddFrom(p))
    BY <1>0, <1>4, <2>1, SetProgramIs
  <2>3. q.key = p.key /\ q.host = p.host
    BY <1>0, <1>4, <2>1 DEF Resting, Whole, Fits
  <2>4. InPlace(q)'
    BY <1>0, <1>1, <1>4, <2>1 DEF InPlace, Connected, Routed, Looks
  <2>5. Removing(q, p, AddFrom(p))'
    BY <1>0, <2>1, <2>2, <2>3, <2>4 DEF Removing
  <2> QED
    BY <1>1, <2>5 DEF Come, Setting
<1> QED
  BY <1>2, <1>3, <1>4

\* A call that is under way has a command left.
LEMMA CallNotReturned ==
    ASSUME NEW p \in Peer, Setting(p) \/ Dropping(p)
    PROVE  ~Returned
<1>1. \A c \in Commands, r \in Seq(Commands) : <<c>> \o r # <<>>
  BY NextCommand
<1>2. \A do \in PeerCommands, q \in Peer :
          /\ do \notin {"insert", "delete"} => Cmd(do, q, None) \in Commands
          /\ \A x \in RuleNames : Cmd(do, q, x) \in Commands
  BY CommandTypes
<1>3. CASE Adding(p)
  <2>1. /\ AddPolicy(p) # <<>> /\ InsertGuard(p) # <<>> /\ InsertReturn(p) # <<>>
        /\ InsertOut(p) # <<>> /\ InsertAccept(p) # <<>> /\ SetKey(p) # <<>> /\ Remember(p) # <<>>
    BY <1>1, <1>2, AddingTypes, EmptySeq DEF PeerCommands, RuleNames, AddPolicy, InsertGuard,
       InsertReturn, InsertOut, InsertAccept, SetKey, Remember
  <2> QED
    BY <1>3, <2>1 DEF Adding, Returned
<1>4. ASSUME NEW q \in Peer, NEW r \in Seq(Commands), Removing(q, p, r)
      PROVE  ~Returned
  <2>1. /\ RemoveFrom(q, p, r) # <<>> /\ DeleteGuard(q, p, r) # <<>> /\ DeleteReturn(q, p, r) # <<>>
        /\ DeleteOut(q, p, r) # <<>> /\ DelPolicy(q, p, r) # <<>> /\ DeleteAccept(q, p, r) # <<>>
        /\ Forget(p, r) # <<>>
    BY <1>1, <1>2, RemovingTypes DEF PeerCommands, RuleNames, RemoveFrom, DeleteGuard,
       DeleteReturn, DeleteOut, DelPolicy, DeleteAccept, Forget
  <2> QED
    BY <1>4, <2>1 DEF Removing, Returned
<1>5. AddFrom(p) \in Seq(Commands) /\ <<>> \in Seq(Commands)
  BY AddingTypes, EmptySeq
<1>6. <<Cmd("wg remove", p, None)>> \o <<>> # <<>>
  BY <1>1, <1>2, EmptySeq DEF PeerCommands
<1> QED
  BY <1>3, <1>4, <1>5, <1>6 DEF Setting, Dropping, Returned

LEMMA CallReturned ==
    ASSUME NEW p \in Peer, Returned
    PROVE  /\ Come(p) => Resting /\ cache[p.key] = p
           /\ Gone(p) => Resting /\ cache[p.key] = None
<1> QED
  BY CallNotReturned DEF Come, Gone

LEMMA RestingKept ==
    ASSUME Resting, UNCHANGED <<kernelVars, cache, cmds>>
    PROVE  Resting'
<1>1. UNCHANGED <<link, chain, policy, owner, gateway, cache, cmds>>
  BY DEF kernelVars
<1>2. Returned'
  BY <1>1 DEF Resting, Returned
<1>3. \A h \in Hosts : (Held(h)' <=> Held(h)) /\ (Clean(h)' <=> Clean(h))
  BY <1>1 DEF Held, Clean, Looks
<1>4. ASSUME NEW k \in Keys, cache'[k] # None
      PROVE  cache'[k].key = k /\ InPlace(cache[k])'
  BY <1>1, <1>4 DEF Resting, Whole, InPlace, Connected, Routed, Looks
<1>5. Whole'
  BY <1>3, <1>4 DEF Resting, Whole
<1> QED
  BY <1>2, <1>5 DEF Resting

\* Down and Up, command by command.
LEMMA NoFault ==
    ASSUME faults = 0, faults' = 0
    PROVE  ~CountFault
<1> QED
  BY DEF CountFault

LEMMA SixCommands ==
    ASSUME NEW a \in Commands, NEW b \in Commands, NEW c \in Commands,
           NEW d \in Commands, NEW e \in Commands, NEW f \in Commands
    PROVE  /\ Head(<<a, b, c, d, e, f>>) = a /\ Tail(<<a, b, c, d, e, f>>) = <<b, c, d, e, f>>
           /\ Head(<<b, c, d, e, f>>) = b /\ Tail(<<b, c, d, e, f>>) = <<c, d, e, f>>
           /\ Head(<<c, d, e, f>>) = c /\ Tail(<<c, d, e, f>>) = <<d, e, f>>
           /\ Head(<<d, e, f>>) = d /\ Tail(<<d, e, f>>) = <<e, f>>
           /\ Head(<<e, f>>) = e /\ Tail(<<e, f>>) = <<f>>
           /\ Head(<<f>>) = f /\ Tail(<<f>>) = <<>>
           /\ <<b, c, d, e, f>> \in Seq(Commands) /\ <<c, d, e, f>> \in Seq(Commands)
           /\ <<d, e, f>> \in Seq(Commands) /\ <<e, f>> \in Seq(Commands)
           /\ <<f>> \in Seq(Commands) /\ <<>> \in Seq(Commands)
<1>1. Head(<<a, b, c, d, e, f>>) = a /\ Tail(<<a, b, c, d, e, f>>) = <<b, c, d, e, f>>
  OBVIOUS
<1>2. Head(<<b, c, d, e, f>>) = b /\ Tail(<<b, c, d, e, f>>) = <<c, d, e, f>>
  OBVIOUS
<1>3. Head(<<c, d, e, f>>) = c /\ Tail(<<c, d, e, f>>) = <<d, e, f>>
  OBVIOUS
<1>4. Head(<<d, e, f>>) = d /\ Tail(<<d, e, f>>) = <<e, f>>
  OBVIOUS
<1>5. Head(<<e, f>>) = e /\ Tail(<<e, f>>) = <<f>> /\ Head(<<f>>) = f /\ Tail(<<f>>) = <<>>
  OBVIOUS
<1>6. /\ <<b, c, d, e, f>> \in Seq(Commands) /\ <<c, d, e, f>> \in Seq(Commands)
      /\ <<d, e, f>> \in Seq(Commands) /\ <<e, f>> \in Seq(Commands)
      /\ <<f>> \in Seq(Commands) /\ <<>> \in Seq(Commands)
  OBVIOUS
<1> QED
  BY <1>1, <1>2, <1>3, <1>4, <1>5, <1>6

LEMMA InterfaceCommandRuns ==
    ASSUME faults = 0, faults' = 0, BackendStep, NEW do \in InterfaceCommands,
           NEW r \in Seq(Commands), cmds # <<>>, Head(cmds) = ForInterface(do), Tail(cmds) = r,
           do = "link add" => link = "none", do = "link delete" => link # "bare"
    PROVE  cmds' = r /\ failed' = failed /\ Change(ForInterface(do)) /\ cache' = cache
<1>1. ~CountFault
  BY NoFault
<1>2. Possible(ForInterface(do)) /\ ~Bookkeeping(ForInterface(do))
  BY DEF Possible, Bookkeeping, ForInterface, Cmd, InterfaceCommands
<1>3. RunCommand
  BY <1>1, <1>2 DEF BackendStep, RunBookkeeping, CommandRefused, CommandFails, QueryFails
<1> QED
  BY <1>3 DEF RunCommand

LEMMA InterfaceSequences ==
    /\ UpProgram = <<ForInterface("link delete"), ForInterface("clean rules"),
                     ForInterface("clean policies"), ForInterface("link add"),
                     ForInterface("link alias"), ForInterface("configure")>>
    /\ \A do \in InterfaceCommands : ForInterface(do) \in Commands
<1>1. \A do \in InterfaceCommands : ForInterface(do) \in Commands
  BY CommandTypes
<1> DEFINE a == ForInterface("link delete")
           b == ForInterface("clean rules")
           c == ForInterface("clean policies")
           d == ForInterface("link add")
           e == ForInterface("link alias")
           f == ForInterface("configure")
           u == <<a, b, c>> \o <<d, e, f>>
<1>2. /\ a \in Commands /\ b \in Commands /\ c \in Commands
      /\ d \in Commands /\ e \in Commands /\ f \in Commands
  BY <1>1 DEF InterfaceCommands
<1>3. UpProgram = u
  BY DEF UpProgram, DownProgram
<1> HIDE DEF a, b, c, d, e, f
<1>4. <<a, b, c>> \in Seq(Commands) /\ <<d, e, f>> \in Seq(Commands)
      /\ <<a, b, c, d, e, f>> \in Seq(Commands)
  BY <1>2
<1>5. /\ u \in Seq(Commands) /\ Len(u) = 6
      /\ u[1] = a /\ u[2] = b /\ u[3] = c /\ u[4] = d /\ u[5] = e /\ u[6] = f
  BY <1>4, ConcatProperties
<1> HIDE DEF u
<1>6. u = <<a, b, c, d, e, f>>
  BY <1>4, <1>5, SeqEqual
<1> QED
  BY <1>1, <1>3, <1>6 DEF a, b, c, d, e, f

LEMMA DownStep ==
    ASSUME faults = 0, faults' = 0, BackendStep, Downing
    PROVE  Downing' /\ failed' = failed
<1>1. cmds # <<>>
  BY DEF BackendStep, RunBookkeeping, RunCommand, CommandRefused, CommandFails, QueryFails, Returned
<1> DEFINE a == ForInterface("link delete")
           b == ForInterface("clean rules")
           c == ForInterface("clean policies")
<1>2. a \in Commands /\ b \in Commands /\ c \in Commands
  BY InterfaceSequences DEF InterfaceCommands
<1>3. a.do = "link delete" /\ b.do = "clean rules" /\ c.do = "clean policies"
  BY DEF ForInterface, Cmd
<1> HIDE DEF a, b, c
<1>4. /\ Head(<<a, b, c>>) = a /\ Tail(<<a, b, c>>) = <<b, c>> /\ <<b, c>> \in Seq(Commands)
      /\ Head(<<b, c>>) = b /\ Tail(<<b, c>>) = <<c>> /\ <<c>> \in Seq(Commands)
      /\ Head(<<c>>) = c /\ Tail(<<c>>) = <<>> /\ <<>> \in Seq(Commands)
  BY <1>2, SixCommands
<1>5. CASE cmds = DownProgram /\ link # "bare"
  <2>1. <<b, c>> \in Seq(Commands) /\ Head(cmds) = a /\ Tail(cmds) = <<b, c>>
    BY <1>4, <1>5 DEF DownProgram, a, b, c
  <2>2. cmds' = <<b, c>> /\ Change(a) /\ failed' = failed
    BY <1>1, <1>5, <2>1, InterfaceCommandRuns DEF InterfaceCommands, a, b, c
  <2>3. link' = "none"
    BY <1>3, <2>2 DEF Change, SetLink
  <2> QED
    BY <2>2, <2>3 DEF Downing, a, b, c
<1>6. CASE cmds = <<b, c>> /\ link = "none"
  <2>1. <<c>> \in Seq(Commands) /\ Head(cmds) = b /\ Tail(cmds) = <<c>>
    BY <1>4, <1>6
  <2>2. cmds' = <<c>> /\ Change(b) /\ failed' = failed
    BY <1>1, <2>1, InterfaceCommandRuns DEF InterfaceCommands, a, b, c
  <2>3. link' = "none"
    BY <1>3, <1>6, <2>2 DEF Change, SetBase
  <2> QED
    BY <2>2, <2>3 DEF Downing, a, b, c
<1>7. CASE cmds = <<c>> /\ link = "none"
  <2>1. <<>> \in Seq(Commands) /\ Head(cmds) = c /\ Tail(cmds) = <<>>
    BY <1>4, <1>7
  <2>2. cmds' = <<>> /\ Change(c) /\ failed' = failed
    BY <1>1, <2>1, InterfaceCommandRuns DEF InterfaceCommands, a, b, c
  <2>3. link' = "none"
    BY <1>3, <1>7, <2>2 DEF Change, SetPolicy
  <2> QED
    BY <2>2, <2>3 DEF Downing, a, b, c
<1> QED
  BY <1>1, <1>5, <1>6, <1>7 DEF Downing, a, b, c

LEMMA UpStep ==
    ASSUME faults = 0, faults' = 0, BackendStep, Upping
    PROVE  Upping' /\ failed' = failed /\ cache' = cache
<1>1. cmds # <<>>
  BY DEF BackendStep, RunBookkeeping, RunCommand, CommandRefused, CommandFails, QueryFails, Returned
<1> DEFINE a == ForInterface("link delete")
           b == ForInterface("clean rules")
           c == ForInterface("clean policies")
           d == ForInterface("link add")
           e == ForInterface("link alias")
           f == ForInterface("configure")
<1>2. /\ a \in Commands /\ b \in Commands /\ c \in Commands
      /\ d \in Commands /\ e \in Commands /\ f \in Commands
  BY InterfaceSequences DEF InterfaceCommands
<1>3. /\ a.do = "link delete" /\ b.do = "clean rules" /\ c.do = "clean policies"
      /\ d.do = "link add" /\ e.do = "link alias" /\ f.do = "configure"
  BY DEF ForInterface, Cmd
<1>4. UpProgram = <<a, b, c, d, e, f>>
  BY InterfaceSequences
<1> HIDE DEF a, b, c, d, e, f
<1>5. /\ Head(<<a, b, c, d, e, f>>) = a /\ Tail(<<a, b, c, d, e, f>>) = <<b, c, d, e, f>>
      /\ Head(<<b, c, d, e, f>>) = b /\ Tail(<<b, c, d, e, f>>) = <<c, d, e, f>>
      /\ Head(<<c, d, e, f>>) = c /\ Tail(<<c, d, e, f>>) = <<d, e, f>>
      /\ Head(<<d, e, f>>) = d /\ Tail(<<d, e, f>>) = <<e, f>>
      /\ Head(<<e, f>>) = e /\ Tail(<<e, f>>) = <<f>>
      /\ Head(<<f>>) = f /\ Tail(<<f>>) = <<>>
      /\ <<b, c, d, e, f>> \in Seq(Commands) /\ <<c, d, e, f>> \in Seq(Commands)
      /\ <<d, e, f>> \in Seq(Commands) /\ <<e, f>> \in Seq(Commands)
      /\ <<f>> \in Seq(Commands) /\ <<>> \in Seq(Commands)
  BY <1>2, SixCommands
<1>6. CASE cmds = UpProgram /\ link # "bare"
  <2>1. <<b, c, d, e, f>> \in Seq(Commands) /\ Head(cmds) = a /\ Tail(cmds) = <<b, c, d, e, f>>
    BY <1>6, <1>4, <1>5
  <2>2. cmds' = <<b, c, d, e, f>> /\ Change(a) /\ failed' = failed /\ cache' = cache
    BY <1>1, <1>6, <2>1, InterfaceCommandRuns DEF InterfaceCommands, a, b, c, d, e, f
  <2>3. link' = "none"
    BY <1>3, <2>2 DEF Change, SetLink
  <2> QED
    BY <2>2, <2>3 DEF Upping, a, b, c, d, e, f
<1>7. CASE cmds = <<b, c, d, e, f>> /\ link = "none"
  <2>1. <<c, d, e, f>> \in Seq(Commands) /\ Head(cmds) = b /\ Tail(cmds) = <<c, d, e, f>>
    BY <1>7, <1>5
  <2>2. cmds' = <<c, d, e, f>> /\ Change(b) /\ failed' = failed /\ cache' = cache
    BY <1>1, <2>1, InterfaceCommandRuns DEF InterfaceCommands, a, b, c, d, e, f
  <2>3. link' = "none" /\ NoRules'
    BY <1>7, <1>3, <2>2 DEF Change, SetBase, NoRules
  <2> QED
    BY <2>2, <2>3 DEF Upping, a, b, c, d, e, f
<1>8. CASE cmds = <<c, d, e, f>> /\ link = "none" /\ NoRules
  <2>1. <<d, e, f>> \in Seq(Commands) /\ Head(cmds) = c /\ Tail(cmds) = <<d, e, f>>
    BY <1>8, <1>5
  <2>2. cmds' = <<d, e, f>> /\ Change(c) /\ failed' = failed /\ cache' = cache
    BY <1>1, <2>1, InterfaceCommandRuns DEF InterfaceCommands, a, b, c, d, e, f
  <2>3. link' = "none" /\ NoRules' /\ policy' = {}
    BY <1>8, <1>3, <2>2 DEF Change, SetPolicy, NoRules
  <2> QED
    BY <2>2, <2>3 DEF Upping, a, b, c, d, e, f
<1>9. CASE NoRules /\ policy = {} /\ cmds = <<d, e, f>> /\ link = "none"
  <2>1. <<e, f>> \in Seq(Commands) /\ Head(cmds) = d /\ Tail(cmds) = <<e, f>>
    BY <1>9, <1>5
  <2>2. cmds' = <<e, f>> /\ Change(d) /\ failed' = failed /\ cache' = cache
    BY <1>1, <1>9, <2>1, InterfaceCommandRuns DEF InterfaceCommands, a, b, c, d, e, f
  <2>3. link' = "bare" /\ NoRules' /\ policy' = {}
    BY <1>9, <1>3, <2>2 DEF Change, SetLink, NoRules
  <2> QED
    BY <2>2, <2>3 DEF Upping, a, b, c, d, e, f
<1>10. CASE NoRules /\ policy = {} /\ cmds = <<e, f>> /\ link = "bare"
  <2>1. <<f>> \in Seq(Commands) /\ Head(cmds) = e /\ Tail(cmds) = <<f>>
    BY <1>10, <1>5
  <2>2. cmds' = <<f>> /\ Change(e) /\ failed' = failed /\ cache' = cache
    BY <1>1, <2>1, InterfaceCommandRuns DEF InterfaceCommands, a, b, c, d, e, f
  <2>3. link' = "ours" /\ NoRules' /\ policy' = {}
    BY <1>10, <1>3, <2>2 DEF Change, SetLink, NoRules
  <2> QED
    BY <2>2, <2>3 DEF Upping, a, b, c, d, e, f
<1>11. CASE NoRules /\ policy = {} /\ cmds = <<f>> /\ link = "ours"
  <2>1. <<>> \in Seq(Commands) /\ Head(cmds) = f /\ Tail(cmds) = <<>>
    BY <1>11, <1>5
  <2>2. cmds' = <<>> /\ Change(f) /\ failed' = failed /\ cache' = cache
    BY <1>1, <2>1, InterfaceCommandRuns DEF InterfaceCommands, a, b, c, d, e, f
  <2>3. link' = "ours" /\ NoRules' /\ policy' = {}
    BY <1>11, <1>3, <2>2 DEF Change, SetBase, NoRules
  <2> QED
    BY <2>2, <2>3 DEF Upping, a, b, c, d, e, f
<1> QED
  BY <1>1, <1>6, <1>7, <1>8, <1>9, <1>10, <1>11 DEF Upping, a, b, c, d, e, f

-----------------------------------------------------------------------------
(***************************************************************************)
(* The second invariant, action by action.                                 *)
(***************************************************************************)
Fine == IInv /\ faults = 0 /\ faults' = 0 /\ Sure

\* Between two calls the backend rests.
LEMMA AtRest ==
    ASSUME ~failed', Resting', InUse', link' = "ours", Matches(peers)', InForce',
           stored' = peers' \/ (task'.at = "drop" /\ task'.dirty),
           task'.at \in {"done", "read", "check", "drop", "set"},
           task'.at \in {"drop", "set"} => task'.now = None,
           task'.at = "read" => ~task'.dirty
    PROVE  Sure'
<1>1. Calls'
  BY DEF Calls
<1>2. ~(~serving' /\ task' = Idle)
  BY DEF InUse, Idle
<1> QED
  BY <1>1, <1>2 DEF Sure

LEMMA NothingMoves ==
    ASSUME Fine, InUse, UNCHANGED <<kernelVars, cache, cmds, failed, peers>>
    PROVE  ~failed' /\ link' = "ours" /\ Matches(peers)' /\ (Resting => Resting')
<1>1. ~failed' /\ link' = "ours"
  BY DEF Fine, Sure, kernelVars
<1>2. Matches(peers)'
  BY DEF Fine, Sure, Matches, Listed
<1> QED
  BY <1>1, <1>2, RestingKept

\* What is known of a task that holds the lock.
LEMMA TaskKnown ==
    ASSUME Fine
    PROVE  /\ task \in Task
           /\ task.op \in {"register", "query", "tick", "remove"} => serving /\ InUse
           /\ task.op = "start" /\ task.at # "up" => InUse
           /\ task.at \in {"read", "drop", "check", "replace", "apply", "remove", "set"} => InUse
           /\ serving => InUse
<1>1. task \in Task /\ Places
  BY DEF Fine, IInv, ManagerTypes
<1>2. task.at \in {"read", "drop", "check", "replace", "apply", "remove", "set"} =>
          task.op \in {"register", "query", "tick", "remove", "start"} /\ task.at # "up"
  BY <1>1 DEF Places, Task, Idle
<1>3. task.op \in {"register", "query", "tick", "remove"} => serving
  BY <1>1 DEF Places
<1>4. serving => InUse
  BY DEF InUse
<1>5. task.op = "start" /\ task.at # "up" => InUse
  BY DEF InUse
<1>6. task.at \in {"read", "drop", "check", "replace", "apply", "remove", "set"} => InUse
  BY ONLY <1>2, <1>3, <1>4, <1>5
<1> QED
  BY ONLY <1>1, <1>3, <1>4, <1>5, <1>6

LEMMA BeginsSure ==
    ASSUME Fine, \/ \E d \in Devices, k \in Keys, e \in Exits : BeginRegister(d, k, e)
                 \/ BeginQuery \/ BeginTick
    PROVE  Sure'
<1>1. /\ serving /\ task = Idle /\ serving' = serving
      /\ UNCHANGED <<kernelVars, cache, cmds, failed, peers, stored>>
      /\ task'.at = "read" /\ ~task'.dirty /\ task'.op # "start"
  BY DEF BeginRegister, BeginQuery, BeginTick, KeepBackend, Idle
<1>2. InUse /\ InUse' /\ Resting /\ stored = peers /\ InForce
  BY <1>1 DEF InUse, Fine, Sure, Calls, Idle
<1>3. ~failed' /\ link' = "ours" /\ Matches(peers)' /\ Resting'
  BY <1>1, <1>2, NothingMoves
<1>4. Pending = {} /\ Pending' = {}
  BY <1>1 DEF Pending, Idle
<1>5. InForce'
  BY <1>1, <1>2, <1>4 DEF InForce, Listed
<1> QED
  BY <1>1, <1>2, <1>3, <1>5, AtRest

LEMMA ReadRecordsSure ==
    ASSUME Fine, ReadRecords
    PROVE  Sure'
<1>1. /\ task.at = "read" /\ serving' = serving /\ task \in Task
      /\ UNCHANGED <<kernelVars, cache, cmds, failed, peers, stored>>
      /\ task'.at = "drop" /\ task'.op = task.op /\ task'.now = task.now
      /\ task'.dirty = task.dirty
  BY TaskKnown DEF ReadRecords, KeepBackend, Task
<1>2. InUse /\ InUse' /\ Resting /\ stored = peers /\ InForce /\ task.now = None
  BY <1>1, TaskKnown DEF InUse, Fine, Sure, Calls, IInv, Looping
<1>3. ~failed' /\ link' = "ours" /\ Matches(peers)' /\ Resting'
  BY <1>1, <1>2, NothingMoves
<1>4. Pending \subseteq Pending'
  BY <1>1 DEF Pending
<1>5. InForce'
  BY <1>1, <1>2, <1>4 DEF InForce, Listed
<1> QED
  BY <1>1, <1>2, <1>3, <1>5, AtRest

\* The removal of the peer of one device, at the drop step of reconcile or in Remove.
LEMMA CallsRemove ==
    ASSUME Fine, InUse, Resting, NEW d \in Listed(peers), CallOnly(RemoveProgram(peers[d])),
           UNCHANGED peers
    PROVE  /\ ~failed' /\ link' = "ours" /\ Matches(peers)' /\ peers[d] \in Peer
           /\ \A p \in Peer : p = peers[d] => Gone(p)'
<1>1. /\ cmds' = RemoveProgram(peers[d]) /\ failed' = FALSE
      /\ UNCHANGED <<kernelVars, cache, faults>>
  BY DEF CallOnly, Call
<1>2. CallTypes /\ peers \in [Devices -> Peer \cup {None}] /\ Loadable(peers) /\ Matches(peers)
  BY DEF Fine, IInv, ManagerTypes, Sure
<1>3. peers[d] \in Peer /\ Fits(peers[d])
  BY <1>2, MatchesFits
<1>4. ASSUME NEW p \in Peer, p = peers[d]
      PROVE  Gone(p)'
  BY <1>1, <1>2, <1>3, <1>4, CallRemove
<1>5. Matches(peers)'
  BY <1>1, <1>2 DEF Matches, Listed
<1>6. link' = "ours"
  BY <1>1 DEF Fine, Sure, kernelVars
<1> QED
  BY <1>1, <1>3, <1>4, <1>5, <1>6

LEMMA CallsSet ==
    ASSUME Fine, InUse, Resting, NEW d \in Listed(peers), CallOnly(SetProgram(peers[d])),
           UNCHANGED peers
    PROVE  /\ ~failed' /\ link' = "ours" /\ Matches(peers)' /\ peers[d] \in Peer
           /\ \A p \in Peer : p = peers[d] => Come(p)'
<1>1. /\ cmds' = SetProgram(peers[d]) /\ failed' = FALSE
      /\ UNCHANGED <<kernelVars, cache, faults>>
  BY DEF CallOnly, Call
<1>2. CallTypes /\ peers \in [Devices -> Peer \cup {None}] /\ Loadable(peers) /\ Matches(peers)
  BY DEF Fine, IInv, ManagerTypes, Sure
<1>3. peers[d] \in Peer /\ Fits(peers[d])
  BY <1>2, MatchesFits
<1>4. ASSUME NEW p \in Peer, p = peers[d]
      PROVE  Come(p)'
  BY <1>1, <1>2, <1>3, <1>4, CallSet
<1>5. Matches(peers)'
  BY <1>1, <1>2 DEF Matches, Listed
<1>6. link' = "ours"
  BY <1>1 DEF Fine, Sure, kernelVars
<1> QED
  BY <1>1, <1>3, <1>4, <1>5, <1>6

LEMMA RemoveNextSure ==
    ASSUME Fine, NEW d \in Devices, RemoveNext(d)
    PROVE  Sure'
<1>1. /\ task.at = "drop" /\ task.now = None /\ d \in task.left /\ task \in Task
      /\ task' = [task EXCEPT !.now = d] /\ CallOnly(RemoveProgram(peers[d]))
      /\ UNCHANGED <<peers, stored, serving>>
  BY TaskKnown DEF RemoveNext, Fine, Sure
<1>2. /\ task'.at = "drop" /\ task'.now = d /\ task'.op = task.op /\ task'.dirty = task.dirty
  BY <1>1 DEF Task
<1>3. InUse /\ InUse' /\ Resting /\ InForce /\ d \in Listed(peers)
  BY <1>1, <1>2, TaskKnown DEF InUse, Fine, Sure, Calls, IInv, Looping
<1>4. /\ ~failed' /\ link' = "ours" /\ Matches(peers)'
      /\ \A p \in Peer : p = peers[d] => Gone(p)'
  BY <1>1, <1>3, CallsRemove
<1>5. InForce'
  <2>1. Listed(peers') \ Pending' \subseteq Listed(peers) \ Pending
    BY <1>1, <1>2, NoneAssumption, ManagerAssumption DEF Pending, Listed
  <2>2. cache' = cache
    BY <1>1 DEF CallOnly
  <2> QED
    BY <1>1, <1>3, <2>1, <2>2 DEF InForce
<1>6. Calls'
  BY <1>1, <1>2, <1>4, ManagerAssumption DEF Calls
<1>7. stored' = peers' \/ task'.dirty
  BY <1>1, <1>2, <1>3 DEF Fine, Sure
<1>8. ~(~serving' /\ task' = Idle)
  BY <1>2 DEF Idle
<1> QED
  BY <1>2, <1>4, <1>5, <1>6, <1>7, <1>8 DEF Sure

LEMMA SetNextSure ==
    ASSUME Fine, NEW d \in Devices, SetNext(d)
    PROVE  Sure'
<1>1. /\ task.at = "set" /\ task.now = None /\ d \in task.left /\ task \in Task
      /\ task' = [task EXCEPT !.now = d] /\ CallOnly(SetProgram(peers[d]))
      /\ UNCHANGED <<peers, stored, serving>> /\ task.op = "start"
  BY TaskKnown DEF SetNext, At
<1>2. /\ task'.at = "set" /\ task'.now = d /\ task'.op = task.op /\ task'.left = task.left
  BY <1>1 DEF Task
<1>3. InUse /\ InUse' /\ Resting /\ InForce /\ d \in Listed(peers)
  BY <1>1, <1>2, TaskKnown DEF InUse, Fine, Sure, Calls, IInv, Looping
<1>4. /\ ~failed' /\ link' = "ours" /\ Matches(peers)'
      /\ \A p \in Peer : p = peers[d] => Come(p)'
  BY <1>1, <1>3, CallsSet
<1>5. InForce'
  <2>1. Listed(peers') \ Pending' \subseteq Listed(peers) \ Pending
    BY <1>1, <1>2 DEF Pending, Listed
  <2>2. cache' = cache
    BY <1>1 DEF CallOnly
  <2> QED
    BY <1>1, <1>3, <2>1, <2>2 DEF InForce
<1>6. Calls'
  BY <1>1, <1>2, <1>4, ManagerAssumption DEF Calls
<1>7. stored' = peers'
  BY <1>1, <1>2, <1>3 DEF Fine, Sure
<1>8. ~(~serving' /\ task' = Idle)
  BY <1>2 DEF Idle
<1> QED
  BY <1>2, <1>4, <1>5, <1>6, <1>7, <1>8 DEF Sure

LEMMA BeginRemoveSure ==
    ASSUME Fine, NEW d \in Devices, BeginRemove(d)
    PROVE  Sure'
<1>1. /\ serving /\ task = Idle /\ peers[d] # None
      /\ task' = [Idle EXCEPT !.op = "remove", !.at = "remove", !.id = d]
      /\ CallOnly(RemoveProgram(peers[d]))
      /\ UNCHANGED <<peers, stored, serving>>
  BY DEF BeginRemove
<1>2. /\ task'.at = "remove" /\ task'.id = d /\ task'.op = "remove"
  BY <1>1 DEF Idle
<1>3. InUse /\ InUse' /\ Resting /\ InForce /\ d \in Listed(peers) /\ stored = peers
  BY <1>1, <1>2 DEF InUse, Fine, Sure, Calls, Listed, Idle
<1>4. /\ ~failed' /\ link' = "ours" /\ Matches(peers)'
      /\ \A p \in Peer : p = peers[d] => Gone(p)'
  BY <1>1, <1>3, CallsRemove
<1>5. InForce'
  <2>1. Listed(peers') \ Pending' \subseteq Listed(peers) \ Pending
    BY <1>1, <1>2 DEF Pending, Listed, Idle
  <2>2. cache' = cache
    BY <1>1 DEF CallOnly
  <2> QED
    BY <1>1, <1>3, <2>1, <2>2 DEF InForce
<1>6. Calls'
  BY <1>1, <1>2, <1>4 DEF Calls
<1>7. ~(~serving' /\ task' = Idle)
  BY <1>2 DEF Idle
<1> QED
  BY <1>1, <1>2, <1>3, <1>4, <1>5, <1>6, <1>7 DEF Sure

LEMMA DroppedSure ==
    ASSUME Fine, Dropped
    PROVE  Sure'
<1>1. /\ task.at = "drop" /\ task.left = {} /\ task \in Task /\ Reconciled
      /\ UNCHANGED <<kernelVars, cache, cmds, failed, peers, serving>>
      /\ IF task.dirty THEN stored' = peers ELSE stored' = stored
  BY TaskKnown DEF Dropped, Saved
<1>2. InUse /\ InForce /\ task.now = None /\ stored' = peers'
  BY <1>1, TaskKnown DEF Fine, Sure, IInv, Looping
<1>3. Resting
  BY <1>1, <1>2 DEF Fine, Sure, Calls
<1>4. ~failed' /\ link' = "ours" /\ Matches(peers)' /\ Resting'
  BY <1>1, <1>2, <1>3, NothingMoves
<1>5. \/ task.op = "register" /\ task'.at = "check" /\ task'.op = "register"
      \/ task.op \in {"query", "tick"} /\ task' = Idle
      \/ /\ task.op = "start" /\ task'.op = "start" /\ task'.at = "set" /\ task'.now = None
         /\ task'.left = Listed(peers)
  BY <1>1, <1>2 DEF Reconciled, Continue, Finish, Task
<1>6. InUse'
  BY <1>1, <1>5, TaskKnown DEF InUse
<1>7. InForce'
  <2>1. Listed(peers') \ Pending' \subseteq Listed(peers) \ Pending
    BY <1>1, <1>2, <1>5, ManagerAssumption DEF Pending, Listed, Idle
  <2> QED
    BY <1>1, <1>2, <2>1 DEF InForce
<1>8. /\ task'.at \in {"done", "check", "set"}
      /\ task'.at = "set" => task'.now = None
  BY <1>5 DEF Idle
<1> QED
  BY <1>2, <1>4, <1>6, <1>7, <1>8, AtRest

LEMMA IsSetSure ==
    ASSUME Fine, IsSet
    PROVE  Sure'
<1>1. /\ task.op = "start" /\ task.at = "set" /\ task.now # None /\ Returned /\ task \in Task
      /\ task' = [task EXCEPT !.now = None, !.left = task.left \ {task.now}]
      /\ UNCHANGED <<kernelVars, cache, cmds, failed, peers, stored, serving>>
  BY TaskKnown DEF IsSet, At, KeepBackend
<1>2. /\ task'.at = "set" /\ task'.op = "start" /\ task'.now = None
      /\ task'.left = task.left \ {task.now}
  BY <1>1 DEF Task
<1>3. InUse /\ InUse' /\ InForce /\ Calls /\ stored = peers /\ task.now \in Listed(peers)
  BY <1>1, <1>2, TaskKnown DEF InUse, Fine, Sure, IInv, Looping
<1>4. PICK p \in Peer : p = peers[task.now]
  BY <1>3 DEF Listed, Fine, IInv, ManagerTypes
<1>5. Resting /\ cache[p.key] = p
  BY <1>1, <1>3, <1>4, CallReturned DEF Calls
<1>6. ~failed' /\ link' = "ours" /\ Matches(peers)' /\ Resting'
  BY <1>1, <1>3, <1>5, NothingMoves
<1>7. InForce'
  <2>1. Listed(peers') \ Pending' \subseteq (Listed(peers) \ Pending) \cup {task.now}
    BY <1>1, <1>2 DEF Pending, Listed
  <2> QED
    BY <1>1, <1>3, <1>4, <1>5, <2>1 DEF InForce
<1> QED
  BY <1>1, <1>2, <1>3, <1>6, <1>7, AtRest

LEMMA ServeSure ==
    ASSUME Fine, Serve
    PROVE  Sure'
<1>1. /\ task.op = "start" /\ task.at = "set" /\ task.left = {} /\ task' = Idle /\ serving'
      /\ UNCHANGED <<kernelVars, cache, cmds, failed, peers, stored>>
  BY DEF Serve, At, KeepBackend, Finish
<1>2. InUse /\ InUse' /\ InForce /\ stored = peers /\ task.now = None
  BY <1>1, TaskKnown DEF InUse, Fine, Sure, IInv, Looping
<1>3. Resting
  BY <1>1, <1>2 DEF Fine, Sure, Calls
<1>4. ~failed' /\ link' = "ours" /\ Matches(peers)' /\ Resting'
  BY <1>1, <1>2, <1>3, NothingMoves
<1>5. InForce'
  <2>1. Listed(peers') \ Pending' \subseteq Listed(peers) \ Pending
    BY <1>1 DEF Pending, Listed
  <2> QED
    BY <1>1, <1>2, <2>1 DEF InForce
<1>6. task'.at = "done"
  BY <1>1 DEF Idle
<1> QED
  BY <1>1, <1>2, <1>4, <1>5, <1>6, AtRest

LEMMA UpSure ==
    ASSUME Fine, Up
    PROVE  Sure'
<1>1. /\ task.op = "start" /\ task.at = "up" /\ cmds = <<>> /\ task \in Task
      /\ task' = [task EXCEPT !.at = "read"]
      /\ UNCHANGED <<kernelVars, cache, cmds, failed, peers, stored, serving>>
  BY TaskKnown DEF Up, At, Continue, KeepBackend, Returned
<1>2. /\ task'.at = "read" /\ task'.op = "start" /\ task'.dirty = task.dirty
  BY <1>1 DEF Task
<1>3. Upping /\ ~task.dirty /\ ~failed /\ stored = peers /\ cache = [k \in Keys |-> None]
  BY <1>1 DEF Fine, Sure
<1>4. UpProgram # <<>>
  BY InterfaceSequences
<1>5. link = "ours" /\ NoRules /\ policy = {}
  BY <1>1, <1>3, <1>4 DEF Upping
<1>6. UNCHANGED <<link, chain, policy, cache, cmds>>
  BY <1>1 DEF kernelVars
<1>7. Resting'
  <2>1. \A k \in Keys : cache'[k] = None
    BY <1>3, <1>6
  <2>2. \A h \in Hosts : Clean(h)'
    BY <1>5, <1>6 DEF Clean, Looks, NoRules
  <2> QED
    BY <1>1, <1>6, <2>1, <2>2 DEF Resting, Returned, Whole
<1>8. Matches(peers)' /\ InUse'
  BY <1>2, <1>3, <1>6 DEF Matches, InUse
<1>9. InForce'
  <2>1. Pending' = Devices
    BY <1>2 DEF Pending
  <2> QED
    BY <2>1 DEF InForce, Listed
<1> QED
  BY <1>1, <1>2, <1>3, <1>5, <1>6, <1>7, <1>8, <1>9, AtRest

\* A helper that is down, or on its way.
LEMMA OutOfUse ==
    ASSUME ~failed', ~serving',
           \/ task' = Idle /\ cmds' = <<>> /\ link' = "none"
           \/ task'.op = "down" /\ task'.at = "down" /\ Downing'
           \/ /\ task'.op = "start" /\ task'.at = "up" /\ ~task'.dirty
              /\ Upping' /\ stored' = peers' /\ cache' = [k \in Keys |-> None]
    PROVE  Sure'
<1>1. ~InUse'
  BY DEF InUse, Idle
<1> QED
  BY <1>1 DEF Sure, Idle, Returned

LEMMA DownSure ==
    ASSUME Fine, Down
    PROVE  Sure'
<1>1. /\ task.at = "down" /\ cmds = <<>> /\ task' = Idle
      /\ UNCHANGED <<kernelVars, cmds, failed, serving>>
  BY DEF Down, Returned, Finish, KeepBackend
<1>2. Downing /\ ~failed /\ ~serving
  BY <1>1 DEF Fine, Sure, IInv, Places, ManagerTypes, Task, Idle
<1>3. DownProgram # <<>>
  BY DEF DownProgram
<1>4. link = "none"
  BY <1>1, <1>2, <1>3 DEF Downing
<1> QED
  BY <1>1, <1>2, <1>4, OutOfUse DEF kernelVars

LEMMA StartSure ==
    ASSUME Fine, Start
    PROVE  Sure'
<1>1. /\ ~serving /\ task = Idle /\ serving' = serving /\ peers' = stored /\ stored' = stored
      /\ cache' = [k \in Keys |-> None] /\ cmds' = UpProgram /\ failed' = FALSE
      /\ task' = [Idle EXCEPT !.op = "start", !.at = "up"] /\ UNCHANGED kernelVars
  BY DEF Start, Call
<1>2. link' = "none"
  BY <1>1 DEF Fine, Sure, kernelVars
<1>3. Upping'
  BY <1>1, <1>2 DEF Upping
<1>4. task'.op = "start" /\ task'.at = "up" /\ ~task'.dirty
  BY <1>1 DEF Idle
<1> QED
  BY <1>1, <1>3, <1>4, OutOfUse

LEMMA StopSure ==
    ASSUME Fine, Stop \/ Cleanup
    PROVE  Sure'
<1>1. /\ task = Idle /\ ~serving' /\ cmds' = DownProgram /\ failed' = FALSE
      /\ task' = [Idle EXCEPT !.op = "down", !.at = "down"] /\ UNCHANGED kernelVars
  BY DEF Stop, Cleanup, StopServing, CallOnly, Call
<1>2. link \in {"none", "ours"}
  BY <1>1 DEF Fine, Sure, InUse
<1>3. Downing'
  BY <1>1, <1>2 DEF Downing, kernelVars
<1>4. task'.op = "down" /\ task'.at = "down"
  BY <1>1 DEF Idle
<1> QED
  BY <1>1, <1>3, <1>4, OutOfUse

LEMMA SureKept ==
    ASSUME Sure, UNCHANGED <<kernelVars, cache, cmds, failed, peers, stored, serving, task>>
    PROVE  Sure'
<1>1. /\ UNCHANGED <<link, owner, gateway, chain, policy>>
      /\ UNCHANGED <<cache, cmds, failed, peers, stored, serving, task>>
  BY DEF kernelVars
<1>2. Matches(peers)' <=> Matches(peers)
  BY <1>1 DEF Matches, Listed
<1>3. InForce' <=> InForce
  <2>1. Pending' = Pending /\ Listed(peers)' = Listed(peers)
    BY <1>1 DEF Pending, Listed
  <2> QED
    BY <1>1, <2>1 DEF InForce
<1>4. Whole' <=> Whole
  <2>1. \A h \in Hosts : (Held(h)' <=> Held(h)) /\ (Clean(h)' <=> Clean(h))
    BY <1>1 DEF Held, Clean, Looks
  <2>2. \A k \in Keys : InPlace(cache[k])' <=> InPlace(cache[k])
    BY <1>1 DEF InPlace, Connected, Routed, Looks
  <2> QED
    BY <1>1, <2>1, <2>2 DEF Whole
<1>5. Resting' <=> Resting
  BY <1>1, <1>4 DEF Resting, Returned
<1>6. ASSUME NEW p \in Peer
      PROVE  (Come(p)' <=> Come(p)) /\ (Gone(p)' <=> Gone(p))
  <2>1. \A q \in Peer : (InPlace(q)' <=> InPlace(q)) /\ (Routed(q)' <=> Routed(q))
    BY <1>1 DEF InPlace, Connected, Routed, Looks
  <2>2. \A h, rules, routed : Looks(h, rules, routed)' <=> Looks(h, rules, routed)
    BY <1>1 DEF Looks
  <2>3. \A h : Clean(h)' <=> Clean(h)
    BY <2>2 DEF Clean
  <2>4. Adding(p)' <=> Adding(p)
    BY <1>1, <2>1, <2>2 DEF Adding
  <2>5. ASSUME NEW q \in Peer, NEW r
        PROVE  Removing(q, p, r)' <=> Removing(q, p, r)
    BY <1>1, <2>1, <2>2, <2>3 DEF Removing
  <2>6. Apart(p)' <=> Apart(p)
    <3>1. \A h \in Hosts : Held(h)' <=> Held(h)
      BY <1>1 DEF Held
    <3>2. \A k \in Keys : InPlace(cache[k])' <=> InPlace(cache[k])
      BY <1>1 DEF InPlace, Connected, Routed, Looks
    <3> QED
      BY <1>1, <2>3, <3>1, <3>2 DEF Apart
  <2>7. Setting(p)' <=> Setting(p)
    BY <2>4, <2>5, <2>6 DEF Setting
  <2>8. Dropping(p)' <=> Dropping(p)
    BY <1>1, <2>3, <2>5, <2>6 DEF Dropping
  <2> QED
    BY <1>1, <1>5, <2>7, <2>8 DEF Come, Gone
<1>7. Calls' <=> Calls
  BY <1>1, <1>5, <1>6 DEF Calls
<1>8. (Downing' <=> Downing) /\ (Upping' <=> Upping) /\ (InUse' <=> InUse)
  BY <1>1 DEF Downing, Upping, NoRules, InUse
<1> QED
  BY <1>1, <1>2, <1>3, <1>7, <1>8 DEF Sure, Returned

LEMMA RegisterRefusedSure ==
    ASSUME Fine, RegisterRefused
    PROVE  Sure'
<1>1. /\ task.op = "register" /\ task.at = "check" /\ task' = Idle
      /\ UNCHANGED <<kernelVars, cache, cmds, failed, peers, stored, serving>>
  BY DEF RegisterRefused, At, KeepBackend, Finish
<1>2. InUse /\ serving /\ InForce /\ stored = peers /\ Resting /\ Pending = {}
  BY <1>1, TaskKnown DEF Fine, Sure, Calls, Pending
<1>3. InUse'
  BY <1>1, <1>2 DEF InUse
<1>4. ~failed' /\ link' = "ours" /\ Matches(peers)' /\ Resting'
  BY <1>1, <1>2, NothingMoves
<1>5. InForce'
  BY <1>1, <1>2 DEF InForce, Listed
<1>6. task'.at = "done"
  BY <1>1 DEF Idle
<1> QED
  BY <1>1, <1>2, <1>3, <1>4, <1>5, <1>6, AtRest

LEMMA AdmitSure ==
    ASSUME Fine, Admit
    PROVE  Sure'
<1>1. /\ task.op = "register" /\ task.at = "check" /\ task \in Task
      /\ task' = [task EXCEPT !.at = "replace", !.old = peers[task.id]]
      /\ CallOnly(IF peers[task.id] # None /\ peers[task.id].key # task.key
                  THEN RemoveProgram(peers[task.id]) ELSE <<>>)
      /\ UNCHANGED <<peers, stored, serving>>
  BY TaskKnown DEF Admit, At
<1>2. /\ task'.at = "replace" /\ task'.op = "register" /\ task'.id = task.id
      /\ task'.key = task.key
  BY <1>1 DEF Task
<1>3. /\ InUse /\ serving /\ InForce /\ stored = peers /\ Resting /\ Pending = {}
      /\ task.id \in Devices
  BY <1>1, TaskKnown DEF Fine, Sure, Calls, Pending, IInv, Places, Task
<1>4. InUse' /\ ~(~serving' /\ task' = Idle)
  BY <1>1, <1>3 DEF InUse
<1>5. InForce'
  <2>1. cache' = cache
    BY <1>1 DEF CallOnly
  <2> QED
    BY <1>1, <1>3, <2>1 DEF InForce, Listed
<1>6. CASE peers[task.id] # None /\ peers[task.id].key # task.key
  <2>1. task.id \in Listed(peers) /\ CallOnly(RemoveProgram(peers[task.id]))
    BY <1>1, <1>3, <1>6 DEF Listed
  <2>2. /\ ~failed' /\ link' = "ours" /\ Matches(peers)' /\ peers[task.id] \in Peer
        /\ \A p \in Peer : p = peers[task.id] => Gone(p)'
    BY <1>1, <1>3, <2>1, CallsRemove
  <2>3. Calls'
    BY <1>1, <1>2, <1>6, <2>2 DEF Calls
  <2> QED
    BY <1>1, <1>2, <1>3, <1>4, <1>5, <2>2, <2>3 DEF Sure
<1>7. CASE ~(peers[task.id] # None /\ peers[task.id].key # task.key)
  <2>1. cmds' = <<>> /\ failed' = FALSE /\ UNCHANGED <<kernelVars, cache>>
    BY <1>1, <1>7 DEF CallOnly, Call
  <2>a. failed = FALSE
    BY DEF Fine, IInv, CallTypes, Sure
  <2>2. UNCHANGED <<kernelVars, cache, cmds, failed, peers>>
    BY <1>1, <1>3, <2>1, <2>a DEF Resting, Returned
  <2>3. ~failed' /\ link' = "ours" /\ Matches(peers)' /\ Resting'
    BY <1>3, <2>2, NothingMoves
  <2>4. \A p \in Peer : p = peers[task.id] => p.key = task.key
    BY <1>7, NoneAssumption
  <2>5. Calls'
    BY <1>1, <1>2, <2>3, <2>4 DEF Calls
  <2> QED
    BY <1>1, <1>2, <1>3, <1>4, <1>5, <2>3, <2>5 DEF Sure
<1> QED
  BY <1>6, <1>7

LEMMA RegisteredSure ==
    ASSUME Fine, Registered
    PROVE  Sure'
<1>1. /\ task.op = "register" /\ task.at = "apply" /\ task' = Idle /\ Returned
      /\ UNCHANGED <<kernelVars, cache, cmds, failed, peers, stored, serving>>
  BY DEF Registered, At, KeepBackend, Finish
<1>2. InUse /\ serving /\ InForce /\ stored = peers /\ Calls /\ peers[task.id] # None
      /\ task.id \in Devices /\ Pending = {task.id}
  BY <1>1, TaskKnown DEF Fine, Sure, Pending, IInv, Places, Task, Attempt
<1>3. PICK p \in Peer : p = peers[task.id]
  BY <1>2 DEF Fine, IInv, ManagerTypes
<1>4. Resting /\ cache[p.key] = p
  BY <1>1, <1>2, <1>3, CallReturned DEF Calls
<1>5. InUse'
  BY <1>1, <1>2 DEF InUse
<1>6. ~failed' /\ link' = "ours" /\ Matches(peers)' /\ Resting'
  BY <1>1, <1>2, <1>4, NothingMoves
<1>7. InForce'
  BY <1>1, <1>2, <1>3, <1>4 DEF InForce, Listed
<1>8. task'.at = "done"
  BY <1>1 DEF Idle
<1> QED
  BY <1>1, <1>2, <1>5, <1>6, <1>7, <1>8, AtRest

\* What the attempt records is what the map may hold: an old key is gone by then, and a device
\* keeps its address and whether it is a home service.
LEMMA RequestedMatches ==
    ASSUME Fine, At("register", "replace"), Returned
    PROVE  /\ Resting
           /\ Matches([peers EXCEPT ![task.id] = Requested])
<1>1. /\ InUse /\ Matches(peers) /\ Calls /\ task.id \in Devices /\ IInv
      /\ peers \in [Devices -> Peer \cup {None}] /\ Admissible(task.id, task.key, task.exit)
  BY TaskKnown, Registering DEF At, Fine, Sure, IInv, ManagerTypes, Attempt
<1>2. Requested \in Peer /\ Requested # None
  BY <1>1, RequestedLoadable, NoneAssumption
<1>3. ASSUME peers[task.id] # None
      PROVE  /\ Resting
             /\ peers[task.id].key # task.key => cache[peers[task.id].key] = None
  <2>1. PICK p \in Peer : p = peers[task.id]
    BY <1>1, <1>3
  <2>2. CASE p.key = task.key
    BY <1>1, <2>1, <2>2 DEF Calls, At
  <2>3. CASE p.key # task.key
    <3>1. Gone(p)
      BY <1>1, <2>1, <2>3 DEF Calls, At
    <3> QED
      BY <2>1, <3>1, CallReturned
  <2> QED
    BY <2>1, <2>2, <2>3
<1>4. Resting
  BY <1>1, <1>3 DEF Calls, At
<1>5. ASSUME peers[task.id] # None
      PROVE  /\ HostFor(task.id) = peers[task.id].host
             /\ (peers[task.id].exit = "service") = (task.exit = "service")
  BY <1>1, <1>5 DEF HostFor, Admissible
<1>6. /\ Requested.key = task.key /\ Requested.host = HostFor(task.id)
      /\ Requested.exit = task.exit
  BY DEF Requested
<1>7. peers[task.id] # None =>
          \/ cache[peers[task.id].key] = None
          \/ /\ Requested # None /\ Requested.key = peers[task.id].key
             /\ Requested.host = peers[task.id].host
             /\ Requested.exit = "service" <=> peers[task.id].exit = "service"
  BY <1>2, <1>3, <1>5, <1>6
<1>8. Matches([peers EXCEPT ![task.id] = Requested])
  BY <1>1, <1>2, <1>7, MatchesWith
<1> QED
  BY <1>4, <1>8

LEMMA RecordSure ==
    ASSUME Fine, Record
    PROVE  Sure'
<1>1. /\ At("register", "replace") /\ Returned
      /\ task.op = "register" /\ task.at = "replace"
      /\ task' = [task EXCEPT !.at = "apply"]
      /\ peers' = [peers EXCEPT ![task.id] = Requested] /\ stored' = peers'
      /\ cmds' = SetProgram(Requested) /\ failed' = FALSE
      /\ UNCHANGED <<kernelVars, cache>> /\ serving' = serving
  BY DEF Record, At, Continue, Saved, Call
<1>2. /\ InUse /\ serving /\ InForce /\ task.id \in Devices /\ IInv /\ CallTypes
      /\ peers \in [Devices -> Peer \cup {None}] /\ task \in Task /\ link = "ours"
  BY <1>1, TaskKnown, Registering DEF Fine, Sure, IInv, ManagerTypes
<1>3. /\ task'.at = "apply" /\ task'.op = "register" /\ task'.id = task.id
      /\ Pending = {task.id} /\ Pending' = {task.id}
  BY <1>1, <1>2 DEF Task, Pending
<1>4. /\ Requested \in Peer /\ Loadable(peers')
      /\ peers' \in [Devices -> Peer \cup {None}]
  BY <1>1, <1>2, RequestedLoadable
<1> DEFINE qs == [peers EXCEPT ![task.id] = Requested]
<1>5. Resting /\ Matches(qs)
  BY <1>1, RequestedMatches
<1>6. /\ qs[task.id] = Requested /\ \A x \in Devices \ {task.id} : qs[x] = peers[x]
      /\ peers' = qs /\ Requested # None
  BY <1>1, <1>2, <1>4, NoneAssumption
<1> HIDE DEF qs
<1>7. task.id \in Listed(qs)
  BY <1>2, <1>6 DEF Listed
<1>8. Fits(Requested)
  BY <1>2, <1>4, <1>5, <1>6, <1>7, MatchesFits
<1>9. PICK p \in Peer : p = Requested
  BY <1>4
<1>10. Come(p)'
  BY <1>1, <1>2, <1>5, <1>8, <1>9, CallSet
<1>11. link' = "ours" /\ Matches(peers)'
  <2>1. link' = "ours"
    BY <1>1, <1>2 DEF kernelVars
  <2>2. cache' = cache /\ peers' = qs
    BY <1>1, <1>6
  <2>3. PICK r : r = qs
    OBVIOUS
  <2>4. Matches(r) /\ peers' = r
    BY <1>5, <2>2, <2>3
  <2>5. Matches(peers)'
    BY <2>2, <2>4 DEF Matches, Listed
  <2> QED
    BY <2>1, <2>5
<1>12. InForce'
  BY <1>1, <1>2, <1>3, <1>6 DEF InForce, Listed
<1>13. Calls'
  <2>1. \A x \in Peer : x = peers'[task'.id] => x = p
    BY <1>3, <1>6, <1>9
  <2> QED
    BY <1>3, <1>10, <2>1 DEF Calls
<1>14. InUse' /\ ~(~serving' /\ task' = Idle)
  BY <1>1, <1>2 DEF InUse
<1> QED
  BY <1>1, <1>3, <1>11, <1>12, <1>13, <1>14 DEF Sure

\* The map holds nothing of a peer that is gone, so it goes from the records.
LEMMA GoneRecord ==
    ASSUME Fine, InUse, NEW d \in Listed(peers), Returned, Gone(peers[d]),
           peers' = [peers EXCEPT ![d] = None],
           UNCHANGED <<kernelVars, cache, cmds, failed>>
    PROVE  /\ ~failed' /\ link' = "ours" /\ Matches(peers)' /\ Resting'
           /\ Listed(peers') = Listed(peers) \ {d}
           /\ \A x \in Listed(peers') : peers'[x] = peers[x]
           /\ cache' = cache
<1>1. /\ peers \in [Devices -> Peer \cup {None}] /\ Matches(peers)
      /\ ~failed /\ link = "ours"
  BY DEF Fine, Sure, IInv, ManagerTypes
<1>2. PICK p \in Peer : p = peers[d]
  BY <1>1 DEF Listed
<1>3. Resting /\ cache[peers[d].key] = None
  BY <1>2, CallReturned
<1>4. Resting'
  BY <1>3, RestingKept
<1>5. /\ Listed(peers') = Listed(peers) \ {d}
      /\ \A x \in Listed(peers') : peers'[x] = peers[x]
  BY <1>1 DEF Listed
<1>6. PICK qs : qs = [peers EXCEPT ![d] = None]
  OBVIOUS
<1>7. Matches(qs)
  BY <1>1, <1>3, <1>6, MatchesWith DEF Listed
<1>8. Matches(peers)'
  BY <1>6, <1>7 DEF Matches, Listed
<1> QED
  BY <1>1, <1>4, <1>5, <1>8 DEF kernelVars

LEMMA RemovedSure ==
    ASSUME Fine, Removed
    PROVE  Sure'
<1>1. /\ task.at = "drop" /\ task.now # None /\ Returned /\ task \in Task
      /\ task' = [task EXCEPT !.now = None, !.left = task.left \ {task.now}, !.dirty = TRUE]
      /\ peers' = [peers EXCEPT ![task.now] = None]
      /\ UNCHANGED <<kernelVars, cache, cmds, failed, serving>>
  BY TaskKnown DEF Removed, KeepBackend, Fine, Sure
<1>2. /\ task'.at = "drop" /\ task'.now = None /\ task'.op = task.op /\ task'.dirty
  BY <1>1 DEF Task
<1>3. InUse /\ InUse' /\ InForce /\ Calls /\ task.now \in Listed(peers)
  BY <1>1, <1>2, TaskKnown DEF InUse, Fine, Sure, IInv, Looping
<1>4. Gone(peers[task.now])
  <2>1. PICK p \in Peer : p = peers[task.now]
    BY <1>3 DEF Listed, Fine, IInv, ManagerTypes
  <2>2. Gone(p)
    BY <1>1, <1>3, <2>1 DEF Calls
  <2> QED
    BY <2>1, <2>2
<1>5. /\ ~failed' /\ link' = "ours" /\ Matches(peers)' /\ Resting'
      /\ Listed(peers') = Listed(peers) \ {task.now}
      /\ \A x \in Listed(peers') : peers'[x] = peers[x]
      /\ cache' = cache
  BY <1>1, <1>3, <1>4, GoneRecord
<1>6. InForce'
  <2>1. Listed(peers') \ Pending' \subseteq Listed(peers) \ Pending
    BY <1>1, <1>2, <1>5 DEF Pending, Listed
  <2> QED
    BY <1>3, <1>5, <2>1 DEF InForce
<1> QED
  BY <1>2, <1>3, <1>5, <1>6, AtRest

LEMMA RemoveDoneSure ==
    ASSUME Fine, RemoveDone
    PROVE  Sure'
<1>1. /\ task.at = "remove" /\ Returned /\ task \in Task /\ task' = Idle
      /\ peers' = [peers EXCEPT ![task.id] = None] /\ stored' = peers'
      /\ UNCHANGED <<kernelVars, cache, cmds, failed, serving>>
  BY TaskKnown, NoFault DEF RemoveDone, Saved, SaveFails, Finish, Fine
<1>2. task.op = "remove" /\ task.id \in Devices
  BY <1>1 DEF Fine, IInv, Places, Task, Idle
<1>3. InUse /\ InUse' /\ InForce /\ Calls /\ task.id \in Listed(peers)
  BY <1>1, <1>2, TaskKnown DEF InUse, Fine, Sure, Listed, Calls
<1>4. Gone(peers[task.id])
  <2>1. PICK p \in Peer : p = peers[task.id]
    BY <1>3 DEF Listed, Fine, IInv, ManagerTypes
  <2>2. Gone(p)
    BY <1>1, <1>3, <2>1 DEF Calls
  <2> QED
    BY <2>1, <2>2
<1>5. /\ ~failed' /\ link' = "ours" /\ Matches(peers)' /\ Resting'
      /\ Listed(peers') = Listed(peers) \ {task.id}
      /\ \A x \in Listed(peers') : peers'[x] = peers[x]
      /\ cache' = cache
  BY <1>1, <1>3, <1>4, GoneRecord
<1>6. InForce'
  <2>1. Listed(peers') \ Pending' \subseteq Listed(peers) \ Pending
    BY <1>1, <1>5 DEF Pending, Listed
  <2> QED
    BY <1>3, <1>5, <2>1 DEF InForce
<1>7. task'.at = "done"
  BY <1>1 DEF Idle
<1> QED
  BY <1>1, <1>3, <1>5, <1>6, <1>7, AtRest

\* Only the entry of a recorded peer changes, and only to what is recorded.
LEMMA EntryMatches ==
    ASSUME Matches(peers), NEW d \in Listed(peers), NEW p \in Peer, p = peers[d],
           peers' = peers, \A k \in Keys \ {p.key} : cache'[k] = cache[k],
           cache'[p.key] \in {cache[p.key], None, p}
    PROVE  Matches(peers)'
<1>1. p.key \in Keys
  BY DEF Peer
<1>2. ASSUME NEW k \in Keys, cache'[k] # None
      PROVE  \E x \in Listed(peers) :
                 /\ peers[x].key = k
                 /\ peers[x].host = cache'[k].host
                 /\ peers[x].exit = "service" <=> cache'[k].exit = "service"
  <2>1. CASE cache'[k] = cache[k]
    BY <1>2, <2>1 DEF Matches
  <2>2. CASE k = p.key /\ cache'[k] = p
    BY <2>2
  <2> QED
    BY <1>2, <2>1, <2>2
<1> QED
  BY <1>2 DEF Matches, Listed

\* A call that is under way leaves the records and the peers in force as they are.
LEMMA StillMatches ==
    ASSUME Fine, InUse, NEW d \in Listed(peers), NEW p \in Peer, p = peers[d], d \in Pending,
           UNCHANGED <<peers, task>>,
           \A k \in Keys \ {p.key} : cache'[k] = cache[k],
           cache'[p.key] \in {cache[p.key], None, p}
    PROVE  Matches(peers)' /\ InForce'
<1>1. /\ peers \in [Devices -> Peer \cup {None}] /\ Loadable(peers) /\ Matches(peers) /\ InForce
      /\ None \notin Peer /\ p.key \in Keys
  BY NoneAssumption DEF Fine, Sure, IInv, ManagerTypes, Peer
<1>2. Matches(peers)'
  BY <1>1, EntryMatches
<1>3. Pending' = Pending
  BY DEF Pending
<1>4. ASSUME NEW x \in Listed(peers) \ Pending
      PROVE  cache'[peers[x].key] = peers[x]
  <2>1. x # d /\ peers[x].key # p.key /\ peers[x].key \in Keys
    BY <1>1, <1>4 DEF Loadable, Listed, Peer
  <2> QED
    BY <1>1, <1>4, <2>1 DEF InForce
<1>5. InForce'
  BY <1>3, <1>4 DEF InForce, Listed
<1> QED
  BY <1>2, <1>5

LEMMA CommandSure ==
    ASSUME Fine, Command
    PROVE  Sure'
<1>1. /\ BackendStep /\ UNCHANGED <<authorized, peers, stored, serving, task, promised>>
      /\ faults = 0 /\ faults' = 0 /\ IInv /\ Sure /\ task \in Task
      /\ peers \in [Devices -> Peer \cup {None}] /\ KernelTypes /\ CallTypes
  BY TaskKnown DEF Command, managerVars, Fine, IInv, ManagerTypes
<1>2. ~Returned
  BY <1>1 DEF BackendStep, RunBookkeeping, RunCommand, CommandRefused, CommandFails, QueryFails
<1>3. CASE InUse
  <2>0. /\ Matches(peers) /\ InForce /\ Calls /\ link = "ours"
        /\ task.at # "drop" \/ ~task.dirty => stored = peers
    BY <1>1, <1>3 DEF Sure
  <2>1. /\ task.at \in {"drop", "set", "remove", "replace", "apply"}
        /\ task.at \in {"drop", "set"} => task.now # None
        /\ task.at = "replace" => peers[task.id] # None
    BY <1>1, <1>2, <1>3, <2>0 DEF Sure, Calls, InUse, IInv, Places, Task, Idle, Resting
  <2> DEFINE d == IF task.at \in {"drop", "set"} THEN task.now ELSE task.id
  <2>2. d \in Listed(peers) /\ d \in Pending
    <3>1. CASE task.at \in {"drop", "set"}
      <4>1. task.now \in task.left /\ task.left \subseteq Listed(peers)
        BY <1>1, <2>1, <3>1 DEF IInv, Looping
      <4> QED
        BY <3>1, <4>1 DEF Pending, Listed
    <3>2. CASE task.at \in {"remove", "replace", "apply"}
      <4>1. task.id \in Devices
        BY <1>1, <3>2 DEF IInv, Places, Task, Idle
      <4>2. peers[task.id] # None
        BY <1>1, <2>0, <2>1, <3>2 DEF IInv, Attempt, Calls
      <4> QED
        BY <3>2, <4>1, <4>2 DEF Pending, Listed
    <3> QED
      BY <2>1, <3>1, <3>2
  <2>3. PICK e \in Devices : e = d
    BY <2>2 DEF Listed
  <2>4. PICK p \in Peer : p = peers[e]
    BY <1>1, <2>2, <2>3 DEF Listed
  <2> HIDE DEF d
  <2>5. ASSUME /\ link' = "ours" /\ failed' = failed
               /\ \A k \in Keys \ {p.key} : cache'[k] = cache[k]
               /\ cache'[p.key] \in {cache[p.key], None, p}
               /\ Calls'
        PROVE  Sure'
    <3>1. Matches(peers)' /\ InForce'
      BY <1>1, <1>3, <2>2, <2>3, <2>4, <2>5, StillMatches
    <3>2. ~failed' /\ InUse'
      BY <1>1, <1>3, <2>5 DEF Sure, InUse
    <3>3. ~(~serving' /\ task' = Idle)
      BY <1>1, <1>3 DEF InUse, Idle
    <3> QED
      BY <1>1, <2>0, <2>1, <2>5, <3>1, <3>2, <3>3 DEF Sure
  <2>6. CASE Setting(p) /\ task.at \in {"set", "apply"}
    <3>1. StillBusyFor(p) /\ Come(p)' /\ cache'[p.key] \in {cache[p.key], None, p}
      BY <1>1, <2>0, <2>6, SettingStep
    <3>2. \A x \in Peer : /\ task.at = "set" /\ x = peers[task.now] => x = p
                          /\ task.at = "apply" /\ x = peers[task.id] => x = p
      BY <2>3, <2>4 DEF d
    <3>3. Calls'
      BY <1>1, <2>1, <2>6, <3>1, <3>2 DEF Calls
    <3> QED
      BY <2>5, <3>1, <3>3 DEF StillBusyFor
  <2>7. CASE /\ Dropping(p) /\ task.at \in {"drop", "remove", "replace"}
             /\ task.at = "replace" => p.key # task.key
    <3>1. StillBusyFor(p) /\ Gone(p)' /\ cache'[p.key] \in {cache[p.key], None}
      BY <1>1, <2>0, <2>7, DroppingStep
    <3>2. \A x \in Peer : /\ task.at = "drop" /\ x = peers[task.now] => x = p
                          /\ task.at \in {"remove", "replace"} /\ x = peers[task.id] => x = p
      BY <2>3, <2>4 DEF d
    <3>3. task.at \in {"remove", "replace"} => peers[task.id] # None
      BY <2>2 , <2>3 DEF d, Listed
    <3>4. Calls'
      BY <1>1, <2>1, <2>7, <3>1, <3>2, <3>3 DEF Calls
    <3> QED
      BY <2>5, <3>1, <3>4 DEF StillBusyFor
  <2>8. \/ Setting(p) /\ task.at \in {"set", "apply"}
        \/ /\ Dropping(p) /\ task.at \in {"drop", "remove", "replace"}
           /\ task.at = "replace" => p.key # task.key
    <3>1. ~Resting
      BY <1>2 DEF Resting
    <3>2. /\ task.at = "drop" => Gone(p)
          /\ task.at = "remove" => Gone(p)
          /\ task.at = "replace" => p.key # task.key /\ Gone(p)
          /\ task.at \in {"set", "apply"} => Come(p)
      BY <2>0, <2>1, <2>3, <2>4, <3>1 DEF Calls, d
    <3> QED
      BY <2>1, <3>1, <3>2 DEF Come, Gone
  <2> QED
    BY <2>6, <2>7, <2>8
<1>4. CASE ~InUse
  <2>1. /\ ~serving /\ task.op \in {"idle", "start", "down"}
        /\ task.op = "start" => task.at = "up"
    BY <1>1, <1>4 DEF InUse, IInv, Places, Task
  <2>2. ~serving' /\ ~failed
    BY <1>1, <2>1 DEF Sure
  <2>3. CASE task.op = "idle"
    BY <1>1, <1>2, <2>1, <2>3 DEF Sure, IInv, Places
  <2>4. CASE task.op = "start"
    <3>1. Upping /\ stored = peers /\ cache = [k \in Keys |-> None] /\ ~task.dirty
      BY <1>1, <2>1, <2>4 DEF Sure
    <3>2. Upping' /\ failed' = failed /\ cache' = cache
      BY <1>1, <3>1, UpStep
    <3> QED
      BY <1>1, <2>1, <2>2, <2>4, <3>1, <3>2, OutOfUse
  <2>5. CASE task.op = "down"
    <3>1. task.at = "down" /\ Downing
      BY <1>1, <2>5 DEF Sure, IInv, Places
    <3>2. Downing' /\ failed' = failed
      BY <1>1, <3>1, DownStep
    <3> QED
      BY <1>1, <2>2, <2>5, <3>1, <3>2, OutOfUse
  <2> QED
    BY <2>1, <2>3, <2>4, <2>5
<1> QED
  BY <1>3, <1>4

-----------------------------------------------------------------------------
(***************************************************************************)
(* The kernel, the map and the file agree.                                 *)
(***************************************************************************)
\* Faults are counted; none is forgotten.
LEMMA FaultsStay ==
    ASSUME IInv, Next
    PROVE  faults \in Nat /\ faults' \in {faults, faults + 1}
<1>1. faults \in Nat
  BY BackendAssumption DEF IInv, CallTypes
<1>2. faults' = faults \/ faults' = faults + 1
  <2>1. CASE Command
    BY <2>1 DEF Command, BackendStep, RunBookkeeping, RunCommand, CommandRefused, CommandFails,
       QueryFails, CountFault
  <2>2. CASE Reconcile
    BY <2>2 DEF Reconcile, ReadRecords, RecordsUnavailable, Removed, RemovalFailed, Disabled,
       Dropped, DropUnsaved, RemoveNext, KeepBackend, CallOnly, CountFault, Saved, SaveFails
  <2>3. CASE Register
    BY <2>3 DEF Register, RegisterRefused, Admit, ReplaceFailed, Record, RecordUnsaved, Registered,
       ApplyFailed, Retracted, PutBack, Restored, KeepBackend, CallOnly, CountFault, Saved,
       SaveFails
  <2>4. CASE RemoveFailed \/ RemoveDone \/ Lifecycle
    BY <2>4 DEF RemoveFailed, RemoveDone, Lifecycle, UpFailed, Up, IsSet, SetFailed, Serve, Down,
       SetNext, KeepBackend, CallOnly, CountFault, Saved, SaveFails
  <2>5. CASE \/ \E d \in Devices, k \in Keys, e \in Exits : BeginRegister(d, k, e)
             \/ \E d \in Devices : BeginRemove(d) \/ Revoke(d)
             \/ BeginQuery \/ BeginTick \/ Start \/ Stop \/ Cleanup \/ Crash
    BY <2>5 DEF BeginRegister, BeginRemove, BeginQuery, BeginTick, Start, Stop, Cleanup, Crash,
       Revoke, KeepBackend, CallOnly, CountFault
  <2> QED
    BY <2>1, <2>2, <2>3, <2>4, <2>5 DEF Next, Progress
<1> QED
  BY <1>1, <1>2

\* What follows a fault, or a call that failed, does not happen.
LEMMA NothingFails ==
    ASSUME Fine
    PROVE  /\ ~RecordsUnavailable /\ ~RemovalFailed /\ ~Disabled /\ ~DropUnsaved
           /\ ~ReplaceFailed /\ ~RecordUnsaved /\ ~ApplyFailed /\ ~Retracted /\ ~PutBack
           /\ ~Restored /\ ~RemoveFailed /\ ~UpFailed /\ ~SetFailed /\ ~Crash
<1>1. /\ ~failed /\ ~CountFault
      /\ task.at \notin {"disable", "retract", "unsaved", "restore"}
  BY NoFault DEF Fine, Sure
<1>2. /\ ~RecordsUnavailable /\ ~RemovalFailed /\ ~Disabled /\ ~DropUnsaved
      /\ ~ReplaceFailed /\ ~RecordUnsaved /\ ~ApplyFailed
  BY <1>1 DEF RecordsUnavailable, RemovalFailed, Disabled, DropUnsaved, ReplaceFailed,
     RecordUnsaved, ApplyFailed, SaveFails
<1>3. /\ ~Retracted /\ ~PutBack /\ ~Restored /\ ~RemoveFailed /\ ~UpFailed /\ ~SetFailed /\ ~Crash
  BY <1>1 DEF Retracted, PutBack, Restored, RemoveFailed, UpFailed, SetFailed, Crash, At
<1> QED
  BY <1>2, <1>3

LEMMA SureStep ==
    IInv /\ SureInv /\ [Next]_vars => SureInv'
<1> SUFFICES ASSUME IInv, SureInv, [Next]_vars, faults' = 0 PROVE Sure'
  BY DEF SureInv
<1>1. CASE Next
  <2>1. Fine
    BY <1>1, FaultsStay DEF Fine, SureInv
  <2>2. CASE Command
    BY <2>1, <2>2, CommandSure
  <2>3. CASE Reconcile
    BY <2>1, <2>3, NothingFails, ReadRecordsSure, RemovedSure, DroppedSure, RemoveNextSure
       DEF Reconcile
  <2>4. CASE Register
    BY <2>1, <2>4, NothingFails, RegisterRefusedSure, AdmitSure, RecordSure, RegisteredSure
       DEF Register
  <2>5. CASE RemoveFailed \/ RemoveDone
    BY <2>1, <2>5, NothingFails, RemoveDoneSure
  <2>6. CASE Lifecycle
    BY <2>1, <2>6, NothingFails, UpSure, IsSetSure, ServeSure, DownSure, SetNextSure DEF Lifecycle
  <2>7. CASE \/ \E d \in Devices, k \in Keys, e \in Exits : BeginRegister(d, k, e)
             \/ BeginQuery \/ BeginTick
    BY <2>1, <2>7, BeginsSure
  <2>8. CASE \/ \E d \in Devices : BeginRemove(d)
             \/ Start \/ Stop \/ Cleanup \/ Crash
    BY <2>1, <2>8, NothingFails, BeginRemoveSure, StartSure, StopSure
  <2>9. CASE \E d \in Devices : Revoke(d)
    <3>1. UNCHANGED <<kernelVars, cache, cmds, failed, peers, stored, serving, task>>
      BY <2>9 DEF Revoke
    <3> QED
      BY <2>1, <3>1, SureKept DEF Fine
  <2> QED
    BY <1>1, <2>2, <2>3, <2>4, <2>5, <2>6, <2>7, <2>8, <2>9 DEF Next, Progress
<1>2. CASE UNCHANGED vars
  <2>1. UNCHANGED <<kernelVars, cache, cmds, failed, faults, peers, stored, serving, task>>
    BY <1>2 DEF vars, kernelVars
  <2> QED
    BY <2>1, SureKept DEF SureInv
<1> QED
  BY <1>1, <1>2

LEMMA SureInit ==
    Init => SureInv
<1> SUFFICES ASSUME Init PROVE Sure
  BY DEF SureInv
<1>1. ~failed /\ ~serving /\ task = Idle /\ Returned /\ link = "none" /\ ~InUse
  BY DEF Init, BackendInit, Returned, InUse, Idle
<1> QED
  BY <1>1 DEF Sure, Idle

LEMMA SureHolds == Spec => []SureInv
<1> QED
  BY SureInit, SureStep, InvariantHolds, PTL DEF Spec

\* Between two tasks every recorded peer is in place, and every other address is clean.
LEMMA SureAgrees ==
    ASSUME IInv, SureInv
    PROVE  AllAgree
<1> SUFFICES ASSUME Working, faults = 0
             PROVE  /\ stored = peers
                    /\ \A d \in Listed(peers) :
                          Connected(peers[d]) /\ cache[peers[d].key] = peers[d]
                    /\ \A h \in Hosts :
                          LET here == {d \in Listed(peers) : peers[d].host = h}
                          IN  /\ chain[h] = IF here = {} THEN <<>>
                                            ELSE Reverse(Rules(peers[CHOOSE d \in here : TRUE].exit))
                              /\ h \in policy <=> \E d \in here : peers[d].exit = "home"
  BY DEF AllAgree
<1>1. /\ stored = peers /\ Matches(peers) /\ InForce /\ Whole /\ Pending = {}
      /\ Loadable(peers) /\ peers \in [Devices -> Peer \cup {None}]
  BY DEF Working, SureInv, Sure, InUse, Calls, Idle, Pending, Resting, IInv, ManagerTypes
<1>2. ASSUME NEW d \in Listed(peers)
      PROVE  /\ peers[d] \in Peer /\ cache[peers[d].key] = peers[d]
             /\ Connected(peers[d]) /\ Routed(peers[d])
  <2>1. peers[d] \in Peer /\ peers[d].key \in Keys /\ peers[d] # None
    BY <1>1 DEF Listed, Peer
  <2>2. cache[peers[d].key] = peers[d]
    BY <1>1 DEF InForce
  <2>3. InPlace(peers[d])
    BY <1>1, <2>1, <2>2 DEF Whole
  <2> QED
    BY <2>1, <2>2, <2>3 DEF InPlace
<1>3. ASSUME NEW h \in Hosts
      PROVE  LET here == {d \in Listed(peers) : peers[d].host = h}
             IN  /\ chain[h] = IF here = {} THEN <<>>
                               ELSE Reverse(Rules(peers[CHOOSE d \in here : TRUE].exit))
                 /\ h \in policy <=> \E d \in here : peers[d].exit = "home"
  <2> DEFINE here == {d \in Listed(peers) : peers[d].host = h}
  <2>1. CASE here = {}
    <3>1. ~Held(h)
      BY <1>1, <2>1 DEF Held, Matches
    <3> QED
      BY <1>1, <2>1, <3>1 DEF Whole, Clean, Looks
  <2>2. CASE here # {}
    <3>1. PICK d \in here : d = CHOOSE x \in here : TRUE
      BY <2>2
    <3>2. \A x \in here : x = d
      BY <1>1, <3>1 DEF Loadable
    <3>3. d \in Listed(peers) /\ peers[d].host = h
      BY <3>1
    <3>4. /\ chain[h] = Reverse(Rules(peers[d].exit))
          /\ h \in policy <=> peers[d].exit = "home"
      BY <1>2, <3>3 DEF Routed, Looks, Standing
    <3> QED
      BY <2>2, <3>1, <3>2, <3>4
  <2> QED
    BY <2>1, <2>2
<1> QED
  BY <1>1, <1>2, <1>3

\* While nothing fails, the helper that answers has a file, a map and a kernel that say the same
\* (manager.go:151-311, linux.go:98-239): every recorded peer is connected and routed for its
\* exit, every other address has neither rule nor policy, and the file is what is in force,
\* after any sequence of registrations, removals, revocations and restarts.  Whatever fails, the
\* types hold and the file can be loaded.
THEOREM InvCorrect == Spec => []Inv
<1>1. IInv /\ SureInv => Inv
  BY TypesHold, SureAgrees DEF IInv, Inv
<1> QED
  BY <1>1, InvariantHolds, SureHolds, PTL

-----------------------------------------------------------------------------
(***************************************************************************)
(* One fault.  Of the two barriers that keep the traffic of a home user    *)
(* from the uplink, the policy rule is there as long as the key is, unless *)
(* "wg set" was killed after it took effect, and then no rule accepts.     *)
(***************************************************************************)
Honors(p) == promised[p.key] = "home" => p.exit = "home"

\* Whatever may come into the kernel honors what was promised.
Honored ==
    /\ \A d \in Listed(peers) : Honors(peers[d])
    /\ \A d \in Listed(stored) : Honors(stored[d])
    /\ \A k \in Keys : cache[k] # None => cache[k].key = k /\ Honors(cache[k])
    /\ task.op = "register" /\ promised[task.key] = "home" => task.exit = "home"
    /\ task.old # None => Honors(task.old)

\* What an attempt recorded is what was asked, for the device as it was.
Asked ==
    task.at \in {"apply", "retract"} =>
        /\ peers[task.id] # None
        /\ peers[task.id].key = task.key /\ peers[task.id].exit = task.exit
        /\ stored = peers
        /\ task.old # None => /\ peers[task.id].host = task.old.host
                              /\ peers[task.id].exit = "service" <=> task.old.exit = "service"

\* The map knows the key that has an address, and a home user's address is routed home.
Served(k, h) ==
    /\ cache[k] # None
    /\ cache[k].host = h
    /\ cache[k].exit = "home" => h \in policy

Owning == \A h \in Hosts : owner[h] # None => Served(owner[h], h)
Others(p) == \A h \in Hosts : owner[h] \notin {None, p.key} => Served(owner[h], h)
Keyless(p) == \A h \in Hosts : owner[h] # p.key
Nobodys == \A h \in Hosts : owner[h] = None
NoAccept == Seq(RuleNames \ {"accept"})

\* The key of p may have its address although the map does not know it; nothing accepts its packets.
Astray(p) ==
    /\ cache[p.key] = None
    /\ Others(p)
    /\ \A h \in Hosts : owner[h] = p.key => h = p.host /\ (p.exit = "home" => chain[h] \in NoAccept)

\* Commands of a kind, then what is certain to follow them.
Ahead(S, t) == \E s \in Seq(S) : cmds = s \o t
Undoing(q) == {Cmd("policy del", q, None)} \cup {Cmd("delete", q, x) : x \in RuleNames}
Inserting(p) == {Cmd("insert", p, x) : x \in RuleNames}

\* A call is under way, with each command before having had its effect.
Taking(q, p, r) ==
    /\ cache[p.key] = q /\ q.key = p.key /\ q.host = p.host
    /\ \/ cmds = RemoveFrom(q, p, r)
       \/ Keyless(p) /\ Ahead(Undoing(q), Forget(p, r))

Placing(p) ==
    /\ cache[p.key] = None
    /\ \/ Owning /\ cmds = AddPolicy(p)
       \/ /\ Owning /\ Ahead(Inserting(p), SetKey(p))
          /\ p.exit = "home" => p.host \in policy
       \/ /\ Others(p) /\ cmds = Remember(p)
          /\ \A h \in Hosts : owner[h] = p.key => h = p.host
          /\ p.exit = "home" => p.host \in policy

\* SetPeer, as it goes on or was given up; and its roll-back after "wg set".
Entering(p) ==
    \/ Returned /\ Owning /\ (failed \/ cache[p.key] = p)
    \/ ~failed /\ Placing(p)
    \/ ~failed /\ Owning /\ \E q \in Peer : Taking(q, p, AddFrom(p))
Undone(p) == failed /\ Ahead(Undoing(p), <<>>) /\ Astray(p)

\* RemovePeer, and the one that takes out what a failed SetPeer left.
OnlyKey(p) == <<Cmd("wg remove", p, None)>> \o <<>>
Leaving(p) ==
    /\ Owning
    /\ \/ Returned /\ (failed \/ cache[p.key] = None)
       \/ ~failed /\ cmds = OnlyKey(p) /\ cache[p.key] = None
       \/ ~failed /\ \E q \in Peer : Taking(q, p, <<>>)
Retracting(p) == Leaving(p) \/ (~failed /\ cmds = OnlyKey(p) /\ Astray(p))

\* The device whose peer the backend is called for, and what the call does.
Still == Returned /\ Owning
Loops == {"drop", "disable", "set"}
Current == IF task.at \in Loops THEN task.now ELSE task.id
Busy ==
    \/ task.at \in Loops /\ task.now # None
    \/ task.at \in {"remove", "apply", "retract"}
    \/ task.at \in {"replace", "unsaved", "restore"} /\ peers[task.id] # None
Doing(p) ==
    /\ task.at \in {"drop", "disable", "remove"} => Leaving(p)
    /\ task.at = "replace" => IF p.key = task.key THEN Still ELSE Leaving(p)
    /\ task.at \in {"set", "apply"} => Entering(p) \/ Undone(p)
    /\ task.at = "retract" => Retracting(p)
    /\ task.at \in {"unsaved", "restore"} => Entering(p)
Running == IF Busy THEN \E p \in Peer : p = peers[Current] /\ Doing(p) ELSE Still

\* The map has a new key only once its peer is in place.
Fresh ==
    task.at \in {"apply", "retract"} /\ (task.old = None \/ task.old.key # task.key)
        /\ cache[task.key] # None => task.at = "apply" /\ Returned /\ ~failed

\* Up and Down may leave keys in the kernel, but then take the rules and the NAT first.
Bare == Nobodys \/ base = FALSE

Lowering ==
    \/ cmds \in {DownProgram, <<ForInterface("clean rules"), ForInterface("clean policies")>>, <<>>}
    \/ cmds = <<ForInterface("clean policies")>> /\ Bare

Lifting ==
    /\ cache = [k \in Keys |-> None]
    /\ \/ failed /\ Returned
       \/ failed /\ Nobodys /\ (Lowering \/ cmds = <<ForInterface("link scrap")>>)
       \/ /\ ~failed
          /\ \/ cmds \in {UpProgram,
                          <<ForInterface("clean rules"), ForInterface("clean policies"),
                            ForInterface("link add"), ForInterface("link alias"),
                            ForInterface("configure")>>}
             \/ /\ Bare
                /\ cmds \in {<<ForInterface("clean policies"), ForInterface("link add"),
                               ForInterface("link alias"), ForInterface("configure")>>,
                             <<ForInterface("link add"), ForInterface("link alias"),
                               ForInterface("configure")>>}
             \/ Nobodys /\ cmds = <<ForInterface("link alias"), ForInterface("configure")>>
             \/ Nobodys /\ cmds \in {<<ForInterface("configure")>>, <<>>} /\ link = "ours"

Safe ==
    /\ Honored /\ Asked
    /\ InUse => link = "ours" /\ Matches(peers) /\ Running /\ Fresh
    /\ ~InUse => /\ HomeNeverFallsBack
                 /\ task = Idle => Returned
                 /\ task.at = "up" => Lifting
                 /\ task.at = "down" => Lowering

\* The third inductive invariant.
SafeInv == faults <= 1 => Safe

\* The first of the commands of a kind, and what is left then.
LEMMA AheadNext ==
    ASSUME NEW S \in SUBSET Commands, NEW t \in Seq(Commands), Ahead(S, t)
    PROVE  \/ cmds = t
           \/ \E c \in S, s \in Seq(S) : s \o t \in Seq(Commands) /\ cmds = <<c>> \o (s \o t)
<1>1. PICK s \in Seq(S) : cmds = s \o t
  BY DEF Ahead
<1>2. CASE s = <<>>
  BY <1>1, <1>2, ConcatEmptySeq
<1>3. CASE s # <<>>
  <2> DEFINE c == Head(s)
             u == Tail(s)
  <2>1. c \in S /\ u \in Seq(S) /\ s = <<c>> \o u
    BY <1>3, HeadTailProperties
  <2> HIDE DEF c, u
  <2>2. <<c>> \in Seq(Commands) /\ u \in Seq(Commands)
    <3>1. c \in Commands
      BY <2>1
    <3>2. Seq(S) \subseteq Seq(Commands)
      BY SeqMonotonic
    <3> QED
      BY <2>1, <3>1, <3>2, ShortSequences
  <2>3. (<<c>> \o u) \o t = <<c>> \o (u \o t) /\ u \o t \in Seq(Commands)
    BY ONLY <2>2, ConcatAssociative, ConcatProperties, t \in Seq(Commands)
  <2> QED
    BY <1>1, <2>1, <2>3
<1> QED
  BY <1>2, <1>3

LEMMA KindsOfCommands ==
    ASSUME NEW p \in Peer
    PROVE  /\ Undoing(p) \in SUBSET Commands /\ Inserting(p) \in SUBSET Commands
           /\ \A c \in Undoing(p) : c.do \in {"delete", "policy del"} /\ c.peer = p
           /\ \A c \in Inserting(p) : c.do = "insert" /\ c.peer = p
<1>1. Undoing(p) \in SUBSET Commands /\ Inserting(p) \in SUBSET Commands
  BY CommandTypes DEF Undoing, Inserting, PeerCommands
<1>2. ASSUME NEW c \in Undoing(p)
      PROVE  c.do \in {"delete", "policy del"} /\ c.peer = p
  <2>1. CASE c = Cmd("policy del", p, None)
    BY <2>1 DEF Cmd
  <2>2. ASSUME NEW x \in RuleNames, c = Cmd("delete", p, x)
        PROVE  c.do \in {"delete", "policy del"} /\ c.peer = p
    BY <2>2 DEF Cmd
  <2> QED
    BY <2>1, <2>2 DEF Undoing
<1>3. ASSUME NEW c \in Inserting(p)
      PROVE  c.do = "insert" /\ c.peer = p
  <2>1. \E x \in RuleNames : c = Cmd("insert", p, x)
    BY DEF Inserting
  <2> QED
    BY <2>1 DEF Cmd
<1> QED
  BY <1>1, <1>2, <1>3

\* What configurePeerRouting and removePeerRouting run.
LEMMA RoutingKinds ==
    ASSUME NEW p \in Peer
    PROVE  /\ RoutingRemoval(p) \in Seq(Undoing(p))
           /\ p.exit = "vps" => InsertAccept(p) = <<Cmd("insert", p, "accept")>> \o SetKey(p)
           /\ InsertGuard(p) = <<Cmd("insert", p, "guard"), Cmd("insert", p, "return"),
                                 Cmd("insert", p, "out")>> \o SetKey(p)
           /\ <<Cmd("insert", p, "accept")>> \in Seq(Inserting(p))
           /\ <<Cmd("insert", p, "guard"), Cmd("insert", p, "return"), Cmd("insert", p, "out")>>
                  \in Seq(Inserting(p))
<1>1. \A x \in RuleNames : Cmd("delete", p, x) \in Undoing(p) /\ Cmd("insert", p, x) \in Inserting(p)
  BY DEF Undoing, Inserting
<1>2. Cmd("policy del", p, None) \in Undoing(p)
  BY DEF Undoing
<1> DEFINE D == Undoing(p)
           I == Inserting(p)
           dp == Cmd("policy del", p, None)
           dg == Cmd("delete", p, "guard")
           dr == Cmd("delete", p, "return")
           do == Cmd("delete", p, "out")
           da == Cmd("delete", p, "accept")
           ig == Cmd("insert", p, "guard")
           ir == Cmd("insert", p, "return")
           io == Cmd("insert", p, "out")
           ia == Cmd("insert", p, "accept")
<1>3. /\ dp \in D /\ dg \in D /\ dr \in D /\ do \in D /\ da \in D
      /\ ig \in I /\ ir \in I /\ io \in I /\ ia \in I
  BY <1>1, <1>2 DEF RuleNames
<1>4. SetKey(p) \in Seq(Commands) /\ ig \in Commands /\ ir \in Commands /\ io \in Commands
  BY <1>3, AddingTypes, KindsOfCommands
<1>5. /\ p.exit = "service" => RoutingRemoval(p) = <<>>
      /\ p.exit = "vps" => RoutingRemoval(p) = <<da>>
      /\ p.exit = "home" => RoutingRemoval(p) = <<dg, dr, do>> \o <<dp>>
  BY RoutingIs
<1>6. InsertGuard(p) = <<ig>> \o (<<ir>> \o (<<io>> \o SetKey(p)))
  BY DEF InsertGuard, InsertReturn, InsertOut
<1>7. p.exit \in {"vps", "home", "service"}
  BY DEF Peer, Exits
<1>8. InsertAccept(p) = <<ia>> \o SetKey(p)
  BY DEF InsertAccept
<1> HIDE DEF D, I, dp, dg, dr, do, da, ig, ir, io, ia
<1>9. /\ <<da>> \in Seq(D) /\ <<dg, dr, do>> \in Seq(D) /\ <<dp>> \in Seq(D) /\ <<>> \in Seq(D)
      /\ <<ia>> \in Seq(I) /\ <<ig, ir, io>> \in Seq(I)
  BY ONLY <1>3, ShortSequences, EmptySeq
<1>10. <<dg, dr, do>> \o <<dp>> \in Seq(D)
  BY ONLY <1>9, ConcatProperties
<1>11. <<ig, ir, io>> \o SetKey(p) = <<ig>> \o (<<ir>> \o (<<io>> \o SetKey(p)))
  <2>1. ThreeOf(ig, ir, io, SetKey(p)) = InFront(ig, InFront(ir, InFront(io, SetKey(p))))
    BY ONLY <1>4, CommandsInFront
  <2> QED
    BY ONLY <2>1 DEF ThreeOf, InFront
<1> QED
  BY <1>5, <1>6, <1>7, <1>8, <1>9, <1>10, <1>11 DEF D, I, ig, ir, io, ia

-----------------------------------------------------------------------------
(***************************************************************************)
(* One command of a call, whatever becomes of it.                          *)
(***************************************************************************)
LEMMA EntryEnds ==
    ASSUME BackendStep, NEW c \in Commands, NEW r \in Seq(Commands), cmds = <<c>> \o r,
           c.do \in {"remember", "forget"}
    PROVE  /\ cmds' = r /\ failed' = failed /\ UNCHANGED kernelVars
           /\ cache' = [cache EXCEPT ![c.peer.key] = IF c.do = "remember" THEN c.peer ELSE None]
<1>1. cmds # <<>> /\ Head(cmds) = c /\ Tail(cmds) = r
  BY NextCommand
<1>2. Bookkeeping(c) /\ Possible(c) /\ c.do \notin {"insert", "delete", "link delete"}
  BY DEF Bookkeeping, Possible
<1>3. RunBookkeeping
  BY <1>1, <1>2 DEF BackendStep, RunCommand, CommandRefused, CommandFails, QueryFails
<1> QED
  BY <1>1, <1>3 DEF RunBookkeeping

LEMMA CommandEnds ==
    ASSUME BackendStep, NEW c \in Commands, NEW r \in Seq(Commands), cmds = <<c>> \o r,
           c.do \notin {"remember", "forget"}
    PROVE  /\ cache' = cache
           /\ \/ cmds' = r /\ failed' = failed /\ Possible(c) /\ Change(c)
              \/ /\ cmds' = r /\ failed' = failed /\ c.do \in {"insert", "delete", "link delete"}
                 /\ IF c.do = "insert" THEN Insert(c) ELSE UNCHANGED kernelVars
              \/ /\ cmds' = Rollback(c) /\ failed' = TRUE
                 /\ \/ ~Possible(c) /\ UNCHANGED kernelVars
                    \/ /\ faults' = faults + 1
                       /\ UNCHANGED kernelVars \/ (Possible(c) /\ Change(c))
<1>1. cmds # <<>> /\ Head(cmds) = c /\ Tail(cmds) = r
  BY NextCommand
<1>2. ~Bookkeeping(c)
  BY DEF Bookkeeping
<1>3. CASE RunCommand
  BY <1>1, <1>3 DEF RunCommand
<1>4. CASE CommandRefused
  BY <1>1, <1>4 DEF CommandRefused, GiveUp
<1>5. CASE CommandFails
  BY <1>1, <1>5 DEF CommandFails, GiveUp, CountFault
<1>6. CASE QueryFails
  BY <1>1, <1>6 DEF QueryFails
<1>7. ~RunBookkeeping
  BY <1>1, <1>2 DEF RunBookkeeping
<1> QED
  BY <1>3, <1>4, <1>5, <1>6, <1>7 DEF BackendStep

\* A rule or a policy for a peer leaves the keys where they are.
LEMMA RoutingEnds ==
    ASSUME KernelTypes, BackendStep, NEW c \in Commands, NEW r \in Seq(Commands),
           cmds = <<c>> \o r, c.do \in {"insert", "delete", "policy add", "policy del"}
    PROVE  /\ UNCHANGED <<link, owner, cache>>
           /\ \/ /\ cmds' = r /\ failed' = failed
                 /\ c.do = "policy add" => c.peer.host \in policy'
              \/ cmds' = <<>> /\ failed' = TRUE
           /\ c.do # "policy del" => policy \subseteq policy'
           /\ policy \ {c.peer.host} \subseteq policy'
           /\ c.do # "insert" => \A h \in Hosts :
                 chain'[h] = chain[h] \/ (c.do = "delete" /\ chain'[h] = RemoveFirst(chain[h], c.rule))
<1>0. c.peer \in Peer /\ c.peer.host \in Hosts
  BY DEF Commands, PeerCommands, Peer
<1>1. Rollback(c) = <<>>
  BY DEF Rollback
<1>2. ASSUME Change(c)
      PROVE  /\ UNCHANGED <<link, owner>>
             /\ c.do = "policy add" => c.peer.host \in policy'
             /\ c.do # "policy del" => policy \subseteq policy'
             /\ policy \ {c.peer.host} \subseteq policy'
             /\ c.do # "insert" => \A h \in Hosts :
                   chain'[h] = chain[h] \/ (c.do = "delete" /\ chain'[h] = RemoveFirst(chain[h], c.rule))
  <2>1. CASE c.do = "insert"
    BY <1>2, <2>1 DEF Change, Insert, SetChain, kernelVars
  <2>2. CASE c.do = "delete"
    BY <1>2, <2>2 DEF Change, SetChain, kernelVars, KernelTypes
  <2>3. CASE c.do = "policy add"
    BY <1>2, <2>3 DEF Change, SetPolicy
  <2>4. CASE c.do = "policy del"
    BY <1>2, <2>4 DEF Change, SetPolicy
  <2> QED
    BY <2>1, <2>2, <2>3, <2>4
<1>3. /\ cache' = cache
      /\ \/ cmds' = r /\ failed' = failed /\ Change(c)
         \/ /\ cmds' = r /\ failed' = failed /\ c.do \in {"insert", "delete"}
            /\ IF c.do = "insert" THEN Insert(c) ELSE UNCHANGED kernelVars
         \/ /\ cmds' = <<>> /\ failed' = TRUE
            /\ UNCHANGED kernelVars \/ Change(c)
  <2>1. c.do \notin {"remember", "forget", "link delete"}
    OBVIOUS
  <2>2. /\ cache' = cache
        /\ \/ cmds' = r /\ failed' = failed /\ Possible(c) /\ Change(c)
           \/ /\ cmds' = r /\ failed' = failed /\ c.do \in {"insert", "delete", "link delete"}
              /\ IF c.do = "insert" THEN Insert(c) ELSE UNCHANGED kernelVars
           \/ /\ cmds' = Rollback(c) /\ failed' = TRUE
              /\ \/ ~Possible(c) /\ UNCHANGED kernelVars
                 \/ /\ faults' = faults + 1
                    /\ UNCHANGED kernelVars \/ (Possible(c) /\ Change(c))
    BY <2>1, CommandEnds
  <2> QED
    BY <1>1, <2>1, <2>2
<1>4. CASE UNCHANGED kernelVars /\ ~Change(c)
  BY <1>3, <1>4 DEF kernelVars
<1>5. CASE Insert(c) /\ c.do = "insert"
  BY <1>3, <1>5 DEF Insert, SetChain
<1>6. CASE Change(c)
  BY <1>2, <1>3, <1>6
<1> QED
  BY <1>3, <1>4, <1>5, <1>6

\* A key is set or removed, or it is not.
LEMMA KeyEnds ==
    ASSUME BackendStep, NEW p \in Peer, NEW do \in {"wg set", "wg remove"},
           NEW r \in Seq(Commands), cmds = <<Cmd(do, p, None)>> \o r, link = "ours"
    PROVE  /\ UNCHANGED <<link, chain, policy, cache>>
           /\ \/ cmds' = r /\ failed' = failed /\ IF do = "wg set" THEN WgSet(p) ELSE WgRemove(p)
              \/ /\ cmds' = IF do = "wg set" THEN RoutingRemoval(p) ELSE <<>>
                 /\ failed' = TRUE /\ faults' = faults + 1
                 /\ owner' = owner \/ IF do = "wg set" THEN WgSet(p) ELSE WgRemove(p)
<1> DEFINE c == Cmd(do, p, None)
<1>1. c \in Commands /\ c.do = do /\ c.peer = p
  BY CommandTypes DEF PeerCommands, Cmd
<1> HIDE DEF c
<1>2. Possible(c) /\ Rollback(c) = IF do = "wg set" THEN RoutingRemoval(p) ELSE <<>>
  BY <1>1 DEF Possible, Rollback
<1>3. Change(c) => IF do = "wg set" THEN WgSet(p) ELSE WgRemove(p)
  BY <1>1 DEF Change
<1>4. (WgSet(p) \/ WgRemove(p)) => UNCHANGED <<link, chain, policy>>
  BY DEF WgSet, WgRemove
<1>5. cmds = <<c>> \o r /\ c.do \notin {"remember", "forget", "insert", "delete", "link delete"}
  BY <1>1 DEF c
<1>6. /\ cache' = cache
      /\ \/ cmds' = r /\ failed' = failed /\ Change(c)
         \/ /\ cmds' = Rollback(c) /\ failed' = TRUE /\ faults' = faults + 1
            /\ UNCHANGED kernelVars \/ Change(c)
  BY <1>1, <1>2, <1>5, CommandEnds
<1> QED
  BY <1>2, <1>3, <1>4, <1>6 DEF kernelVars

\* The keys of the others stay served, because no other peer has the address of p.
LEMMA OthersStay ==
    ASSUME KernelTypes, NEW p \in Peer, Others(p), Fits(p), policy \ {p.host} \subseteq policy',
           \A k \in Keys \ {p.key} : cache'[k] = cache[k],
           \A h \in Hosts : owner'[h] \in {owner[h], None, p.key}
    PROVE  Others(p)'
<1> SUFFICES ASSUME NEW h \in Hosts, owner'[h] \notin {None, p.key}
             PROVE  Served(owner[h], h)'
  BY DEF Others
<1>1. owner'[h] = owner[h] /\ owner[h] \in Keys \ {p.key}
  BY DEF KernelTypes
<1>2. Served(owner[h], h)
  BY <1>1 DEF Others
<1>3. cache[owner[h]].host = h /\ cache[owner[h]].host # p.host
  BY <1>1, <1>2 DEF Served, Fits
<1> QED
  BY <1>1, <1>2, <1>3 DEF Served

LEMMA OwningIs ==
    ASSUME NEW p \in Peer
    PROVE  /\ Owning => Others(p)
           /\ Owning /\ cache[p.key] = None => Keyless(p)
           /\ Others(p) /\ Keyless(p) => Owning
           /\ Owning /\ cache[p.key] = None => Astray(p)
<1>1. p.key # None
  BY BackendAssumption DEF Peer
<1> QED
  BY <1>1 DEF Owning, Others, Keyless, Served, Astray

-----------------------------------------------------------------------------
(***************************************************************************)
(* The calls of the backend, step by step, whatever becomes of a command.  *)
(***************************************************************************)
LEMMA TakingStep ==
    ASSUME NEW p \in Peer, NEW q \in Peer, NEW r \in Seq(Commands), KernelTypes, CallTypes,
           BackendStep, link = "ours", Fits(p), Owning, ~failed, Taking(q, p, r)
    PROVE  /\ link' = "ours" /\ Owning'
           /\ \A k \in Keys \ {p.key} : cache'[k] = cache[k]
           /\ \/ ~failed' /\ Taking(q, p, r)' /\ cache' = cache
              \/ ~failed' /\ cmds' = r /\ cache'[p.key] = None
              \/ failed' /\ Returned' /\ cache' = cache
<1>0. /\ p.key \in Keys /\ p.host \in Hosts /\ failed = FALSE /\ p.key # None
      /\ cache[p.key] = q /\ q.key = p.key /\ q.host = p.host
  BY BackendAssumption DEF Peer, CallTypes, Taking
<1>1. CASE cmds = RemoveFrom(q, p, r)
  <2>1. /\ cmds = <<Cmd("wg remove", p, None)>> \o UnrouteFrom(q, p, r)
        /\ UnrouteFrom(q, p, r) \in Seq(Commands)
    BY <1>1, RemovingTypes DEF RemoveFrom
  <2>2. /\ UNCHANGED <<link, chain, policy, cache>>
        /\ \/ cmds' = UnrouteFrom(q, p, r) /\ failed' = failed /\ WgRemove(p)
           \/ cmds' = <<>> /\ failed' = TRUE /\ (owner' = owner \/ WgRemove(p))
    BY <2>1, KeyEnds
  <2>3. \A h \in Hosts : owner'[h] \in {owner[h], None}
    BY <2>2 DEF WgRemove
  <2>4. Owning'
    BY <2>2, <2>3 DEF Owning, Served
  <2>5. CASE cmds' = UnrouteFrom(q, p, r) /\ failed' = failed /\ WgRemove(p)
    <3>1. Keyless(p)'
      BY <1>0, <2>5 DEF Keyless, WgRemove
    <3>2. cmds' = RoutingRemoval(q) \o Forget(p, r) /\ RoutingRemoval(q) \in Seq(Undoing(q))
      BY <2>5, UnrouteFromIs, RoutingKinds DEF Forget
    <3>3. Ahead(Undoing(q), Forget(p, r))'
      BY <3>2 DEF Ahead
    <3> QED
      BY <1>0, <2>2, <2>4, <2>5, <3>1, <3>3 DEF Taking
  <2> QED
    BY <2>2, <2>4, <2>5 DEF Returned
<1>2. CASE Keyless(p) /\ Ahead(Undoing(q), Forget(p, r))
  <2>1. Forget(p, r) \in Seq(Commands) /\ Undoing(q) \in SUBSET Commands
    BY RemovingTypes, KindsOfCommands
  <2>2. CASE cmds = Forget(p, r)
    <3> DEFINE c == Cmd("forget", p, None)
    <3>1. c \in Commands /\ c.do = "forget" /\ c.peer = p
      BY CommandTypes DEF PeerCommands, Cmd
    <3>2. cmds = <<c>> \o r
      BY <2>2 DEF Forget
    <3> HIDE DEF c
    <3>3. /\ cmds' = r /\ failed' = failed /\ UNCHANGED kernelVars
          /\ cache' = [cache EXCEPT ![p.key] = None]
      BY <3>1, <3>2, EntryEnds
    <3>4. /\ cache'[p.key] = None /\ \A k \in Keys \ {p.key} : cache'[k] = cache[k]
          /\ owner' = owner /\ link' = link /\ policy' = policy
      BY <1>0, <3>3 DEF CallTypes, kernelVars
    <3>5. Owning'
      BY <1>2, <3>4 DEF Owning, Served, Keyless, KernelTypes
    <3> QED
      BY <1>0, <3>3, <3>4, <3>5
  <2>3. ASSUME NEW c \in Undoing(q), NEW s \in Seq(Undoing(q)), s \o Forget(p, r) \in Seq(Commands),
               cmds = <<c>> \o (s \o Forget(p, r))
        PROVE  /\ link' = "ours" /\ Owning' /\ cache' = cache
               /\ \/ ~failed' /\ Taking(q, p, r)'
                  \/ failed' /\ Returned'
    <3>1. c \in Commands /\ c.do \in {"delete", "policy del"} /\ c.peer = q
      BY <2>1, KindsOfCommands
    <3>2. /\ UNCHANGED <<link, owner, cache>> /\ policy \ {p.host} \subseteq policy'
          /\ \/ cmds' = s \o Forget(p, r) /\ failed' = failed
             \/ cmds' = <<>> /\ failed' = TRUE
      <4>1. c.do \in {"insert", "delete", "policy add", "policy del"} /\ c.peer.host = p.host
        BY <1>0, <3>1
      <4> QED
        BY <2>3, <3>1, <4>1, RoutingEnds
    <3>3. Others(p)' /\ Keyless(p)'
      <4>1. Others(p)
        BY OwningIs
      <4> QED
        BY <1>2, <3>2, <4>1, OthersStay DEF Keyless
    <3>4. Owning'
      BY <3>3 DEF Owning, Others, Keyless
    <3>5. cmds' = s \o Forget(p, r) => Ahead(Undoing(q), Forget(p, r))'
      BY DEF Ahead
    <3> QED
      BY <1>0, <3>2, <3>3, <3>4, <3>5 DEF Taking, Returned
  <2> QED
    BY <1>2, <2>1, <2>2, <2>3, AheadNext
<1> QED
  BY <1>1, <1>2 DEF Taking

LEMMA PlacingStep ==
    ASSUME NEW p \in Peer, KernelTypes, CallTypes, BackendStep, link = "ours", Fits(p),
           ~failed, Placing(p),
           faults' = faults + 1 /\ cmds = SetKey(p) /\ p.exit = "home" => chain[p.host] \in NoAccept
    PROVE  /\ link' = "ours"
           /\ \A k \in Keys \ {p.key} : cache'[k] = cache[k]
           /\ \/ ~failed' /\ Placing(p)' /\ cache' = cache
              \/ ~failed' /\ Returned' /\ Owning' /\ cache'[p.key] = p
              \/ failed' /\ Returned' /\ Owning' /\ cache' = cache
              \/ failed' /\ Undone(p)' /\ cache' = cache /\ faults' = faults + 1
<1>0. /\ p.key \in Keys /\ p.host \in Hosts /\ failed = FALSE /\ p.key # None /\ p # None
      /\ cache[p.key] = None
  BY BackendAssumption, NoneAssumption DEF Peer, CallTypes, Placing
<1>1. CASE Owning /\ cmds = AddPolicy(p)
  <2> DEFINE c == Cmd("policy add", p, None)
  <2>1. c \in Commands /\ c.do = "policy add" /\ c.peer = p
    BY CommandTypes DEF PeerCommands, Cmd
  <2>2. cmds = <<c>> \o InsertGuard(p) /\ InsertGuard(p) \in Seq(Commands)
    BY <1>1, AddingTypes DEF AddPolicy
  <2> HIDE DEF c
  <2>3. /\ UNCHANGED <<link, owner, cache>> /\ policy \subseteq policy'
        /\ \/ cmds' = InsertGuard(p) /\ failed' = failed /\ p.host \in policy'
           \/ cmds' = <<>> /\ failed' = TRUE
    BY <2>1, <2>2, RoutingEnds
  <2>4. Owning'
    BY <1>1, <2>3 DEF Owning, Served
  <2>5. cmds' = InsertGuard(p) => Ahead(Inserting(p), SetKey(p))'
    BY RoutingKinds DEF Ahead
  <2> QED
    BY <1>0, <2>3, <2>4, <2>5 DEF Placing, Returned
<1>2. CASE /\ Owning /\ Ahead(Inserting(p), SetKey(p))
           /\ p.exit = "home" => p.host \in policy
  <2>1. SetKey(p) \in Seq(Commands) /\ Inserting(p) \in SUBSET Commands
    BY AddingTypes, KindsOfCommands
  <2>2. Keyless(p) /\ Others(p) /\ Astray(p)
    BY <1>0, <1>2, OwningIs
  <2>3. CASE cmds = SetKey(p)
    <3>1. cmds = <<Cmd("wg set", p, None)>> \o Remember(p) /\ Remember(p) \in Seq(Commands)
      BY <2>3, AddingTypes DEF SetKey
    <3>2. /\ UNCHANGED <<link, chain, policy, cache>>
          /\ \/ cmds' = Remember(p) /\ failed' = failed /\ WgSet(p)
             \/ /\ cmds' = RoutingRemoval(p) /\ failed' = TRUE /\ faults' = faults + 1
                /\ owner' = owner \/ WgSet(p)
      BY <3>1, KeyEnds
    <3>3. /\ \A h \in Hosts : owner'[h] \in {owner[h], None, p.key}
          /\ \A h \in Hosts : owner'[h] = p.key => h = p.host
      BY <2>2, <3>2 DEF WgSet, Keyless
    <3>4. Others(p)'
      BY <2>2, <3>2, <3>3, OthersStay
    <3>5. cmds' = Remember(p) => Placing(p)'
      BY <1>0, <1>2, <3>2, <3>3, <3>4 DEF Placing
    <3>6. ASSUME cmds' = RoutingRemoval(p), failed' = TRUE, faults' = faults + 1
          PROVE  Undone(p)'
      <4>1. RoutingRemoval(p) \in Seq(Undoing(p)) /\ RoutingRemoval(p) \o <<>> = RoutingRemoval(p)
        BY RoutingKinds, ConcatEmptySeq
      <4>2. Ahead(Undoing(p), <<>>)'
        BY <3>6, <4>1 DEF Ahead
      <4>3. p.exit = "home" => chain[p.host] \in NoAccept
        BY <2>3, <3>6
      <4>4. Astray(p)'
        BY <1>0, <3>2, <3>3, <3>4, <4>3 DEF Astray, NoAccept
      <4> QED
        BY <3>6, <4>2, <4>4 DEF Undone
    <3> QED
      BY <1>0, <3>2, <3>5, <3>6
  <2>4. ASSUME NEW c \in Inserting(p), NEW s \in Seq(Inserting(p)), s \o SetKey(p) \in Seq(Commands),
               cmds = <<c>> \o (s \o SetKey(p))
        PROVE  /\ link' = "ours" /\ Owning' /\ cache' = cache
               /\ \/ ~failed' /\ Placing(p)'
                  \/ failed' /\ Returned'
    <3>1. c \in Commands /\ c.do = "insert" /\ c.peer = p
      BY <2>1, KindsOfCommands
    <3>2. /\ UNCHANGED <<link, owner, cache>> /\ policy \subseteq policy'
          /\ \/ cmds' = s \o SetKey(p) /\ failed' = failed
             \/ cmds' = <<>> /\ failed' = TRUE
      BY <2>4, <3>1, RoutingEnds
    <3>3. Owning'
      BY <1>2, <3>2 DEF Owning, Served
    <3>4. cmds' = s \o SetKey(p) => Ahead(Inserting(p), SetKey(p))'
      BY DEF Ahead
    <3> QED
      BY <1>0, <1>2, <3>2, <3>3, <3>4 DEF Placing, Returned
  <2> QED
    BY <1>2, <2>1, <2>3, <2>4, AheadNext
<1>3. CASE /\ Others(p) /\ cmds = Remember(p)
           /\ \A h \in Hosts : owner[h] = p.key => h = p.host
           /\ p.exit = "home" => p.host \in policy
  <2> DEFINE c == Cmd("remember", p, None)
  <2>1. c \in Commands /\ c.do = "remember" /\ c.peer = p
    BY CommandTypes DEF PeerCommands, Cmd
  <2>2. cmds = <<c>> \o <<>> /\ <<>> \in Seq(Commands)
    BY <1>3, EmptySeq DEF Remember
  <2> HIDE DEF c
  <2>3. /\ cmds' = <<>> /\ failed' = failed /\ UNCHANGED kernelVars
        /\ cache' = [cache EXCEPT ![p.key] = p]
    BY <2>1, <2>2, EntryEnds
  <2>4. /\ cache'[p.key] = p /\ \A k \in Keys \ {p.key} : cache'[k] = cache[k]
        /\ owner' = owner /\ link' = link /\ policy' = policy
    BY <1>0, <2>3 DEF CallTypes, kernelVars
  <2>5. ASSUME NEW h \in Hosts, owner'[h] # None
        PROVE  Served(owner[h], h)'
    <3>1. CASE owner[h] = p.key
      BY <1>0, <1>3, <2>4, <3>1 DEF Served
    <3>2. CASE owner[h] # p.key
      <4>1. owner[h] \in Keys \ {p.key} /\ Served(owner[h], h)
        BY <1>3, <2>4, <2>5, <3>2 DEF Others, KernelTypes
      <4> QED
        BY <2>4, <4>1 DEF Served
    <3> QED
      BY <3>1, <3>2
  <2>6. Owning'
    BY <2>5 DEF Owning
  <2> QED
    BY <1>0, <2>3, <2>4, <2>6 DEF Returned
<1> QED
  BY <1>1, <1>2, <1>3 DEF Placing

LEMMA PlacingAtFirst ==
    ASSUME NEW p \in Peer, cmds' = AddFrom(p), cache'[p.key] = None, Owning'
    PROVE  Placing(p)'
<1>1. p.exit \in {"vps", "home", "service"}
  BY DEF Peer, Exits
<1>2. CASE p.exit = "home"
  BY <1>2 DEF AddFrom, Placing
<1>3. CASE p.exit = "vps"
  <2>1. Ahead(Inserting(p), SetKey(p))'
    BY <1>3, RoutingKinds DEF AddFrom, Ahead
  <2> QED
    BY <1>3, <2>1 DEF Placing
<1>4. CASE p.exit = "service"
  <2>1. cmds' = SetKey(p) /\ <<>> \o SetKey(p) = SetKey(p) /\ <<>> \in Seq(Inserting(p))
    BY <1>4, AddingTypes, ConcatEmptySeq, EmptySeq DEF AddFrom
  <2>2. Ahead(Inserting(p), SetKey(p))'
    BY <2>1 DEF Ahead
  <2> QED
    BY <1>4, <2>2 DEF Placing
<1> QED
  BY <1>1, <1>2, <1>3, <1>4

LEMMA StepRuns ==
    ASSUME BackendStep
    PROVE  ~Returned
<1> QED
  BY DEF BackendStep, RunBookkeeping, RunCommand, CommandRefused, CommandFails, QueryFails, Returned

\* SetPeer.  Only a "wg set" that was killed leaves a key that the map does not know.
LEMMA EnteringStep ==
    ASSUME NEW p \in Peer, KernelTypes, CallTypes, BackendStep, link = "ours", Fits(p), Entering(p),
           faults' = faults + 1 /\ cmds = SetKey(p) /\ p.exit = "home" => chain[p.host] \in NoAccept
    PROVE  /\ link' = "ours"
           /\ \A k \in Keys \ {p.key} : cache'[k] = cache[k]
           /\ cache'[p.key] \in {cache[p.key], None, p}
           /\ cache[p.key] = None /\ cache'[p.key] # None => Returned' /\ ~failed'
           /\ Entering(p)' \/ (Undone(p)' /\ faults' = faults + 1)
<1>1. ~Returned
  BY StepRuns
<1>2. CASE ~failed /\ Placing(p)
  <2>1. /\ link' = "ours"
        /\ \A k \in Keys \ {p.key} : cache'[k] = cache[k]
        /\ \/ ~failed' /\ Placing(p)' /\ cache' = cache
           \/ ~failed' /\ Returned' /\ Owning' /\ cache'[p.key] = p
           \/ failed' /\ Returned' /\ Owning' /\ cache' = cache
           \/ failed' /\ Undone(p)' /\ cache' = cache /\ faults' = faults + 1
    BY <1>2, PlacingStep
  <2> QED
    BY <2>1 DEF Entering
<1>3. ASSUME ~failed, Owning, NEW q \in Peer, Taking(q, p, AddFrom(p))
      PROVE  /\ link' = "ours"
             /\ \A k \in Keys \ {p.key} : cache'[k] = cache[k]
             /\ cache'[p.key] \in {cache[p.key], None}
             /\ Entering(p)'
  <2>1. /\ link' = "ours" /\ Owning'
        /\ \A k \in Keys \ {p.key} : cache'[k] = cache[k]
        /\ \/ ~failed' /\ Taking(q, p, AddFrom(p))' /\ cache' = cache
           \/ ~failed' /\ cmds' = AddFrom(p) /\ cache'[p.key] = None
           \/ failed' /\ Returned' /\ cache' = cache
    <3>1. AddFrom(p) \in Seq(Commands)
      BY AddingTypes
    <3>2. PICK r \in Seq(Commands) : r = AddFrom(p)
      BY <3>1
    <3> QED
      BY <1>3, <3>2, TakingStep
  <2>2. cmds' = AddFrom(p) /\ cache'[p.key] = None => Placing(p)'
    BY <2>1, PlacingAtFirst
  <2> QED
    BY <2>1, <2>2 DEF Entering
<1> QED
  BY <1>1, <1>2, <1>3 DEF Entering

\* The rules of the roll-back.
LEMMA UndoneStep ==
    ASSUME NEW p \in Peer, KernelTypes, CallTypes, BackendStep, link = "ours", Fits(p), Undone(p)
    PROVE  link' = "ours" /\ cache' = cache /\ Undone(p)'
<1>1. <<>> \in Seq(Commands) /\ Undoing(p) \in SUBSET Commands /\ ~Returned
  BY EmptySeq, KindsOfCommands, StepRuns
<1>2. PICK c \in Undoing(p), s \in Seq(Undoing(p)) :
          s \o <<>> \in Seq(Commands) /\ cmds = <<c>> \o (s \o <<>>)
  BY <1>1, AheadNext DEF Undone, Returned
<1>3. c \in Commands /\ c.do \in {"delete", "policy del"} /\ c.peer = p
  BY <1>1, KindsOfCommands
<1>4. /\ UNCHANGED <<link, owner, cache>>
      /\ failed' /\ (cmds' = s \o <<>> \/ cmds' = <<>>)
      /\ policy \ {p.host} \subseteq policy'
      /\ \A h \in Hosts : chain'[h] = chain[h] \/ chain'[h] = RemoveFirst(chain[h], c.rule)
  <2>1. c.do \in {"insert", "delete", "policy add", "policy del"} /\ c.do # "insert"
    BY <1>3
  <2> QED
    BY <1>2, <1>3, <2>1, RoutingEnds DEF Undone
<1>5. Ahead(Undoing(p), <<>>)'
  <2>1. <<>> \in Seq(Undoing(p)) /\ <<>> \o <<>> = <<>>
    BY <1>1, EmptySeq, ConcatEmptySeq
  <2> QED
    BY <1>4, <2>1 DEF Ahead
<1>6. Others(p)'
  BY <1>4, OthersStay DEF Undone, Astray
<1>7. ASSUME NEW h \in Hosts, owner[h] = p.key, p.exit = "home"
      PROVE  chain'[h] \in NoAccept
  BY <1>4, <1>7, DeleteTypes DEF Undone, Astray, NoAccept
<1>8. Astray(p)'
  BY <1>4, <1>6, <1>7 DEF Undone, Astray
<1> QED
  BY <1>4, <1>5, <1>8 DEF Undone

\* RemovePeer.
LEMMA LeavingStep ==
    ASSUME NEW p \in Peer, KernelTypes, CallTypes, BackendStep, link = "ours", Fits(p), Leaving(p)
    PROVE  /\ link' = "ours"
           /\ \A k \in Keys \ {p.key} : cache'[k] = cache[k]
           /\ cache'[p.key] \in {cache[p.key], None}
           /\ Leaving(p)'
<1>1. ~Returned
  BY StepRuns
<1>2. CASE ~failed /\ cmds = OnlyKey(p) /\ cache[p.key] = None
  <2>1. /\ UNCHANGED <<link, policy, cache>> /\ cmds' = <<>>
        /\ owner' = owner \/ WgRemove(p)
    BY <1>2, KeyEnds, EmptySeq DEF OnlyKey
  <2>2. \A h \in Hosts : owner'[h] \in {owner[h], None}
    BY <2>1 DEF WgRemove
  <2>3. Owning'
    BY <2>1, <2>2 DEF Leaving, Owning, Served
  <2> QED
    BY <1>2, <2>1, <2>3 DEF Leaving, Returned
<1>3. ASSUME ~failed, NEW q \in Peer, Taking(q, p, <<>>)
      PROVE  /\ link' = "ours"
             /\ \A k \in Keys \ {p.key} : cache'[k] = cache[k]
             /\ cache'[p.key] \in {cache[p.key], None}
             /\ Leaving(p)'
  <2>1. /\ link' = "ours" /\ Owning'
        /\ \A k \in Keys \ {p.key} : cache'[k] = cache[k]
        /\ \/ ~failed' /\ Taking(q, p, <<>>)' /\ cache' = cache
           \/ ~failed' /\ cmds' = <<>> /\ cache'[p.key] = None
           \/ failed' /\ Returned' /\ cache' = cache
    <3>1. PICK r \in Seq(Commands) : r = <<>>
      BY EmptySeq
    <3> QED
      BY <1>3, <3>1, TakingStep DEF Leaving
  <2> QED
    BY <2>1 DEF Leaving, Returned
<1> QED
  BY <1>1, <1>2, <1>3 DEF Leaving

\* The removal after a failed SetPeer: it takes the key out, unless a second fault hits it.
LEMMA OnlyKeyStep ==
    ASSUME NEW p \in Peer, KernelTypes, CallTypes, BackendStep, link = "ours",
           ~failed, cmds = OnlyKey(p), Astray(p), faults' # faults + 1
    PROVE  link' = "ours" /\ cache' = cache /\ Leaving(p)'
<1>1. /\ UNCHANGED <<link, policy, cache>> /\ cmds' = <<>> /\ failed' = failed
      /\ WgRemove(p)
  BY KeyEnds, EmptySeq DEF OnlyKey
<1>2. p.key # None
  BY BackendAssumption DEF Peer
<1>3. ASSUME NEW h \in Hosts, owner'[h] # None
      PROVE  Served(owner[h], h)'
  <2>1. owner'[h] = owner[h] /\ owner[h] # p.key
    BY <1>1, <1>3 DEF WgRemove
  <2> QED
    BY <1>1, <1>3, <2>1 DEF Astray, Others, Served
<1>4. Owning'
  BY <1>3 DEF Owning
<1> QED
  BY <1>1, <1>4 DEF Leaving, Returned, Astray

\* Up and Down, whatever becomes of a command.
LEMMA BareIsSafe ==
    Bare => HomeNeverFallsBack
<1> QED
  BY DEF Bare, Nobodys, HomeNeverFallsBack, LeavesAtVPS

LEMMA InterfaceChanges ==
    ASSUME NEW do \in InterfaceCommands, Change(ForInterface(do))
    PROVE  /\ do \in {"link delete", "link scrap", "link add", "link alias"} => Nobodys'
           /\ do \in {"clean rules", "clean policies", "configure"} => owner' = owner
           /\ do = "clean rules" => base' = FALSE
           /\ do = "clean policies" => base' = base
           /\ do = "link alias" => link' = "ours"
           /\ do = "configure" => link' = link
<1>1. ForInterface(do).do = do
  BY DEF ForInterface, Cmd
<1>2. CASE do \in {"link delete", "link scrap", "link add", "link alias"}
  BY <1>1, <1>2 DEF Change, SetLink, Nobodys
<1>3. CASE do \in {"clean rules", "clean policies", "configure"}
  BY <1>1, <1>3 DEF Change, SetBase, SetPolicy
<1> QED
  BY <1>2, <1>3 DEF InterfaceCommands

LEMMA HeadFirst ==
    ASSUME NEW S, NEW s \in Seq(S), s # <<>>
    PROVE  s = <<Head(s)>> \o Tail(s)
<1> QED
  BY HeadTailProperties

LEMMA InterfaceEnds ==
    ASSUME CallTypes, BackendStep, NEW do \in InterfaceCommands, NEW r \in Seq(Commands),
           Head(cmds) = ForInterface(do), Tail(cmds) = r
    PROVE  /\ cache' = cache
           /\ Nobodys => Nobodys'
           /\ Bare /\ do # "configure" => Bare'
           /\ \/ UNCHANGED kernelVars
              \/ do \in {"link delete", "link scrap", "link add", "link alias"} /\ Nobodys'
              \/ do = "clean rules" /\ Bare'
              \/ do \in {"clean policies", "configure"}
           /\ \/ /\ cmds' = r /\ failed' = failed
                 /\ do \in {"link scrap", "link add", "link alias"} => Nobodys'
                 /\ do = "clean rules" => Bare'
                 /\ do = "link alias" => link' = "ours"
                 /\ do = "configure" => link' = link
              \/ cmds' = Rollback(ForInterface(do)) /\ failed' = TRUE
<1> DEFINE c == ForInterface(do)
<1>1. c \in Commands /\ c.do = do
  BY CommandTypes DEF ForInterface, Cmd
<1>2. cmds # <<>> /\ cmds \in Seq(Commands)
  BY StepRuns DEF CallTypes, Returned
<1>3. cmds = <<c>> \o r
  BY <1>2, HeadFirst DEF c
<1>4. Change(c) => /\ do \in {"link delete", "link scrap", "link add", "link alias"} => Nobodys'
                   /\ do \in {"clean rules", "clean policies", "configure"} => owner' = owner
                   /\ do = "clean rules" => base' = FALSE
                   /\ do = "clean policies" => base' = base
                   /\ do = "link alias" => link' = "ours"
                   /\ do = "configure" => link' = link
  BY InterfaceChanges
<1> HIDE DEF c
<1>5. do \notin {"remember", "forget", "insert", "delete"}
  BY DEF InterfaceCommands
<1>6. /\ cache' = cache
      /\ \/ cmds' = r /\ failed' = failed /\ Change(c)
         \/ cmds' = r /\ failed' = failed /\ do = "link delete" /\ UNCHANGED kernelVars
         \/ cmds' = Rollback(c) /\ failed' = TRUE /\ (UNCHANGED kernelVars \/ Change(c))
  BY <1>1, <1>3, <1>5, CommandEnds
<1>7. /\ Nobodys => Nobodys'
      /\ Bare /\ do # "configure" => Bare'
      /\ \/ UNCHANGED kernelVars
         \/ do \in {"link delete", "link scrap", "link add", "link alias"} /\ Nobodys'
         \/ do = "clean rules" /\ Bare'
         \/ do \in {"clean policies", "configure"}
  <2>1. CASE UNCHANGED kernelVars
    BY <2>1 DEF kernelVars, Nobodys, Bare
  <2>2. CASE Change(c)
    <3>1. CASE Nobodys'
      BY <1>4, <2>2, <3>1 DEF Bare, InterfaceCommands
    <3>2. CASE ~Nobodys'
      BY <1>4, <2>2, <3>2 DEF Nobodys, Bare, InterfaceCommands
    <3> QED
      BY <3>1, <3>2
  <2> QED
    BY <1>6, <2>1, <2>2
<1> QED
  BY <1>4, <1>6, <1>7 DEF c, Bare

LEMMA StaysSafe ==
    ASSUME HomeNeverFallsBack, promised' = promised, UNCHANGED kernelVars \/ Bare'
    PROVE  HomeNeverFallsBack'
<1>1. CASE UNCHANGED kernelVars
  BY <1>1 DEF kernelVars, HomeNeverFallsBack, LeavesAtVPS, UplinkAccepts
<1>2. CASE Bare'
  BY <1>2 DEF Bare, Nobodys, HomeNeverFallsBack, LeavesAtVPS
<1> QED
  BY <1>1, <1>2

LEMMA LoweringStep ==
    ASSUME CallTypes, BackendStep, Lowering, HomeNeverFallsBack, promised' = promised
    PROVE  /\ Lowering' /\ HomeNeverFallsBack' /\ cache' = cache
           /\ failed => failed'
           /\ Nobodys => Nobodys'
<1> DEFINE a == ForInterface("link delete")
           b == ForInterface("clean rules")
           c == ForInterface("clean policies")
<1>1. a \in Commands /\ b \in Commands /\ c \in Commands
  BY InterfaceSequences DEF InterfaceCommands
<1>2. DownProgram = <<a, b, c>> /\ cmds # <<>>
  BY StepRuns DEF DownProgram, Returned
<1>3. Rollback(a) = <<>> /\ Rollback(b) = <<>> /\ Rollback(c) = <<>>
  BY DEF Rollback, ForInterface, Cmd
<1> HIDE DEF a, b, c
<1>4. /\ Head(<<a, b, c>>) = a /\ Tail(<<a, b, c>>) = <<b, c>> /\ <<b, c>> \in Seq(Commands)
      /\ Head(<<b, c>>) = b /\ Tail(<<b, c>>) = <<c>> /\ <<c>> \in Seq(Commands)
      /\ Head(<<c>>) = c /\ Tail(<<c>>) = <<>> /\ <<>> \in Seq(Commands)
  BY <1>1, SixCommands
<1>8. Lowering' <=> \/ cmds' = <<a, b, c>> \/ cmds' = <<b, c>> \/ cmds' = <<>>
                     \/ (cmds' = <<c>> /\ Bare')
  BY <1>2 DEF Lowering, b, c
<1>5. CASE cmds = <<a, b, c>>
  <2>1. Head(cmds) = ForInterface("link delete") /\ Tail(cmds) = <<b, c>>
    BY <1>4, <1>5 DEF a
  <2>2. /\ cache' = cache /\ (Nobodys => Nobodys') /\ (UNCHANGED kernelVars \/ Nobodys')
        /\ (cmds' = <<b, c>> /\ failed' = failed) \/ (cmds' = <<>> /\ failed' = TRUE)
    BY <1>3, <1>4, <2>1, InterfaceEnds DEF InterfaceCommands, a
  <2>3. HomeNeverFallsBack'
    BY <2>2, StaysSafe DEF Bare
  <2> QED
    BY <1>8, <2>2, <2>3 DEF Bare
<1>6. CASE cmds = <<b, c>>
  <2>1. Head(cmds) = ForInterface("clean rules") /\ Tail(cmds) = <<c>>
    BY <1>4, <1>6 DEF b
  <2>2. /\ cache' = cache /\ (Nobodys => Nobodys') /\ (UNCHANGED kernelVars \/ Bare')
        /\ (cmds' = <<c>> /\ failed' = failed /\ Bare') \/ (cmds' = <<>> /\ failed' = TRUE)
    BY <1>3, <1>4, <2>1, InterfaceEnds DEF InterfaceCommands, b
  <2>3. HomeNeverFallsBack'
    BY <2>2, StaysSafe DEF Bare
  <2> QED
    BY <1>8, <2>2, <2>3 DEF Bare
<1>7. CASE cmds = <<c>> /\ Bare
  <2>1. Head(cmds) = ForInterface("clean policies") /\ Tail(cmds) = <<>>
    BY <1>4, <1>7 DEF c
  <2>2. /\ cache' = cache /\ (Nobodys => Nobodys') /\ Bare'
        /\ (cmds' = <<>> /\ failed' = failed) \/ (cmds' = <<>> /\ failed' = TRUE)
    BY <1>3, <1>4, <1>7, <2>1, InterfaceEnds DEF InterfaceCommands, c
  <2>3. HomeNeverFallsBack'
    BY <2>2, StaysSafe DEF Bare
  <2> QED
    BY <1>8, <2>2, <2>3 DEF Bare
<1> QED
  BY <1>2, <1>5, <1>6, <1>7 DEF Lowering, a, b, c

LEMMA LiftingStep ==
    ASSUME CallTypes, BackendStep, Lifting, HomeNeverFallsBack, promised' = promised
    PROVE  Lifting' /\ HomeNeverFallsBack'
<1> DEFINE a == ForInterface("link delete")
           b == ForInterface("clean rules")
           c == ForInterface("clean policies")
           d == ForInterface("link add")
           e == ForInterface("link alias")
           f == ForInterface("configure")
           x == ForInterface("link scrap")
<1>1. /\ a \in Commands /\ b \in Commands /\ c \in Commands
      /\ d \in Commands /\ e \in Commands /\ f \in Commands /\ x \in Commands
  BY InterfaceSequences DEF InterfaceCommands
<1>2. UpProgram = <<a, b, c, d, e, f>> /\ cmds # <<>>
  BY InterfaceSequences, StepRuns DEF Returned
<1>3. /\ Rollback(a) = <<>> /\ Rollback(b) = <<>> /\ Rollback(c) = <<>> /\ Rollback(d) = <<>>
      /\ Rollback(e) = <<x>> /\ Rollback(f) = DownProgram /\ Rollback(x) = <<>>
  BY DEF Rollback, ForInterface, Cmd
<1> HIDE DEF a, b, c, d, e, f, x
<1>4. /\ Head(<<a, b, c, d, e, f>>) = a /\ Tail(<<a, b, c, d, e, f>>) = <<b, c, d, e, f>>
      /\ Head(<<b, c, d, e, f>>) = b /\ Tail(<<b, c, d, e, f>>) = <<c, d, e, f>>
      /\ Head(<<c, d, e, f>>) = c /\ Tail(<<c, d, e, f>>) = <<d, e, f>>
      /\ Head(<<d, e, f>>) = d /\ Tail(<<d, e, f>>) = <<e, f>>
      /\ Head(<<e, f>>) = e /\ Tail(<<e, f>>) = <<f>>
      /\ Head(<<f>>) = f /\ Tail(<<f>>) = <<>>
      /\ <<b, c, d, e, f>> \in Seq(Commands) /\ <<c, d, e, f>> \in Seq(Commands)
      /\ <<d, e, f>> \in Seq(Commands) /\ <<e, f>> \in Seq(Commands)
      /\ <<f>> \in Seq(Commands) /\ <<>> \in Seq(Commands)
  BY <1>1, SixCommands
<1>5. Head(<<x>>) = x /\ Tail(<<x>>) = <<>>
  BY <1>1, SixCommands
<1>6. cache = [k \in Keys |-> None]
  BY DEF Lifting
<1>15. Lifting' <=>
         /\ cache' = [k \in Keys |-> None]
         /\ \/ failed' /\ cmds' = <<>>
            \/ failed' /\ Nobodys' /\ (Lowering' \/ cmds' = <<x>>)
            \/ /\ ~failed'
               /\ \/ cmds' = <<a, b, c, d, e, f>> \/ cmds' = <<b, c, d, e, f>>
                  \/ Bare' /\ (cmds' = <<c, d, e, f>> \/ cmds' = <<d, e, f>>)
                  \/ Nobodys' /\ cmds' = <<e, f>>
                  \/ Nobodys' /\ (cmds' = <<f>> \/ cmds' = <<>>) /\ link' = "ours"
  BY <1>2 DEF Lifting, Returned, b, c, d, e, f, x
<1>16. failed \in BOOLEAN
  BY DEF CallTypes
<1>7. CASE failed /\ Nobodys /\ Lowering
  BY <1>6, <1>7, LoweringStep DEF Lifting
<1>8. CASE failed /\ Nobodys /\ cmds = <<x>>
  <2>1. Head(cmds) = ForInterface("link scrap") /\ Tail(cmds) = <<>>
    BY <1>5, <1>8 DEF x
  <2>2. /\ cache' = cache /\ Nobodys' /\ cmds' = <<>> /\ failed'
    BY <1>3, <1>4, <1>8, <2>1, InterfaceEnds DEF InterfaceCommands, x
  <2>3. HomeNeverFallsBack'
    BY <2>2, StaysSafe DEF Bare
  <2> QED
    BY <1>6, <2>2, <2>3 DEF Lifting, Returned, Bare
<1>9. CASE ~failed /\ cmds = <<a, b, c, d, e, f>>
  <2>1. Head(cmds) = ForInterface("link delete") /\ Tail(cmds) = <<b, c, d, e, f>>
    BY <1>4, <1>9 DEF a
  <2>2. /\ cache' = cache /\ (UNCHANGED kernelVars \/ Nobodys')
        /\ (cmds' = <<b, c, d, e, f>> /\ failed' = failed) \/ (cmds' = <<>> /\ failed' = TRUE)
    BY <1>3, <1>4, <2>1, InterfaceEnds DEF InterfaceCommands, a
  <2>3. HomeNeverFallsBack'
    BY <2>2, StaysSafe DEF Bare
  <2> QED
    BY <1>6, <1>9, <1>15, <1>16, <2>2, <2>3 DEF Bare
<1>10. CASE ~failed /\ cmds = <<b, c, d, e, f>>
  <2>1. Head(cmds) = ForInterface("clean rules") /\ Tail(cmds) = <<c, d, e, f>>
    BY <1>4, <1>10 DEF b
  <2>2. /\ cache' = cache /\ (UNCHANGED kernelVars \/ Bare')
        /\ (cmds' = <<c, d, e, f>> /\ failed' = failed /\ Bare') \/ (cmds' = <<>> /\ failed' = TRUE)
    BY <1>3, <1>4, <2>1, InterfaceEnds DEF InterfaceCommands, b
  <2>3. HomeNeverFallsBack'
    BY <2>2, StaysSafe DEF Bare
  <2> QED
    BY <1>6, <1>10, <1>15, <1>16, <2>2, <2>3 DEF Bare
<1>11. CASE ~failed /\ Bare /\ cmds = <<c, d, e, f>>
  <2>1. Head(cmds) = ForInterface("clean policies") /\ Tail(cmds) = <<d, e, f>>
    BY <1>4, <1>11 DEF c
  <2>2. /\ cache' = cache /\ Bare'
        /\ (cmds' = <<d, e, f>> /\ failed' = failed) \/ (cmds' = <<>> /\ failed' = TRUE)
    BY <1>3, <1>4, <1>11, <2>1, InterfaceEnds DEF InterfaceCommands, c
  <2>3. HomeNeverFallsBack'
    BY <2>2, StaysSafe DEF Bare
  <2> QED
    BY <1>6, <1>11, <1>15, <1>16, <2>2, <2>3 DEF Bare
<1>12. CASE ~failed /\ Bare /\ cmds = <<d, e, f>>
  <2>1. Head(cmds) = ForInterface("link add") /\ Tail(cmds) = <<e, f>>
    BY <1>4, <1>12 DEF d
  <2>2. /\ cache' = cache /\ Bare'
        /\ (cmds' = <<e, f>> /\ failed' = failed /\ Nobodys') \/ (cmds' = <<>> /\ failed' = TRUE)
    BY <1>3, <1>4, <1>12, <2>1, InterfaceEnds DEF InterfaceCommands, d
  <2>3. HomeNeverFallsBack'
    BY <2>2, StaysSafe DEF Bare
  <2> QED
    BY <1>6, <1>12, <1>15, <1>16, <2>2, <2>3 DEF Bare
<1>13. CASE ~failed /\ Nobodys /\ cmds = <<e, f>>
  <2>1. Head(cmds) = ForInterface("link alias") /\ Tail(cmds) = <<f>>
    BY <1>4, <1>13 DEF e
  <2>2. /\ cache' = cache /\ Nobodys'
        /\ (cmds' = <<f>> /\ failed' = failed /\ link' = "ours") \/ (cmds' = <<x>> /\ failed' = TRUE)
    BY <1>3, <1>4, <1>13, <2>1, InterfaceEnds DEF InterfaceCommands, e
  <2>3. HomeNeverFallsBack'
    BY <2>2, StaysSafe DEF Bare
  <2> QED
    BY <1>6, <1>13, <1>15, <1>16, <2>2, <2>3 DEF Bare
<1>14. CASE ~failed /\ Nobodys /\ cmds = <<f>> /\ link = "ours"
  <2>1. Head(cmds) = ForInterface("configure") /\ Tail(cmds) = <<>>
    BY <1>4, <1>14 DEF f
  <2>2. /\ cache' = cache /\ Nobodys'
        /\ \/ cmds' = <<>> /\ failed' = failed /\ link' = "ours"
           \/ cmds' = DownProgram /\ failed' = TRUE
    BY <1>3, <1>4, <1>14, <2>1, InterfaceEnds DEF InterfaceCommands, f
  <2>3. HomeNeverFallsBack'
    BY <2>2, StaysSafe DEF Bare
  <2> QED
    BY <1>6, <1>14, <1>15, <1>16, <2>2, <2>3 DEF Lowering
<1> QED
  BY <1>2, <1>7, <1>8, <1>9, <1>10, <1>11, <1>12, <1>13, <1>14
     DEF Lifting, Returned, a, b, c, d, e, f, x

-----------------------------------------------------------------------------
(***************************************************************************)
(* A call begins, and has returned.                                        *)
(***************************************************************************)
\* The backend knows p, if at all, by the key and the address that p has.
Known(p) == Fits(p) /\ (cache[p.key] # None => cache[p.key].key = p.key)

LEMMA KeptOwning ==
    ASSUME UNCHANGED <<kernelVars, cache>>
    PROVE  /\ Owning' <=> Owning
           /\ \A p \in Peer : Astray(p)' <=> Astray(p)
<1>1. UNCHANGED <<link, owner, chain, policy, cache>>
  BY DEF kernelVars
<1> QED
  BY <1>1 DEF Owning, Astray, Others, Served

LEMMA CallLeaving ==
    ASSUME NEW p \in Peer, CallTypes, Owning, Known(p),
           cmds' = RemoveProgram(p), failed' = FALSE, UNCHANGED <<kernelVars, cache>>
    PROVE  Leaving(p)'
<1>1. Owning'
  BY KeptOwning
<1>2. cmds' = IF cache[p.key] = None THEN <<Cmd("wg remove", p, None)>> \o <<>>
              ELSE RemoveFrom(cache[p.key], p, <<>>)
  BY RemoveProgramIs DEF CallTypes
<1>3. CASE cache[p.key] = None
  BY <1>1, <1>2, <1>3 DEF Leaving, OnlyKey
<1>4. CASE cache[p.key] # None
  <2>1. PICK q \in Peer : q = cache[p.key]
    BY <1>4 DEF CallTypes, Peer
  <2>2. q.key = p.key /\ q.host = p.host /\ cache'[p.key] = q /\ cmds' = RemoveFrom(q, p, <<>>)
    BY <1>2, <1>4, <2>1 DEF Known, Fits, Peer
  <2>3. Taking(q, p, <<>>)'
    BY <2>2 DEF Taking
  <2> QED
    BY <1>1, <2>3 DEF Leaving
<1> QED
  BY <1>3, <1>4

LEMMA CallRetracting ==
    ASSUME NEW p \in Peer, CallTypes, Astray(p),
           cmds' = RemoveProgram(p), failed' = FALSE, UNCHANGED <<kernelVars, cache>>
    PROVE  Retracting(p)'
<1>1. Astray(p)'
  BY KeptOwning
<1>2. cmds' = <<Cmd("wg remove", p, None)>> \o <<>>
  BY RemoveProgramIs DEF CallTypes, Astray
<1> QED
  BY <1>1, <1>2 DEF Retracting, OnlyKey

LEMMA CallEntering ==
    ASSUME NEW p \in Peer, CallTypes, Owning, Known(p),
           cmds' = SetProgram(p), failed' = FALSE, UNCHANGED <<kernelVars, cache>>
    PROVE  Entering(p)'
<1>1. Owning'
  BY KeptOwning
<1>2. cmds' = IF cache[p.key] = p THEN <<>>
              ELSE IF cache[p.key] = None THEN AddFrom(p)
              ELSE RemoveFrom(cache[p.key], p, AddFrom(p))
  BY SetProgramIs DEF CallTypes
<1>3. CASE cache[p.key] = p
  BY <1>1, <1>2, <1>3 DEF Entering, Returned
<1>4. CASE cache[p.key] # p /\ cache[p.key] = None
  <2>1. Placing(p)'
    BY <1>1, <1>2, <1>4, PlacingAtFirst
  <2> QED
    BY <2>1 DEF Entering
<1>5. CASE cache[p.key] # p /\ cache[p.key] # None
  <2>1. PICK q \in Peer : q = cache[p.key]
    BY <1>5 DEF CallTypes, Peer
  <2>2. /\ q.key = p.key /\ q.host = p.host /\ cache'[p.key] = q
        /\ cmds' = RemoveFrom(q, p, AddFrom(p))
    BY <1>2, <1>5, <2>1 DEF Known, Fits, Peer
  <2>3. Taking(q, p, AddFrom(p))'
    BY <2>2 DEF Taking
  <2> QED
    BY <1>1, <2>3 DEF Entering
<1> QED
  BY <1>3, <1>4, <1>5

\* What is certain to follow keeps a call under way.
LEMMA AheadRuns ==
    ASSUME NEW S \in SUBSET Commands, NEW t \in Seq(Commands), t # <<>>, Ahead(S, t)
    PROVE  ~Returned
<1>1. CASE cmds = t
  BY <1>1 DEF Returned
<1>2. ASSUME NEW c \in S, NEW s \in Seq(S), s \o t \in Seq(Commands), cmds = <<c>> \o (s \o t)
      PROVE  ~Returned
  <2>1. cmds # <<>>
    BY <1>2, NextCommand
  <2> QED
    BY <2>1 DEF Returned
<1> QED
  BY <1>1, <1>2, AheadNext

LEMMA TakingRuns ==
    ASSUME NEW p \in Peer, NEW q \in Peer, NEW r \in Seq(Commands), Taking(q, p, r)
    PROVE  ~Returned
<1>1. Cmd("wg remove", p, None) \in Commands /\ Cmd("forget", p, None) \in Commands
  BY CommandTypes DEF PeerCommands
<1>2. RemoveFrom(q, p, r) # <<>> /\ Forget(p, r) # <<>> /\ Forget(p, r) \in Seq(Commands)
  BY <1>1, RemovingTypes, NextCommand DEF RemoveFrom, Forget
<1>3. Undoing(q) \in SUBSET Commands
  BY KindsOfCommands
<1> QED
  BY <1>2, <1>3, AheadRuns DEF Taking, Returned

LEMMA PlacingRuns ==
    ASSUME NEW p \in Peer, Placing(p)
    PROVE  ~Returned
<1>1. /\ Cmd("policy add", p, None) \in Commands /\ Cmd("wg set", p, None) \in Commands
      /\ Cmd("remember", p, None) \in Commands
  BY CommandTypes DEF PeerCommands
<1>2. AddPolicy(p) # <<>> /\ SetKey(p) # <<>> /\ Remember(p) # <<>> /\ SetKey(p) \in Seq(Commands)
  <2>1. SetKey(p) \in Seq(Commands) /\ Remember(p) \in Seq(Commands)
        /\ InsertGuard(p) \in Seq(Commands)
    BY AddingTypes
  <2>2. AddPolicy(p) # <<>>
    BY ONLY <1>1, <2>1, NextCommand DEF AddPolicy
  <2>3. SetKey(p) # <<>>
    BY ONLY <1>1, <2>1, NextCommand DEF SetKey
  <2>4. Remember(p) # <<>>
    BY ONLY <1>1, EmptySeq, NextCommand DEF Remember
  <2> QED
    BY <2>1, <2>2, <2>3, <2>4
<1>3. Inserting(p) \in SUBSET Commands
  BY KindsOfCommands
<1> QED
  BY <1>2, <1>3, AheadRuns DEF Placing, Returned

LEMMA CallEnded ==
    ASSUME NEW p \in Peer, Returned
    PROVE  /\ Entering(p) => Owning /\ (failed \/ cache[p.key] = p)
           /\ Leaving(p) => Owning /\ (failed \/ cache[p.key] = None)
           /\ Retracting(p) => Leaving(p)
<1>1. OnlyKey(p) # <<>>
  <2>1. Cmd("wg remove", p, None) \in Commands
    BY CommandTypes DEF PeerCommands
  <2> QED
    BY <2>1, EmptySeq, NextCommand DEF OnlyKey
<1>2. <<>> \in Seq(Commands) /\ AddFrom(p) \in Seq(Commands)
  BY AddingTypes, EmptySeq
<1>3. \A q \in Peer : ~Taking(q, p, <<>>) /\ ~Taking(q, p, AddFrom(p))
  BY <1>2, TakingRuns
<1> QED
  BY <1>1, <1>3, PlacingRuns DEF Entering, Leaving, Retracting, Returned

\* Until the first fault every rule of p is there when "wg set" runs.
LEMMA RoutedBefore ==
    ASSUME NEW p \in Peer, KernelTypes, Come(p), cmds = SetKey(p), p.exit = "home"
    PROVE  chain[p.host] \in NoAccept
<1> DEFINE c == Cmd("wg set", p, None)
<1>1. /\ c \in Commands /\ Remember(p) \in Seq(Commands) /\ c.do = "wg set"
  BY CommandTypes, AddingTypes DEF PeerCommands, Cmd
<1>2. cmds = <<c>> \o Remember(p)
  BY DEF SetKey
<1> HIDE DEF c
<1>3. ~Returned /\ Head(cmds) = c
  BY <1>1, <1>2, NextCommand DEF Returned
<1>4. Setting(p)
  BY <1>3 DEF Come, Resting
<1>5. ASSUME NEW d \in Commands, NEW t \in Seq(Commands), cmds = <<d>> \o t
      PROVE  d.do = "wg set"
  BY <1>1, <1>3, <1>5, NextCommand
<1>6. CASE Adding(p)
  <2>1. /\ Cmd("policy add", p, None) \in Commands /\ Cmd("remember", p, None) \in Commands
        /\ Cmd("insert", p, "guard") \in Commands /\ Cmd("insert", p, "return") \in Commands
        /\ Cmd("insert", p, "out") \in Commands /\ Cmd("insert", p, "accept") \in Commands
    BY CommandTypes DEF PeerCommands, RuleNames
  <2>2. /\ Cmd("policy add", p, None).do # "wg set" /\ Cmd("remember", p, None).do # "wg set"
        /\ \A x : Cmd("insert", p, x).do # "wg set"
    BY DEF Cmd
  <2>3. /\ cmds # AddPolicy(p) /\ cmds # InsertGuard(p) /\ cmds # InsertReturn(p)
        /\ cmds # InsertOut(p) /\ cmds # InsertAccept(p) /\ cmds # Remember(p)
    BY <1>5, <2>1, <2>2, AddingTypes, EmptySeq
       DEF AddPolicy, InsertGuard, InsertReturn, InsertOut, InsertAccept, Remember
  <2>4. Routed(p)
    BY <1>6, <2>3 DEF Adding
  <2>5. chain[p.host] = <<"out", "return", "guard">>
    BY <2>4, RulesStanding DEF Routed, Looks
  <2>6. \A x \in {"out", "return", "guard"} : x \in RuleNames \ {"accept"}
    BY DEF RuleNames
  <2>7. <<"out", "return", "guard">> \in NoAccept
    BY <2>6, ShortSequences DEF NoAccept
  <2> QED
    BY <2>5, <2>7
<1>7. ASSUME NEW q \in Peer, Removing(q, p, AddFrom(p))
      PROVE  FALSE
  <2> DEFINE r == AddFrom(p)
  <2>1. r \in Seq(Commands)
    BY AddingTypes
  <2>2. /\ Cmd("wg remove", p, None) \in Commands /\ Cmd("policy del", q, None) \in Commands
        /\ Cmd("forget", p, None) \in Commands
        /\ Cmd("delete", q, "guard") \in Commands /\ Cmd("delete", q, "return") \in Commands
        /\ Cmd("delete", q, "out") \in Commands /\ Cmd("delete", q, "accept") \in Commands
    BY CommandTypes DEF PeerCommands, RuleNames
  <2>3. /\ Cmd("wg remove", p, None).do # "wg set" /\ Cmd("policy del", q, None).do # "wg set"
        /\ Cmd("forget", p, None).do # "wg set"
        /\ \A x : Cmd("delete", q, x).do # "wg set"
    BY DEF Cmd
  <2> HIDE DEF r
  <2>4. /\ cmds # RemoveFrom(q, p, r) /\ cmds # DeleteGuard(q, p, r) /\ cmds # DeleteReturn(q, p, r)
        /\ cmds # DeleteOut(q, p, r) /\ cmds # DelPolicy(q, p, r) /\ cmds # DeleteAccept(q, p, r)
        /\ cmds # Forget(p, r)
    <3>1. /\ DeleteGuard(q, p, r) \in Seq(Commands) /\ DeleteReturn(q, p, r) \in Seq(Commands)
          /\ DeleteOut(q, p, r) \in Seq(Commands) /\ DelPolicy(q, p, r) \in Seq(Commands)
          /\ UnrouteFrom(q, p, r) \in Seq(Commands) /\ Forget(p, r) \in Seq(Commands)
      BY <2>1, RemovingTypes
    <3>2. cmds # RemoveFrom(q, p, r)
      BY ONLY <1>5, <2>2, <2>3, <3>1 DEF RemoveFrom
    <3>3. cmds # DeleteGuard(q, p, r) /\ cmds # DeleteReturn(q, p, r)
      BY ONLY <1>5, <2>2, <2>3, <3>1 DEF DeleteGuard, DeleteReturn
    <3>4. cmds # DeleteOut(q, p, r) /\ cmds # DeleteAccept(q, p, r)
      BY ONLY <1>5, <2>2, <2>3, <3>1 DEF DeleteOut, DeleteAccept
    <3>5. cmds # DelPolicy(q, p, r) /\ cmds # Forget(p, r)
      BY ONLY <1>5, <2>1, <2>2, <2>3, <3>1 DEF DelPolicy, Forget
    <3> QED
      BY <3>2, <3>3, <3>4, <3>5
  <2> QED
    BY <1>7, <2>4 DEF Removing, r
<1> QED
  BY <1>4, <1>6, <1>7 DEF Setting

-----------------------------------------------------------------------------
(***************************************************************************)
(* What the third invariant says of a state.                               *)
(***************************************************************************)
\* The key of p is served, or it has its own address only, and nothing accepts what it sends.
Guarded(p) ==
    \/ Owning
    \/ /\ Others(p)
       /\ \A h \in Hosts : owner[h] = p.key =>
             h = p.host /\ (p.exit = "home" => h \in policy \/ chain[h] \in NoAccept)

LEMMA DoingGuards ==
    ASSUME NEW p \in Peer, Busy, Doing(p)
    PROVE  Guarded(p)
<1>1. Entering(p) => Guarded(p)
  BY DEF Entering, Placing, Guarded
<1>2. Undone(p) => Guarded(p)
  BY DEF Undone, Astray, Guarded
<1>3. Leaving(p) => Guarded(p)
  BY DEF Leaving, Guarded
<1>4. Retracting(p) => Guarded(p)
  BY <1>3 DEF Retracting, Astray, Guarded
<1>5. Still => Guarded(p)
  BY DEF Still, Guarded
<1>6. task.at \in {"drop", "disable", "set", "remove", "apply", "retract", "replace", "unsaved",
                   "restore"}
  BY DEF Busy, Loops
<1> QED
  BY <1>1, <1>2, <1>3, <1>4, <1>5, <1>6 DEF Doing

LEMMA NothingAccepts ==
    ASSUME NEW h \in Hosts, chain[h] \in NoAccept
    PROVE  ~UplinkAccepts(h)
<1>1. \A i \in DOMAIN chain[h] : chain[h][i] \in RuleNames \ {"accept"}
  BY DEF NoAccept
<1> QED
  BY <1>1 DEF UplinkAccepts

\* The peer the backend is called for.
LEMMA CurrentPeer ==
    ASSUME IInv, Safe, InUse, Busy
    PROVE  \E p \in Peer : /\ p = peers[Current] /\ Doing(p) /\ Known(p) /\ Honors(p)
                           /\ Current \in Listed(peers)
<1>1. /\ CallTypes /\ peers \in [Devices -> Peer \cup {None}] /\ Loadable(peers) /\ task \in Task
      /\ Places /\ Looping /\ Running /\ Honored /\ Matches(peers) /\ None \notin Peer
  BY NoneAssumption DEF IInv, ManagerTypes, Safe
<1>2. PICK p \in Peer : p = peers[Current] /\ Doing(p)
  BY <1>1 DEF Running
<1>3. Current \in Devices
  <2>1. CASE task.at \in Loops
    BY <1>1, <2>1 DEF Busy, Current, Loops, Looping, Listed
  <2>2. CASE task.at \notin Loops
    <3>1. task.at \in {"remove", "apply", "retract", "replace", "unsaved", "restore"}
      BY <2>2 DEF Busy
    <3>2. task.id \in Devices
      BY <1>1, <3>1 DEF Places, Task, Idle
    <3> QED
      BY <2>2, <3>2 DEF Current
  <2> QED
    BY <2>1, <2>2
<1>4. Current \in Listed(peers)
  BY <1>1, <1>2, <1>3 DEF Listed
<1>5. Fits(p)
  BY <1>1, <1>2, <1>4, MatchesFits
<1>6. Known(p) /\ Honors(p)
  BY <1>1, <1>2, <1>4, <1>5 DEF Known, Honored, Peer
<1> QED
  BY <1>2, <1>4, <1>6

\* A call that has returned has left no key that the map does not know, unless it was SetPeer
\* and has failed.
LEMMA OwningNow ==
    ASSUME IInv, Safe, InUse, Returned, task.at \in {"set", "apply"} => ~failed
    PROVE  Still
<1>1. CASE ~Busy
  BY <1>1 DEF Safe, Running
<1>2. CASE Busy
  <2>1. PICK p \in Peer : Doing(p)
    BY <1>2, CurrentPeer
  <2>2. task.at \in {"drop", "disable", "set", "remove", "apply", "retract", "replace", "unsaved",
                     "restore"}
    BY <1>2 DEF Busy, Loops
  <2>3. ~failed => ~Undone(p)
    BY DEF Undone
  <2>4. Owning
    BY <2>1, <2>2, <2>3, CallEnded DEF Doing, Still
  <2> QED
    BY <2>4 DEF Still
<1> QED
  BY <1>1, <1>2

\* The fallback that the third invariant excludes.
LEMMA SafeIsHome ==
    ASSUME IInv, Safe
    PROVE  HomeNeverFallsBack
<1>1. CASE ~InUse
  BY <1>1 DEF Safe
<1>2. CASE InUse
  <2>1. Honored /\ Running /\ KernelTypes
    BY <1>2 DEF Safe, IInv
  <2>2. ASSUME NEW h \in Hosts, owner[h] # None, promised[owner[h]] = "home", Served(owner[h], h)
        PROVE  h \in policy
    <3>1. owner[h] \in Keys
      BY <2>1, <2>2 DEF KernelTypes
    <3> QED
      BY <2>1, <2>2, <3>1 DEF Served, Honored, Honors
  <2>3. SUFFICES ASSUME NEW h \in Hosts, owner[h] # None, promised[owner[h]] = "home",
                        h \notin policy
                 PROVE  ~UplinkAccepts(h)
    BY DEF HomeNeverFallsBack, LeavesAtVPS
  <2>4. ~Owning
    BY <2>2, <2>3 DEF Owning
  <2>5. Busy
    BY <2>1, <2>4 DEF Running, Still
  <2>6. PICK p \in Peer : Doing(p) /\ Honors(p)
    BY <1>2, <2>5, CurrentPeer
  <2>7. Guarded(p)
    BY <2>5, <2>6, DoingGuards
  <2>8. owner[h] = p.key
    BY <2>2, <2>3, <2>4, <2>7 DEF Guarded, Others
  <2>9. p.exit = "home" /\ chain[h] \in NoAccept
    BY <2>3, <2>4, <2>6, <2>7, <2>8 DEF Guarded, Honors
  <2> QED
    BY <2>9, NothingAccepts
<1> QED
  BY <1>1, <1>2

\* Between two tasks the records have every key that has an address.
LEMMA SafeIsKnown ==
    ASSUME IInv, Safe
    PROVE  KernelKnown
<1> SUFFICES ASSUME Working, NEW h \in Hosts, owner[h] # None
             PROVE  \E d \in Listed(peers) : peers[d].key = owner[h] /\ peers[d].host = h
  BY DEF KernelKnown
<1>1. Running /\ Matches(peers) /\ ~Busy /\ owner[h] \in Keys
  BY DEF Working, InUse, Safe, Busy, Idle, Loops, IInv, KernelTypes
<1>2. Served(owner[h], h)
  BY <1>1 DEF Running, Still, Owning
<1> QED
  BY <1>1, <1>2 DEF Matches, Served

-----------------------------------------------------------------------------
(***************************************************************************)
(* The third invariant, action by action.                                  *)
(***************************************************************************)
Once == IInv /\ SureInv /\ Safe /\ faults <= 1 /\ faults' <= 1

\* What may come into the kernel stays what was promised.
LEMMA HonoredKept ==
    ASSUME Honored, UNCHANGED <<promised, cache>>,
           \A d \in Listed(peers') : Honors(peers'[d]),
           \A d \in Listed(stored') : Honors(stored'[d]),
           \/ task'.op # "register"
           \/ task.op = "register" /\ task'.key = task.key /\ task'.exit = task.exit,
           task'.old # None => Honors(task'.old)
    PROVE  Honored'
<1>1. \A p : Honors(p)' <=> Honors(p)
  BY DEF Honors
<1> QED
  BY <1>1 DEF Honored, Honors

LEMMA EndsHonored ==
    ASSUME Honored, UNCHANGED <<promised, cache>>,
           peers' = peers, stored' \in {stored, peers}, task' = Idle \/ task'.op = "down"
    PROVE  task'.old = None => Honored'
<1>1. task'.op # "register"
  BY DEF Idle
<1>2. /\ \A d \in Listed(peers') : Honors(peers'[d])
      /\ \A d \in Listed(stored') : Honors(stored'[d])
  BY DEF Honored
<1> QED
  BY <1>1, <1>2, HonoredKept

\* Between two calls of a helper that is in use.
LEMMA Rests ==
    ASSUME Safe, InUse, Still, UNCHANGED <<kernelVars, cache, cmds>>, Matches(peers)', Honored',
           InUse', ~Busy', task'.at \notin {"apply", "retract"}
    PROVE  Safe'
<1>1. Still'
  BY KeptOwning DEF Still, Returned
<1>2. Running' /\ Fresh' /\ Asked'
  BY <1>1 DEF Running, Fresh, Asked
<1>3. link' = "ours"
  BY DEF Safe, kernelVars
<1> QED
  BY <1>2, <1>3 DEF Safe

LEMMA MatchesKept ==
    ASSUME Matches(peers), UNCHANGED <<peers, cache>>
    PROVE  Matches(peers)'
<1> QED
  BY DEF Matches, Listed

\* A task of a helper in use ends.
LEMMA EndsSafe ==
    ASSUME Safe, serving, serving', Still, UNCHANGED <<kernelVars, cache, cmds, peers, promised>>,
           stored' \in {stored, peers}, task' = Idle
    PROVE  Safe'
<1>1. InUse /\ InUse' /\ task'.at = "done" /\ task'.old = None
  BY DEF InUse, Idle
<1>2. Matches(peers)' /\ Honored'
  BY <1>1, MatchesKept, EndsHonored DEF Safe
<1>3. ~Busy'
  BY <1>1 DEF Busy, Loops
<1> QED
  BY <1>1, <1>2, <1>3, Rests

\* The helper stops: Down runs.
LEMMA LowersSafe ==
    ASSUME Once, ~serving', task' = [Idle EXCEPT !.op = "down", !.at = "down"],
           cmds' = DownProgram, UNCHANGED <<kernelVars, cache, peers, promised>>,
           stored' \in {stored, peers}
    PROVE  Safe'
<1>1. task'.op = "down" /\ task'.at = "down" /\ task'.old = None
  BY DEF Idle
<1>2. Honored'
  BY <1>1, EndsHonored DEF Once, Safe
<1>3. HomeNeverFallsBack'
  BY SafeIsHome, StaysSafe DEF Once
<1>4. Lowering' /\ Asked'
  BY <1>1 DEF Lowering, Asked
<1>5. ~InUse' /\ task' # Idle
  BY <1>1 DEF InUse, Idle
<1> QED
  BY <1>1, <1>2, <1>3, <1>4, <1>5 DEF Safe

\* A request that fails ends; the ticker and the start stop the helper.
LEMMA ReconcileFailedSafe ==
    ASSUME Once, InUse, Still, ReconcileFailed, UNCHANGED <<kernelVars, cache, peers, promised>>,
           stored' \in {stored, peers}
    PROVE  Safe'
<1>1. CASE task.op \in {"tick", "start"}
  BY <1>1, LowersSafe DEF ReconcileFailed, StopServing, Call
<1>2. CASE task.op \notin {"tick", "start"}
  <2>1. task' = Idle /\ UNCHANGED <<serving, cmds>> /\ serving
    BY <1>2 DEF ReconcileFailed, Finish, InUse
  <2> QED
    BY <2>1, EndsSafe DEF Once
<1> QED
  BY <1>1, <1>2

LEMMA HonoredLess ==
    ASSUME IInv, Honored, UNCHANGED <<peers, stored, cache>>,
           \A k \in Keys : promised'[k] = "home" => promised[k] = "home",
           task'.op = "register" /\ promised'[task'.key] = "home" => task'.exit = "home",
           task'.old = None
    PROVE  Honored'
<1>1. /\ peers \in [Devices -> Peer \cup {None}] /\ stored \in [Devices -> Peer \cup {None}]
      /\ cache \in [Keys -> Peer \cup {None}]
  BY DEF IInv, ManagerTypes, CallTypes
<1>2. \A p \in Peer : Honors(p) => (promised'[p.key] = "home" => p.exit = "home")
  BY DEF Honors, Peer
<1>3. \A d \in Listed(peers) : peers[d] \in Peer /\ Honors(peers[d])
  BY <1>1 DEF Honored, Listed
<1>4. \A d \in Listed(stored) : stored[d] \in Peer /\ Honors(stored[d])
  BY <1>1 DEF Honored, Listed
<1>5. \A k \in Keys : cache[k] # None => cache[k] \in Peer /\ cache[k].key = k /\ Honors(cache[k])
  BY <1>1 DEF Honored
<1>6. (\A d \in Listed(peers) : Honors(peers[d]))'
  BY <1>2, <1>3 DEF Listed, Honors
<1>7. (\A d \in Listed(stored) : Honors(stored[d]))'
  BY <1>2, <1>4 DEF Listed, Honors
<1>8. (\A k \in Keys : cache[k] # None => cache[k].key = k /\ Honors(cache[k]))'
  BY <1>2, <1>5 DEF Honors
<1> QED
  BY <1>6, <1>7, <1>8 DEF Honored

LEMMA BeginsSafe ==
    ASSUME Once, \/ \E d \in Devices, k \in Keys, e \in Exits : BeginRegister(d, k, e)
                 \/ BeginQuery \/ BeginTick
    PROVE  Safe'
<1>1. /\ serving /\ task = Idle /\ serving' = serving
      /\ UNCHANGED <<kernelVars, cache, cmds, failed, peers, stored>>
      /\ task'.at = "read" /\ task'.old = None
  BY DEF BeginRegister, BeginQuery, BeginTick, KeepBackend, Idle
<1>2. InUse /\ InUse' /\ ~Busy /\ ~Busy'
  BY <1>1 DEF InUse, Busy, Loops, Idle
<1>3. Still /\ Honored /\ Matches(peers)
  BY <1>2 DEF Once, Safe, Running
<1>4. Honored'
  <2>1. ASSUME NEW d \in Devices, NEW k \in Keys, NEW e \in Exits, BeginRegister(d, k, e)
        PROVE  Honored'
    <3>1. /\ promised' = [x \in Keys |-> IF x \in KeysOf(d, k) /\ promised[x] # e THEN None
                                         ELSE promised[x]]
          /\ task'.key = k /\ task'.exit = e /\ k \in KeysOf(d, k)
      BY <2>1 DEF BeginRegister, KeysOf, Idle
    <3>2. None # "home"
      BY NoneAssumption DEF Exits
    <3>3. /\ \A x \in Keys : promised'[x] = "home" => promised[x] = "home"
          /\ promised'[k] = "home" => e = "home"
      BY <3>1, <3>2
    <3> QED
      BY <1>1, <1>3, <3>1, <3>3, HonoredLess DEF Once
  <2>2. CASE BeginQuery \/ BeginTick
    <3>1. promised' = promised /\ task'.op # "register"
      BY <2>2 DEF BeginQuery, BeginTick, Idle
    <3> QED
      BY <1>1, <1>3, <3>1, HonoredLess DEF Once
  <2> QED
    BY <2>1, <2>2
<1>5. Matches(peers)'
  BY <1>1, <1>3, MatchesKept
<1> QED
  BY <1>1, <1>2, <1>3, <1>4, <1>5, Rests DEF Once

\* A task goes on to a step at which no call is under way.
LEMMA MovesSafe ==
    ASSUME Once, InUse, Still, UNCHANGED <<kernelVars, cache, cmds, peers, promised, serving>>,
           stored' \in {stored, peers},
           task'.op = task.op, task'.key = task.key, task'.exit = task.exit, task'.old = task.old,
           task'.at \in {"read", "check", "drop", "disable", "set"}, task'.now = None
    PROVE  Safe'
<1>1. InUse' /\ ~Busy'
  BY DEF InUse, Busy, Loops
<1>2. Matches(peers)'
  BY MatchesKept DEF Once, Safe
<1>3. Honored'
  <2>1. Honored /\ (task'.old # None => Honors(task'.old))
    BY DEF Once, Safe, Honored
  <2>2. /\ \A d \in Listed(peers') : Honors(peers'[d])
        /\ \A d \in Listed(stored') : Honors(stored'[d])
    BY <2>1 DEF Honored
  <2> QED
    BY <2>1, <2>2, HonoredKept
<1> QED
  BY <1>1, <1>2, <1>3, Rests DEF Once

LEMMA ReadSafe ==
    ASSUME Once, ReadRecords \/ RecordsUnavailable
    PROVE  Safe'
<1>1. /\ task.at = "read" /\ task \in Task /\ Places /\ Looping
      /\ UNCHANGED <<kernelVars, cache, cmds, peers, stored, serving, promised>>
      /\ \/ task' = [task EXCEPT !.at = "drop", !.left = Listed(peers) \ authorized]
         \/ task' = [task EXCEPT !.at = "disable", !.left = Listed(peers)]
  BY DEF ReadRecords, RecordsUnavailable, KeepBackend, Once, IInv, ManagerTypes
<1>2. /\ task'.op = task.op /\ task'.key = task.key /\ task'.exit = task.exit
      /\ task'.old = task.old /\ task'.at \in {"drop", "disable"} /\ task'.now = task.now
      /\ task.now = None
  BY <1>1 DEF Task, Looping
<1>3. InUse /\ ~Busy
  BY <1>1 DEF InUse, Busy, Loops, Places, Task, Idle
<1>4. Still
  BY <1>3 DEF Once, Safe, Running
<1> QED
  BY <1>1, <1>2, <1>3, <1>4, MovesSafe

\* Where a step belongs.
LEMMA InUseAt ==
    ASSUME IInv
    PROVE  /\ task.at \in {"read", "disable", "drop", "check", "replace", "apply", "retract",
                           "restore", "unsaved", "remove", "set"} => InUse
           /\ task.at \in {"check", "replace", "apply", "retract", "restore", "unsaved"} =>
                 task.op = "register" /\ serving /\ task.id \in Devices /\ task.key \in Keys
           /\ task.at = "remove" => task.op = "remove" /\ serving /\ task.id \in Devices
           /\ task.at = "set" => task.op = "start" /\ ~serving
<1>1. task \in Task /\ Places
  BY DEF IInv, ManagerTypes
<1>2. task.op \in {"idle", "register", "remove", "query", "tick", "start", "down"}
      /\ task.id \in Devices \cup {None} /\ task.key \in Keys \cup {None}
  BY <1>1 DEF Task
<1>3. task.op = "idle" => task.at = "done"
  BY <1>1 DEF Places, Idle
<1> QED
  BY <1>1, <1>2, <1>3 DEF Places, InUse

LEMMA DroppedSafe ==
    ASSUME Once, Dropped
    PROVE  Safe'
<1>1. /\ task.at = "drop" /\ task.left = {} /\ task \in Task /\ Looping /\ Reconciled
      /\ UNCHANGED <<kernelVars, cache, cmds, peers, serving, promised>>
      /\ stored' \in {stored, peers}
  BY DEF Dropped, Once, IInv, ManagerTypes, Saved
<1>2. InUse /\ task.now = None /\ ~Busy
  BY <1>1, InUseAt DEF Once, Looping, Busy, Loops
<1>3. Still
  BY <1>2 DEF Once, Safe, Running
<1>4. CASE task.op = "register" /\ Continue("check")
  <2>1. /\ task'.op = task.op /\ task'.key = task.key /\ task'.exit = task.exit
        /\ task'.old = task.old /\ task'.at = "check" /\ task'.now = None
    BY <1>1, <1>2, <1>4 DEF Task, Continue
  <2> QED
    BY <1>1, <1>2, <1>3, <2>1, MovesSafe
<1>5. CASE task.op \in {"query", "tick"} /\ Finish
  <2>1. task' = Idle /\ serving
    BY <1>5 DEF Finish, Once, IInv, Places
  <2> QED
    BY <1>1, <1>3, <2>1, EndsSafe DEF Once
<1>6. CASE task' = [task EXCEPT !.at = "set", !.left = Listed(peers)]
  <2>1. /\ task'.op = task.op /\ task'.key = task.key /\ task'.exit = task.exit
        /\ task'.old = task.old /\ task'.at = "set" /\ task'.now = None
    BY <1>1, <1>2, <1>6 DEF Task
  <2> QED
    BY <1>1, <1>2, <1>3, <2>1, MovesSafe
<1> QED
  BY <1>1, <1>4, <1>5, <1>6 DEF Reconciled

\* A removal fails, every peer was removed because the records cannot be read, or the file of
\* those that are left cannot be written.
LEMMA ReconcileEndsSafe ==
    ASSUME Once, RemovalFailed \/ Disabled \/ DropUnsaved
    PROVE  Safe'
<1>1. /\ task.at \in {"drop", "disable"} /\ ReconcileFailed /\ Looping
      /\ UNCHANGED <<kernelVars, cache, peers, promised>>
      /\ stored' \in {stored, peers}
      /\ Returned \/ task.left = {}
  BY DEF RemovalFailed, Disabled, DropUnsaved, SaveFails, Once, IInv
<1>2. InUse /\ task.at \notin {"set", "apply"}
  BY <1>1, InUseAt DEF Once
<1>3. Still
  <2>1. CASE Returned
    BY <1>2, <2>1, OwningNow DEF Once
  <2>2. CASE task.left = {}
    <3>1. ~Busy
      BY <1>1, <2>2 DEF Looping, Busy, Loops
    <3> QED
      BY <1>2, <3>1 DEF Once, Safe, Running
  <2> QED
    BY <1>1, <2>1, <2>2
<1> QED
  BY <1>1, <1>2, <1>3, ReconcileFailedSafe

LEMMA IsSetSafe ==
    ASSUME Once, IsSet
    PROVE  Safe'
<1>1. /\ task.at = "set" /\ Returned /\ ~failed /\ task \in Task
      /\ task' = [task EXCEPT !.now = None, !.left = task.left \ {task.now}]
      /\ UNCHANGED <<kernelVars, cache, cmds, peers, stored, serving, promised>>
  BY DEF IsSet, At, KeepBackend, Once, IInv, ManagerTypes
<1>2. /\ task'.op = task.op /\ task'.key = task.key /\ task'.exit = task.exit
      /\ task'.old = task.old /\ task'.at = "set" /\ task'.now = None
  BY <1>1 DEF Task
<1>3. InUse /\ Still
  BY <1>1, InUseAt, OwningNow DEF Once
<1> QED
  BY <1>1, <1>2, <1>3, MovesSafe

LEMMA ServeSafe ==
    ASSUME Once, Serve
    PROVE  Safe'
<1>1. /\ task.at = "set" /\ task.left = {} /\ Looping /\ serving' = TRUE
      /\ task' = Idle /\ task'.at = "done" /\ task'.old = None
      /\ UNCHANGED <<kernelVars, cache, cmds, peers, stored, promised>>
  BY DEF Serve, At, KeepBackend, Finish, Idle, Once, IInv
<1>2. InUse /\ InUse' /\ ~Busy /\ ~Busy'
  BY <1>1, InUseAt DEF Once, InUse, Busy, Loops, Looping
<1>3. Still /\ Honored /\ Matches(peers)
  BY <1>2 DEF Once, Safe, Running
<1>4. Matches(peers)' /\ Honored'
  BY <1>1, <1>3, MatchesKept, EndsHonored
<1> QED
  BY <1>1, <1>2, <1>3, <1>4, Rests DEF Once

\* A request ends that leaves everything as it is: refused, or given up after a failure.
LEMMA RequestEndsSafe ==
    ASSUME Once, RegisterRefused \/ ReplaceFailed \/ PutBack \/ Restored \/ RemoveFailed
    PROVE  Safe'
<1>1. /\ task.at \in {"check", "replace", "unsaved", "restore", "remove"} /\ task' = Idle
      /\ task.at = "check" \/ Returned
      /\ UNCHANGED <<kernelVars, cache, cmds, peers, serving, promised>>
      /\ stored' \in {stored, peers}
  BY DEF RegisterRefused, ReplaceFailed, PutBack, Restored, RemoveFailed, At, KeepBackend, Finish,
     Saved, SaveFails
<1>2. InUse /\ serving
  BY <1>1, InUseAt DEF Once
<1>3. Still
  <2>1. CASE Returned
    BY <1>1, <1>2, <2>1, OwningNow DEF Once
  <2>2. CASE task.at = "check"
    <3>1. ~Busy
      BY <2>2 DEF Busy, Loops
    <3> QED
      BY <1>2, <3>1 DEF Once, Safe, Running
  <2> QED
    BY <1>1, <2>1, <2>2
<1> QED
  BY <1>1, <1>2, <1>3, EndsSafe DEF Once

\* A call is under way for a peer.
LEMMA CallsSafe ==
    ASSUME Safe, InUse, InUse', Honored', Asked', Fresh', Matches(peers)', link' = link,
           NEW p \in Peer, p = peers'[Current'], Doing(p)', Busy'
    PROVE  Safe'
<1>1. Running'
  BY DEF Running
<1> QED
  BY <1>1 DEF Safe

LEMMA KnownListed ==
    ASSUME IInv, Safe, InUse, NEW d \in Listed(peers)
    PROVE  peers[d] \in Peer /\ Known(peers[d]) /\ Honors(peers[d])
<1>1. CallTypes /\ peers \in [Devices -> Peer \cup {None}] /\ Loadable(peers) /\ Matches(peers)
      /\ Honored
  BY DEF IInv, ManagerTypes, Safe
<1>2. peers[d] \in Peer /\ Fits(peers[d]) /\ Honors(peers[d])
  BY <1>1, MatchesFits DEF Honored
<1> QED
  BY <1>1, <1>2 DEF Known, Honored, Peer

LEMMA BeginRemoveSafe ==
    ASSUME Once, NEW d \in Devices, BeginRemove(d)
    PROVE  Safe'
<1>1. /\ serving /\ task = Idle /\ d \in Listed(peers)
      /\ task' = [Idle EXCEPT !.op = "remove", !.at = "remove", !.id = d]
      /\ promised' = [promised EXCEPT ![peers[d].key] = None]
      /\ cmds' = RemoveProgram(peers[d]) /\ failed' = FALSE
      /\ UNCHANGED <<kernelVars, cache, peers, stored, serving>>
  BY DEF BeginRemove, CallOnly, Call, Listed
<1>2. task'.at = "remove" /\ task'.id = d /\ task'.op = "remove" /\ task'.old = None
  BY <1>1 DEF Idle
<1>3. InUse /\ InUse' /\ ~Busy /\ Busy' /\ Current' = d
  BY <1>1, <1>2 DEF InUse, Busy, Loops, Idle, Current
<1>4. Still /\ Honored /\ Matches(peers)
  BY <1>3 DEF Once, Safe, Running
<1>5. PICK p \in Peer : p = peers[d] /\ Known(p)
  BY <1>1, <1>3, KnownListed DEF Once
<1>6. Leaving(p)'
  BY <1>1, <1>4, <1>5, CallLeaving DEF Still, Once, IInv
<1>7. Doing(p)'
  BY <1>2, <1>6 DEF Doing
<1>8. Honored'
  <2>1. None # "home" /\ promised \in [Keys -> Exits \cup {None}]
    BY NoneAssumption DEF Exits, Once, IInv, ManagerTypes
  <2>2. \A k \in Keys : promised'[k] = "home" => promised[k] = "home"
    BY <1>1, <2>1
  <2> QED
    BY <1>1, <1>2, <1>4, <2>2, HonoredLess DEF Once
<1>9. Matches(peers)' /\ Asked' /\ Fresh' /\ link' = link
  BY <1>1, <1>2, <1>4, MatchesKept DEF Asked, Fresh, kernelVars
<1> QED
  BY <1>1, <1>3, <1>5, <1>7, <1>8, <1>9, CallsSafe DEF Once

\* A loop over devices calls the backend for the next of them.
LEMMA NextSafe ==
    ASSUME Once, NEW d \in Devices, RemoveNext(d) \/ SetNext(d)
    PROVE  Safe'
<1>1. /\ task.at \in Loops /\ task.now = None /\ d \in task.left /\ task \in Task /\ Looping
      /\ task' = [task EXCEPT !.now = d] /\ failed' = FALSE
      /\ \/ task.at # "set" /\ cmds' = RemoveProgram(peers[d])
         \/ task.at = "set" /\ cmds' = SetProgram(peers[d])
      /\ UNCHANGED <<kernelVars, cache, peers, stored, serving, promised>>
  BY DEF RemoveNext, SetNext, At, CallOnly, Call, Loops, Once, IInv, ManagerTypes
<1>2. /\ task'.at = task.at /\ task'.now = d /\ task'.op = task.op /\ task'.key = task.key
      /\ task'.exit = task.exit /\ task'.old = task.old
  BY <1>1 DEF Task
<1>3. InUse /\ InUse' /\ ~Busy /\ Busy' /\ Current' = d
  <2>1. InUse /\ ~Busy
    BY <1>1, InUseAt DEF Once, Loops, Busy
  <2>2. d # None
    BY ManagerAssumption
  <2> QED
    BY <1>1, <1>2, <2>1, <2>2 DEF InUse, Busy, Current
<1>4. Still /\ Honored /\ Matches(peers)
  BY <1>3 DEF Once, Safe, Running
<1>5. PICK p \in Peer : p = peers[d] /\ Known(p)
  BY <1>1, <1>3, KnownListed DEF Once, Looping, Loops
<1>6. Doing(p)'
  <2>1. CASE task.at # "set"
    <3>1. Leaving(p)'
      BY <1>1, <1>4, <1>5, <2>1, CallLeaving DEF Still, Once, IInv
    <3> QED
      BY <1>1, <1>2, <2>1, <3>1 DEF Doing, Loops
  <2>2. CASE task.at = "set"
    <3>1. Entering(p)'
      BY <1>1, <1>4, <1>5, <2>2, CallEntering DEF Still, Once, IInv
    <3> QED
      BY <1>2, <2>2, <3>1 DEF Doing
  <2> QED
    BY <2>1, <2>2
<1>7. Honored'
  BY <1>1, <1>2, <1>4, HonoredKept DEF Honored
<1>8. Matches(peers)' /\ Asked' /\ Fresh' /\ link' = link
  BY <1>1, <1>2, <1>4, MatchesKept DEF Asked, Fresh, kernelVars, Loops
<1> QED
  BY <1>1, <1>3, <1>5, <1>6, <1>7, <1>8, CallsSafe DEF Once

\* A removal is done.
LEMMA RemovedFrom ==
    ASSUME IInv, Safe, InUse, task.at \in {"drop", "disable", "remove"}, Busy, Returned, ~failed
    PROVE  /\ Current \in Listed(peers) /\ cache[peers[Current].key] = None
           /\ Matches([peers EXCEPT ![Current] = None])
<1>1. PICK p \in Peer : p = peers[Current] /\ Doing(p) /\ Current \in Listed(peers)
  BY CurrentPeer
<1>2. cache[p.key] = None
  BY <1>1, CallEnded DEF Doing
<1>3. Matches(peers) /\ peers \in [Devices -> Peer \cup {None}]
  BY DEF Safe, IInv, ManagerTypes
<1> QED
  BY <1>1, <1>2, <1>3, MatchesWith DEF Listed

LEMMA FewerHonored ==
    ASSUME IInv, Honored, NEW d \in Devices, NEW new, new = [peers EXCEPT ![d] = None]
    PROVE  \A x \in Listed(new) : Honors(new[x])
<1>1. \A x \in Listed(new) : x \in Listed(peers) /\ new[x] = peers[x]
  BY DEF Listed, IInv, ManagerTypes
<1> QED
  BY <1>1 DEF Honored

LEMMA RemovedSafe ==
    ASSUME Once, Removed
    PROVE  Safe'
<1>1. /\ task.at \in {"drop", "disable"} /\ task.now # None /\ Returned /\ ~failed /\ task \in Task
      /\ task' = [task EXCEPT !.now = None, !.left = task.left \ {task.now}, !.dirty = TRUE]
      /\ peers' = peers \/ peers' = [peers EXCEPT ![task.now] = None]
      /\ UNCHANGED <<kernelVars, cache, cmds, stored, serving, promised>>
  BY DEF Removed, KeepBackend, Once, IInv, ManagerTypes
<1>2. /\ task'.op = task.op /\ task'.key = task.key /\ task'.exit = task.exit
      /\ task'.old = task.old /\ task'.at = task.at /\ task'.now = None
  BY <1>1 DEF Task
<1>3. InUse /\ Still /\ Busy /\ Current = task.now /\ Honored /\ Matches(peers)
  BY <1>1, InUseAt, OwningNow DEF Once, Busy, Loops, Current, Safe
<1>4. InUse' /\ ~Busy'
  BY <1>1, <1>2, <1>3 DEF InUse, Busy, Loops
<1>5. CASE peers' = peers
  BY <1>1, <1>2, <1>3, <1>4, <1>5, MovesSafe
<1>6. CASE peers' = [peers EXCEPT ![task.now] = None]
  <2>1. PICK qs : qs = [peers EXCEPT ![task.now] = None]
    OBVIOUS
  <2>2. Matches(qs) /\ task.now \in Devices
    BY <1>1, <1>3, <2>1, RemovedFrom DEF Once, Listed
  <2>3. Matches(peers)'
    BY <1>1, <1>6, <2>1, <2>2 DEF Matches, Listed
  <2>4. \A x \in Listed(peers') : Honors(peers'[x])
    BY <1>3, <1>6, <2>2, FewerHonored DEF Once
  <2>5. Honored'
    BY <1>1, <1>2, <1>3, <2>4, HonoredKept DEF Honored
  <2> QED
    BY <1>1, <1>2, <1>3, <1>4, <2>3, <2>5, Rests DEF Once
<1> QED
  BY <1>1, <1>5, <1>6

LEMMA RemoveDoneSafe ==
    ASSUME Once, RemoveDone
    PROVE  Safe'
<1>1. /\ task.at = "remove" /\ Returned /\ ~failed /\ task' = Idle
      /\ peers' = [peers EXCEPT ![task.id] = None] /\ stored' \in {stored, peers'}
      /\ UNCHANGED <<kernelVars, cache, cmds, serving, promised>>
  BY DEF RemoveDone, Finish, Saved, SaveFails
<1>2. InUse /\ serving /\ Still /\ Busy /\ Current = task.id /\ Honored
  BY <1>1, InUseAt, OwningNow DEF Once, Busy, Loops, Current, Safe
<1>3. InUse' /\ ~Busy' /\ task'.at = "done" /\ task'.op # "register" /\ task'.old = None
  BY <1>1, <1>2 DEF InUse, Busy, Loops, Idle
<1>4. PICK qs : qs = [peers EXCEPT ![task.id] = None]
  OBVIOUS
<1>5. Matches(qs) /\ task.id \in Devices
  BY <1>1, <1>2, <1>4, RemovedFrom DEF Once, Listed
<1>6. Matches(peers)'
  BY <1>1, <1>4, <1>5 DEF Matches, Listed
<1>7. \A x \in Listed(peers') : Honors(peers'[x])
  BY <1>1, <1>2, <1>5, FewerHonored DEF Once
<1>8. \A x \in Listed(stored') : Honors(stored'[x])
  BY <1>1, <1>2, <1>7 DEF Honored
<1>9. Honored'
  BY <1>1, <1>2, <1>3, <1>7, <1>8, HonoredKept
<1> QED
  BY <1>1, <1>2, <1>3, <1>6, <1>9, Rests DEF Once

-----------------------------------------------------------------------------
LEMMA AdmitSafe ==
    ASSUME Once, Admit
    PROVE  Safe'
<1>1. /\ task.op = "register" /\ task.at = "check" /\ task \in Task
      /\ task' = [task EXCEPT !.at = "replace", !.old = peers[task.id]]
      /\ cmds' = IF peers[task.id] # None /\ peers[task.id].key # task.key
                 THEN RemoveProgram(peers[task.id]) ELSE <<>>
      /\ failed' = FALSE
      /\ UNCHANGED <<kernelVars, cache, peers, stored, serving, promised>>
  BY DEF Admit, At, CallOnly, Call, Once, IInv, ManagerTypes
<1>2. /\ task'.at = "replace" /\ task'.op = "register" /\ task'.id = task.id
      /\ task'.key = task.key /\ task'.exit = task.exit /\ task'.old = peers[task.id]
  BY <1>1 DEF Task
<1>3. InUse /\ serving /\ task.id \in Devices /\ ~Busy
  BY <1>1, InUseAt DEF Once, Busy, Loops
<1>4. Still /\ Honored /\ Matches(peers)
  BY <1>3 DEF Once, Safe, Running
<1>5. InUse' /\ Current' = task.id /\ (Busy' <=> peers[task.id] # None)
  BY <1>1, <1>2, <1>3 DEF InUse, Current, Loops, Busy
<1>6. Honored'
  <2>1. task'.old # None => Honors(task'.old)
    BY <1>2, <1>3, <1>4 DEF Honored, Listed
  <2> QED
    BY <1>1, <1>2, <1>4, <2>1, HonoredKept DEF Honored
<1>7. Matches(peers)' /\ Asked' /\ Fresh' /\ link' = link /\ Owning'
  BY <1>1, <1>2, <1>4, MatchesKept, KeptOwning DEF Asked, Fresh, kernelVars, Still
<1>8. CASE peers[task.id] # None
  <2>1. task.id \in Listed(peers)
    BY <1>3, <1>8 DEF Listed
  <2>2. PICK p \in Peer : p = peers[task.id] /\ Known(p)
    BY <1>3, <2>1, KnownListed DEF Once
  <2>3. Doing(p)'
    <3>1. CASE p.key = task.key
      <4>1. Still'
        BY <1>1, <1>7, <2>2, <3>1 DEF Still, Returned
      <4> QED
        BY <1>2, <3>1, <4>1 DEF Doing
    <3>2. CASE p.key # task.key
      <4>1. Leaving(p)'
        BY <1>1, <1>4, <1>8, <2>2, <3>2, CallLeaving DEF Still, Once, IInv
      <4> QED
        BY <1>2, <3>2, <4>1 DEF Doing
    <3> QED
      BY <3>1, <3>2
  <2> QED
    BY <1>1, <1>3, <1>5, <1>6, <1>7, <1>8, <2>2, <2>3, CallsSafe DEF Once
<1>9. CASE peers[task.id] = None
  <2>1. Running' /\ link' = "ours"
    BY <1>1, <1>3, <1>5, <1>7, <1>9 DEF Running, Still, Returned, Once, Safe
  <2> QED
    BY <1>5, <1>6, <1>7, <2>1 DEF Safe
<1> QED
  BY <1>8, <1>9

\* What an attempt is about to record, and what the map holds of the peer it replaces.
LEMMA RequestedSafe ==
    ASSUME Once, At("register", "replace"), Returned, ~failed
    PROVE  /\ InUse /\ serving /\ Still /\ task.id \in Devices /\ task.key \in Keys
           /\ Requested \in Peer /\ Requested.key = task.key /\ Requested.exit = task.exit
           /\ Honors(Requested) /\ task.old = peers[task.id]
           /\ Matches([peers EXCEPT ![task.id] = Requested])
           /\ Loadable([peers EXCEPT ![task.id] = Requested])
           /\ task.old # None => /\ Requested.host = task.old.host
                                 /\ Requested.exit = "service" <=> task.old.exit = "service"
           /\ task.old = None \/ task.old.key # task.key => cache[task.key] = None
<1>1. /\ IInv /\ Safe /\ task.at = "replace" /\ task.op = "register" /\ InUse /\ serving
      /\ task.id \in Devices /\ task.key \in Keys
      /\ peers \in [Devices -> Peer \cup {None}] /\ Admissible(task.id, task.key, task.exit)
      /\ Matches(peers) /\ Honored
  BY InUseAt DEF At, Once, IInv, ManagerTypes, Attempt, Safe
<1>2. /\ Requested \in Peer /\ Loadable([peers EXCEPT ![task.id] = Requested])
      /\ task.old = peers[task.id] /\ None \notin Peer
  BY <1>1, RequestedLoadable, NoneAssumption
<1>3. /\ Requested.key = task.key /\ Requested.host = HostFor(task.id)
      /\ Requested.exit = task.exit
  BY DEF Requested
<1>4. Still
  BY <1>1, OwningNow
<1>5. Honors(Requested)
  BY <1>1, <1>3 DEF Honored, Honors
<1>6. task.old # None => /\ Requested.host = task.old.host
                         /\ Requested.exit = "service" <=> task.old.exit = "service"
  BY <1>1, <1>2, <1>3 DEF HostFor, Admissible
<1>7. ASSUME task.old # None, task.old.key # task.key
      PROVE  cache[task.old.key] = None
  <2>1. Busy /\ Current = task.id
    BY <1>1, <1>2, <1>7 DEF Busy, Current, Loops
  <2>2. PICK p \in Peer : p = peers[task.id] /\ Doing(p)
    BY <1>1, <2>1, CurrentPeer
  <2>3. Leaving(p)
    BY <1>1, <1>2, <1>7, <2>2 DEF Doing
  <2> QED
    BY <1>2, <2>2, <2>3, CallEnded
<1>8. Matches([peers EXCEPT ![task.id] = Requested])
  <2>1. peers[task.id] # None =>
            \/ cache[peers[task.id].key] = None
            \/ /\ Requested # None /\ Requested.key = peers[task.id].key
               /\ Requested.host = peers[task.id].host
               /\ Requested.exit = "service" <=> peers[task.id].exit = "service"
    BY <1>2, <1>3, <1>6, <1>7
  <2> QED
    BY <1>1, <1>2, <2>1, MatchesWith
<1>9. ASSUME task.old = None \/ task.old.key # task.key, cache[task.key] # None
      PROVE  FALSE
  <2>1. PICK d \in Listed(peers) : peers[d].key = task.key
    BY <1>1, <1>9 DEF Matches
  <2>2. d = task.id
    BY <1>1, <2>1 DEF Admissible
  <2> QED
    BY <1>2, <1>9, <2>1, <2>2 DEF Listed
<1> QED
  BY <1>1, <1>2, <1>3, <1>4, <1>5, <1>6, <1>8, <1>9

LEMMA RecordSafe ==
    ASSUME Once, Record
    PROVE  Safe'
<1>1. /\ At("register", "replace") /\ Returned /\ ~failed
      /\ task.op = "register" /\ task.at = "replace" /\ task \in Task
      /\ task' = [task EXCEPT !.at = "apply"]
      /\ peers' = [peers EXCEPT ![task.id] = Requested] /\ stored' = peers'
      /\ cmds' = SetProgram(Requested) /\ failed' = FALSE
      /\ UNCHANGED <<kernelVars, cache, serving, promised>>
  BY DEF Record, At, Continue, Saved, Call, Once, IInv, ManagerTypes
<1>2. /\ InUse /\ serving /\ Still /\ task.id \in Devices /\ task.key \in Keys
      /\ Requested \in Peer /\ Requested.key = task.key /\ Requested.exit = task.exit
      /\ Honors(Requested)
      /\ Matches([peers EXCEPT ![task.id] = Requested])
      /\ Loadable([peers EXCEPT ![task.id] = Requested])
      /\ task.old # None => /\ Requested.host = task.old.host
                            /\ Requested.exit = "service" <=> task.old.exit = "service"
      /\ task.old = None \/ task.old.key # task.key => cache[task.key] = None
  BY <1>1, RequestedSafe
<1>3. /\ task'.at = "apply" /\ task'.op = "register" /\ task'.id = task.id
      /\ task'.key = task.key /\ task'.exit = task.exit /\ task'.old = task.old
  BY <1>1 DEF Task
<1>4. PICK p \in Peer : p = Requested
  BY <1>2
<1>5. PICK qs : qs = [peers EXCEPT ![task.id] = p]
  OBVIOUS
<1>6. /\ peers' = qs /\ qs \in [Devices -> Peer \cup {None}] /\ Matches(qs) /\ Loadable(qs)
      /\ qs[task.id] = p /\ \A x \in Devices \ {task.id} : qs[x] = peers[x]
      /\ task.id \in Listed(qs) /\ p # None
  BY <1>1, <1>2, <1>4, <1>5, NoneAssumption DEF Listed, Once, IInv, ManagerTypes
<1>7. Honored'
  <2>1. \A x \in Listed(peers') : Honors(peers'[x])
    BY <1>2, <1>4, <1>6 DEF Listed, Once, Safe, Honored
  <2>2. Honored /\ (task.old # None => Honors(task.old))
    BY DEF Once, Safe, Honored
  <2> QED
    BY <1>1, <1>3, <2>1, <2>2, HonoredKept
<1>8. Asked'
  <2>1. peers'[task.id] = p /\ p # None /\ stored' = peers'
    BY <1>1, <1>6
  <2>2. p.key = task.key /\ p.exit = task.exit
    BY <1>2, <1>4
  <2>3. task.old # None => /\ p.host = task.old.host
                           /\ p.exit = "service" <=> task.old.exit = "service"
    BY <1>2, <1>4
  <2> QED
    BY ONLY <1>3, <2>1, <2>2, <2>3 DEF Asked
<1>9. Matches(peers)'
  <2>1. peers' = qs /\ cache' = cache /\ Matches(qs)
    BY <1>1, <1>6
  <2> QED
    BY <2>1 DEF Matches, Listed
<1>10. Entering(p)'
  <2>1. Fits(p)
    BY <1>6, MatchesFits DEF Once, IInv
  <2>2. Known(p)
    BY <2>1 DEF Known, Once, Safe, Honored, Peer
  <2> QED
    BY <1>1, <1>2, <1>4, <2>2, CallEntering DEF Still, Once, IInv
<1>11. Doing(p)'
  BY <1>3, <1>10 DEF Doing
<1>12. Fresh'
  BY <1>1, <1>2, <1>3 DEF Fresh
<1>13. InUse' /\ Busy' /\ Current' = task.id /\ link' = link
  BY <1>1, <1>2, <1>3 DEF InUse, Busy, Current, Loops, kernelVars
<1>14. p = peers'[Current']
  BY <1>6, <1>13
<1> QED
  BY <1>2, <1>7, <1>8, <1>9, <1>11, <1>12, <1>13, <1>14, CallsSafe DEF Once

LEMMA RecordUnsavedSafe ==
    ASSUME Once, RecordUnsaved
    PROVE  Safe'
<1>1. /\ At("register", "replace") /\ Returned /\ ~failed
      /\ task.op = "register" /\ task.at = "replace" /\ task \in Task
      /\ stored' \in {stored, [peers EXCEPT ![task.id] = Requested]}
      /\ IF task.old = None THEN task' = Idle /\ cmds' = cmds
         ELSE /\ task' = [task EXCEPT !.at = "restore"]
              /\ cmds' = SetProgram(task.old) /\ failed' = FALSE
      /\ UNCHANGED <<kernelVars, cache, peers, serving, promised>>
  BY DEF RecordUnsaved, At, Continue, Finish, SaveFails, Call, Once, IInv, ManagerTypes
<1>2. /\ InUse /\ serving /\ Still /\ task.id \in Devices /\ Requested \in Peer
      /\ Honors(Requested) /\ task.old = peers[task.id]
  BY <1>1, RequestedSafe
<1>3. Honored /\ Matches(peers) /\ peers \in [Devices -> Peer \cup {None}]
  BY <1>2 DEF Once, Safe, IInv, ManagerTypes
<1>4. \A x \in Listed(stored') : Honors(stored'[x])
  <2>1. CASE stored' = stored
    BY <1>3, <2>1 DEF Honored
  <2>2. CASE stored' = [peers EXCEPT ![task.id] = Requested]
    BY <1>2, <1>3, <2>2 DEF Honored, Listed
  <2> QED
    BY <1>1, <2>1, <2>2
<1>5. \A x \in Listed(peers') : Honors(peers'[x])
  BY <1>1, <1>3 DEF Honored
<1>6. Matches(peers)'
  BY <1>1, <1>3, MatchesKept
<1>7. CASE task.old = None
  <2>1. task' = Idle /\ task'.op # "register" /\ task'.old = None /\ task'.at = "done"
    BY <1>1, <1>7 DEF Idle
  <2>2. Honored'
    BY <1>1, <1>3, <1>4, <1>5, <2>1, HonoredKept
  <2>3. InUse' /\ ~Busy'
    BY <1>1, <1>2, <2>1 DEF InUse, Busy, Loops
  <2> QED
    BY <1>1, <1>2, <1>6, <1>7, <2>1, <2>2, <2>3, Rests DEF Once
<1>8. CASE task.old # None
  <2>1. /\ task'.at = "restore" /\ task'.op = "register" /\ task'.id = task.id
        /\ task'.key = task.key /\ task'.exit = task.exit /\ task'.old = task.old
    BY <1>1, <1>8 DEF Task
  <2>2. Honored'
    BY <1>1, <1>3, <1>4, <1>5, <2>1, HonoredKept DEF Honored
  <2>3. task.id \in Listed(peers)
    BY <1>2, <1>8 DEF Listed
  <2>4. PICK p \in Peer : p = peers[task.id] /\ Known(p)
    BY <1>2, <2>3, KnownListed DEF Once
  <2>5. Entering(p)'
    BY <1>1, <1>2, <1>8, <2>4, CallEntering DEF Still, Once, IInv
  <2>6. Doing(p)'
    BY <2>1, <2>5 DEF Doing
  <2>7. InUse' /\ Busy' /\ Current' = task.id /\ link' = link /\ Asked' /\ Fresh'
    BY <1>1, <1>2, <1>8, <2>1 DEF InUse, Busy, Current, Loops, kernelVars, Asked, Fresh
  <2> QED
    BY <1>1, <1>2, <1>6, <2>2, <2>4, <2>6, <2>7, CallsSafe DEF Once
<1> QED
  BY <1>7, <1>8

\* The attempt whose call is under way, or has returned.
LEMMA Applying ==
    ASSUME Once, task.at \in {"apply", "retract"}
    PROVE  /\ InUse /\ serving /\ task.op = "register" /\ Busy /\ Current = task.id
           /\ Honored /\ Matches(peers) /\ Asked /\ Fresh /\ task \in Task /\ stored = peers
           /\ task.id \in Devices /\ task.key \in Keys
           /\ peers \in [Devices -> Peer \cup {None}]
           /\ \E p \in Peer : /\ p = peers[task.id] /\ Doing(p) /\ Known(p)
                              /\ p.key = task.key /\ p.exit = task.exit
<1>1. /\ InUse /\ serving /\ task.op = "register" /\ Busy /\ Current = task.id
      /\ task.id \in Devices /\ task.key \in Keys
  BY InUseAt DEF Once, Busy, Current, Loops
<1>2. PICK p \in Peer : p = peers[task.id] /\ Doing(p) /\ Known(p)
  BY <1>1, CurrentPeer DEF Once
<1>3. Honored /\ Matches(peers) /\ Asked /\ Fresh /\ stored = peers
  BY <1>1 DEF Once, Safe, Asked
<1> QED
  BY <1>1, <1>2, <1>3 DEF Asked, Once, IInv, ManagerTypes

LEMMA RegisteredSafe ==
    ASSUME Once, Registered
    PROVE  Safe'
<1>1. /\ task.at = "apply" /\ Returned /\ ~failed /\ task' = Idle
      /\ promised' = [promised EXCEPT ![task.key] = task.exit]
      /\ UNCHANGED <<kernelVars, cache, cmds, peers, stored, serving>>
  BY DEF Registered, At, KeepBackend, Finish
<1>2. /\ InUse /\ serving /\ Honored /\ Matches(peers) /\ stored = peers
      /\ task.id \in Devices /\ task.key \in Keys /\ peers \in [Devices -> Peer \cup {None}]
  BY <1>1, Applying
<1>3. PICK p \in Peer : /\ p = peers[task.id] /\ Doing(p) /\ p.key = task.key /\ p.exit = task.exit
  BY <1>1, Applying
<1>4. Still /\ cache[task.key] = p
  <2>1. Entering(p)
    BY <1>1, <1>3 DEF Doing, Undone
  <2> QED
    BY <1>1, <1>3, <2>1, CallEnded DEF Still
<1>5. /\ promised \in [Keys -> Exits \cup {None}] /\ Loadable(peers)
      /\ cache \in [Keys -> Peer \cup {None}] /\ None \notin Peer
  BY NoneAssumption DEF Once, IInv, ManagerTypes, CallTypes
<1>6. /\ promised'[task.key] = p.exit
      /\ \A k \in Keys \ {task.key} : promised'[k] = promised[k]
  BY <1>1, <1>2, <1>3, <1>5
<1>7. ASSUME NEW q \in Peer, q.key = task.key => q = p, Honors(q)
      PROVE  promised'[q.key] = "home" => q.exit = "home"
  BY <1>6, <1>7 DEF Honors, Peer
<1>8. ASSUME NEW d \in Listed(peers)
      PROVE  promised'[peers[d].key] = "home" => peers[d].exit = "home"
  <2>1. peers[d] \in Peer /\ task.id \in Listed(peers)
    BY <1>2, <1>3, <1>5 DEF Listed
  <2>2. peers[d].key = task.key => peers[d] = p
    BY <1>3, <1>5, <2>1 DEF Loadable
  <2> QED
    BY <1>2, <1>7, <2>1, <2>2 DEF Honored
<1>9. ASSUME NEW k \in Keys, cache[k] # None
      PROVE  cache[k].key = k /\ (promised'[cache[k].key] = "home" => cache[k].exit = "home")
  <2>1. cache[k] \in Peer /\ cache[k].key = k /\ Honors(cache[k])
    BY <1>2, <1>5, <1>9 DEF Honored
  <2> QED
    BY <1>4, <1>7, <2>1
<1>10. task'.op # "register" /\ task'.old = None /\ task'.at = "done"
  BY <1>1 DEF Idle
<1>11. (\A d \in Listed(peers) : Honors(peers[d]))'
  BY <1>1, <1>8 DEF Listed, Honors
<1>12. (\A d \in Listed(stored) : Honors(stored[d]))'
  BY <1>1, <1>2, <1>8 DEF Listed, Honors
<1>13. (\A k \in Keys : cache[k] # None => cache[k].key = k /\ Honors(cache[k]))'
  BY <1>1, <1>9 DEF Honors
<1>14. Honored'
  BY <1>10, <1>11, <1>12, <1>13 DEF Honored
<1>15. Matches(peers)' /\ InUse' /\ ~Busy'
  BY <1>1, <1>2, <1>10, MatchesKept DEF InUse, Busy, Loops
<1> QED
  BY <1>1, <1>2, <1>4, <1>10, <1>14, <1>15, Rests DEF Once

LEMMA ApplyFailedSafe ==
    ASSUME Once, ApplyFailed
    PROVE  Safe'
<1>1. /\ task.at = "apply" /\ Returned /\ failed
      /\ task' = [task EXCEPT !.at = "retract"]
      /\ cmds' = RemoveProgram(peers[task.id]) /\ failed' = FALSE
      /\ UNCHANGED <<kernelVars, cache, peers, stored, serving, promised>>
  BY DEF ApplyFailed, At, Continue, CallOnly, Call
<1>2. /\ InUse /\ serving /\ Honored /\ Matches(peers) /\ Asked /\ Fresh /\ task \in Task
      /\ task.op = "register" /\ task.id \in Devices
  BY <1>1, Applying
<1>3. PICK p \in Peer : p = peers[task.id] /\ Doing(p) /\ Known(p)
  BY <1>1, Applying
<1>4. /\ task'.at = "retract" /\ task'.op = "register" /\ task'.id = task.id
      /\ task'.key = task.key /\ task'.exit = task.exit /\ task'.old = task.old
  BY <1>1, <1>2 DEF Task
<1>5. Retracting(p)'
  <2>1. CASE Entering(p)
    <3>1. Owning
      BY <1>1, <2>1, CallEnded
    <3>2. Leaving(p)'
      BY <1>1, <1>3, <3>1, CallLeaving DEF Once, IInv
    <3> QED
      BY <3>2 DEF Retracting
  <2>2. CASE Undone(p)
    BY <1>1, <1>3, <2>2, CallRetracting DEF Undone, Once, IInv
  <2> QED
    BY <1>1, <1>3, <2>1, <2>2 DEF Doing
<1>6. Doing(p)'
  BY <1>4, <1>5 DEF Doing
<1>7. Honored'
  BY <1>1, <1>2, <1>4, HonoredKept DEF Honored
<1>8. Asked'
  BY <1>1, <1>2, <1>4 DEF Asked
<1>9. Fresh'
  BY <1>1, <1>2, <1>4 DEF Fresh
<1>10. InUse' /\ Busy' /\ Current' = task.id /\ link' = link /\ Matches(peers)'
  BY <1>1, <1>2, <1>4, MatchesKept DEF InUse, Busy, Current, Loops, kernelVars
<1> QED
  BY <1>1, <1>2, <1>3, <1>6, <1>7, <1>8, <1>9, <1>10, CallsSafe DEF Once

LEMMA RetractedSafe ==
    ASSUME Once, Retracted
    PROVE  Safe'
<1>1. /\ task.at = "retract" /\ Returned
      /\ task' = [task EXCEPT !.at = "unsaved"]
      /\ peers' = [peers EXCEPT ![task.id] = task.old]
      /\ cmds' = IF task.old = None THEN <<>> ELSE SetProgram(task.old)
      /\ failed' = FALSE
      /\ UNCHANGED <<kernelVars, cache, stored, serving, promised>>
  BY DEF Retracted, At, Continue, CallOnly, Call
<1>2. /\ InUse /\ serving /\ Honored /\ Matches(peers) /\ Asked /\ Fresh /\ task \in Task
      /\ task.op = "register" /\ task.id \in Devices /\ task.key \in Keys
      /\ peers \in [Devices -> Peer \cup {None}] /\ Loadable([peers EXCEPT ![task.id] = task.old])
      /\ task.old \in Peer \cup {None}
  BY <1>1, Applying, Registering DEF Once, IInv, Attempt
<1>3. Still
  BY <1>1, <1>2, OwningNow DEF Once
<1>4. /\ task'.at = "unsaved" /\ task'.op = "register" /\ task'.id = task.id
      /\ task'.key = task.key /\ task'.exit = task.exit /\ task'.old = task.old
  BY <1>1, <1>2 DEF Task
<1>5. PICK qs : qs = [peers EXCEPT ![task.id] = task.old]
  OBVIOUS
<1>6. peers[task.id] # None =>
          \/ cache[peers[task.id].key] = None
          \/ /\ task.old # None /\ task.old.key = peers[task.id].key
             /\ task.old.host = peers[task.id].host
             /\ task.old.exit = "service" <=> peers[task.id].exit = "service"
  BY <1>1, <1>2 DEF Asked, Fresh
<1>7. /\ peers' = qs /\ Matches(qs) /\ Loadable(qs) /\ qs \in [Devices -> Peer \cup {None}]
      /\ qs[task.id] = task.old /\ \A x \in Devices \ {task.id} : qs[x] = peers[x]
  BY <1>1, <1>2, <1>5, <1>6, MatchesWith
<1>8. Matches(peers)'
  BY <1>1, <1>7 DEF Matches, Listed
<1>9. Honored'
  <2>1. \A x \in Listed(peers') : Honors(peers'[x])
    BY <1>2, <1>7 DEF Listed, Honored
  <2> QED
    BY <1>1, <1>2, <1>4, <2>1, HonoredKept DEF Honored
<1>10. /\ InUse' /\ Current' = task.id /\ link' = link /\ Asked' /\ Fresh' /\ Owning'
       /\ Busy' <=> task.old # None
  BY <1>1, <1>2, <1>3, <1>4, <1>7, KeptOwning
     DEF InUse, Busy, Current, Loops, kernelVars, Asked, Fresh, Still
<1>11. CASE task.old # None
  <2>1. PICK p \in Peer : p = task.old
    BY <1>2, <1>11
  <2>2. Fits(p)
    BY <1>2, <1>7, <1>11, <2>1, MatchesFits DEF Listed, Once, IInv
  <2>3. Known(p)
    BY <1>2, <2>2 DEF Known, Honored, Peer
  <2>4. Entering(p)'
    BY <1>1, <1>3, <1>11, <2>1, <2>3, CallEntering DEF Still, Once, IInv
  <2>5. Doing(p)' /\ p = peers'[Current']
    BY <1>4, <1>7, <1>10, <2>1, <2>4 DEF Doing
  <2> QED
    BY <1>2, <1>8, <1>9, <1>10, <1>11, <2>5, CallsSafe DEF Once
<1>12. CASE task.old = None
  <2>1. Running' /\ link' = "ours"
    BY <1>1, <1>2, <1>10, <1>12 DEF Running, Still, Returned, Once, Safe
  <2> QED
    BY <1>8, <1>9, <1>10, <2>1 DEF Safe
<1> QED
  BY <1>11, <1>12

-----------------------------------------------------------------------------
LEMMA StartSafe ==
    ASSUME Once, Start
    PROVE  Safe'
<1>1. /\ ~serving /\ task = Idle /\ peers' = stored /\ stored' = stored
      /\ cache' = [k \in Keys |-> None]
      /\ task' = [Idle EXCEPT !.op = "start", !.at = "up"]
      /\ cmds' = UpProgram /\ failed' = FALSE
      /\ UNCHANGED <<kernelVars, serving, promised>>
  BY DEF Start, Call
<1>2. task'.op = "start" /\ task'.at = "up" /\ task'.old = None /\ task' # Idle
  BY <1>1 DEF Idle
<1>3. ~InUse' /\ Honored
  BY <1>1, <1>2 DEF InUse, Once, Safe
<1>4. (\A d \in Listed(stored) : Honors(stored[d]))'
  BY <1>1, <1>3 DEF Honored, Listed, Honors
<1>5. (\A d \in Listed(peers) : Honors(peers[d]))'
  BY <1>1, <1>3 DEF Honored, Listed, Honors
<1>6. Honored'
  BY <1>1, <1>2, <1>4, <1>5 DEF Honored
<1>7. HomeNeverFallsBack'
  BY <1>1, SafeIsHome, StaysSafe DEF Once
<1>8. Lifting' /\ Asked'
  BY <1>1, <1>2 DEF Lifting, Asked
<1> QED
  BY <1>2, <1>3, <1>6, <1>7, <1>8 DEF Safe

LEMMA StopSafe ==
    ASSUME Once, Stop \/ Cleanup \/ SetFailed
    PROVE  Safe'
<1>1. /\ ~serving' /\ task' = [Idle EXCEPT !.op = "down", !.at = "down"]
      /\ cmds' = DownProgram /\ UNCHANGED <<kernelVars, cache, peers, promised, stored>>
  BY DEF Stop, Cleanup, SetFailed, StopServing, CallOnly, Call
<1> QED
  BY <1>1, LowersSafe

\* The helper is down, with nothing under way.
LEMMA IsDown ==
    ASSUME Once, ~serving', task' = Idle, cmds' = <<>>, UNCHANGED <<kernelVars, promised>>, Honored'
    PROVE  Safe'
<1>1. task'.at = "done" /\ task'.op = "idle"
  BY DEF Idle
<1>2. ~InUse' /\ Asked' /\ Returned'
  BY <1>1 DEF InUse, Asked, Returned
<1>3. HomeNeverFallsBack'
  BY SafeIsHome, StaysSafe DEF Once
<1> QED
  BY <1>1, <1>2, <1>3 DEF Safe

LEMMA DownSafe ==
    ASSUME Once, UpFailed \/ Down
    PROVE  Safe'
<1>1. /\ (task.op = "start" /\ task.at = "up") \/ task.at = "down"
      /\ Returned /\ task' = Idle
      /\ UNCHANGED <<kernelVars, cache, cmds, peers, stored, serving, promised>>
  BY DEF UpFailed, Down, At, KeepBackend, Finish
<1>2. ~serving
  BY <1>1 DEF Once, IInv, ManagerTypes, Places, Task, Idle
<1>3. Honored'
  <2>1. task'.old = None
    BY <1>1 DEF Idle
  <2> QED
    BY <1>1, <2>1, EndsHonored DEF Once, Safe
<1> QED
  BY <1>1, <1>2, <1>3, IsDown DEF Returned

LEMMA CrashSafe ==
    ASSUME Once, Crash
    PROVE  Safe'
<1>1. /\ ~serving' /\ task' = Idle /\ peers' = Nobody /\ cache' = [k \in Keys |-> None]
      /\ cmds' = <<>> /\ UNCHANGED <<kernelVars, stored, promised>>
  BY DEF Crash
<1>2. task'.op # "register" /\ task'.old = None
  BY <1>1 DEF Idle
<1>3. Honored'
  <2>1. Listed(peers') = {}
    BY <1>1 DEF Listed, Nobody
  <2>2. (\A d \in Listed(stored) : Honors(stored[d]))'
    BY <1>1 DEF Once, Safe, Honored, Listed, Honors
  <2>3. (\A d \in Listed(peers) : Honors(peers[d]))'
    BY <2>1 DEF Listed
  <2> QED
    BY <1>1, <1>2, <2>2, <2>3 DEF Honored
<1> QED
  BY <1>1, <1>3, IsDown

LEMMA UpSafe ==
    ASSUME Once, Up
    PROVE  Safe'
<1>1. /\ task.op = "start" /\ task.at = "up" /\ Returned /\ ~failed /\ task \in Task
      /\ task' = [task EXCEPT !.at = "read"]
      /\ UNCHANGED <<kernelVars, cache, cmds, failed, peers, stored, serving, promised>>
  BY DEF Up, At, Continue, KeepBackend, Once, IInv, ManagerTypes
<1>2. /\ task'.at = "read" /\ task'.op = task.op /\ task'.key = task.key /\ task'.exit = task.exit
      /\ task'.old = task.old
  BY <1>1 DEF Task
<1>3. ~serving
  BY <1>1 DEF Once, IInv, Places
<1>4. ~InUse /\ InUse' /\ ~Busy'
  BY <1>1, <1>2, <1>3 DEF InUse, Busy, Loops
<1>5. Lifting /\ Honored
  BY <1>1, <1>4 DEF Once, Safe
<1>6. cache = [k \in Keys |-> None] /\ link = "ours" /\ Nobodys
  <2>1. cmds # UpProgram
    BY <1>1, InterfaceSequences DEF Returned
  <2> QED
    BY <1>1, <1>5, <2>1 DEF Lifting, Returned
<1>7. Still'
  <2>1. Owning
    BY <1>6 DEF Nobodys, Owning
  <2> QED
    BY <1>1, <2>1, KeptOwning DEF Still, Returned
<1>8. Honored'
  BY <1>1, <1>2, <1>5, HonoredKept DEF Honored
<1>9. Matches(peers)'
  BY <1>1, <1>6 DEF Matches
<1> QED
  BY <1>1, <1>2, <1>4, <1>6, <1>7, <1>8, <1>9 DEF Safe, Running, Asked, Fresh, kernelVars

\* Nothing the third invariant speaks of changes.
LEMMA SafeKept ==
    ASSUME Safe, UNCHANGED <<kernelVars, cache, cmds, failed, peers, stored, serving, task, promised>>
    PROVE  Safe'
<1>1. UNCHANGED <<link, base, owner, gateway, chain, policy>>
  BY DEF kernelVars
<1>2. /\ Owning' <=> Owning
      /\ \A p : Others(p)' <=> Others(p)
      /\ \A p : Keyless(p)' <=> Keyless(p)
      /\ \A p : Astray(p)' <=> Astray(p)
      /\ Nobodys' <=> Nobodys
  BY <1>1 DEF Owning, Others, Keyless, Astray, Served, Nobodys
<1>3. \A S, t : Ahead(S, t)' <=> Ahead(S, t)
  BY DEF Ahead
<1>4. /\ \A q, p, r : Taking(q, p, r)' <=> Taking(q, p, r)
      /\ \A p : Placing(p)' <=> Placing(p)
      /\ Returned' <=> Returned
  BY <1>1, <1>2, <1>3 DEF Taking, Placing, Returned
<1>5. /\ \A p : Entering(p)' <=> Entering(p)
      /\ \A p : Undone(p)' <=> Undone(p)
      /\ \A p : Leaving(p)' <=> Leaving(p)
      /\ \A p : Retracting(p)' <=> Retracting(p)
      /\ Still' <=> Still
  BY <1>2, <1>3, <1>4 DEF Entering, Undone, Leaving, Retracting, Still
<1>6. /\ \A p : Doing(p)' <=> Doing(p)
      /\ Busy' <=> Busy
      /\ Current' = Current
  BY <1>5 DEF Doing, Busy, Current
<1>7. Running' <=> Running
  BY <1>5, <1>6 DEF Running
<1>8. (Honored' <=> Honored) /\ (Asked' <=> Asked) /\ (Fresh' <=> Fresh) /\ (InUse' <=> InUse)
  BY <1>4 DEF Honored, Honors, Listed, Asked, Fresh, InUse
<1>9. Matches(peers)' <=> Matches(peers)
  BY DEF Matches, Listed
<1>10. (Lifting' <=> Lifting) /\ (Lowering' <=> Lowering)
  <2>1. Bare' <=> Bare
    BY <1>1, <1>2 DEF Bare
  <2>2. Lowering' <=> Lowering
    BY <2>1 DEF Lowering
  <2>3. Lifting' <=> Lifting
    BY <1>1, <1>2, <1>4, <2>1, <2>2 DEF Lifting
  <2> QED
    BY <2>2, <2>3
<1>11. HomeNeverFallsBack => HomeNeverFallsBack'
  BY <1>1, StaysSafe
<1> QED
  BY <1>1, <1>4, <1>7, <1>8, <1>9, <1>10, <1>11 DEF Safe

-----------------------------------------------------------------------------
\* A command of a call for p, whatever becomes of it.
LEMMA CallSafe ==
    ASSUME Once, BackendStep, UNCHANGED <<peers, task>>, InUse, Busy,
           NEW p \in Peer, p = peers[Current], Doing(p), Known(p)
    PROVE  /\ link' = "ours" /\ Doing(p)'
           /\ \A k \in Keys \ {p.key} : cache'[k] = cache[k]
           /\ cache'[p.key] \in {cache[p.key], None, p}
           /\ cache[p.key] = None /\ cache'[p.key] # None /\ task.at \in {"apply", "retract"} =>
                 task.at = "apply" /\ Returned' /\ ~failed'
<1>1. /\ KernelTypes /\ CallTypes /\ link = "ours" /\ Fits(p) /\ ~Returned
      /\ faults \in Nat /\ faults <= 1 /\ faults' <= 1
  BY StepRuns, BackendAssumption DEF Once, IInv, Safe, CallTypes, Known
<1>2. task.at \in {"drop", "disable", "set", "remove", "apply", "retract", "replace", "unsaved",
                   "restore"}
  BY DEF Busy, Loops
<1>3. task.at = "replace" => p.key # task.key
  BY <1>1 DEF Doing, Still
<1>4. faults = 0 => Sure
  BY DEF Once, SureInv
<1>5. CASE Leaving(p) /\ task.at \notin {"set", "apply", "unsaved", "restore"}
  <2>1. /\ link' = "ours" /\ Leaving(p)'
        /\ \A k \in Keys \ {p.key} : cache'[k] = cache[k]
        /\ cache'[p.key] \in {cache[p.key], None}
    BY <1>1, <1>5, LeavingStep
  <2>2. Doing(p)'
    BY <1>2, <1>3, <1>5, <2>1 DEF Doing, Retracting
  <2> QED
    BY <2>1, <2>2
<1>6. CASE task.at = "retract" /\ ~failed /\ cmds = OnlyKey(p) /\ Astray(p)
  <2>1. faults' # faults + 1
    BY <1>1, <1>4, <1>6 DEF Sure
  <2>2. link' = "ours" /\ cache' = cache /\ Leaving(p)'
    BY <1>1, <1>6, <2>1, OnlyKeyStep
  <2>3. Doing(p)'
    BY <1>6, <2>2 DEF Doing, Retracting
  <2> QED
    BY <2>2, <2>3
<1>7. CASE task.at \in {"set", "apply"} /\ Undone(p)
  <2>1. link' = "ours" /\ cache' = cache /\ Undone(p)'
    BY <1>1, <1>7, UndoneStep
  <2>2. Doing(p)'
    BY <1>7, <2>1 DEF Doing
  <2> QED
    BY <2>1, <2>2
<1>8. CASE task.at \in {"set", "apply", "unsaved", "restore"} /\ Entering(p)
  <2>1. ASSUME faults' = faults + 1, cmds = SetKey(p), p.exit = "home"
        PROVE  chain[p.host] \in NoAccept
    <3>1. faults = 0 /\ Sure
      BY <1>1, <1>4, <2>1
    <3>2. task.at \in {"set", "apply"} /\ Calls
      BY <1>8, <3>1 DEF Sure
    <3>3. Come(p)
      BY <3>2 DEF Calls, Busy, Current, Loops
    <3> QED
      BY <1>1, <2>1, <3>3, RoutedBefore
  <2>2. /\ link' = "ours"
        /\ \A k \in Keys \ {p.key} : cache'[k] = cache[k]
        /\ cache'[p.key] \in {cache[p.key], None, p}
        /\ cache[p.key] = None /\ cache'[p.key] # None => Returned' /\ ~failed'
        /\ Entering(p)' \/ (Undone(p)' /\ faults' = faults + 1)
    BY <1>1, <1>8, <2>1, EnteringStep
  <2>3. task.at \in {"unsaved", "restore"} => faults' # faults + 1
    BY <1>1, <1>4 DEF Sure
  <2>4. Doing(p)'
    BY <1>8, <2>2, <2>3 DEF Doing
  <2> QED
    BY <1>8, <2>2, <2>4
<1> QED
  BY <1>1, <1>2, <1>3, <1>5, <1>6, <1>7, <1>8 DEF Doing, Retracting, Still

LEMMA CommandSafe ==
    ASSUME Once, Command
    PROVE  Safe'
<1>1. /\ BackendStep /\ ~Returned
      /\ UNCHANGED <<peers, stored, serving, task, promised>>
      /\ Honored /\ Asked /\ CallTypes
  BY StepRuns DEF Command, managerVars, Once, Safe, IInv
<1>2. Asked' /\ (InUse' <=> InUse)
  BY <1>1 DEF Asked, InUse
<1>3. CASE InUse
  <2>1. Matches(peers) /\ Running /\ Fresh
    BY <1>3 DEF Once, Safe
  <2>2. Busy
    BY <1>1, <2>1 DEF Running, Still
  <2>3. PICK p \in Peer : /\ p = peers[Current] /\ Doing(p) /\ Known(p) /\ Honors(p)
                          /\ Current \in Listed(peers)
    BY <1>3, <2>2, CurrentPeer DEF Once
  <2>4. /\ link' = "ours" /\ Doing(p)'
        /\ \A k \in Keys \ {p.key} : cache'[k] = cache[k]
        /\ cache'[p.key] \in {cache[p.key], None, p}
        /\ cache[p.key] = None /\ cache'[p.key] # None /\ task.at \in {"apply", "retract"} =>
              task.at = "apply" /\ Returned' /\ ~failed'
    BY <1>1, <1>3, <2>2, <2>3, CallSafe
  <2>5. Matches(peers)'
    BY <1>1, <2>1, <2>3, <2>4, EntryMatches
  <2>6. Honored'
    <3>1. (\A k \in Keys : cache[k] # None => cache[k].key = k /\ Honors(cache[k]))'
      BY <1>1, <2>3, <2>4 DEF Honored, Honors
    <3> QED
      BY <1>1, <3>1 DEF Honored, Honors, Listed
  <2>7. Fresh'
    <3>1. SUFFICES ASSUME task.at \in {"apply", "retract"}, cache'[task.key] # None,
                          task.old = None \/ task.old.key # task.key
                   PROVE  task.at = "apply" /\ Returned' /\ ~failed'
      BY <1>1 DEF Fresh
    <3>2. p.key = task.key
      BY <1>1, <2>3, <3>1 DEF Asked, Current, Loops
    <3>3. cache[task.key] = None
      BY <1>1, <2>1, <3>1 DEF Fresh
    <3> QED
      BY <2>4, <3>1, <3>2, <3>3
  <2>8. Running'
    <3>1. Busy' /\ Current' = Current
      BY <1>1, <2>2 DEF Busy, Current
    <3> QED
      BY <1>1, <2>3, <2>4, <3>1 DEF Running
  <2> QED
    BY <1>2, <1>3, <2>4, <2>5, <2>6, <2>7, <2>8 DEF Safe
<1>4. CASE ~InUse
  <2>1. HomeNeverFallsBack /\ task # Idle
    BY <1>1, <1>4 DEF Once, Safe
  <2>2. ~serving /\ ((task.op = "start" /\ task.at = "up") \/ (task.op = "down" /\ task.at = "down"))
    BY <1>4, <2>1 DEF InUse, Once, IInv, ManagerTypes, Places, Task
  <2>3. CASE task.at = "up"
    <3>1. Lifting
      BY <1>4, <2>3 DEF Once, Safe
    <3>2. Lifting' /\ HomeNeverFallsBack'
      BY <1>1, <2>1, <3>1, LiftingStep
    <3>3. cache' = cache
      BY <3>1, <3>2 DEF Lifting
    <3>4. Honored'
      BY <1>1, <2>2, <2>3, <3>3, HonoredKept DEF Honored
    <3> QED
      BY <1>1, <1>2, <1>4, <2>1, <2>3, <3>2, <3>4 DEF Safe
  <2>4. CASE task.at = "down"
    <3>1. Lowering
      BY <1>4, <2>4 DEF Once, Safe
    <3>2. Lowering' /\ HomeNeverFallsBack' /\ cache' = cache
      BY <1>1, <2>1, <3>1, LoweringStep
    <3>3. Honored'
      BY <1>1, <2>2, <2>4, <3>2, HonoredKept DEF Honored
    <3> QED
      BY <1>1, <1>2, <1>4, <2>1, <2>4, <3>2, <3>3 DEF Safe
  <2> QED
    BY <2>2, <2>3, <2>4
<1> QED
  BY <1>3, <1>4

-----------------------------------------------------------------------------
LEMMA SafeStep ==
    IInv /\ SureInv /\ SafeInv /\ [Next]_vars => SafeInv'
<1> SUFFICES ASSUME IInv, SureInv, SafeInv, [Next]_vars, faults' <= 1 PROVE Safe'
  BY DEF SafeInv
<1>1. CASE Next
  <2>1. Once
    <3>1. faults <= 1
      BY <1>1, FaultsStay
    <3> QED
      BY <3>1 DEF Once, SafeInv
  <2>2. CASE Command
    BY <2>1, <2>2, CommandSafe
  <2>3. CASE Reconcile
    BY <2>1, <2>3, ReadSafe, RemovedSafe, ReconcileEndsSafe, DroppedSafe, NextSafe DEF Reconcile
  <2>4. CASE Register
    BY <2>1, <2>4, RequestEndsSafe, AdmitSafe, RecordSafe, RecordUnsavedSafe, RegisteredSafe,
       ApplyFailedSafe, RetractedSafe DEF Register
  <2>5. CASE RemoveFailed \/ RemoveDone
    BY <2>1, <2>5, RequestEndsSafe, RemoveDoneSafe
  <2>6. CASE Lifecycle
    BY <2>1, <2>6, DownSafe, UpSafe, IsSetSafe, StopSafe, ServeSafe, NextSafe DEF Lifecycle
  <2>7. CASE \/ \E d \in Devices, k \in Keys, e \in Exits : BeginRegister(d, k, e)
             \/ BeginQuery \/ BeginTick
    BY <2>1, <2>7, BeginsSafe
  <2>8. CASE \/ \E d \in Devices : BeginRemove(d)
             \/ Start \/ Stop \/ Cleanup \/ Crash
    BY <2>1, <2>8, BeginRemoveSafe, StartSafe, StopSafe, CrashSafe
  <2>9. CASE \E d \in Devices : Revoke(d)
    <3>1. UNCHANGED <<kernelVars, cache, cmds, failed, peers, stored, serving, task, promised>>
      BY <2>9 DEF Revoke
    <3> QED
      BY <2>1, <3>1, SafeKept DEF Once
  <2> QED
    BY <1>1, <2>2, <2>3, <2>4, <2>5, <2>6, <2>7, <2>8, <2>9 DEF Next, Progress
<1>2. CASE UNCHANGED vars
  <2>1. /\ UNCHANGED <<kernelVars, cache, cmds, failed, peers, stored, serving, task, promised>>
        /\ faults' = faults
    BY <1>2 DEF vars, kernelVars
  <2> QED
    BY <2>1, SafeKept DEF SafeInv
<1> QED
  BY <1>1, <1>2

LEMMA SafeInit ==
    Init => SafeInv
<1> SUFFICES ASSUME Init PROVE Safe
  BY DEF SafeInv
<1>1. /\ task.at = "done" /\ task.op = "idle" /\ task.old = None /\ ~InUse /\ Returned
      /\ peers = Nobody /\ stored = Nobody /\ cache = [k \in Keys |-> None]
      /\ owner = [h \in Hosts |-> None]
  BY DEF Init, BackendInit, Idle, InUse, Returned
<1>2. Honored /\ Asked
  BY <1>1 DEF Honored, Asked, Listed, Nobody
<1>3. HomeNeverFallsBack
  BY <1>1 DEF HomeNeverFallsBack
<1> QED
  BY <1>1, <1>2, <1>3 DEF Safe

LEMMA SafeHolds == Spec => []SafeInv
<1> QED
  BY SafeInit, SafeStep, InvariantHolds, SureHolds, PTL DEF Spec

\* The packets of a key that was promised the home exit never leave through the uplink of the
\* VPS (core/README.md:20; home_routing.go:62-127, linux.go:177-219, manager.go:151-311): not
\* between any two commands of an update, nor after any one command, query, save or read that
\* fails, is killed after it took effect, or comes before a crash.
THEOREM HomeIsKept == Spec => [](faults <= 1 => HomeNeverFallsBack)
<1>1. IInv /\ SafeInv => (faults <= 1 => HomeNeverFallsBack)
  BY SafeIsHome DEF SafeInv
<1> QED
  BY <1>1, InvariantHolds, SafeHolds, PTL

\* Between two tasks every key in the kernel is that of a recorded peer, at its address
\* (manager.go:201-237, linux.go:177-219), whatever one fault there was; so that what revocation
\* takes from the records is all there is to take.
THEOREM KernelStaysKnown == Spec => [](faults <= 1 => KernelKnown)
<1>1. IInv /\ SafeInv => (faults <= 1 => KernelKnown)
  BY SafeIsKnown DEF SafeInv
<1> QED
  BY <1>1, InvariantHolds, SafeHolds, PTL

===============================================================================
