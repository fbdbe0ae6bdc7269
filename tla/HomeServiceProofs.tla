-------------------------- MODULE HomeServiceProofs --------------------------
(***************************************************************************)
(* Proofs about HomeService for every set of identities and profiles and   *)
(* every number of faults.                                                 *)
(***************************************************************************)
EXTENDS HomeService, SequenceTheorems, TLAPS

-----------------------------------------------------------------------------
(***************************************************************************)
(* The inductive invariant, in parts.                                      *)
(***************************************************************************)
\* What can be left of a program: of SiteDown, of SiteUp, and the one command with which SiteUp
\* takes back an interface that did not get its alias.
Down2 == <<"link delete", "unrule">>
Down1 == <<"unrule">>
Delete == <<"link delete">>
Up6 == <<"link delete", "unrule", "link add", "alias", "configure", "rule">>
Up5 == <<"unrule", "link add", "alias", "configure", "rule">>
Up4 == <<"link add", "alias", "configure", "rule">>
Up3 == <<"alias", "configure", "rule">>
Up2 == <<"configure", "rule">>
Up1 == <<"rule">>
Done == <<>>
Downs == {Done, Down1, Down2, SiteDownProgram}
Ups == {Up1, Up2, Up3, Up4, Up5, Up6, SiteUpProgram}
Programs == Downs \cup Ups \cup {Delete}

\* SiteDown has not come to its deletion of the interface.
Ahead == cmds \in {Down2, SiteDownProgram}

\* Who runs which program.
Running ==
    /\ cmds \in Programs
    /\ unit \in {"before", "after"} => cmds \in Downs
    /\ unit = "stopped" => cmds \in Downs /\ (admin.at # "remove" => cmds = Done)
    /\ unit = "pause" => cmds = Done
    /\ step \in {"rejected", "down", "exit"} => cmds \in Downs
    /\ step \in {"due", "waiting", "save"} => cmds = Done
    /\ step = "up" => /\ failed => cmds \in Downs \cup {Delete}
                      /\ ~failed => cmds \in Ups \cup {Done}
                      /\ site = call.answer

\* How the unit, its process, service.json and the administrator's command stand to each other.
Standing ==
    /\ step # "none" <=> unit = "serving"
    /\ unit # "serving" => ~active
    /\ config = None => unit = "stopped"
    /\ admin.at \in {"install", "register", "persist", "undo", "enable", "leave", "remove"} =>
          unit = "stopped"
    /\ admin.at = "forget" => unit = "stopped" \/ stopping
    /\ admin.at = "none" => admin = NoCommand
    /\ admin.at \in {"install", "register", "persist", "undo", "enable", "leave"} =>
          admin.id \in Identities
    /\ admin.at \in {"install", "register", "persist"} => config = None
    /\ admin.at = "enable" => config = admin.id
    /\ admin.at \in {"forget", "leave", "remove"} => admin.id = config

\* Whose the call under way is.
Calling ==
    /\ call.at = "none" => call = NoCall
    /\ call.at # "none" =>
          \/ step = "due" /\ call.what = "service" /\ call.id = config
          \/ step \in {"down", "save", "up"}
          \/ admin.at = "register" /\ call.what = "service" /\ call.id = admin.id
          \/ admin.at \in {"undo", "leave"} /\ call.what = "disconnect" /\ call.id = admin.id
    /\ step \in {"down", "save", "up"} => call.at = "answered" /\ call.answer \in Profiles
    /\ admin.at \in {"register", "undo", "leave"} => call.at # "none"

\* What the call knows of the core.
Told ==
    /\ call.at # "none" => call.id \in Identities
    /\ call.token # "none" <=> call.at \in {"request", "logout"}
    /\ call.answer = "none" <=> call.at \in {"none", "challenge", "login", "stale", "request"}
    /\ call.what = "service" => call.answer # "ok"
    /\ call.what = "disconnect" => call.answer \notin Profiles
    /\ call.token = "live" => records[call.id] = "authorized" /\ sessions[call.id] >= 1
    /\ faults = 0 => call.at # "stale"
    /\ faults = 0 /\ (call.token = "dead" \/ call.answer = "rejected") =>
          records[call.id] # "authorized"

\* Whom the core keeps as its home service.
Kept ==
    /\ peer # None => records[peer] = "authorized"
    /\ faults = 0 =>
          /\ admin.at = "install" => peer # admin.id
          /\ admin.at = "register" /\ call.answer \notin Profiles => peer # admin.id
          /\ admin.at \in {"undo", "leave"} /\ call.answer # "none" =>
                peer # admin.id /\ call.answer # "failed"
          /\ admin.at = "remove" => peer = None

\* How many faults it took that an interface is up where none should be.
Exposed ==
    /\ link = "up" =>
          /\ unit \in {"before", "pause", "stopped"} => faults >= 2
          /\ unit = "after" => faults >= 1 /\ (~Ahead => faults >= 2)
          /\ config = None => faults >= 3
          /\ admin.at = "remove" /\ ~Ahead => faults >= 3
          /\ step \in {"due", "waiting"} /\ ~active => faults >= 1
          /\ step \in {"rejected", "down", "save"} /\ ~Ahead => faults >= 1
          /\ step = "exit" /\ ~active /\ ~Ahead => faults >= 1
          /\ step = "up" /\ (failed \/ cmds \notin {Up1, Done}) => faults >= 1
    /\ config = None => ~rules
    /\ admin.at = "remove" /\ ~failed /\ cmds = Done => ~rules

\* What SiteUp has made so far.
Made ==
    link = "up" /\ step = "up" /\ ~failed =>
        /\ cmds \notin {Up2, Up3}
        /\ cmds \in {Up1, Done} => conf = call.answer
        /\ cmds = Done => rules

\* The types, but for the bound on sessions, which SessionsReturned gives, and for the
\* commands, which Running tells.
TunnelTypes ==
    /\ link \in {"none", "bare", "ours", "up"}
    /\ conf \in Profiles \cup {None}
    /\ rules \in BOOLEAN
    /\ site \in Profiles \cup {None}
    /\ failed \in BOOLEAN
    /\ faults \in 0..MaxFaults
CoreTypes ==
    /\ records \in [Identities -> {"unknown", "authorized", "revoked"}]
    /\ peer \in Identities \cup {None}
    /\ offer \in Profiles
    /\ sessions \in [Identities -> Nat]
UnitTypes ==
    /\ config \in Identities \cup {None}
    /\ unit \in {"stopped", "before", "serving", "after", "pause"}
    /\ enabled \in BOOLEAN
    /\ stopping \in BOOLEAN
    /\ step \in {"none", "due", "rejected", "down", "save", "up", "waiting", "exit"}
    /\ current \in Profiles \cup {None}
    /\ active \in BOOLEAN
CallType ==
    call \in [at : {"none", "challenge", "login", "stale", "request", "logout", "answered"},
              what : {"none", "service", "disconnect"}, id : Identities \cup {None},
              token : {"none", "live", "dead"},
              answer : Profiles \cup {"none", "rejected", "failed", "ok"}]
AdminType ==
    admin \in [at : {"none", "install", "register", "persist", "undo", "enable", "forget",
                     "leave", "remove"},
               id : Identities \cup {None}]

Types == TunnelTypes /\ CoreTypes /\ UnitTypes /\ CallType /\ AdminType
Control == Running /\ Standing /\ Calling
CallFacts == Told /\ SessionsReturned /\ RejectionIsTrue
PeerFacts == Kept /\ NoOrphan
LinkFacts == Exposed /\ Made /\ UpAsAnswered
IInv == Types /\ Control /\ CallFacts /\ PeerFacts /\ LinkFacts

-----------------------------------------------------------------------------
(***************************************************************************)
(* The programs.                                                           *)
(***************************************************************************)
\* Each is a sequence of commands.
LEMMA ProgramTypes ==
    /\ Programs \subseteq Seq(Commands)
    /\ Head(SiteDownProgram) = "query" /\ Len(SiteDownProgram) = 3
    /\ Head(Down2) = "link delete" /\ Len(Down2) = 2
    /\ Head(Down1) = "unrule" /\ Len(Down1) = 1
    /\ Head(Delete) = "link delete" /\ Len(Delete) = 1
    /\ Head(SiteUpProgram) = "query" /\ Len(SiteUpProgram) = 7
    /\ Head(Up6) = "link delete" /\ Len(Up6) = 6
    /\ Head(Up5) = "unrule" /\ Len(Up5) = 5
    /\ Head(Up4) = "link add" /\ Len(Up4) = 4
    /\ Head(Up3) = "alias" /\ Len(Up3) = 3
    /\ Head(Up2) = "configure" /\ Len(Up2) = 2
    /\ Head(Up1) = "rule" /\ Len(Up1) = 1
<1>1. SiteDownProgram \in Seq(Commands) /\ Head(SiteDownProgram) = "query" /\ Len(SiteDownProgram) = 3
  BY DEF SiteDownProgram, Commands
<1>2. Down2 \in Seq(Commands) /\ Head(Down2) = "link delete" /\ Len(Down2) = 2
  BY DEF Down2, Commands
<1>3. Down1 \in Seq(Commands) /\ Head(Down1) = "unrule" /\ Len(Down1) = 1
  BY DEF Down1, Commands
<1>4. Delete \in Seq(Commands) /\ Head(Delete) = "link delete" /\ Len(Delete) = 1
  BY DEF Delete, Commands
<1>5. SiteUpProgram \in Seq(Commands) /\ Head(SiteUpProgram) = "query" /\ Len(SiteUpProgram) = 7
  BY DEF SiteUpProgram, Commands
<1>6. Up6 \in Seq(Commands) /\ Head(Up6) = "link delete" /\ Len(Up6) = 6
  BY DEF Up6, Commands
<1>7. Up5 \in Seq(Commands) /\ Head(Up5) = "unrule" /\ Len(Up5) = 5
  BY DEF Up5, Commands
<1>8. Up4 \in Seq(Commands) /\ Head(Up4) = "link add" /\ Len(Up4) = 4
  BY DEF Up4, Commands
<1>9. Up3 \in Seq(Commands) /\ Head(Up3) = "alias" /\ Len(Up3) = 3
  BY DEF Up3, Commands
<1>10. Up2 \in Seq(Commands) /\ Head(Up2) = "configure" /\ Len(Up2) = 2
  BY DEF Up2, Commands
<1>11. Up1 \in Seq(Commands) /\ Head(Up1) = "rule" /\ Len(Up1) = 1
  BY DEF Up1, Commands
<1>12. Done \in Seq(Commands)
  BY DEF Done
<1>13. Programs \subseteq Seq(Commands)
  BY ONLY <1>1, <1>2, <1>3, <1>4, <1>5, <1>6, <1>7, <1>8, <1>9, <1>10, <1>11, <1>12
     DEF Programs, Ups, Downs
<1> QED
  BY ONLY <1>1, <1>2, <1>3, <1>4, <1>5, <1>6, <1>7, <1>8, <1>9, <1>10, <1>11, <1>13

\* A sequence without its first command.
LEMMA TailIs ==
  ASSUME NEW s \in Programs, NEW t \in Programs,
         Len(s) = Len(t) + 1, \A i \in 1..Len(t) : t[i] = s[i + 1]
  PROVE  Tail(s) = t
<1>1. s \in Seq(Commands) /\ t \in Seq(Commands)
  BY ProgramTypes
<1>2. s # <<>>
  BY <1>1
<1>3. /\ Tail(s) \in Seq(Commands) /\ Len(Tail(s)) = Len(s) - 1
      /\ \A i \in 1..Len(Tail(s)) : Tail(s)[i] = s[i + 1]
  BY <1>1, <1>2, HeadTailProperties
<1>4. Len(t) \in Nat
  BY <1>1
<1>5. Len(Tail(s)) = Len(t)
  BY <1>3, <1>4
<1>6. \A i \in 1..Len(Tail(s)) : Tail(s)[i] = t[i]
  BY <1>3, <1>5
<1> QED
  BY <1>1, <1>3, <1>5, <1>6, SeqEqual

\* What is left after the first command of each.
LEMMA Tails ==
    /\ Tail(SiteDownProgram) = Down2
    /\ Tail(Down2) = Down1
    /\ Tail(Down1) = Done
    /\ Tail(Delete) = Done
    /\ Tail(SiteUpProgram) = Up6
    /\ Tail(Up6) = Up5
    /\ Tail(Up5) = Up4
    /\ Tail(Up4) = Up3
    /\ Tail(Up3) = Up2
    /\ Tail(Up2) = Up1
    /\ Tail(Up1) = Done
<1>1. Tail(SiteDownProgram) = Down2
  <2>1. /\ Down2[1] = SiteDownProgram[2] /\ Down2[2] = SiteDownProgram[3]
    BY DEF SiteDownProgram, Down2
  <2>2. Len(SiteDownProgram) = 3 /\ Len(Down2) = 2
    BY ProgramTypes
  <2>3. \A i \in 1..2 : Down2[i] = SiteDownProgram[i + 1]
    BY ONLY <2>1
  <2>4. SiteDownProgram \in Programs /\ Down2 \in Programs
    BY DEF Programs, Downs, Ups
  <2>5. Len(SiteDownProgram) = Len(Down2) + 1
    BY ONLY <2>2
  <2>6. \A i \in 1..Len(Down2) : Down2[i] = SiteDownProgram[i + 1]
    BY ONLY <2>2, <2>3
  <2> QED
    BY ONLY <2>4, <2>5, <2>6, TailIs, Zenon
<1>2. Tail(SiteUpProgram) = Up6
  <2>1. /\ Up6[1] = SiteUpProgram[2] /\ Up6[2] = SiteUpProgram[3]
        /\ Up6[3] = SiteUpProgram[4] /\ Up6[4] = SiteUpProgram[5]
        /\ Up6[5] = SiteUpProgram[6] /\ Up6[6] = SiteUpProgram[7]
    BY DEF SiteUpProgram, Up6
  <2>2. Len(SiteUpProgram) = 7 /\ Len(Up6) = 6
    BY ProgramTypes
  <2>3. \A i \in 1..6 : Up6[i] = SiteUpProgram[i + 1]
    BY ONLY <2>1
  <2>4. SiteUpProgram \in Programs /\ Up6 \in Programs
    BY DEF Programs, Downs, Ups
  <2>5. Len(SiteUpProgram) = Len(Up6) + 1
    BY ONLY <2>2
  <2>6. \A i \in 1..Len(Up6) : Up6[i] = SiteUpProgram[i + 1]
    BY ONLY <2>2, <2>3
  <2> QED
    BY ONLY <2>4, <2>5, <2>6, TailIs, Zenon
<1>3. Tail(Up6) = Up5
  <2>1. /\ Up5[1] = Up6[2] /\ Up5[2] = Up6[3]
        /\ Up5[3] = Up6[4] /\ Up5[4] = Up6[5]
        /\ Up5[5] = Up6[6]
    BY DEF Up6, Up5
  <2>2. Len(Up6) = 6 /\ Len(Up5) = 5
    BY ProgramTypes
  <2>3. \A i \in 1..5 : Up5[i] = Up6[i + 1]
    BY ONLY <2>1
  <2>4. Up6 \in Programs /\ Up5 \in Programs
    BY DEF Programs, Downs, Ups
  <2>5. Len(Up6) = Len(Up5) + 1
    BY ONLY <2>2
  <2>6. \A i \in 1..Len(Up5) : Up5[i] = Up6[i + 1]
    BY ONLY <2>2, <2>3
  <2> QED
    BY ONLY <2>4, <2>5, <2>6, TailIs, Zenon
<1>4. Tail(Up5) = Up4
  <2>1. /\ Up4[1] = Up5[2] /\ Up4[2] = Up5[3]
        /\ Up4[3] = Up5[4] /\ Up4[4] = Up5[5]
    BY DEF Up5, Up4
  <2>2. Len(Up5) = 5 /\ Len(Up4) = 4
    BY ProgramTypes
  <2>3. \A i \in 1..4 : Up4[i] = Up5[i + 1]
    BY ONLY <2>1
  <2>4. Up5 \in Programs /\ Up4 \in Programs
    BY DEF Programs, Downs, Ups
  <2>5. Len(Up5) = Len(Up4) + 1
    BY ONLY <2>2
  <2>6. \A i \in 1..Len(Up4) : Up4[i] = Up5[i + 1]
    BY ONLY <2>2, <2>3
  <2> QED
    BY ONLY <2>4, <2>5, <2>6, TailIs, Zenon
<1>5. Tail(Up4) = Up3
  <2>1. /\ Up3[1] = Up4[2] /\ Up3[2] = Up4[3]
        /\ Up3[3] = Up4[4]
    BY DEF Up4, Up3
  <2>2. Len(Up4) = 4 /\ Len(Up3) = 3
    BY ProgramTypes
  <2>3. \A i \in 1..3 : Up3[i] = Up4[i + 1]
    BY ONLY <2>1
  <2>4. Up4 \in Programs /\ Up3 \in Programs
    BY DEF Programs, Downs, Ups
  <2>5. Len(Up4) = Len(Up3) + 1
    BY ONLY <2>2
  <2>6. \A i \in 1..Len(Up3) : Up3[i] = Up4[i + 1]
    BY ONLY <2>2, <2>3
  <2> QED
    BY ONLY <2>4, <2>5, <2>6, TailIs, Zenon
<1>6. Tail(Up3) = Up2 /\ Tail(Up2) = Up1 /\ Tail(Up1) = Done
  BY DEF Up3, Up2, Up1, Done
<1>7. Tail(Down2) = Down1 /\ Tail(Down1) = Done /\ Tail(Delete) = Done
  BY DEF Down2, Down1, Delete, Done
<1> QED
  BY ONLY <1>1, <1>2, <1>3, <1>4, <1>5, <1>6, <1>7

\* No two programs are the same.
LEMMA ProgramsApart ==
    /\ Done \notin Ups /\ Done \notin {Down1, Down2, SiteDownProgram, Delete}
    /\ Down1 \notin {Down2, SiteDownProgram}
    /\ Up1 \notin {Up2, Up3, Up4, Up5, Up6, SiteUpProgram}
    /\ Up2 \notin {Up4, Up5, Up6, SiteUpProgram}
    /\ Up3 \notin {Up4, Up5, Up6, SiteUpProgram}
    /\ \A p \in Ups : p \notin Downs \cup {Delete}
<1> DEFINE Size(p) == Len(p)
           First(p) == Head(p)
<1>1. Size(Done) = 0
  BY DEF Done
<1>2. /\ Size(SiteUpProgram) = 7 /\ Size(Up6) = 6 /\ Size(Up5) = 5 /\ Size(Up4) = 4
      /\ Size(Up3) = 3 /\ Size(Up2) = 2 /\ Size(Up1) = 1
      /\ First(Up1) = "rule" /\ First(Up2) = "configure" /\ First(Up3) = "alias"
  BY ProgramTypes
<1>3. /\ Size(SiteDownProgram) = 3 /\ Size(Down2) = 2 /\ Size(Down1) = 1 /\ Size(Delete) = 1
      /\ First(SiteDownProgram) = "query" /\ First(Down2) = "link delete"
      /\ First(Down1) = "unrule" /\ First(Delete) = "link delete"
  BY ProgramTypes
<1> HIDE DEF Size, First
<1>4. \A p \in Ups : p \notin Downs \cup {Delete}
  <2>1. ASSUME NEW p \in Ups
        PROVE  \/ Size(p) \in {4, 5, 6, 7}
               \/ Size(p) # 0 /\ First(p) \in {"rule", "configure", "alias"}
    BY ONLY <2>1, <1>2 DEF Ups
  <2>2. ASSUME NEW p \in Downs \cup {Delete}
        PROVE  /\ Size(p) \in {0, 1, 2, 3}
               /\ Size(p) = 0 \/ First(p) \notin {"rule", "configure", "alias"}
    BY ONLY <2>2, <1>1, <1>3 DEF Downs
  <2> QED
    BY ONLY <2>1, <2>2
<1>5. Done \notin Ups
  BY ONLY <1>4, Zenon DEF Downs
<1>6. Done # Down1 /\ Done # Down2 /\ Done # SiteDownProgram /\ Done # Delete
  BY DEF Done, Down1, Down2, SiteDownProgram, Delete
<1>7. Down1 # Down2 /\ Down1 # SiteDownProgram
  BY ONLY <1>3
<1>8. /\ Up1 \notin {Up2, Up3, Up4, Up5, Up6, SiteUpProgram}
      /\ Up2 \notin {Up4, Up5, Up6, SiteUpProgram}
      /\ Up3 \notin {Up4, Up5, Up6, SiteUpProgram}
  BY ONLY <1>2
<1> QED
  BY ONLY <1>4, <1>5, <1>6, <1>7, <1>8

\* A command that is no query runs, is refused or fails, and then others are left.
Does(command, rest, others) ==
    /\ UNCHANGED site
    /\ \/ ~Refused(command) /\ Effect(command) /\ cmds' = rest /\ UNCHANGED <<failed, faults>>
       \/ /\ Refused(command) /\ cmds' = Done /\ failed' = TRUE
          /\ UNCHANGED <<link, conf, rules, faults>>
       \/ /\ Fault /\ cmds' = others /\ failed' = TRUE
          /\ UNCHANGED <<link, conf, rules>> \/ Effect(command)

\* The query of the interface is answered, refused, or fails and is passed over.
Asks(rest, less) ==
    /\ UNCHANGED <<link, conf, rules, site>>
    /\ \/ link = "none" /\ cmds' = less /\ UNCHANGED <<failed, faults>>
       \/ link \notin {"none", "bare"} /\ cmds' = rest /\ UNCHANGED <<failed, faults>>
       \/ link = "bare" /\ cmds' = Done /\ failed' = TRUE /\ UNCHANGED faults
       \/ Fault /\ cmds' = less /\ UNCHANGED failed

LEMMA CommandIs ==
  ASSUME Command
  PROVE  /\ cmds # Done
         /\ Head(cmds) # "query" => Does(Head(cmds), Tail(cmds), OnError(Head(cmds)))
         /\ Head(cmds) = "query" => Asks(Tail(cmds), Tail(Tail(cmds)))
<1> USE DEF Done
<1>1. cmds # <<>>
  BY DEF Command, RunCommand, CommandRefused, CommandFails, QueryFails
<1>2. CASE RunCommand
  BY <1>1, <1>2 DEF RunCommand, Does, Asks, Refused, Effect, Rest
<1>3. CASE CommandRefused
  BY <1>1, <1>3 DEF CommandRefused, Does, Asks, Refused
<1>4. CASE CommandFails
  BY <1>1, <1>4 DEF CommandFails, Does, Fault
<1>5. CASE QueryFails
  BY <1>1, <1>5 DEF QueryFails, Asks, Fault
<1> QED
  BY <1>2, <1>3, <1>4, <1>5 DEF Command

\* What is done of each program.
LEMMA ProgramDoes ==
  ASSUME Command
  PROVE  /\ cmds # Done
         /\ cmds = SiteDownProgram => Asks(Down2, Down1)
         /\ cmds = Down2 => Does("link delete", Down1, Done)
         /\ cmds = Down1 => Does("unrule", Done, Done)
         /\ cmds = Delete => Does("link delete", Done, Done)
         /\ cmds = SiteUpProgram => Asks(Up6, Up5)
         /\ cmds = Up6 => Does("link delete", Up5, Done)
         /\ cmds = Up5 => Does("unrule", Up4, Done)
         /\ cmds = Up4 => Does("link add", Up3, Done)
         /\ cmds = Up3 => Does("alias", Up2, Delete)
         /\ cmds = Up2 => Does("configure", Up1, SiteDownProgram)
         /\ cmds = Up1 => Does("rule", Done, SiteDownProgram)
<1>1. /\ cmds # Done
      /\ Head(cmds) # "query" => Does(Head(cmds), Tail(cmds), OnError(Head(cmds)))
      /\ Head(cmds) = "query" => Asks(Tail(cmds), Tail(Tail(cmds)))
  BY CommandIs
<1>2. /\ OnError("link delete") = Done /\ OnError("unrule") = Done /\ OnError("link add") = Done
      /\ OnError("alias") = Delete /\ OnError("configure") = SiteDownProgram
      /\ OnError("rule") = SiteDownProgram
  BY DEF OnError, Done, Delete
<1>3. cmds = SiteDownProgram => Asks(Down2, Down1)
  BY ONLY <1>1, ProgramTypes, Tails
<1>4. cmds = Down2 => Does("link delete", Down1, Done)
  BY ONLY <1>1, <1>2, ProgramTypes, Tails
<1>5. cmds = Down1 => Does("unrule", Done, Done)
  BY ONLY <1>1, <1>2, ProgramTypes, Tails
<1>6. cmds = Delete => Does("link delete", Done, Done)
  BY ONLY <1>1, <1>2, ProgramTypes, Tails
<1>7. cmds = SiteUpProgram => Asks(Up6, Up5)
  BY ONLY <1>1, ProgramTypes, Tails
<1>8. cmds = Up6 => Does("link delete", Up5, Done)
  BY ONLY <1>1, <1>2, ProgramTypes, Tails
<1>9. cmds = Up5 => Does("unrule", Up4, Done)
  BY ONLY <1>1, <1>2, ProgramTypes, Tails
<1>10. cmds = Up4 => Does("link add", Up3, Done)
  BY ONLY <1>1, <1>2, ProgramTypes, Tails
<1>11. cmds = Up3 => Does("alias", Up2, Delete)
  BY ONLY <1>1, <1>2, ProgramTypes, Tails
<1>12. cmds = Up2 => Does("configure", Up1, SiteDownProgram)
  BY ONLY <1>1, <1>2, ProgramTypes, Tails
<1>13. cmds = Up1 => Does("rule", Done, SiteDownProgram)
  BY ONLY <1>1, <1>2, ProgramTypes, Tails
<1> QED
  BY ONLY <1>1, <1>3, <1>4, <1>5, <1>6, <1>7, <1>8, <1>9, <1>10, <1>11, <1>12, <1>13

\* What any command leaves as it is.
Least ==
    /\ site' = site
    /\ faults' = faults \/ Fault
    /\ failed' = failed \/ failed' = TRUE

\* A command of SiteDown, or of what SiteUp does after an error, can only take down: and an
\* interface that is still up when the deletion is over took a fault.
LEMMA DownStep ==
  ASSUME Command, cmds \in Downs
  PROVE  /\ Least /\ cmds' \in Downs
         /\ link' \in {link, "none"} /\ conf' \in {conf, None} /\ rules' \in {rules, FALSE}
         /\ link' = "up" => conf' = conf
         /\ ~Ahead => ~Ahead'
         /\ Ahead /\ ~Ahead' /\ link' = "up" => Fault
         /\ cmds' = Done /\ ~failed' => ~rules'
<1>1. CASE cmds = SiteDownProgram
  <2>1. Asks(Down2, Down1) /\ Ahead
    BY <1>1, ProgramDoes DEF Ahead
  <2>2. Least
    BY <2>1 DEF Asks, Least
  <2>3. cmds' \in Downs
    BY <2>1 DEF Asks, Downs
  <2>4. link' = link /\ conf' = conf /\ rules' = rules
    BY <2>1 DEF Asks
  <2>5. ~Ahead' /\ link' = "up" => Fault
    BY <2>1, ProgramsApart DEF Asks, Ahead
  <2>6. cmds' = Done => failed'
    BY <2>1, ProgramsApart DEF Asks
  <2> QED
    BY ONLY <2>1, <2>2, <2>3, <2>4, <2>5, <2>6
<1>2. CASE cmds = Down2
  <2>1. Does("link delete", Down1, Done) /\ Ahead
    BY <1>2, ProgramDoes DEF Ahead
  <2>2. Least /\ cmds' \in Downs
    BY <2>1 DEF Does, Least, Downs
  <2>3. /\ link' \in {link, "none"} /\ conf' \in {conf, None} /\ rules' = rules
        /\ link' = "up" => conf' = conf
    BY <2>1 DEF Does, Effect, SetLink, Refused
  <2>4. link' = "up" => Fault
    BY <2>1 DEF Does, Effect, SetLink, Refused
  <2>5. cmds' = Done => failed'
    BY <2>1, ProgramsApart DEF Does
  <2> QED
    BY ONLY <2>1, <2>2, <2>3, <2>4, <2>5
<1>3. CASE cmds = Down1
  <2>1. Does("unrule", Done, Done) /\ ~Ahead
    BY <1>3, ProgramDoes, ProgramsApart DEF Ahead
  <2>2. Least /\ cmds' = Done
    BY <2>1 DEF Does, Least
  <2>3. link' = link /\ conf' = conf /\ rules' \in {rules, FALSE} /\ (~failed' => ~rules')
    BY <2>1 DEF Does, Effect, SetRules, Refused
  <2>4. cmds' \in Downs /\ ~Ahead'
    BY <2>2, ProgramsApart DEF Downs, Ahead
  <2> QED
    BY ONLY <2>1, <2>2, <2>3, <2>4
<1>4. cmds # Done
  BY ProgramDoes
<1> QED
  BY <1>1, <1>2, <1>3, <1>4 DEF Downs

LEMMA DeleteStep ==
  ASSUME Command, cmds = Delete
  PROVE  /\ Least /\ cmds' = Done
         /\ link' \in {link, "none"} /\ conf' \in {conf, None} /\ rules' = rules
<1>1. Does("link delete", Done, Done)
  BY ProgramDoes
<1> QED
  BY <1>1 DEF Does, Least, Effect, SetLink, Refused

\* What a command of SiteUp may make of the kernel.
LEMMA UpMakes ==
  ASSUME Command, cmds \in Ups
  PROVE  /\ Least
         /\ link' \in {"none", "bare", "ours", "up", link} /\ conf' \in {conf, site, None}
         /\ rules' \in {rules, TRUE, FALSE}
<1> DEFINE Makes == /\ Least
                    /\ link' \in {"none", "bare", "ours", "up", link}
                    /\ conf' \in {conf, site, None}
                    /\ rules' \in {rules, TRUE, FALSE}
<1>1. Asks(Up6, Up5) => Makes
  BY DEF Asks, Least
<1>2. ASSUME NEW rest, NEW others,
             NEW command \in {"link delete", "unrule", "link add", "alias", "configure", "rule"},
             Does(command, rest, others)
      PROVE  Makes
  <2>1. Least
    BY <1>2 DEF Does, Least
  <2>2. Effect(command) => /\ link' \in {"none", "bare", "ours", "up", link}
                           /\ conf' \in {conf, site, None} /\ rules' \in {rules, TRUE, FALSE}
    BY DEF Effect, SetLink, SetRules
  <2>3. Effect(command) \/ UNCHANGED <<link, conf, rules>>
    BY <1>2 DEF Does
  <2> QED
    BY <2>1, <2>2, <2>3
<1> HIDE DEF Makes
<1>3. Makes
  BY <1>1, <1>2, ProgramDoes DEF Ups
<1> QED
  BY <1>3 DEF Makes

\* A command of SiteUp brings the interface up only at its turn, with the profile asked for.
LEMMA UpStep ==
  ASSUME Command, cmds \in Ups, ~failed, cmds = Up1 /\ link = "up" => conf = site
  PROVE  /\ ~failed' => cmds' \in Ups \cup {Done}
         /\ failed' => cmds' \in Downs \cup {Delete}
         /\ link' = "up" /\ (failed' \/ cmds' \notin {Up1, Done}) =>
               Fault \/ (link = "up" /\ cmds \notin {Up1, Done})
         /\ link' = "up" /\ ~failed' =>
               /\ cmds' \notin {Up2, Up3}
               /\ cmds' \in {Up1, Done} => conf' = site
               /\ cmds' = Done => rules'
<1>1. Done \notin {Up1, Up2, Up3, Up4, Up5, Up6, SiteUpProgram}
  BY ProgramsApart DEF Ups
<1>2. CASE cmds = SiteUpProgram
  <2>1. Asks(Up6, Up5)
    BY <1>2, ProgramDoes
  <2>2. ~failed' => cmds' \in Ups \cup {Done}
    BY <2>1 DEF Asks, Ups
  <2>3. failed' => cmds' \in Downs \cup {Delete}
    BY <2>1 DEF Asks, Downs
  <2>4. link' = "up" /\ (failed' \/ cmds' \notin {Up1, Done}) =>
            Fault \/ (link = "up" /\ cmds \notin {Up1, Done})
    BY <1>2, <2>1, ProgramsApart DEF Asks
  <2>5. link' = "up" /\ ~failed' =>
            /\ cmds' \notin {Up2, Up3}
            /\ cmds' \in {Up1, Done} => conf' = site
            /\ cmds' = Done => rules'
    BY <1>1, <1>2, <2>1, ProgramsApart DEF Asks
  <2> QED
    BY ONLY <2>2, <2>3, <2>4, <2>5
<1>3. CASE cmds = Up6
  <2>1. Does("link delete", Up5, Done)
    BY <1>3, ProgramDoes
  <2>2. ~failed' => cmds' \in Ups \cup {Done}
    BY <2>1 DEF Does, Ups
  <2>3. failed' => cmds' \in Downs \cup {Delete}
    BY <2>1 DEF Does, Downs
  <2>4. link' = "up" /\ (failed' \/ cmds' \notin {Up1, Done}) =>
            Fault \/ (link = "up" /\ cmds \notin {Up1, Done})
    BY <1>3, <2>1, ProgramsApart DEF Does, Effect, SetLink, Refused
  <2>5. link' = "up" /\ ~failed' =>
            /\ cmds' \notin {Up2, Up3}
            /\ cmds' \in {Up1, Done} => conf' = site
            /\ cmds' = Done => rules'
    BY <1>1, <1>3, <2>1, ProgramsApart DEF Does, Effect, SetLink, Refused
  <2> QED
    BY ONLY <2>2, <2>3, <2>4, <2>5
<1>4. CASE cmds = Up5
  <2>1. Does("unrule", Up4, Done)
    BY <1>4, ProgramDoes
  <2>2. ~failed' => cmds' \in Ups \cup {Done}
    BY <2>1 DEF Does, Ups
  <2>3. failed' => cmds' \in Downs \cup {Delete}
    BY <2>1 DEF Does, Downs
  <2>4. link' = "up" /\ (failed' \/ cmds' \notin {Up1, Done}) =>
            Fault \/ (link = "up" /\ cmds \notin {Up1, Done})
    BY <1>4, <2>1, ProgramsApart DEF Does, Effect, SetRules, Refused
  <2>5. link' = "up" /\ ~failed' =>
            /\ cmds' \notin {Up2, Up3}
            /\ cmds' \in {Up1, Done} => conf' = site
            /\ cmds' = Done => rules'
    BY <1>1, <1>4, <2>1, ProgramsApart DEF Does, Effect, SetRules, Refused
  <2> QED
    BY ONLY <2>2, <2>3, <2>4, <2>5
<1>5. CASE cmds = Up4
  <2>1. Does("link add", Up3, Done)
    BY <1>5, ProgramDoes
  <2>2. ~failed' => cmds' \in Ups \cup {Done}
    BY <2>1 DEF Does, Ups
  <2>3. failed' => cmds' \in Downs \cup {Delete}
    BY <2>1 DEF Does, Downs
  <2>4. link' = "up" /\ (failed' \/ cmds' \notin {Up1, Done}) =>
            Fault \/ (link = "up" /\ cmds \notin {Up1, Done})
    BY <1>5, <2>1, ProgramsApart DEF Does, Effect, SetLink, Refused
  <2>5. link' = "up" /\ ~failed' =>
            /\ cmds' \notin {Up2, Up3}
            /\ cmds' \in {Up1, Done} => conf' = site
            /\ cmds' = Done => rules'
    BY <1>1, <1>5, <2>1, ProgramsApart DEF Does, Effect, SetLink, Refused
  <2> QED
    BY ONLY <2>2, <2>3, <2>4, <2>5
<1>6. CASE cmds = Up3
  <2>1. Does("alias", Up2, Delete)
    BY <1>6, ProgramDoes
  <2>2. ~failed' => cmds' \in Ups \cup {Done}
    BY <2>1 DEF Does, Ups
  <2>3. failed' => cmds' \in Downs \cup {Delete}
    BY <2>1 DEF Does, Downs
  <2>4. link' = "up" /\ (failed' \/ cmds' \notin {Up1, Done}) =>
            Fault \/ (link = "up" /\ cmds \notin {Up1, Done})
    BY <1>6, <2>1, ProgramsApart DEF Does, Effect, SetLink, Refused
  <2>5. link' = "up" /\ ~failed' =>
            /\ cmds' \notin {Up2, Up3}
            /\ cmds' \in {Up1, Done} => conf' = site
            /\ cmds' = Done => rules'
    BY <1>1, <1>6, <2>1, ProgramsApart DEF Does, Effect, SetLink, Refused
  <2> QED
    BY ONLY <2>2, <2>3, <2>4, <2>5
<1>7. CASE cmds = Up2
  <2>1. Does("configure", Up1, SiteDownProgram)
    BY <1>7, ProgramDoes
  <2>2. ~failed' => cmds' \in Ups \cup {Done}
    BY <2>1 DEF Does, Ups
  <2>3. failed' => cmds' \in Downs \cup {Delete}
    BY <2>1 DEF Does, Downs
  <2>4. link' = "up" /\ (failed' \/ cmds' \notin {Up1, Done}) =>
            Fault \/ (link = "up" /\ cmds \notin {Up1, Done})
    BY <1>7, <2>1, ProgramsApart DEF Does, Effect, SetLink, Refused
  <2>5. link' = "up" /\ ~failed' =>
            /\ cmds' \notin {Up2, Up3}
            /\ cmds' \in {Up1, Done} => conf' = site
            /\ cmds' = Done => rules'
    BY <1>1, <1>7, <2>1, ProgramsApart DEF Does, Effect, SetLink, Refused
  <2> QED
    BY ONLY <2>2, <2>3, <2>4, <2>5
<1>8. CASE cmds = Up1
  <2>1. Does("rule", Done, SiteDownProgram)
    BY <1>8, ProgramDoes
  <2>2. ~failed' => cmds' \in Ups \cup {Done}
    BY <2>1 DEF Does, Ups
  <2>3. failed' => cmds' \in Downs \cup {Delete}
    BY <2>1 DEF Does, Downs
  <2>4. link' = "up" /\ (failed' \/ cmds' \notin {Up1, Done}) =>
            Fault \/ (link = "up" /\ cmds \notin {Up1, Done})
    BY <1>8, <2>1, ProgramsApart DEF Does, Effect, SetRules, Refused
  <2>5. link' = "up" /\ ~failed' =>
            /\ cmds' \notin {Up2, Up3}
            /\ cmds' \in {Up1, Done} => conf' = site
            /\ cmds' = Done => rules'
    BY <1>1, <1>8, <2>1, ProgramsApart DEF Does, Effect, SetRules, Refused
  <2> QED
    BY ONLY <2>2, <2>3, <2>4, <2>5
<1> QED
  BY <1>2, <1>3, <1>4, <1>5, <1>6, <1>7, <1>8 DEF Ups

-----------------------------------------------------------------------------
(***************************************************************************)
(* Types.                                                                  *)
(***************************************************************************)
\* A fault is counted, and not over the bound.
LEMMA FaultCounted ==
  ASSUME Types, Fault
  PROVE  faults' \in 0..MaxFaults /\ faults' = faults + 1 /\ faults' >= 1
  BY TunnelAssumption DEF Types, TunnelTypes, Fault

\* Where a program starts, or is given up, the types of the tunnel's variables hold.
LEMMA ProgramStarts ==
  ASSUME Types, \/ SiteDown \/ Abandoned
                \/ \E p \in Profiles : SiteUp(p)
                \/ UNCHANGED <<cmds, site, failed>>
  PROVE  site' \in Profiles \cup {None} /\ failed' \in BOOLEAN
  BY DEF Types, TunnelTypes, SiteDown, SiteUp, Run, Abandoned

LEMMA ClientTypes ==
  ASSUME Types, Told, Client
  PROVE  Types'
<1>1. call.at \in {"challenge", "login", "stale", "request", "logout"} /\ call.id \in Identities
  BY DEF Told, Client, Challenge, Login, LoginRejected, LoginFails, Request, RequestRefused, RequestFails,
         Logout, LogoutLost
<1>2. /\ UNCHANGED <<link, conf, rules, site, failed, unitVars, records, offer, enabled, config, admin>>
      /\ UNCHANGED faults \/ Fault
  BY DEF Client, Challenge, Login, LoginRejected, LoginFails, Request, RequestRefused, RequestFails,
         Logout, LogoutLost, tunnelVars, coreVars
<1>3. TunnelTypes' /\ UnitTypes' /\ AdminType'
  BY <1>2, FaultCounted DEF Types, TunnelTypes, UnitTypes, AdminType, unitVars
<1>4. CallType'
  <2>1. ASSUME NEW at \in {"login", "request", "logout", "answered"}, NEW token \in {"none", "live", "dead"},
               NEW answer \in Profiles \cup {"none", "rejected", "failed", "ok"},
               Answer(at, answer, token)
        PROVE  CallType'
    BY <2>1 DEF Answer, Types, CallType
  <2> QED
    BY <2>1 DEF Client, Challenge, Login, LoginRejected, LoginFails, Request, RequestRefused, RequestFails,
                Logout, LogoutLost, Answered, Types, CallType, CoreTypes
<1>5. peer' \in Identities \cup {None}
  BY <1>1 DEF Client, Challenge, Login, LoginRejected, LoginFails, Request, RequestRefused, RequestFails,
              Logout, LogoutLost, TakesEffect, coreVars, Types, CoreTypes
<1>6. sessions' \in [Identities -> Nat]
  <2>1. CASE Login \/ LoginFails
    BY <1>1, <2>1 DEF Login, LoginFails, Opened, Types, CoreTypes
  <2>2. CASE Logout
    BY <1>1, <2>2 DEF Logout, Told, Types, CoreTypes
  <2>3. CASE Challenge \/ LoginRejected \/ Request \/ RequestRefused \/ RequestFails \/ LogoutLost
    BY <2>3 DEF Challenge, LoginRejected, Request, RequestRefused, RequestFails, LogoutLost, coreVars,
                Types, CoreTypes
  <2> QED
    BY <2>1, <2>2, <2>3 DEF Client
<1>7. CoreTypes'
  BY <1>2, <1>5, <1>6 DEF Types, CoreTypes
<1> QED
  BY <1>3, <1>4, <1>7 DEF Types

LEMMA ServeTypes ==
  ASSUME Types, Calling, Serve
  PROVE  Types'
<1> USE DEF Types
<1>1. AdminType' /\ CoreTypes'
  BY DEF Serve, Due, Rejected, RejectedDown, Unreachable, Unchanged, Change, OldDown, Save,
         SaveFails, NewUp, Stopped, ExitDown, Exit, coreVars, AdminType, CoreTypes
<1>2. CASE Due
  <2>1. TunnelTypes'
    BY <1>2 DEF Due, tunnelVars, TunnelTypes
  <2>2. UnitTypes'
    BY <1>2 DEF Due, Goto, UnitTypes
  <2>3. CallType'
    BY <1>2 DEF Due, Begin, NoCall, CallType, UnitTypes
  <2> QED
    BY <1>1, <2>1, <2>2, <2>3
<1>3. CASE Rejected
  <2>1. TunnelTypes'
    BY <1>3, ProgramStarts DEF Rejected, TakeDown, TunnelTypes
  <2>2. UnitTypes'
    BY <1>3 DEF Rejected, Goto, UnitTypes
  <2>3. CallType'
    BY <1>3 DEF Rejected, Answering, NoCall, CallType
  <2> QED
    BY <1>1, <2>1, <2>2, <2>3
<1>4. CASE RejectedDown \/ Stopped
  <2>1. TunnelTypes'
    BY <1>4 DEF RejectedDown, Stopped, tunnelVars, TunnelTypes
  <2>2. UnitTypes'
    BY <1>4 DEF RejectedDown, Stopped, Goto, UnitTypes
  <2>3. CallType'
    BY <1>4 DEF RejectedDown, Stopped, CallType
  <2> QED
    BY <1>1, <2>1, <2>2, <2>3
<1>5. CASE Unreachable \/ Unchanged
  <2>1. TunnelTypes' /\ UnitTypes'
    BY <1>5 DEF Unreachable, Unchanged, Goto, tunnelVars, TunnelTypes, UnitTypes
  <2>2. CallType'
    BY <1>5 DEF Unreachable, Unchanged, Answering, NoCall, CallType
  <2> QED
    BY <1>1, <2>1, <2>2
<1>6. CASE Change
  <2>1. faults' \in 0..MaxFaults
    BY <1>6, TunnelAssumption DEF Change, TunnelTypes
  <2>2. TunnelTypes'
    BY <1>6, <2>1, ProgramStarts DEF Change, TakeDown, TunnelTypes
  <2>3. UnitTypes' /\ CallType'
    BY <1>6 DEF Change, Goto, UnitTypes, CallType
  <2> QED
    BY <1>1, <2>2, <2>3
<1>7. CASE OldDown
  <2>1. TunnelTypes'
    BY <1>7 DEF OldDown, tunnelVars, TunnelTypes
  <2>2. UnitTypes'
    BY <1>7 DEF OldDown, Goto, UnitTypes, TunnelTypes
  <2>3. CallType'
    BY <1>7 DEF OldDown, NoCall, CallType
  <2> QED
    BY <1>1, <2>1, <2>2, <2>3
<1>8. CASE Save
  <2>1. call.answer \in Profiles
    BY <1>8 DEF Save, Calling
  <2>2. TunnelTypes'
    BY <1>8, <2>1, ProgramStarts DEF Save, TunnelTypes
  <2>3. UnitTypes' /\ CallType'
    BY <1>8 DEF Save, Goto, UnitTypes, CallType
  <2> QED
    BY <1>1, <2>2, <2>3
<1>9. CASE SaveFails
  <2>1. TunnelTypes'
    BY <1>9, FaultCounted DEF SaveFails, TunnelTypes
  <2>2. UnitTypes'
    BY <1>9 DEF SaveFails, Goto, UnitTypes
  <2>3. CallType'
    BY <1>9 DEF SaveFails, NoCall, CallType
  <2> QED
    BY <1>1, <2>1, <2>2, <2>3
<1>10. CASE NewUp
  <2>1. TunnelTypes'
    BY <1>10 DEF NewUp, tunnelVars, TunnelTypes
  <2>2. call.answer \in Profiles
    BY <1>10 DEF NewUp, Calling
  <2>3. UnitTypes'
    BY <1>10, <2>2 DEF NewUp, Goto, UnitTypes, TunnelTypes
  <2>4. CallType'
    BY <1>10 DEF NewUp, NoCall, CallType
  <2> QED
    BY <1>1, <2>1, <2>3, <2>4
<1>11. CASE ExitDown
  <2>1. TunnelTypes'
    BY <1>11, ProgramStarts DEF ExitDown, TunnelTypes
  <2>2. UnitTypes'
    BY <1>11 DEF ExitDown, Goto, UnitTypes
  <2>3. CallType'
    BY <1>11 DEF ExitDown, CallType
  <2> QED
    BY <1>1, <2>1, <2>2, <2>3
<1>12. CASE Exit
  <2>1. TunnelTypes'
    BY <1>12, ProgramStarts DEF Exit, StopPost, TunnelTypes
  <2>2. UnitTypes' /\ CallType'
    BY <1>12 DEF Exit, UnitTypes, CallType
  <2> QED
    BY <1>1, <2>1, <2>2
<1> QED
  BY <1>2, <1>3, <1>4, <1>5, <1>6, <1>7, <1>8, <1>9, <1>10, <1>11, <1>12 DEF Serve

LEMMA UnitActTypes ==
  ASSUME Types, Unit \/ Crash \/ Reboot
  PROVE  Types'
<1> USE DEF Types
<1>1. CASE Unit
  <2>1. AdminType' /\ CoreTypes' /\ CallType'
    BY <1>1 DEF Unit, Cleaned, Ended, Restart, coreVars, AdminType, CoreTypes, CallType
  <2>2. UnitTypes'
    BY <1>1 DEF Unit, Cleaned, Ended, Restart, StartUnit, UnitTypes
  <2>3. site' \in Profiles \cup {None} /\ failed' \in BOOLEAN
    BY <1>1, ProgramStarts DEF Unit, Cleaned, Ended, Restart, StartUnit, StopPost, tunnelVars
  <2>4. TunnelTypes'
    BY <1>1, <2>3 DEF Unit, Cleaned, Ended, Restart, tunnelVars, TunnelTypes
  <2> QED
    BY <2>1, <2>2, <2>4
<1>2. CASE Crash
  <2>1. AdminType' /\ CoreTypes'
    BY <1>2 DEF Crash, coreVars, AdminType, CoreTypes
  <2>2. UnitTypes'
    BY <1>2 DEF Crash, UnitTypes
  <2>3. CallType'
    BY <1>2 DEF Crash, NoCall, CallType
  <2>4. TunnelTypes'
    BY <1>2, ProgramStarts, FaultCounted DEF Crash, StopPost, TunnelTypes
  <2> QED
    BY <2>1, <2>2, <2>3, <2>4
<1>3. CASE Reboot
  <2>1. CoreTypes'
    BY <1>3 DEF Reboot, coreVars, CoreTypes
  <2>2. UnitTypes'
    BY <1>3 DEF Reboot, UnitTypes
  <2>3. CallType'
    BY <1>3 DEF Reboot, NoCall, CallType
  <2>4. AdminType'
    BY <1>3 DEF Reboot, NoCommand, AdminType
  <2>5. TunnelTypes'
    BY <1>3, FaultCounted DEF Reboot, TunnelTypes
  <2> QED
    BY <2>1, <2>2, <2>3, <2>4, <2>5
<1> QED
  BY <1>1, <1>2, <1>3

LEMMA AdminTypes ==
  ASSUME Types, Standing, Admin \/ Interrupted
  PROVE  Types'
<1> USE DEF Types
<1>1. CoreTypes'
  BY DEF Admin, Install, Registered, Overlap, Persist, PersistFails, Undone, Enable, EnableFails,
         Leave, Left, Remove, Interrupted, coreVars, CoreTypes
<1>2. CASE Install
  <2>1. TunnelTypes' /\ UnitTypes'
    BY <1>2 DEF Install, tunnelVars, unitVars, TunnelTypes, UnitTypes
  <2>2. CallType'
    BY <1>2 DEF Install, Begin, NoCall, CallType, AdminType
  <2>3. AdminType'
    BY <1>2 DEF Install, AdminTo, AdminType
  <2> QED
    BY <1>1, <2>1, <2>2, <2>3
<1>3. CASE Registered \/ Undone
  <2>1. TunnelTypes' /\ UnitTypes'
    BY <1>3 DEF Registered, Undone, tunnelVars, unitVars, TunnelTypes, UnitTypes
  <2>2. CallType'
    BY <1>3 DEF Registered, Undone, NoCall, CallType
  <2>3. AdminType'
    BY <1>3 DEF Registered, Undone, AdminTo, NoCommand, AdminType
  <2> QED
    BY <1>1, <2>1, <2>2, <2>3
<1>4. CASE Overlap \/ PersistFails
  <2>1. TunnelTypes'
    BY <1>4, FaultCounted DEF Overlap, PersistFails, tunnelVars, TunnelTypes
  <2>2. UnitTypes'
    BY <1>4 DEF Overlap, PersistFails, unitVars, UnitTypes, AdminType
  <2>3. CallType'
    BY <1>4 DEF Overlap, PersistFails, Undo, Begin, NoCall, CallType, AdminType
  <2>4. AdminType'
    BY <1>4 DEF Overlap, PersistFails, Undo, AdminTo, AdminType
  <2> QED
    BY <1>1, <2>1, <2>2, <2>3, <2>4
<1>5. CASE Persist
  <2>1. TunnelTypes' /\ UnitTypes' /\ CallType'
    BY <1>5 DEF Persist, tunnelVars, unitVars, TunnelTypes, UnitTypes, CallType, AdminType
  <2>2. AdminType'
    BY <1>5 DEF Persist, AdminTo, AdminType
  <2> QED
    BY <1>1, <2>1, <2>2
<1>6. CASE Enable
  <2>1. TunnelTypes'
    BY <1>6, ProgramStarts DEF Enable, StartUnit, NothingElse, TunnelTypes
  <2>2. UnitTypes'
    BY <1>6 DEF Enable, StartUnit, NothingElse, UnitTypes
  <2>3. CallType' /\ AdminType'
    BY <1>6 DEF Enable, NoCommand, CallType, AdminType
  <2> QED
    BY <1>1, <2>1, <2>2, <2>3
<1>7. CASE EnableFails
  <2>1. TunnelTypes'
    BY <1>7, FaultCounted DEF EnableFails, TunnelTypes
  <2>2. UnitTypes'
    BY <1>7 DEF EnableFails, unitVars, UnitTypes
  <2>3. CallType' /\ AdminType'
    BY <1>7 DEF EnableFails, NoCommand, CallType, AdminType
  <2> QED
    BY <1>1, <2>1, <2>2, <2>3
<1>8. CASE Leave
  <2>1. TunnelTypes'
    BY <1>8, ProgramStarts DEF Leave, NothingElse, TunnelTypes
  <2>2. UnitTypes'
    BY <1>8 DEF Leave, NothingElse, UnitTypes
  <2>3. CallType'
    <3>1. call' = call \/ Begin("disconnect", admin.id)
      BY <1>8 DEF Leave
    <3>2. admin.id \in Identities \cup {None}
      BY DEF AdminType
    <3>3. Begin("disconnect", admin.id) => CallType'
      BY <3>2 DEF Begin, NoCall, CallType
    <3> QED
      BY <3>1, <3>3 DEF CallType
  <2>4. AdminType'
    BY <1>8 DEF Leave, AdminTo, AdminType
  <2> QED
    BY <1>1, <2>1, <2>2, <2>3, <2>4
<1>9. CASE Left
  <2>1. TunnelTypes'
    BY <1>9, ProgramStarts DEF Left, NothingElse, TunnelTypes
  <2>2. UnitTypes'
    BY <1>9 DEF Left, NothingElse, UnitTypes
  <2>3. CallType'
    BY <1>9 DEF Left, NoCall, CallType
  <2>4. AdminType'
    BY <1>9 DEF Left, AdminTo, AdminType
  <2> QED
    BY <1>1, <2>1, <2>2, <2>3, <2>4
<1>10. CASE Remove
  <2>1. TunnelTypes' /\ UnitTypes'
    BY <1>10 DEF Remove, tunnelVars, unitVars, TunnelTypes, UnitTypes
  <2>2. CallType' /\ AdminType'
    BY <1>10 DEF Remove, NoCommand, CallType, AdminType
  <2> QED
    BY <1>1, <2>1, <2>2
<1>11. CASE Interrupted
  <2>1. TunnelTypes'
    BY <1>11, ProgramStarts, FaultCounted DEF Interrupted, TunnelTypes
  <2>2. UnitTypes'
    BY <1>11 DEF Interrupted, unitVars, UnitTypes
  <2>3. CallType'
    BY <1>11 DEF Interrupted, NoCall, CallType
  <2>4. AdminType'
    BY <1>11 DEF Interrupted, NoCommand, AdminType
  <2> QED
    BY <1>1, <2>1, <2>2, <2>3, <2>4
<1> QED
  BY <1>2, <1>3, <1>4, <1>5, <1>6, <1>7, <1>8, <1>9, <1>10, <1>11 DEF Admin

LEMMA WishTypes ==
  ASSUME Types, Wishes
  PROVE  Types'
<1> USE DEF Types
<1>1. CallType'
  BY DEF Wishes, Enroll, EnrollLost, GiveUp, Start, Stop, Forget, CallType
<1>2. ASSUME NEW id \in Identities, Enroll(id) \/ EnrollLost(id)
      PROVE  Types'
  <2>1. TunnelTypes'
    BY <1>2, FaultCounted DEF Enroll, EnrollLost, tunnelVars, TunnelTypes
  <2>2. UnitTypes'
    BY <1>2 DEF Enroll, EnrollLost, unitVars, UnitTypes
  <2>3. CoreTypes'
    BY <1>2 DEF Enroll, EnrollLost, CoreTypes
  <2>4. AdminType'
    BY <1>2 DEF Enroll, EnrollLost, AdminType
  <2> QED
    BY <1>1, <2>1, <2>2, <2>3, <2>4
<1>3. CASE GiveUp
  <2>1. TunnelTypes' /\ UnitTypes' /\ CoreTypes'
    BY <1>3 DEF GiveUp, tunnelVars, unitVars, coreVars, TunnelTypes, UnitTypes, CoreTypes
  <2>2. AdminType'
    BY <1>3 DEF GiveUp, NoCommand, AdminType
  <2> QED
    BY <1>1, <2>1, <2>2
<1>4. CASE Start
  <2>1. TunnelTypes'
    BY <1>4, ProgramStarts DEF Start, StartUnit, NothingElse, TunnelTypes
  <2>2. UnitTypes'
    BY <1>4 DEF Start, StartUnit, NothingElse, UnitTypes
  <2>3. CoreTypes' /\ AdminType'
    BY <1>4 DEF Start, coreVars, CoreTypes, AdminType
  <2> QED
    BY <1>1, <2>1, <2>2, <2>3
<1>5. CASE Stop
  <2>1. TunnelTypes' /\ UnitTypes'
    BY <1>5 DEF Stop, tunnelVars, TunnelTypes, UnitTypes
  <2>2. CoreTypes' /\ AdminType'
    BY <1>5 DEF Stop, coreVars, CoreTypes, AdminType
  <2> QED
    BY <1>1, <2>1, <2>2
<1>6. CASE Forget
  <2>1. TunnelTypes'
    BY <1>6 DEF Forget, tunnelVars, TunnelTypes
  <2>2. stopping' \in BOOLEAN
    BY <1>6 DEF Forget
  <2>3. UnitTypes'
    BY <1>6, <2>2 DEF Forget, UnitTypes
  <2>4. CoreTypes' /\ AdminType'
    BY <1>6 DEF Forget, coreVars, CoreTypes, AdminType, UnitTypes
  <2> QED
    BY <1>1, <2>1, <2>3, <2>4
<1> QED
  BY <1>2, <1>3, <1>4, <1>5, <1>6 DEF Wishes

LEMMA CoreStepTypes ==
  ASSUME Types, (\E id \in Identities : Revoke(id)) \/ NewOffer \/ CoreRestart
  PROVE  Types'
<1> USE DEF Types
<1>1. AdminType' /\ UnitTypes'
  BY DEF Revoke, NewOffer, CoreRestart, unitVars, AdminType, UnitTypes
<1>2. TunnelTypes'
  BY FaultCounted DEF Revoke, NewOffer, CoreRestart, tunnelVars, TunnelTypes
<1>3. CallType'
  BY DEF Revoke, NewOffer, CoreRestart, SignedOut, CallType
<1>4. CoreTypes'
  BY DEF Revoke, NewOffer, CoreRestart, CoreTypes
<1> QED
  BY <1>1, <1>2, <1>3, <1>4

\* What a step of the kernel leaves as it is.
LEMMA KernelFrame ==
  ASSUME Kernel \/ SiteLost
  PROVE  /\ UNCHANGED <<coreVars, unit, stopping, step, current, active, enabled, config, call, admin>>
         /\ Kernel => Command
  BY DEF Kernel, SiteLost, unitVars

LEMMA KernelTypes ==
  ASSUME Types, Running, Made, Kernel \/ SiteLost
  PROVE  Types'
<1>1. AdminType' /\ UnitTypes' /\ CallType' /\ CoreTypes'
  BY KernelFrame DEF Types, AdminType, UnitTypes, CallType, CoreTypes, coreVars
<1>2. CASE SiteLost
  <2>1. TunnelTypes'
    BY <1>2, FaultCounted DEF SiteLost, SetLink, Types, TunnelTypes
  <2> QED
    BY <1>1, <2>1 DEF Types
<1>3. CASE Kernel
  <2>1. Command
    BY <1>3 DEF Kernel
  <2>2. CASE cmds \in Downs
    <3>1. TunnelTypes'
      BY <2>1, <2>2, DownStep, FaultCounted DEF Least, Types, TunnelTypes
    <3> QED
      BY <1>1, <3>1 DEF Types
  <2>3. CASE cmds = Delete
    <3>1. TunnelTypes'
      BY <2>1, <2>3, DeleteStep, FaultCounted DEF Least, Types, TunnelTypes
    <3> QED
      BY <1>1, <3>1 DEF Types
  <2>4. CASE cmds \in Ups
    <3>1. TunnelTypes'
      BY <2>1, <2>4, UpMakes, FaultCounted DEF Least, Types, TunnelTypes
    <3> QED
      BY <1>1, <3>1 DEF Types
  <2> QED
    BY <2>2, <2>3, <2>4 DEF Running, Programs
<1> QED
  BY <1>2, <1>3
LEMMA TypesStep ==
  ASSUME Types, Running, Standing, Calling, Told, Made, [Next]_vars
  PROVE  Types'
<1>1. CASE UNCHANGED vars
  BY <1>1 DEF vars, tunnelVars, coreVars, unitVars, Types, TunnelTypes, CoreTypes, UnitTypes,
              CallType, AdminType
<1>2. CASE Next
  BY <1>2, ClientTypes, ServeTypes, UnitActTypes, AdminTypes, WishTypes, CoreStepTypes, KernelTypes
     DEF Next
<1> QED
  BY <1>1, <1>2
-----------------------------------------------------------------------------
(***************************************************************************)
(* Who runs what: Running, Standing and Calling.                           *)
(***************************************************************************)
\* The client moves only a call that is under way, and nothing of the machine.
LEMMA ClientFrame ==
  ASSUME Types, Calling, Client
  PROVE  /\ UNCHANGED <<link, conf, rules, cmds, site, failed, unit, stopping, step, current,
                        active, records, offer, enabled, config, admin>>
         /\ faults' = faults \/ Fault
         /\ call.at \in {"challenge", "login", "stale", "request", "logout"}
         /\ call'.at \in {"login", "request", "logout", "answered"}
         /\ call'.what = call.what /\ call'.id = call.id
         /\ step \notin {"down", "save", "up"}
<1>1. /\ UNCHANGED <<link, conf, rules, cmds, site, failed, unit, stopping, step, current,
                     active, records, offer, enabled, config, admin>>
      /\ faults' = faults \/ Fault
  BY DEF Client, Challenge, Login, LoginRejected, LoginFails, Request, RequestRefused, RequestFails,
         Logout, LogoutLost, tunnelVars, coreVars, unitVars
<1>2. call.at \in {"challenge", "login", "stale", "request", "logout"}
  BY DEF Client, Challenge, Login, LoginRejected, LoginFails, Request, RequestRefused, RequestFails,
         Logout, LogoutLost
<1>3. ASSUME NEW at \in {"login", "request", "logout", "answered"}, NEW token, NEW answer,
             Answer(at, answer, token)
      PROVE  /\ call'.at \in {"login", "request", "logout", "answered"}
             /\ call'.what = call.what /\ call'.id = call.id
  BY <1>3 DEF Answer, Types, CallType
<1>4. /\ call'.at \in {"login", "request", "logout", "answered"}
      /\ call'.what = call.what /\ call'.id = call.id
  BY <1>3 DEF Client, Challenge, Login, LoginRejected, LoginFails, Request, RequestRefused, RequestFails,
              Logout, LogoutLost, Answered
<1>5. step \notin {"down", "save", "up"}
  BY <1>2 DEF Calling
<1> QED
  BY ONLY <1>1, <1>2, <1>4, <1>5

LEMMA ClientControl ==
  ASSUME Types, Control, Client
  PROVE  Control'
<1> USE DEF Control
<1>1. Running'
  BY ClientFrame DEF Running, Ahead
<1>2. Standing'
  BY ClientFrame DEF Standing
<1>3. Calling'
  BY ClientFrame DEF Calling
<1> QED
  BY <1>1, <1>2, <1>3

\* Where SiteDown starts, or a program is given up, what runs is a SiteDown.
LEMMA DownStarts ==
  /\ SiteDown => cmds' \in Downs \ {Done} /\ cmds' = SiteDownProgram /\ ~failed'
  /\ Abandoned => cmds' = Done /\ ~failed'
  /\ Done \in Downs /\ SiteDownProgram \in Downs /\ Downs \subseteq Programs
  /\ Finished <=> cmds = Done
<1>1. SiteDown => cmds' = SiteDownProgram /\ ~failed'
  BY DEF SiteDown, Run
<1>2. Abandoned => cmds' = Done /\ ~failed'
  BY DEF Abandoned, Done
<1>3. SiteDownProgram \in Downs \ {Done}
  BY ProgramsApart DEF Downs
<1>4. Done \in Downs /\ SiteDownProgram \in Downs /\ Downs \subseteq Programs
  BY DEF Downs, Programs
<1>5. Finished <=> cmds = Done
  BY DEF Finished, Done
<1> QED
  BY ONLY <1>1, <1>2, <1>3, <1>4, <1>5

LEMMA ServeStanding ==
  ASSUME Types, Standing, Serve
  PROVE  Standing'
<1>1. CASE Due \/ Rejected \/ RejectedDown \/ Unreachable \/ Unchanged \/ Change
  BY <1>1 DEF Due, Rejected, RejectedDown, Unreachable, Unchanged, Change, Answering, Goto, Standing
<1>2. CASE OldDown \/ Save \/ SaveFails \/ NewUp \/ Stopped \/ ExitDown
  BY <1>2 DEF OldDown, Save, SaveFails, NewUp, Stopped, ExitDown, Goto, Standing
<1>3. CASE Exit
  BY <1>3 DEF Exit, Standing
<1> QED
  BY <1>1, <1>2, <1>3 DEF Serve
\* serveService acts while the unit runs it, and leaves the core, the files and the rest of the
\* kernel alone.
LEMMA ServeFrame ==
  ASSUME Standing, Serve
  PROVE  /\ unit = "serving" /\ step # "none"
         /\ UNCHANGED <<admin, config, enabled, stopping, records, peer, offer, sessions>>
         /\ UNCHANGED <<link, conf, rules>>
         /\ Exit \/ (UNCHANGED unit /\ step' # "none")
<1>1. step # "none"
  BY DEF Serve, Due, Rejected, RejectedDown, Unreachable, Unchanged, Change, OldDown,
         Save, SaveFails, NewUp, Stopped, ExitDown, Exit, Answering
<1>2. UNCHANGED <<admin, config, enabled, stopping, records, peer, offer, sessions>>
  BY DEF Serve, Due, Rejected, RejectedDown, Unreachable, Unchanged, Change, OldDown,
         Save, SaveFails, NewUp, Stopped, ExitDown, Exit, Goto, coreVars
<1>3. UNCHANGED <<link, conf, rules>>
  BY DEF Serve, Due, Rejected, RejectedDown, Unreachable, Unchanged, Change, OldDown,
         Save, SaveFails, NewUp, Stopped, ExitDown, Exit, tunnelVars
<1>4. Exit \/ (UNCHANGED unit /\ step' # "none")
  BY DEF Serve, Due, Rejected, RejectedDown, Unreachable, Unchanged, Change, OldDown,
         Save, SaveFails, NewUp, Stopped, ExitDown, Goto
<1>5. unit = "serving"
  BY <1>1 DEF Standing
<1> QED
  BY ONLY <1>1, <1>2, <1>3, <1>4, <1>5

LEMMA ServeRunning ==
  ASSUME Types, Control, Serve
  PROVE  Running'
<1> USE DownStarts DEF Control
<1>1. unit = "serving" /\ UNCHANGED admin /\ (Exit \/ UNCHANGED unit)
  BY ServeFrame
<1>2. CASE Due \/ RejectedDown \/ Stopped
  <2>1. cmds' = Done /\ step' \in {"due", "exit"} /\ unit' = "serving"
    BY <1>1, <1>2 DEF Due, RejectedDown, Stopped, Idle, Running, Goto, tunnelVars
  <2> QED
    BY ONLY <2>1, DownStarts DEF Running
<1>3. CASE Rejected \/ Change
  <2>1. cmds' \in Downs /\ step' \in {"rejected", "down"} /\ unit' = "serving"
    BY <1>1, <1>3 DEF Rejected, Change, TakeDown, Goto
  <2> QED
    BY ONLY <2>1, DownStarts DEF Running
<1>4. CASE Unreachable \/ Unchanged
  <2>1. cmds' = Done /\ step' = "waiting" /\ unit' = "serving"
    BY <1>1, <1>4 DEF Unreachable, Unchanged, Answering, Running, Goto, tunnelVars
  <2> QED
    BY ONLY <2>1, DownStarts DEF Running
<1>5. CASE OldDown \/ SaveFails \/ NewUp
  <2>1. cmds' = Done /\ step' \in {"exit", "save", "waiting"} /\ unit' = "serving"
    BY <1>1, <1>5 DEF OldDown, SaveFails, NewUp, Running, Goto, tunnelVars
  <2> QED
    BY ONLY <2>1, DownStarts DEF Running
<1>6. CASE Save
  <2>1. cmds' = SiteUpProgram /\ step' = "up" /\ unit' = "serving" /\ ~failed'
    BY <1>1, <1>6 DEF Save, SiteUp, Run, Goto
  <2>2. site' = call'.answer
    BY <1>6 DEF Save, SiteUp, Run
  <2> QED
    BY ONLY <2>1, <2>2 DEF Running, Programs, Ups
<1>7. CASE ExitDown
  <2>1. cmds' \in Downs /\ step' = "exit" /\ unit' = "serving"
    BY <1>1, <1>7 DEF ExitDown, Goto
  <2> QED
    BY ONLY <2>1, DownStarts DEF Running
<1>8. CASE Exit
  <2>1. cmds' \in Downs /\ step' = "none" /\ unit' = "after"
    BY <1>8 DEF Exit, StopPost
  <2> QED
    BY ONLY <2>1, DownStarts DEF Running
<1> QED
  BY <1>2, <1>3, <1>4, <1>5, <1>6, <1>7, <1>8 DEF Serve

LEMMA ServeCalling ==
  ASSUME Types, Control, Serve
  PROVE  Calling'
<1> USE DEF Control
<1>1. unit = "serving" /\ UNCHANGED <<admin, config>>
  BY ServeFrame
<1>2. admin.at \notin {"register", "undo", "leave"}
  BY <1>1 DEF Standing
<1>3. CASE Due
  <2>1. /\ call'.at = "challenge" /\ call'.what = "service" /\ call'.id = config
        /\ step' = "due"
    BY <1>3 DEF Due, Begin, NoCall, Goto
  <2> QED
    BY <1>1, <1>2, <2>1 DEF Calling
<1>4. CASE Rejected \/ Unreachable \/ Unchanged \/ SaveFails \/ NewUp
  <2>1. call' = NoCall /\ step' \in {"rejected", "waiting", "exit"}
    BY <1>4 DEF Rejected, Unreachable, Unchanged, Answering, SaveFails, NewUp, Goto
  <2> QED
    BY <1>1, <1>2, <2>1 DEF Calling, NoCall
<1>5. CASE RejectedDown \/ Stopped \/ ExitDown \/ Exit
  <2>1. call.at = "none"
    BY <1>2, <1>5 DEF RejectedDown, Stopped, ExitDown, Exit, Calling
  <2>2. call' = call /\ step' \in {"exit", "none"}
    BY <1>5 DEF RejectedDown, Stopped, ExitDown, Exit, Goto
  <2> QED
    BY <1>1, <1>2, <2>1, <2>2 DEF Calling
<1>6. CASE Change
  <2>1. call' = call /\ call.at = "answered" /\ call.answer \in Profiles /\ step' = "down"
    BY <1>6 DEF Change, Goto
  <2> QED
    BY <1>1, <1>2, <2>1 DEF Calling
<1>7. CASE OldDown
  <2>1. /\ step = "down" /\ (failed => call' = NoCall /\ step' = "exit")
        /\ ~failed => call' = call /\ step' = "save"
    BY <1>7 DEF OldDown, Goto
  <2> QED
    BY <1>1, <1>2, <2>1 DEF Calling, NoCall
<1>8. CASE Save
  <2>1. step = "save" /\ step' = "up" /\ call' = call
    BY <1>8 DEF Save, Goto
  <2> QED
    BY <1>1, <1>2, <2>1 DEF Calling
<1> QED
  BY <1>3, <1>4, <1>5, <1>6, <1>7, <1>8 DEF Serve

LEMMA ServeControl ==
  ASSUME Types, Control, Serve
  PROVE  Control'
  BY ServeStanding, ServeRunning, ServeCalling DEF Control
LEMMA UnitActControl ==
  ASSUME Types, Control, Unit \/ Crash \/ Reboot
  PROVE  Control'
<1> USE DownStarts DEF Control
<1>1. CASE Unit \/ Crash
  <2>1. /\ unit \in {"before", "after", "pause", "serving"} /\ UNCHANGED <<admin, config, enabled>>
        /\ admin.at \notin {"install", "register", "persist", "undo", "enable", "leave", "remove"}
    BY <1>1 DEF Unit, Cleaned, Ended, Restart, Crash, Standing
  <2>2. CASE Cleaned
    <3>1. step = "none" /\ ~active /\ call.at = "none" /\ config # None
      BY <2>1, <2>2 DEF Cleaned, Standing, Calling
    <3>2. /\ UNCHANGED <<stopping, active, call>>
          /\ \/ unit' = "after" /\ step' = "none" /\ cmds' = SiteDownProgram
             \/ unit' = "serving" /\ step' = "due" /\ cmds' = Done
      BY <2>2 DEF Cleaned, StopPost
    <3>3. Standing'
      BY <2>1, <2>2, <3>1, <3>2 DEF Standing, Cleaned
    <3>4. Running'
      BY ONLY <3>2, DownStarts DEF Running
    <3>5. Calling'
      BY <2>1, <3>1, <3>2 DEF Calling
    <3> QED
      BY <3>3, <3>4, <3>5
  <2>3. CASE Ended \/ Restart
    <3>1. step = "none" /\ ~active /\ call.at = "none" /\ config # None
      BY <2>1, <2>3 DEF Ended, Restart, Standing, Calling
    <3>2. UNCHANGED <<step, active, call>> /\ (unit' = "before" \/ UNCHANGED stopping)
      BY <2>3 DEF Ended, Restart, StartUnit
    <3>3. \/ unit' = "before" /\ cmds' = SiteDownProgram /\ ~stopping
          \/ unit' = "stopped" /\ cmds' = Done
          \/ unit' = "pause" /\ cmds' = Done /\ ~stopping
      BY <2>3 DEF Ended, Restart, StartUnit, Running, tunnelVars
    <3>4. Standing'
      BY <2>1, <2>3, <3>1, <3>2, <3>3 DEF Standing, Ended, Restart
    <3>5. Running'
      BY ONLY <3>1, <3>2, <3>3, DownStarts DEF Running
    <3>6. Calling'
      BY <2>1, <3>1, <3>2 DEF Calling
    <3> QED
      BY <3>4, <3>5, <3>6
  <2>4. CASE Crash
    <3>1. /\ unit' = "after" /\ step' = "none" /\ ~active' /\ call' = NoCall
          /\ cmds' = SiteDownProgram /\ UNCHANGED stopping /\ config # None
      BY <2>4 DEF Crash, StopPost, Standing
    <3>2. Standing'
      BY <2>1, <2>4, <3>1 DEF Standing, Crash
    <3>3. Running'
      BY ONLY <3>1, DownStarts DEF Running
    <3>4. Calling'
      BY <2>1, <3>1 DEF Calling, NoCall
    <3> QED
      BY <3>2, <3>3, <3>4
  <2> QED
    BY <1>1, <2>2, <2>3, <2>4 DEF Unit
<1>2. CASE Reboot
  <2>1. /\ step' = "none" /\ ~active' /\ call' = NoCall /\ admin' = NoCommand /\ UNCHANGED config
        /\ \/ unit' = "before" /\ cmds' = SiteDownProgram /\ config # None
           \/ unit' = "stopped" /\ cmds' = Done
    BY <1>2 DEF Reboot, Done
  <2>2. admin'.at = "none" /\ call'.at = "none"
    BY <2>1 DEF NoCall, NoCommand
  <2>3. Standing'
    BY <2>1, <2>2 DEF Standing
  <2>4. Running'
    BY ONLY <2>1, <2>2, DownStarts DEF Running
  <2>5. Calling'
    BY <2>1, <2>2 DEF Calling
  <2> QED
    BY <2>3, <2>4, <2>5
<1> QED
  BY <1>1, <1>2

\* The administrator's command waits for nothing but the client while the unit is stopped.
LEMMA AdminFrame ==
  ASSUME Types, Control, Admin
  PROVE  /\ admin.at \notin {"none", "forget"} \/ Leave
         /\ unit = "stopped" /\ step = "none" /\ ~active
         /\ UNCHANGED <<link, conf, rules, records, peer, offer, sessions, step, current, active>>
         /\ UNCHANGED <<unit, stopping>> \/ Enable
<1> USE DEF Control
<1>1. admin.at \in {"install", "register", "persist", "undo", "enable", "leave", "remove"} \/ Leave
  BY DEF Admin, Install, Registered, Overlap, Persist, PersistFails, Undone, Enable, EnableFails,
         Left, Remove
<1>2. unit = "stopped"
  BY <1>1 DEF Standing, Leave
<1>3. step = "none" /\ ~active
  BY <1>2 DEF Standing
<1>4. UNCHANGED <<link, conf, rules, records, peer, offer, sessions, step, current, active>>
  BY DEF Admin, Install, Registered, Overlap, Persist, PersistFails, Undone, Enable, EnableFails,
         Leave, Left, Remove, NothingElse, tunnelVars, coreVars, unitVars
<1>5. UNCHANGED <<unit, stopping>> \/ Enable
  BY DEF Admin, Install, Registered, Overlap, Persist, PersistFails, Undone, EnableFails,
         Leave, Left, Remove, unitVars
<1> QED
  BY <1>1, <1>2, <1>3, <1>4, <1>5
\* Where a command of the administrator is not at the client, no call is under way.
LEMMA AdminAlone ==
  ASSUME Control, step = "none", admin.at \notin {"register", "undo", "leave"}
  PROVE  call.at = "none"
  BY DEF Control, Calling

LEMMA AdminControl ==
  ASSUME Types, Control, Admin
  PROVE  Control'
<1> USE DEF Control
<1>1. unit = "stopped" /\ step' = "none" /\ step = "none" /\ ~active'
  BY AdminFrame
<1>2. admin.at # "remove" => cmds = Done
  BY <1>1 DEF Running
\* With the unit stopped, little is left to show.
<1>3. ASSUME unit' = "stopped",
             cmds' = Done \/ (cmds' = SiteDownProgram /\ admin'.at = "remove")
      PROVE  Running'
  BY ONLY <1>1, <1>3, DownStarts DEF Running
<1>4. CASE Install
  <2>1. /\ admin'.at = "register" /\ admin'.id = admin.id /\ admin.at = "install"
        /\ UNCHANGED <<cmds, unit, stopping, active, config>>
    BY <1>4 DEF Install, AdminTo, Types, AdminType, tunnelVars, unitVars
  <2>2. call'.at = "challenge" /\ call'.what = "service" /\ call'.id = admin.id
    BY <1>4 DEF Install, Begin, NoCall
  <2>3. Running'
    BY <1>1, <1>2, <1>3, <2>1
  <2>4. Standing'
    BY <1>1, <2>1 DEF Standing
  <2>5. Calling'
    BY <1>1, <2>1, <2>2 DEF Calling
  <2> QED
    BY <2>3, <2>4, <2>5
<1>5. CASE Registered \/ Undone
  <2>1. /\ admin.at \in {"register", "undo"}
        /\ UNCHANGED <<cmds, unit, stopping, active, config>>
    BY <1>5 DEF Registered, Undone, tunnelVars, unitVars
  <2>2. /\ call'.at = "none" /\ call' = NoCall
        /\ \/ admin'.at = "persist" /\ admin'.id = admin.id /\ admin.at = "register"
           \/ admin'.at = "none" /\ admin' = NoCommand
    BY <1>5 DEF Registered, Undone, NoCall, NoCommand, AdminTo, Types, AdminType
  <2>3. Running'
    BY <1>1, <1>2, <1>3, <2>1
  <2>4. Standing'
    BY <1>1, <2>1, <2>2 DEF Standing
  <2>5. Calling'
    BY <1>1, <2>2 DEF Calling
  <2> QED
    BY <2>3, <2>4, <2>5
<1>6. CASE Overlap \/ PersistFails
  <2>1. /\ admin'.at = "undo" /\ admin'.id = admin.id /\ admin.at = "persist"
        /\ UNCHANGED <<cmds, unit, stopping, active>>
    BY <1>6 DEF Overlap, PersistFails, Undo, AdminTo, Types, AdminType, tunnelVars, unitVars
  <2>2. call'.at = "challenge" /\ call'.what = "disconnect" /\ call'.id = admin.id
    BY <1>6 DEF Overlap, PersistFails, Undo, Begin, NoCall
  <2>3. Running'
    BY <1>1, <1>2, <1>3, <2>1
  <2>4. Standing'
    BY <1>1, <2>1 DEF Standing
  <2>5. Calling'
    BY <1>1, <2>1, <2>2 DEF Calling
  <2> QED
    BY <2>3, <2>4, <2>5
<1>7. CASE Persist
  <2>1. /\ admin'.at = "enable" /\ admin'.id = admin.id /\ admin.at = "persist"
        /\ UNCHANGED <<cmds, unit, stopping, active, call>> /\ config' = admin.id
    BY <1>7 DEF Persist, AdminTo, Types, AdminType, tunnelVars, unitVars
  <2>2. call.at = "none"
    BY <1>1, <2>1, AdminAlone
  <2>3. Running'
    BY <1>1, <1>2, <1>3, <2>1
  <2>4. Standing'
    BY <1>1, <2>1 DEF Standing
  <2>5. Calling'
    BY <1>1, <2>1, <2>2 DEF Calling
  <2> QED
    BY <2>3, <2>4, <2>5
<1>8. CASE Enable
  <2>1. /\ admin'.at = "none" /\ admin' = NoCommand /\ admin.at = "enable"
        /\ UNCHANGED <<config, call>> /\ unit' = "before" /\ cmds' = SiteDownProgram
    BY <1>8, DownStarts DEF Enable, NoCommand, StartUnit
  <2>2. call.at = "none"
    BY <1>1, <2>1, AdminAlone
  <2>3. config \in Identities /\ config # None
    BY <2>1, HomeAssumption DEF Standing
  <2>4. Running'
    BY ONLY <1>1, <2>1, DownStarts DEF Running
  <2>5. Standing'
    BY <1>1, <2>1, <2>3 DEF Standing
  <2>6. Calling'
    BY <1>1, <2>1, <2>2 DEF Calling
  <2> QED
    BY <2>4, <2>5, <2>6
<1>9. CASE EnableFails \/ Remove
  <2>1. /\ admin'.at = "none" /\ admin' = NoCommand /\ admin.at \in {"enable", "remove"}
        /\ UNCHANGED <<cmds, unit, stopping, active, call>> /\ cmds = Done
    BY <1>2, <1>9, DownStarts DEF EnableFails, Remove, NoCommand, tunnelVars, unitVars
  <2>2. call.at = "none"
    BY <1>1, <2>1, AdminAlone
  <2>3. Running'
    BY <1>1, <1>3, <2>1
  <2>4. Standing'
    BY <1>1, <2>1 DEF Standing
  <2>5. Calling'
    BY <1>1, <2>1, <2>2 DEF Calling
  <2> QED
    BY <2>3, <2>4, <2>5
<1>10. CASE Leave
  <2>1. admin.at = "forget" /\ admin.id = config /\ UNCHANGED <<unit, stopping, active, config>>
    BY <1>10 DEF Leave, NothingElse, Standing
  <2>2. call.at = "none"
    BY <1>1, <2>1, AdminAlone
  <2>3. CASE admin.id = None
    <3>1. admin'.at = "remove" /\ admin'.id = admin.id /\ cmds' = SiteDownProgram /\ call' = call
      BY <1>10, <2>3, DownStarts DEF Leave, AdminTo, Types, AdminType
    <3>2. Running'
      BY <1>1, <1>3, <2>1, <3>1
    <3>3. Standing'
      BY <1>1, <2>1, <3>1 DEF Standing
    <3>4. Calling'
      BY <1>1, <2>2, <3>1 DEF Calling
    <3> QED
      BY <3>2, <3>3, <3>4
  <2>4. CASE admin.id # None
    <3>1. /\ admin'.at = "leave" /\ admin'.id = admin.id /\ cmds' = cmds
          /\ call'.at = "challenge" /\ call'.what = "disconnect" /\ call'.id = admin.id
      BY <1>10, <2>4 DEF Leave, AdminTo, Begin, NoCall, Types, AdminType
    <3>2. admin.id \in Identities
      BY <2>4 DEF Types, AdminType
    <3>3. Running'
      BY <1>1, <1>2, <1>3, <2>1, <3>1
    <3>4. Standing'
      BY <1>1, <2>1, <3>1, <3>2 DEF Standing
    <3>5. Calling'
      BY <1>1, <3>1 DEF Calling
    <3> QED
      BY <3>3, <3>4, <3>5
  <2> QED
    BY <2>3, <2>4
<1>11. CASE Left
  <2>1. /\ admin.at = "leave" /\ admin'.at = "remove" /\ admin'.id = admin.id
        /\ UNCHANGED <<unit, stopping, active, config>>
    BY <1>11 DEF Left, NothingElse, AdminTo, Types, AdminType
  <2>2. call' = NoCall /\ call'.at = "none" /\ cmds' = SiteDownProgram
    BY <1>11, DownStarts DEF Left, NoCall
  <2>3. Running'
    BY <1>1, <1>3, <2>1, <2>2
  <2>4. Standing'
    BY <1>1, <2>1 DEF Standing
  <2>5. Calling'
    BY <1>1, <2>1, <2>2 DEF Calling
  <2> QED
    BY <2>3, <2>4, <2>5
<1> QED
  BY <1>4, <1>5, <1>6, <1>7, <1>8, <1>9, <1>10, <1>11 DEF Admin

LEMMA InterruptedControl ==
  ASSUME Types, Control, Interrupted
  PROVE  Control'
<1> USE DEF Control
<1>1. /\ admin'.at = "none" /\ admin' = NoCommand
      /\ UNCHANGED <<unit, stopping, step, current, active, enabled, config>>
      /\ call' = (IF unit = "serving" THEN call ELSE NoCall) /\ NoCall.at = "none"
      /\ IF unit = "stopped" THEN cmds' = Done ELSE UNCHANGED <<cmds, site, failed>>
  BY DownStarts DEF Interrupted, NoCommand, unitVars, NoCall
<1>2. Standing'
  BY <1>1 DEF Standing
<1>3. CASE unit = "serving"
  <2>1. admin.at \notin {"register", "undo", "leave"}
    BY <1>3 DEF Standing
  <2>2. Calling'
    BY <1>1, <1>3, <2>1 DEF Calling
  <2>3. Running'
    BY <1>1, <1>3 DEF Running
  <2> QED
    BY <1>2, <2>2, <2>3
<1>4. CASE unit # "serving"
  <2>1. step = "none"
    BY <1>4 DEF Standing
  <2>2. Calling'
    BY <1>1, <1>4, <2>1 DEF Calling
  <2>3. Running'
    <3>1. CASE unit = "stopped"
      BY ONLY <1>1, <2>1, <3>1, DownStarts DEF Running
    <3>2. CASE unit # "stopped"
      BY <1>1, <2>1, <3>2 DEF Running
    <3> QED
      BY <3>1, <3>2
  <2> QED
    BY <1>2, <2>2, <2>3
<1> QED
  BY <1>3, <1>4
LEMMA WishControl ==
  ASSUME Types, Control, Wishes
  PROVE  Control'
<1> USE DEF Control
<1>1. NoCommand.at = "none" /\ NoCommand.id = None
  BY DEF NoCommand
<1>2. CASE GiveUp \/ \E id \in Identities : Enroll(id)
  <2>1. /\ admin.at \in {"none", "install"} /\ config = None /\ UNCHANGED config
        /\ UNCHANGED <<cmds, site, failed, unit, stopping, step, active, call>>
        /\ \/ admin' = NoCommand
           \/ admin'.at = "install" /\ admin'.id \in Identities
    BY <1>1, <1>2 DEF GiveUp, Enroll, tunnelVars, unitVars, Standing
  <2>2. unit = "stopped" /\ step = "none" /\ ~active
    BY <2>1 DEF Standing
  <2>3. call.at = "none"
    BY <2>1, <2>2, AdminAlone
  <2>4. cmds' = Done
    BY <2>1, <2>2 DEF Running
  <2>5. Running'
    BY ONLY <2>1, <2>2, <2>4, DownStarts DEF Running
  <2>6. Standing'
    BY <1>1, <2>1, <2>2 DEF Standing
  <2>7. Calling'
    BY <1>1, <2>1, <2>2, <2>3 DEF Calling
  <2> QED
    BY <2>5, <2>6, <2>7
<1>3. CASE \E id \in Identities : EnrollLost(id)
  <2>1. UNCHANGED <<cmds, site, failed, unit, stopping, step, active, call, config, admin>>
    BY <1>3 DEF EnrollLost, unitVars
  <2>2. Running'
    BY <2>1 DEF Running
  <2>3. Standing' /\ Calling'
    BY <2>1 DEF Standing, Calling
  <2> QED
    BY <2>2, <2>3
<1>4. CASE Start
  <2>1. /\ admin.at = "none" /\ config # None /\ unit = "stopped"
        /\ UNCHANGED <<config, call, admin, step, active>>
        /\ unit' = "before" /\ cmds' = SiteDownProgram
    BY <1>1, <1>4, DownStarts DEF Start, StartUnit, NothingElse
  <2>2. step = "none" /\ ~active
    BY <2>1 DEF Standing
  <2>3. call.at = "none"
    BY <2>1, <2>2, AdminAlone
  <2>4. Running'
    BY ONLY <2>1, <2>2, DownStarts DEF Running
  <2>5. Standing'
    BY <2>1, <2>2 DEF Standing
  <2>6. Calling'
    BY <2>1, <2>2, <2>3 DEF Calling
  <2> QED
    BY <2>4, <2>5, <2>6
<1>5. CASE Stop
  <2>1. /\ UNCHANGED <<cmds, site, failed, unit, step, active, call, config, admin>>
        /\ admin.at = "none"
    BY <1>1, <1>5 DEF Stop, tunnelVars
  <2>2. Running'
    BY <2>1 DEF Running
  <2>3. Standing' /\ Calling'
    BY <2>1 DEF Standing, Calling
  <2> QED
    BY <2>2, <2>3
<1>6. CASE Forget
  <2>1. /\ UNCHANGED <<cmds, site, failed, unit, step, active, call, config>>
        /\ admin.at = "none" /\ admin'.at = "forget" /\ admin'.id = config
        /\ stopping' = (unit # "stopped")
    BY <1>1, <1>6 DEF Forget, tunnelVars
  <2>2. Running'
    BY <2>1 DEF Running
  <2>3. Standing'
    BY <2>1 DEF Standing
  <2>4. Calling'
    BY <2>1 DEF Calling
  <2> QED
    BY <2>2, <2>3, <2>4
<1> QED
  BY <1>2, <1>3, <1>4, <1>5, <1>6 DEF Wishes

\* What a sign-out at the core, an answer of it or a lost interface leaves as it is.
LEMMA CoreStepControl ==
  ASSUME Types, Control, (\E id \in Identities : Revoke(id)) \/ NewOffer \/ CoreRestart \/ SiteLost
  PROVE  /\ UNCHANGED <<cmds, site, failed, unit, stopping, step, current, active, enabled, config, admin>>
         /\ call'.at = call.at \/ (CoreRestart /\ call.at = "login" /\ call'.at = "stale")
         /\ call'.what = call.what /\ call'.id = call.id /\ call'.answer = call.answer
         /\ Control'
<1> USE DEF Control
<1>1. UNCHANGED <<cmds, site, failed, unit, stopping, step, current, active, enabled, config, admin>>
  BY DEF Revoke, NewOffer, CoreRestart, SiteLost, tunnelVars, unitVars
<1>2. ASSUME NEW id, call' = SignedOut(id)
      PROVE  /\ call'.at = call.at /\ call'.what = call.what /\ call'.id = call.id
             /\ call'.answer = call.answer /\ (call = NoCall => call' = NoCall)
  BY <1>2 DEF SignedOut, Types, CallType, NoCall
<1>3. /\ call'.at = call.at \/ (CoreRestart /\ call.at = "login" /\ call'.at = "stale")
      /\ call'.what = call.what /\ call'.id = call.id
      /\ call'.answer = call.answer /\ (call = NoCall => call' = NoCall)
  <2>1. CASE CoreRestart
    <3>1. call' = [SignedOut(call.id) EXCEPT
                       !.at = IF SignedOut(call.id).at = "login" THEN "stale" ELSE SignedOut(call.id).at]
      BY <2>1 DEF CoreRestart
    <3>2. /\ SignedOut(call.id) \in [at : {"none", "challenge", "login", "stale", "request",
                                           "logout", "answered"},
                                     what : {"none", "service", "disconnect"},
                                     id : Identities \cup {None}, token : {"none", "live", "dead"},
                                     answer : Profiles \cup {"none", "rejected", "failed", "ok"}]
          /\ SignedOut(call.id).at = call.at /\ SignedOut(call.id).what = call.what
          /\ SignedOut(call.id).id = call.id /\ SignedOut(call.id).answer = call.answer
          /\ call = NoCall => SignedOut(call.id) = NoCall
      BY DEF SignedOut, Types, CallType, NoCall
    <3>3. /\ call'.at = (IF call.at = "login" THEN "stale" ELSE call.at)
          /\ call'.what = call.what /\ call'.id = call.id /\ call'.answer = call.answer
      BY <3>1, <3>2
    <3>4. call = NoCall => call' = NoCall
      BY <3>1, <3>2 DEF NoCall
    <3> QED
      BY <2>1, <3>3, <3>4
  <2>2. CASE call' = call
    BY <2>2
  <2> QED
    BY <1>2, <2>1, <2>2 DEF Revoke, NewOffer, SiteLost
<1>4. Running'
  BY <1>1, <1>3 DEF Running
<1>5. Standing'
  BY <1>1 DEF Standing
<1>6. Calling'
  BY <1>1, <1>3 DEF Calling
<1> QED
  BY <1>1, <1>3, <1>4, <1>5, <1>6

\* Only serveService runs SiteUp.
LEMMA WhoRuns ==
  ASSUME Types, Control, cmds \notin Downs
  PROVE  /\ unit = "serving" /\ step = "up"
         /\ (cmds \in Ups /\ ~failed) \/ (cmds = Delete /\ failed)
<1>1. step = "up"
  <2>1. Done \in Downs
    BY DownStarts
  <2>2. unit = "serving"
    BY <2>1 DEF Control, Running, Types, UnitTypes
  <2> QED
    BY <2>1, <2>2 DEF Control, Running, Standing, Types, UnitTypes
<1>2. unit = "serving"
  BY <1>1 DEF Control, Standing
<1>3. (cmds \in Ups /\ ~failed) \/ (cmds = Delete /\ failed)
  BY <1>1, ProgramsApart, DownStarts DEF Control, Running, Programs
<1> QED
  BY <1>1, <1>2, <1>3

\* What a command of the kernel does at the moments at which the machine runs one.
LEMMA KernelControl ==
  ASSUME Types, Control, Made, Kernel
  PROVE  Control'
<1> USE DEF Control
<1>1. /\ UNCHANGED <<unit, stopping, step, current, active, enabled, config, call, admin>>
      /\ Command /\ cmds # Done
  BY KernelFrame, ProgramDoes
<1>2. Standing'
  BY <1>1 DEF Standing
<1>3. Calling'
  BY <1>1 DEF Calling
<1>4. CASE cmds \in Downs
  <2>1. Least /\ cmds' \in Downs
    BY <1>1, <1>4, DownStep
  <2>2. step \notin {"due", "waiting", "save"} /\ unit # "pause"
    BY <1>1 DEF Running
  <2>3. unit = "stopped" => admin.at = "remove"
    BY <1>1 DEF Running
  <2>4. step = "up" => failed /\ failed' /\ site' = call.answer
    BY <1>1, <1>4, <2>1, ProgramsApart DEF Running, Least
  <2>5. Running'
    BY ONLY <1>1, <2>1, <2>2, <2>3, <2>4, DownStarts DEF Running
  <2> QED
    BY <1>2, <1>3, <2>5
<1>5. CASE cmds \notin Downs
  <2>1. /\ unit = "serving" /\ step = "up" /\ site = call.answer
        /\ (cmds \in Ups /\ ~failed) \/ (cmds = Delete /\ failed)
    BY <1>5, WhoRuns DEF Running
  <2>2. Least
    BY <1>1, <2>1, UpMakes, DeleteStep
  <2>3. failed' => cmds' \in Downs \cup {Delete}
    BY <1>1, <2>1, UpStep, DeleteStep, DownStarts DEF Made
  <2>4. ~failed' => cmds' \in Ups \cup {Done}
    BY <1>1, <2>1, UpStep, DeleteStep DEF Made
  <2>5. site' = call.answer
    BY <2>1, <2>2 DEF Least
  <2>6. cmds' \in Programs
    BY <2>3, <2>4, DownStarts DEF Programs
  <2>7. Running'
    BY ONLY <1>1, <2>1, <2>3, <2>4, <2>5, <2>6 DEF Running
  <2> QED
    BY <1>2, <1>3, <2>7
<1> QED
  BY <1>4, <1>5

LEMMA ControlStep ==
  ASSUME Types, Control, Made, [Next]_vars
  PROVE  Control'
<1>1. CASE UNCHANGED vars
  <2>1. UNCHANGED <<cmds, site, failed, unit, stopping, step, active, call, config, admin>>
    BY <1>1 DEF vars, tunnelVars, unitVars
  <2> QED
    BY <2>1 DEF Control, Running, Standing, Calling
<1>2. CASE Next
  BY <1>2, ClientControl, ServeControl, UnitActControl, AdminControl, InterruptedControl,
     WishControl, CoreStepControl, KernelControl DEF Next
<1> QED
  BY <1>1, <1>2
-----------------------------------------------------------------------------
(***************************************************************************)
(* What a call knows, the sessions it leaves, and what a rejection says.   *)
(***************************************************************************)
\* Faults are never forgotten.
LEMMA FaultsGrow ==
  ASSUME Types, [Next]_vars
  PROVE  faults \in Nat /\ faults' \in Nat /\ faults' >= faults /\ (Fault => faults' = faults + 1)
<1>1. faults \in Nat
  BY TunnelAssumption DEF Types, TunnelTypes
<1>2. faults' = faults \/ faults' = faults + 1
  <2>1. Client => faults' = faults \/ Fault
    BY DEF Client, Challenge, Login, LoginRejected, LoginFails, Request, RequestRefused, RequestFails,
           Logout, LogoutLost, tunnelVars
  <2>2. Serve => faults' = faults \/ faults' = faults + 1
    BY DEF Serve, Due, Rejected, RejectedDown, Unreachable, Unchanged, Change, OldDown, Save,
           SaveFails, NewUp, Stopped, ExitDown, Exit, tunnelVars, Fault
  <2>3. Unit \/ Crash \/ Reboot \/ Interrupted => faults' = faults \/ Fault
    BY DEF Unit, Cleaned, Ended, Restart, Crash, Reboot, Interrupted, tunnelVars
  <2>4. Admin => faults' = faults \/ Fault
    BY DEF Admin, Install, Registered, Overlap, Persist, PersistFails, Undone, Enable, EnableFails,
           Leave, Left, Remove, NothingElse, tunnelVars
  <2>5. Wishes => faults' = faults \/ Fault
    BY DEF Wishes, Enroll, EnrollLost, GiveUp, Start, Stop, Forget, NothingElse, tunnelVars
  <2>6. (\E id \in Identities : Revoke(id)) \/ NewOffer \/ CoreRestart \/ SiteLost =>
            faults' = faults \/ Fault
    BY DEF Revoke, NewOffer, CoreRestart, SiteLost, tunnelVars
  <2>7. Kernel => faults' = faults \/ Fault
    BY DEF Kernel, Command, RunCommand, CommandRefused, CommandFails, QueryFails
  <2>8. UNCHANGED vars => faults' = faults
    BY DEF vars, tunnelVars
  <2>9. Fault => faults' = faults + 1
    BY DEF Fault
  <2> QED
    BY <2>1, <2>2, <2>3, <2>4, <2>5, <2>6, <2>7, <2>8, <2>9 DEF Next
<1>3. Fault => faults' = faults + 1
  BY DEF Fault
<1> QED
  BY <1>1, <1>2, <1>3

\* A call that begins, or is none, knows nothing yet.
LEMMA NewCallTold ==
  ASSUME \/ call' = NoCall
         \/ \E what \in {"service", "disconnect"}, id \in Identities : Begin(what, id)
  PROVE  Told' /\ call'.token = "none"
<1>1. CASE call' = NoCall
  BY <1>1, HomeAssumption DEF NoCall, Told
<1>2. ASSUME NEW what \in {"service", "disconnect"}, NEW id \in Identities, Begin(what, id)
      PROVE  Told' /\ call'.token = "none"
  <2>1. /\ call'.at = "challenge" /\ call'.what = what /\ call'.id = id /\ call'.token = "none"
        /\ call'.answer = "none"
    BY <1>2 DEF Begin, NoCall
  <2> QED
    BY <2>1, HomeAssumption DEF Told
<1> QED
  BY <1>1, <1>2

\* What it knows stays true where the core's records and sessions stay.
LEMMA SameCallTold ==
  ASSUME Types, Told, faults' \in Nat, faults' >= faults, UNCHANGED <<call, records, sessions>>
  PROVE  Told'
<1>1. faults' = 0 => faults = 0
  BY TunnelAssumption DEF Types, TunnelTypes
<1> QED
  BY <1>1 DEF Told

\* Sessions are accounted for where none is opened and a token goes only with a fault.
LEMMA SameSessions ==
  ASSUME Types, SessionsReturned, faults' \in Nat, faults' >= faults, UNCHANGED sessions,
         \/ call.token # "live" \/ faults' = faults + 1
         \/ call'.token = call.token /\ call'.id = call.id
  PROVE  SessionsReturned'
<1>1. SUFFICES ASSUME NEW i \in Identities
               PROVE  sessions'[i] <= faults' + (IF call'.id = i /\ call'.token = "live" THEN 1 ELSE 0)
  BY DEF SessionsReturned
<1>2. sessions[i] <= faults + (IF call.id = i /\ call.token = "live" THEN 1 ELSE 0)
  BY DEF SessionsReturned
<1>3. sessions[i] \in Nat /\ sessions'[i] = sessions[i] /\ faults \in Nat
  BY TunnelAssumption DEF Types, CoreTypes, TunnelTypes
<1>4. CASE call.token # "live"
  BY <1>2, <1>3, <1>4
<1>5. CASE faults' = faults + 1
  BY <1>2, <1>3, <1>5
<1>6. CASE call'.token = call.token /\ call'.id = call.id
  BY <1>2, <1>3, <1>6
<1> QED
  BY <1>4, <1>5, <1>6

LEMMA ServeCallFacts ==
  ASSUME Types, Control, CallFacts, Serve, [Next]_vars
  PROVE  CallFacts'
<1> USE DEF CallFacts, Control
<1>1. /\ UNCHANGED <<records, sessions, config>> /\ unit = "serving" /\ config # None
      /\ faults' \in Nat /\ faults' >= faults
  BY ServeFrame, FaultsGrow DEF Standing
<1>2. \/ UNCHANGED call
      \/ call.token # "live" /\ (call' = NoCall \/ Begin("service", config))
  <2>1. CASE RejectedDown \/ Change \/ Save \/ Stopped \/ ExitDown \/ Exit
    BY <2>1 DEF RejectedDown, Change, Save, Stopped, ExitDown, Exit
  <2>2. CASE Due
    BY <2>2 DEF Due, Idle, Told
  <2>3. CASE Rejected \/ Unreachable \/ Unchanged
    BY <2>3 DEF Rejected, Unreachable, Unchanged, Answering, Told
  <2>4. CASE OldDown \/ SaveFails \/ NewUp
    BY <2>4 DEF OldDown, SaveFails, NewUp, Told, Calling
  <2> QED
    BY <2>1, <2>2, <2>3, <2>4 DEF Serve
<1>3. config \in Identities
  BY <1>1 DEF Types, UnitTypes
<1>4. Told'
  BY <1>1, <1>2, <1>3, NewCallTold, SameCallTold
<1>5. SessionsReturned'
  BY <1>1, <1>2, SameSessions
<1>6. step' = "rejected" => /\ step = "due" /\ call.at = "answered" /\ call.answer = "rejected"
  BY DEF Serve, Due, Rejected, RejectedDown, Unreachable, Unchanged, Change, OldDown, Save,
         SaveFails, NewUp, Stopped, ExitDown, Exit, Answering, Rejections, Goto
<1>7. RejectionIsTrue'
  <2>1. SUFFICES ASSUME step' = "rejected", faults' = 0
                 PROVE  records[config] # "authorized"
    BY <1>1 DEF RejectionIsTrue
  <2>2. step = "due" /\ call.at = "answered" /\ call.answer = "rejected" /\ faults = 0
    BY <1>1, <1>6, <2>1, TunnelAssumption DEF Types, TunnelTypes
  <2>3. call.id = config
    BY <1>1, <2>2 DEF Calling, Standing
  <2> QED
    BY <2>2, <2>3 DEF Told
<1> QED
  BY <1>4, <1>5, <1>7

LEMMA AdminCallFacts ==
  ASSUME Types, Control, CallFacts, Admin, [Next]_vars
  PROVE  CallFacts'
<1> USE DEF CallFacts, Control
<1>1. /\ UNCHANGED <<records, sessions, step>> /\ step = "none"
      /\ faults' \in Nat /\ faults' >= faults
  BY AdminFrame, FaultsGrow
<1>2. \/ UNCHANGED call
      \/ /\ call.token # "live"
         /\ \/ call' = NoCall
            \/ \E what \in {"service", "disconnect"}, id \in Identities : Begin(what, id)
  <2>1. CASE Persist \/ Enable \/ EnableFails \/ Remove
    BY <2>1 DEF Persist, Enable, EnableFails, Remove
  <2>2. CASE Registered \/ Undone \/ Left
    BY <2>2 DEF Registered, Undone, Left, Told
  <2>3. CASE Install
    <3>1. call.at = "none" /\ admin.id \in Identities
      BY <2>3 DEF Install, Standing
    <3> QED
      BY <2>3, <3>1 DEF Install, Told
  <2>4. CASE Overlap \/ PersistFails
    <3>1. admin.at = "persist" /\ Begin("disconnect", admin.id)
      BY <2>4 DEF Overlap, PersistFails, Undo
    <3>2. call.at = "none" /\ admin.id \in Identities
      BY <1>1, <3>1, AdminAlone DEF Standing
    <3> QED
      BY <3>1, <3>2 DEF Told
  <2>5. CASE Leave
    <3>1. admin.at = "forget"
      BY <2>5 DEF Leave
    <3>2. call.at = "none"
      BY <1>1, <3>1, AdminAlone
    <3>3. call' = call \/ (admin.id # None /\ Begin("disconnect", admin.id))
      BY <2>5 DEF Leave
    <3> QED
      BY <3>2, <3>3 DEF Told, Types, AdminType
  <2> QED
    BY <2>1, <2>2, <2>3, <2>4, <2>5 DEF Admin
<1>3. Told'
  BY <1>1, <1>2, NewCallTold, SameCallTold
<1>4. SessionsReturned'
  BY <1>1, <1>2, SameSessions
<1>5. RejectionIsTrue'
  BY <1>1 DEF RejectionIsTrue
<1> QED
  BY <1>3, <1>4, <1>5
LEMMA UnitActCallFacts ==
  ASSUME Types, Control, CallFacts, Unit \/ Crash \/ Reboot \/ Interrupted, [Next]_vars
  PROVE  CallFacts'
<1> USE DEF CallFacts, Control
<1>1. /\ UNCHANGED <<records, sessions, config>> /\ faults' \in Nat /\ faults' >= faults
      /\ step' \in {"none", "due", step}
  <2>1. UNCHANGED <<records, sessions, config>>
    BY DEF Unit, Cleaned, Ended, Restart, Crash, Reboot, Interrupted, coreVars
  <2>2. step' \in {"none", "due", step}
    BY DEF Unit, Cleaned, Ended, Restart, Crash, Reboot, Interrupted, unitVars
  <2> QED
    BY <2>1, <2>2, FaultsGrow
<1>2. UNCHANGED call \/ (call' = NoCall /\ faults' = faults + 1)
  BY DEF Unit, Cleaned, Ended, Restart, Crash, Reboot, Interrupted, Fault
<1>3. Told'
  BY <1>1, <1>2, NewCallTold, SameCallTold
<1>4. SessionsReturned'
  BY <1>1, <1>2, SameSessions
<1>5. RejectionIsTrue'
  <2>1. faults' = 0 => faults = 0
    BY <1>1, TunnelAssumption DEF Types, TunnelTypes
  <2> QED
    BY <1>1, <2>1 DEF RejectionIsTrue
<1> QED
  BY <1>3, <1>4, <1>5

LEMMA KernelCallFacts ==
  ASSUME Types, CallFacts, Kernel \/ SiteLost, [Next]_vars
  PROVE  CallFacts'
<1> USE DEF CallFacts
<1>1. UNCHANGED <<call, records, sessions, config, step>> /\ faults' \in Nat /\ faults' >= faults
  BY KernelFrame, FaultsGrow DEF coreVars
<1>2. Told' /\ SessionsReturned'
  BY <1>1, SameCallTold, SameSessions
<1>3. faults' = 0 => faults = 0
  BY <1>1, TunnelAssumption DEF Types, TunnelTypes
<1>4. RejectionIsTrue'
  BY <1>1, <1>3 DEF RejectionIsTrue
<1> QED
  BY <1>2, <1>4

LEMMA WishCallFacts ==
  ASSUME Types, Control, CallFacts, Wishes, [Next]_vars
  PROVE  CallFacts'
<1> USE DEF CallFacts, Control
<1>1. /\ UNCHANGED <<sessions, config, step, call>> /\ faults' \in Nat /\ faults' >= faults
  <2>1. UNCHANGED <<sessions, config, step, call>>
    BY DEF Wishes, Enroll, EnrollLost, GiveUp, Start, Stop, Forget, NothingElse, unitVars, coreVars
  <2> QED
    BY <2>1, FaultsGrow
<1>2. faults' = 0 => faults = 0
  BY <1>1, TunnelAssumption DEF Types, TunnelTypes
<1>3. SessionsReturned'
  BY <1>1, SameSessions
<1>4. CASE UNCHANGED records
  <2>1. Told'
    BY <1>1, <1>4, SameCallTold
  <2>2. RejectionIsTrue'
    BY <1>1, <1>2, <1>4 DEF RejectionIsTrue
  <2> QED
    BY <1>3, <2>1, <2>2
<1>5. CASE \E id \in Identities : Enroll(id) \/ EnrollLost(id)
  <2>1. admin.at = "none" /\ config = None
    BY <1>5 DEF Enroll, EnrollLost, NoCommand
  <2>2. step = "none"
    BY <2>1 DEF Standing
  <2>3. call.at = "none"
    BY <2>1, <2>2, AdminAlone
  <2>4. call' = NoCall
    BY <1>1, <2>3 DEF Calling
  <2>5. Told'
    BY <2>4, NewCallTold
  <2>6. RejectionIsTrue'
    BY <1>1, <2>2 DEF RejectionIsTrue
  <2> QED
    BY <1>3, <2>5, <2>6
<1>6. GiveUp \/ Start \/ Stop \/ Forget => UNCHANGED records
  BY DEF GiveUp, Start, Stop, Forget, coreVars
<1> QED
  BY <1>4, <1>5, <1>6 DEF Wishes

LEMMA CoreStepCallFacts ==
  ASSUME Types, Control, CallFacts, (\E id \in Identities : Revoke(id)) \/ NewOffer \/ CoreRestart,
         [Next]_vars
  PROVE  CallFacts'
<1> USE DEF CallFacts, Control
<1>1. /\ UNCHANGED <<step, config>>
      /\ call'.at = call.at \/ (CoreRestart /\ call.at = "login" /\ call'.at = "stale")
      /\ call'.what = call.what /\ call'.id = call.id
      /\ call'.answer = call.answer /\ faults' \in Nat /\ faults' >= faults
  BY CoreStepControl, FaultsGrow
<1>2. faults' = 0 => faults = 0
  BY <1>1, TunnelAssumption DEF Types, TunnelTypes
<1>3. CASE NewOffer
  <2>1. UNCHANGED <<call, records, sessions>>
    BY <1>3 DEF NewOffer
  <2>2. Told' /\ SessionsReturned'
    BY <1>1, <2>1, SameCallTold, SameSessions
  <2>3. RejectionIsTrue'
    BY <1>1, <1>2, <2>1 DEF RejectionIsTrue
  <2> QED
    BY <2>2, <2>3
<1>4. CASE CoreRestart
  <2>1. /\ faults' = faults + 1 /\ records' = records
        /\ sessions' = [i \in Identities |-> 0]
        /\ call'.token # "live" /\ (call'.token = "none" <=> call.token = "none")
    BY <1>4 DEF CoreRestart, Fault, SignedOut, Types, CallType
  <2>2. faults' # 0
    BY <2>1, TunnelAssumption DEF Types, TunnelTypes
  <2>3. Told'
    BY <1>1, <2>1, <2>2 DEF Told
  <2>4. SessionsReturned'
    BY <1>1, <2>1 DEF SessionsReturned
  <2>5. RejectionIsTrue'
    BY <2>2 DEF RejectionIsTrue
  <2> QED
    BY <2>3, <2>4, <2>5
<1>5. ASSUME NEW id \in Identities, Revoke(id)
      PROVE  CallFacts'
  <2>1. /\ records' = [records EXCEPT ![id] = "revoked"]
        /\ sessions' = [sessions EXCEPT ![id] = 0]
        /\ faults' = faults
    BY <1>5 DEF Revoke, tunnelVars
  <2>2. /\ call'.token = "none" <=> call.token = "none"
        /\ call'.token = "live" => call.token = "live" /\ call.id # id
        /\ call'.token = "dead" => call.token = "dead" \/ call.id = id
    BY <1>5 DEF Revoke, SignedOut, Types, CallType
  <2>3. /\ records'[id] = "revoked" /\ sessions'[id] = 0
        /\ \A i \in Identities \ {id} : records'[i] = records[i] /\ sessions'[i] = sessions[i]
        /\ \A i \in Identities : records'[i] = "authorized" => records[i] = "authorized"
    BY <2>1 DEF Types, CoreTypes
  <2>4. Told'
    <3>1. call.at # "none" => call.id \in Identities
      BY DEF Told
    <3>2. call'.token = "live" => records'[call.id] = "authorized" /\ sessions'[call.id] >= 1
      <4>1. SUFFICES ASSUME call'.token = "live"
                     PROVE  records'[call.id] = "authorized" /\ sessions'[call.id] >= 1
        OBVIOUS
      <4>2. call.token = "live" /\ call.id # id
        BY <2>2, <4>1
      <4>3. call.id \in Identities
        BY <3>1, <4>2 DEF Told
      <4>4. records[call.id] = "authorized" /\ sessions[call.id] >= 1
        BY <4>2 DEF Told
      <4> QED
        BY <2>3, <4>2, <4>3, <4>4
    <3>3. faults = 0 /\ (call'.token = "dead" \/ call.answer = "rejected") =>
              records'[call.id] # "authorized"
      <4>1. SUFFICES ASSUME faults = 0, call'.token = "dead" \/ call.answer = "rejected"
                     PROVE  records'[call.id] # "authorized"
        OBVIOUS
      <4>2. call.id \in Identities
        BY <2>2, <3>1, <4>1 DEF Told
      <4>3. call.id = id \/ records[call.id] # "authorized"
        BY <2>2, <4>1 DEF Told
      <4> QED
        BY <2>3, <4>2, <4>3
    <3>4. /\ call'.at = call.at /\ (faults = 0 => call.at # "stale")
      BY <1>5 DEF Revoke, SignedOut, Types, CallType, Told
    <3>5. /\ call.token # "none" <=> call.at \in {"request", "logout"}
          /\ call.answer = "none" <=> call.at \in {"none", "challenge", "login", "stale", "request"}
          /\ call.what = "service" => call.answer # "ok"
          /\ call.what = "disconnect" => call.answer \notin Profiles
      BY DEF Told
    <3> QED
      BY <1>1, <2>1, <2>2, <3>1, <3>2, <3>3, <3>4, <3>5 DEF Told
  <2>5. SessionsReturned'
    <3>1. SUFFICES ASSUME NEW i \in Identities
                   PROVE  sessions'[i] <= faults + (IF call.id = i /\ call'.token = "live" THEN 1 ELSE 0)
      BY <1>1, <2>1 DEF SessionsReturned
    <3>2. sessions[i] <= faults + (IF call.id = i /\ call.token = "live" THEN 1 ELSE 0)
      BY DEF SessionsReturned
    <3>3. faults \in Nat
      BY TunnelAssumption DEF Types, TunnelTypes
    <3>4. CASE i = id
      BY <2>3, <3>3, <3>4
    <3>5. CASE i # id
      <4>1. call.id = i /\ call.token = "live" => call'.token = "live"
        BY <1>5, <3>5 DEF Revoke, SignedOut, Types, CallType
      <4>2. sessions'[i] = sessions[i]
        BY <2>3, <3>5
      <4> QED
        BY <2>2, <3>2, <4>1, <4>2
    <3> QED
      BY <3>4, <3>5
  <2>6. RejectionIsTrue'
    <3>1. SUFFICES ASSUME step = "rejected", faults = 0
                   PROVE  records'[config] # "authorized"
      BY <1>1, <2>1 DEF RejectionIsTrue
    <3>2. config \in Identities
      BY <3>1 DEF Standing, Types, UnitTypes
    <3>3. records[config] # "authorized"
      BY <3>1 DEF RejectionIsTrue
    <3> QED
      BY <2>3, <3>2, <3>3
  <2> QED
    BY <2>4, <2>5, <2>6
<1> QED
  BY <1>3, <1>4, <1>5
LEMMA ClientCallFacts ==
  ASSUME Types, Control, CallFacts, Client, [Next]_vars
  PROVE  CallFacts'
<1> USE DEF CallFacts
<1>1. /\ UNCHANGED <<step, config, records>> /\ call'.what = call.what /\ call'.id = call.id
      /\ call.at \in {"challenge", "login", "stale", "request", "logout"} /\ call.id \in Identities
      /\ faults \in Nat /\ faults' \in Nat /\ faults' >= faults
  BY ClientFrame, FaultsGrow DEF Control, Told
<1>2. RejectionIsTrue'
  BY <1>1 DEF RejectionIsTrue
<1>3. ASSUME NEW at \in {"login", "request", "logout", "answered"}, NEW token, NEW answer,
             Answer(at, answer, token)
      PROVE  call'.at = at /\ call'.answer = answer /\ call'.token = token
  BY <1>3 DEF Answer, Types, CallType
<1>4. CASE Login
  <2>1. /\ call.at = "login" /\ records[call.id] = "authorized" /\ call.token = "none"
        /\ sessions' = [sessions EXCEPT ![call.id] = @ + 1] /\ faults' = faults
    BY <1>4 DEF Login, Opened, Told, tunnelVars
  <2>2. call'.at = "request" /\ call'.answer = "none" /\ call'.token = "live"
    BY <1>3, <1>4 DEF Login
  <2>3. sessions'[call.id] = sessions[call.id] + 1 /\ sessions[call.id] \in Nat
    BY <1>1, <2>1 DEF Types, CoreTypes
  <2>4. Told'
    BY <1>1, <2>1, <2>2, <2>3, HomeAssumption DEF Told
  <2>5. SessionsReturned'
    <3>1. SUFFICES ASSUME NEW i \in Identities
                   PROVE  sessions'[i] <= faults + (IF call.id = i THEN 1 ELSE 0)
      BY <1>1, <2>1, <2>2 DEF SessionsReturned
    <3>2. sessions[i] <= faults + 0
      BY <2>1 DEF SessionsReturned
    <3>3. sessions[i] \in Nat /\ sessions'[i] = (IF call.id = i THEN sessions[i] + 1 ELSE sessions[i])
      BY <2>1 DEF Types, CoreTypes
    <3> QED
      BY <1>1, <3>2, <3>3
  <2> QED
    BY <1>2, <2>4, <2>5
<1>5. CASE LoginRejected
  <2>1. /\ call.at \in {"challenge", "login", "stale"} /\ UNCHANGED <<sessions, faults>>
        /\ faults = 0 => records[call.id] # "authorized"
    BY <1>5 DEF LoginRejected, coreVars, tunnelVars, Told
  <2>2. call'.at = "answered" /\ call'.answer = "rejected" /\ call'.token = "none"
    BY <1>3, <1>5 DEF LoginRejected
  <2>3. Told'
    BY <1>1, <2>1, <2>2, HomeAssumption DEF Told
  <2>4. SessionsReturned'
    BY <1>1, <2>1, SameSessions DEF Told
  <2> QED
    BY <1>2, <2>3, <2>4
<1>6. CASE LoginFails
  <2>1. /\ call.at \in {"challenge", "login", "stale"} /\ faults' = faults + 1 /\ call.token = "none"
        /\ UNCHANGED sessions \/ sessions' = [sessions EXCEPT ![call.id] = @ + 1]
    BY <1>6 DEF LoginFails, Opened, Fault, Told
  <2>2. call'.at = "answered" /\ call'.answer = "failed" /\ call'.token = "none"
    BY <1>3, <1>6 DEF LoginFails
  <2>3. Told'
    BY <1>1, <2>1, <2>2, HomeAssumption DEF Told
  <2>4. SessionsReturned'
    <3>1. SUFFICES ASSUME NEW i \in Identities
                   PROVE  sessions'[i] <= faults + 1 + 0
      BY <1>1, <2>1, <2>2 DEF SessionsReturned
    <3>2. sessions[i] <= faults + 0
      BY <2>1 DEF SessionsReturned
    <3>3. sessions[i] \in Nat /\ sessions'[i] \in {sessions[i], sessions[i] + 1}
      BY <2>1 DEF Types, CoreTypes
    <3> QED
      BY <1>1, <3>2, <3>3
  <2> QED
    BY <1>2, <2>3, <2>4
<1>7. CASE Request
  <2>1. call.at = "request" /\ call.token = "live" /\ UNCHANGED <<sessions, faults>>
    BY <1>7 DEF Request, tunnelVars
  <2>2. /\ call'.at = "logout" /\ call'.token = call.token
        /\ call'.answer = IF call.what = "service" THEN offer ELSE "ok"
    BY <1>3, <1>7 DEF Request, Answered
  <2>3. offer \in Profiles
    BY DEF Types, CoreTypes
  <2>4. Told'
    BY <1>1, <2>1, <2>2, <2>3, HomeAssumption DEF Told
  <2>5. SessionsReturned'
    BY <1>1, <2>1, <2>2, SameSessions
  <2> QED
    BY <1>2, <2>4, <2>5
<1>8. CASE RequestRefused
  <2>1. call.at = "request" /\ UNCHANGED <<sessions, faults>>
    BY <1>8 DEF RequestRefused, coreVars, tunnelVars
  <2>2. /\ call'.at = "logout" /\ call'.token = call.token
        /\ call'.answer = IF call.token = "dead" THEN "rejected" ELSE "failed"
    BY <1>3, <1>8 DEF RequestRefused, Answered
  <2>3. Told'
    BY <1>1, <2>1, <2>2, HomeAssumption DEF Told
  <2>4. SessionsReturned'
    BY <1>1, <2>1, <2>2, SameSessions
  <2> QED
    BY <1>2, <2>3, <2>4
<1>9. CASE RequestFails
  <2>1. call.at = "request" /\ UNCHANGED sessions /\ faults' = faults + 1
    BY <1>9 DEF RequestFails, Fault
  <2>2. call'.at = "logout" /\ call'.token = call.token /\ call'.answer = "failed"
    BY <1>3, <1>9 DEF RequestFails, Answered
  <2>3. Told'
    BY <1>1, <2>1, <2>2, HomeAssumption DEF Told
  <2>4. SessionsReturned'
    BY <1>1, <2>1, <2>2, SameSessions
  <2> QED
    BY <1>2, <2>3, <2>4
<1>10. CASE Logout
  <2>1. /\ call.at = "logout" /\ faults' = faults
        /\ sessions' = IF call.token = "live" THEN [sessions EXCEPT ![call.id] = @ - 1] ELSE sessions
    BY <1>10 DEF Logout, tunnelVars
  <2>2. call'.at = "answered" /\ call'.token = "none" /\ call'.answer = call.answer
    BY <1>3, <1>10 DEF Logout
  <2>3. Told'
    BY <1>1, <2>1, <2>2, HomeAssumption DEF Told
  <2>4. SessionsReturned'
    <3>1. SUFFICES ASSUME NEW i \in Identities
                   PROVE  sessions'[i] <= faults + 0
      BY <1>1, <2>1, <2>2 DEF SessionsReturned
    <3>2. sessions[i] <= faults + (IF call.id = i /\ call.token = "live" THEN 1 ELSE 0)
      BY DEF SessionsReturned
    <3>3. /\ sessions[i] \in Nat
          /\ sessions'[i] = (IF call.id = i /\ call.token = "live" THEN sessions[i] - 1 ELSE sessions[i])
      BY <2>1 DEF Types, CoreTypes
    <3> QED
      BY <1>1, <3>2, <3>3
  <2> QED
    BY <1>2, <2>3, <2>4
<1>11. CASE LogoutLost
  <2>1. call.at = "logout" /\ faults' = faults + 1 /\ UNCHANGED sessions
    BY <1>11 DEF LogoutLost, Fault, coreVars
  <2>2. call'.at = "answered" /\ call'.token = "none" /\ call'.answer = call.answer
    BY <1>3, <1>11 DEF LogoutLost
  <2>3. Told'
    BY <1>1, <2>1, <2>2, HomeAssumption DEF Told
  <2>4. SessionsReturned'
    BY <1>1, <2>1, SameSessions
  <2> QED
    BY <1>2, <2>3, <2>4
<1>12. CASE Challenge
  <2>1. call.at = "challenge" /\ UNCHANGED <<sessions, faults>>
    BY <1>12 DEF Challenge, coreVars, tunnelVars
  <2>2. call'.at = "login" /\ call'.token = "none" /\ call'.answer = "none"
    BY <1>3, <1>12 DEF Challenge
  <2>3. Told'
    BY <1>1, <2>1, <2>2, HomeAssumption DEF Told
  <2>4. SessionsReturned'
    BY <1>1, <2>1, SameSessions DEF Told
  <2> QED
    BY <1>2, <2>3, <2>4
<1> QED
  BY <1>4, <1>5, <1>6, <1>7, <1>8, <1>9, <1>10, <1>11, <1>12 DEF Client

LEMMA CallFactsStep ==
  ASSUME Types, Control, CallFacts, [Next]_vars
  PROVE  CallFacts'
<1>1. CASE UNCHANGED vars
  <2>1. UNCHANGED <<call, records, sessions, config, step, faults>>
    BY <1>1 DEF vars, tunnelVars, coreVars, unitVars
  <2> QED
    BY <2>1 DEF CallFacts, Told, SessionsReturned, RejectionIsTrue
<1>2. CASE Next
  BY <1>2, ClientCallFacts, ServeCallFacts, UnitActCallFacts, AdminCallFacts, WishCallFacts,
     CoreStepCallFacts, KernelCallFacts DEF Next
<1> QED
  BY <1>1, <1>2
-----------------------------------------------------------------------------
(***************************************************************************)
(* Whom the core keeps.                                                    *)
(***************************************************************************)
LEMMA SamePeer ==
  ASSUME Types, PeerFacts, faults' \in Nat, faults' >= faults,
         UNCHANGED <<peer, records, admin, config>>,
         call'.answer = call.answer \/ admin.at \notin {"register", "undo", "leave"}
  PROVE  PeerFacts'
<1>1. faults' = 0 => faults = 0
  BY TunnelAssumption DEF Types, TunnelTypes
<1> QED
  BY <1>1 DEF PeerFacts, Kept, NoOrphan

\* After a fault only what the core keeps for itself is left to show.
LEMMA PeerAfterFault ==
  ASSUME Types, PeerFacts, faults' = faults + 1,
         UNCHANGED peer \/ (peer' # None => records'[peer'] = "authorized"),
         peer # None => records'[peer] = "authorized"
  PROVE  PeerFacts'
<1>1. faults' # 0
  BY TunnelAssumption DEF Types, TunnelTypes
<1> QED
  BY <1>1 DEF PeerFacts, Kept, NoOrphan

LEMMA ClientPeerFacts ==
  ASSUME Types, Control, CallFacts, PeerFacts, Client, [Next]_vars
  PROVE  PeerFacts'
<1> USE DEF CallFacts
<1>1. /\ UNCHANGED <<step, config, records, admin>> /\ step \notin {"down", "save", "up"}
      /\ call.at \in {"challenge", "login", "stale", "request", "logout"} /\ call.id \in Identities
      /\ faults \in Nat /\ faults' \in Nat /\ faults' >= faults
  BY ClientFrame, FaultsGrow DEF Control, Told
<1>2. \/ step = "due" /\ call.what = "service" /\ call.id = config
      \/ admin.at = "register" /\ call.what = "service" /\ call.id = admin.id
      \/ admin.at \in {"undo", "leave"} /\ call.what = "disconnect" /\ call.id = admin.id
  BY <1>1 DEF Control, Calling
<1>3. admin.at \notin {"install", "remove"} /\ (step = "due" => admin.at \notin {"register", "undo", "leave"})
  BY <1>1, <1>2 DEF Control, Standing
<1>4. ASSUME NEW at \in {"login", "request", "logout", "answered"}, NEW token, NEW answer,
             Answer(at, answer, token)
      PROVE  call'.answer = answer
  BY <1>4 DEF Answer, Types, CallType
<1>5. peer # None => records[peer] = "authorized"
  BY DEF PeerFacts, Kept
<1>6. None \notin Identities /\ "none" \notin Profiles /\ "rejected" \notin Profiles
  BY HomeAssumption
<1>7. CASE Challenge \/ Login \/ Logout \/ LogoutLost
  <2>1. peer' = peer
    BY <1>7 DEF Challenge, Login, Logout, LogoutLost, coreVars
  <2>2. call'.answer = call.answer
    BY <1>4, <1>7 DEF Challenge, Login, Logout, LogoutLost, Told
  <2> QED
    BY <1>1, <2>1, <2>2, SamePeer
<1>8. CASE LoginRejected \/ RequestRefused
  <2>1. peer' = peer /\ faults' = faults /\ call.answer = "none"
    BY <1>8 DEF LoginRejected, RequestRefused, coreVars, tunnelVars, Told
  <2>2. admin.at \in {"undo", "leave"} =>
            call'.answer = "rejected" /\ (faults = 0 => records[call.id] # "authorized")
    <3>1. CASE LoginRejected
      BY <1>4, <3>1 DEF LoginRejected, Told
    <3>2. CASE RequestRefused
      <4>1. admin.at \in {"undo", "leave"} => call.token = "dead"
        BY <1>2, <1>3, <3>2 DEF RequestRefused, PlaceTaken
      <4>2. call.token = "dead" => call'.answer = "rejected"
        BY <1>4, <3>2 DEF RequestRefused, Answered
      <4> QED
        BY <4>1, <4>2 DEF Told
    <3> QED
      BY <1>8, <3>1, <3>2
  <2>3. Kept'
    BY <1>1, <1>2, <1>3, <1>5, <1>6, <2>1, <2>2 DEF PeerFacts, Kept
  <2>4. NoOrphan'
    BY <1>1, <2>1 DEF PeerFacts, NoOrphan
  <2> QED
    BY <2>3, <2>4 DEF PeerFacts
<1>9. CASE LoginFails
  <2>1. peer' = peer /\ faults' = faults + 1
    BY <1>9 DEF LoginFails, Fault
  <2> QED
    BY <1>1, <1>5, <2>1, PeerAfterFault
<1>10. CASE Request
  <2>1. call.token = "live" /\ TakesEffect /\ faults' = faults
    BY <1>10 DEF Request, tunnelVars
  <2>2. records[call.id] = "authorized"
    BY <2>1 DEF Told
  <2>3. call'.answer = IF call.what = "service" THEN offer ELSE "ok"
    BY <1>4, <1>10 DEF Request, Answered
  <2>4. offer \in Profiles
    BY DEF Types, CoreTypes
  <2>5. CASE call.what = "service"
    <3>1. peer' = call.id /\ call'.answer \in Profiles /\ call.id # None
      BY <1>1, <1>6, <2>1, <2>3, <2>4, <2>5 DEF TakesEffect
    <3>2. admin.at \notin {"undo", "leave"}
      BY <1>2, <1>3, <2>5
    <3>3. Kept'
      BY <1>1, <1>3, <2>2, <3>1, <3>2 DEF Kept
    <3>4. NoOrphan'
      BY <1>1, <1>2, <2>5, <3>1 DEF NoOrphan
    <3> QED
      BY <3>3, <3>4 DEF PeerFacts
  <2>6. CASE call.what # "service"
    <3>1. /\ peer' = (IF peer = call.id THEN None ELSE peer) /\ call'.answer = "ok"
          /\ admin.at \in {"undo", "leave"} /\ call.id = admin.id
      BY <1>2, <2>1, <2>3, <2>6 DEF TakesEffect
    <3>2. Kept'
      BY <1>1, <1>5, <1>6, <3>1 DEF Kept
    <3>3. NoOrphan'
      BY <1>1, <2>1, <3>1 DEF PeerFacts, NoOrphan
    <3> QED
      BY <3>2, <3>3 DEF PeerFacts
  <2> QED
    BY <2>5, <2>6
<1>11. CASE RequestFails
  <2>1. faults' = faults + 1 /\ (UNCHANGED peer \/ (call.token = "live" /\ TakesEffect))
    BY <1>11 DEF RequestFails, Fault
  <2>2. call.token = "live" => records[call.id] = "authorized"
    BY DEF Told
  <2>3. TakesEffect => peer' \in {call.id, peer, None}
    BY DEF TakesEffect
  <2> QED
    BY <1>1, <1>5, <2>1, <2>2, <2>3, PeerAfterFault
<1> QED
  BY <1>7, <1>8, <1>9, <1>10, <1>11 DEF Client
LEMMA ServePeerFacts ==
  ASSUME Types, Control, PeerFacts, Serve \/ Unit \/ Crash, [Next]_vars
  PROVE  PeerFacts'
<1>1. UNCHANGED <<peer, records, admin, config>> /\ unit # "stopped"
  <2>1. CASE Serve
    BY <2>1, ServeFrame DEF Control
  <2>2. CASE Unit \/ Crash
    BY <2>2 DEF Unit, Cleaned, Ended, Restart, Crash, coreVars
  <2> QED
    BY <2>1, <2>2
<1>2. admin.at \notin {"register", "undo", "leave"}
  BY <1>1 DEF Control, Standing
<1> QED
  BY <1>1, <1>2, FaultsGrow, SamePeer

LEMMA FaultPeerFacts ==
  ASSUME Types, PeerFacts, Reboot \/ Interrupted \/ PersistFails \/ EnableFails \/ CoreRestart
  PROVE  PeerFacts'
<1>1. UNCHANGED <<peer, records>> /\ faults' = faults + 1
  BY DEF Reboot, Interrupted, PersistFails, EnableFails, CoreRestart, coreVars, Fault
<1>2. peer # None => records[peer] = "authorized"
  BY DEF PeerFacts, Kept
<1> QED
  BY <1>1, <1>2, PeerAfterFault

LEMMA AdminPeerFacts ==
  ASSUME Types, Control, CallFacts, PeerFacts, Admin, [Next]_vars
  PROVE  PeerFacts'
<1> USE DEF Control
<1>1. /\ UNCHANGED <<records, peer>> /\ faults' \in Nat /\ faults' >= faults
      /\ step = "none"
      /\ peer # None => records[peer] = "authorized"
  BY AdminFrame, FaultsGrow DEF PeerFacts, Kept
<1>2. faults' = 0 => faults = 0
  BY <1>1, TunnelAssumption DEF Types, TunnelTypes
<1>3. None \notin Identities /\ NoCommand.at = "none" /\ NoCommand.id = None
  BY HomeAssumption DEF NoCommand
<1>4. CASE Install
  <2>1. /\ admin'.at = "register" /\ admin'.id = admin.id /\ config' = config
        /\ admin.at = "install"
    BY <1>4 DEF Install, AdminTo, Types, AdminType
  <2> QED
    BY <1>1, <1>2, <2>1 DEF PeerFacts, Kept, NoOrphan
<1>5. CASE Registered
  <2>1. /\ admin.at = "register" /\ config = None /\ config' = config
        /\ \/ admin'.at = "persist" /\ admin'.id = admin.id
           \/ call.answer \notin Profiles /\ admin' = NoCommand
    BY <1>5 DEF Registered, AdminTo, Types, AdminType, Standing
  <2> QED
    BY <1>1, <1>2, <1>3, <2>1 DEF PeerFacts, Kept, NoOrphan
<1>6. CASE Overlap
  <2>1. admin'.at = "undo" /\ admin'.id = admin.id /\ config' = config
    BY <1>6 DEF Overlap, Undo, AdminTo, Types, AdminType
  <2>2. call'.answer = "none"
    BY <1>6 DEF Overlap, Undo, Begin, NoCall
  <2> QED
    BY <1>1, <1>2, <2>1, <2>2 DEF PeerFacts, Kept, NoOrphan
<1>7. CASE Persist
  <2>1. /\ admin'.at = "enable" /\ admin'.id = admin.id /\ config' = admin.id /\ config = None
    BY <1>7 DEF Persist, AdminTo, Types, AdminType, Standing
  <2> QED
    BY <1>1, <1>2, <2>1 DEF PeerFacts, Kept, NoOrphan
<1>8. CASE Undone
  <2>1. admin.at = "undo" /\ call.answer # "none" /\ config' = config /\ admin' = NoCommand
    BY <1>8 DEF Undone, CallFacts, Told
  <2> QED
    BY <1>1, <1>2, <1>3, <2>1 DEF PeerFacts, Kept, NoOrphan
<1>9. CASE Enable
  <2>1. config = admin.id /\ config' = config /\ admin' = NoCommand
    BY <1>9 DEF Enable, Standing
  <2> QED
    BY <1>1, <1>2, <1>3, <2>1 DEF PeerFacts, Kept, NoOrphan
<1>10. CASE Leave
  <2>1. admin.id = config /\ config' = config /\ admin'.id = admin.id
    BY <1>10 DEF Leave, AdminTo, Types, AdminType, Standing
  <2>2. \/ admin'.at = "leave" /\ call'.answer = "none"
        \/ admin'.at = "remove" /\ config = None
    BY <1>10, <2>1 DEF Leave, Begin, NoCall, AdminTo, Types, AdminType
  <2> QED
    BY <1>1, <1>2, <2>1, <2>2 DEF PeerFacts, Kept, NoOrphan
<1>11. CASE Left
  <2>1. /\ admin.at = "leave" /\ admin.id = config /\ config' = config /\ call.answer # "none"
        /\ admin'.id = admin.id /\ admin'.at = "remove"
    BY <1>11 DEF Left, AdminTo, Types, AdminType, Standing, CallFacts, Told
  <2> QED
    BY <1>1, <1>2, <2>1 DEF PeerFacts, Kept, NoOrphan
<1>12. CASE Remove
  <2>1. admin.at = "remove" /\ admin' = NoCommand
    BY <1>12 DEF Remove
  <2> QED
    BY <1>1, <1>2, <1>3, <2>1 DEF PeerFacts, Kept, NoOrphan
<1> QED
  BY <1>4, <1>5, <1>6, <1>7, <1>8, <1>9, <1>10, <1>11, <1>12, FaultPeerFacts DEF Admin

LEMMA WishPeerFacts ==
  ASSUME Types, Control, PeerFacts, Wishes, [Next]_vars
  PROVE  PeerFacts'
<1>1. /\ faults' \in Nat /\ faults' >= faults /\ UNCHANGED <<peer, config, call>>
      /\ peer # None => records[peer] = "authorized"
  <2>1. UNCHANGED <<peer, config, call>>
    BY DEF Wishes, Enroll, EnrollLost, GiveUp, Start, Stop, Forget, coreVars
  <2> QED
    BY <2>1, FaultsGrow DEF PeerFacts, Kept
<1>2. faults' = 0 => faults = 0
  BY <1>1, TunnelAssumption DEF Types, TunnelTypes
<1>3. NoCommand.at = "none" /\ NoCommand.id = None
  BY DEF NoCommand
<1>4. ASSUME NEW id \in Identities, Enroll(id) \/ EnrollLost(id)
      PROVE  PeerFacts'
  <2>1. /\ records[id] = "unknown" /\ records' = [records EXCEPT ![id] = "authorized"]
        /\ config = None /\ admin = NoCommand
    BY <1>4 DEF Enroll, EnrollLost
  <2>2. peer # None => peer \in Identities /\ peer # id /\ records'[peer] = "authorized"
    BY <1>1, <2>1 DEF Types, CoreTypes
  <2>3. CASE Enroll(id)
    <3>1. admin'.at = "install" /\ admin'.id = id
      BY <2>3 DEF Enroll
    <3>2. faults' = 0 => peer = None
      BY <1>2, <1>3, <2>1 DEF PeerFacts, NoOrphan
    <3>3. None # id
      BY HomeAssumption
    <3> QED
      BY <1>1, <2>2, <3>1, <3>2, <3>3 DEF PeerFacts, Kept, NoOrphan
  <2>4. CASE EnrollLost(id)
    <3>1. faults' = faults + 1
      BY <2>4 DEF EnrollLost, Fault
    <3> QED
      BY <1>1, <2>2, <3>1, PeerAfterFault
  <2> QED
    BY <1>4, <2>3, <2>4
<1>5. CASE GiveUp
  <2>1. admin.at = "install" /\ admin' = NoCommand /\ UNCHANGED records
    BY <1>5 DEF GiveUp, coreVars
  <2> QED
    BY <1>1, <1>2, <1>3, <2>1 DEF PeerFacts, Kept, NoOrphan
<1>6. CASE Start \/ Stop
  <2>1. UNCHANGED <<records, admin>>
    BY <1>6 DEF Start, Stop, coreVars
  <2> QED
    BY <1>1, <2>1, SamePeer
<1>7. CASE Forget
  <2>1. /\ admin = NoCommand /\ admin'.at = "forget" /\ admin'.id = config /\ UNCHANGED records
    BY <1>7 DEF Forget, coreVars
  <2> QED
    BY <1>1, <1>2, <1>3, <2>1 DEF PeerFacts, Kept, NoOrphan
<1> QED
  BY <1>4, <1>5, <1>6, <1>7 DEF Wishes

LEMMA CoreStepPeerFacts ==
  ASSUME Types, Control, PeerFacts, (\E id \in Identities : Revoke(id)) \/ NewOffer \/ CoreRestart,
         [Next]_vars
  PROVE  PeerFacts'
<1>1. UNCHANGED <<admin, config>> /\ call'.answer = call.answer
  BY CoreStepControl
<1>2. CASE NewOffer
  BY <1>1, <1>2, FaultsGrow, SamePeer DEF NewOffer
<1>3. ASSUME NEW id \in Identities, Revoke(id)
      PROVE  PeerFacts'
  <2>1. /\ records' = [records EXCEPT ![id] = "revoked"] /\ faults' = faults
        /\ peer' = IF peer = id THEN None ELSE peer
    BY <1>3 DEF Revoke, tunnelVars
  <2>2. peer' # None => records'[peer'] = "authorized"
    BY <2>1 DEF PeerFacts, Kept, Types, CoreTypes
  <2>3. admin.at \in {"install", "register", "undo", "leave"} => admin.id # None
    BY HomeAssumption DEF Control, Standing
  <2> QED
    BY <1>1, <2>1, <2>2, <2>3 DEF PeerFacts, Kept, NoOrphan
<1> QED
  BY <1>2, <1>3, FaultPeerFacts

LEMMA PeerFactsStep ==
  ASSUME Types, Control, CallFacts, PeerFacts, [Next]_vars
  PROVE  PeerFacts'
<1>1. CASE UNCHANGED vars
  <2>1. UNCHANGED <<peer, records, admin, config, call, faults>>
    BY <1>1 DEF vars, tunnelVars, coreVars
  <2> QED
    BY <2>1 DEF PeerFacts, Kept, NoOrphan
<1>2. CASE Kernel \/ SiteLost
  <2>1. UNCHANGED <<peer, records, admin, config, call>>
    BY <1>2, KernelFrame DEF coreVars
  <2> QED
    BY <2>1, FaultsGrow, SamePeer
<1>3. CASE Next
  BY <1>2, <1>3, ClientPeerFacts, ServePeerFacts, FaultPeerFacts, AdminPeerFacts, WishPeerFacts,
     CoreStepPeerFacts DEF Next
<1> QED
  BY <1>1, <1>3
-----------------------------------------------------------------------------
(***************************************************************************)
(* What is in the kernel.                                                  *)
(***************************************************************************)
\* An interface or a rule that is not there exposes nothing.
LEMMA GoneIsSafe ==
  ASSUME link' # "up", ~rules'
  PROVE  LinkFacts'
  BY DEF LinkFacts, Exposed, Made, UpAsAnswered

\* SiteDown is ahead of the deletion when it starts, and past it when it is over.
LEMMA WhenAhead ==
  /\ cmds = SiteDownProgram => Ahead
  /\ cmds = Done => ~Ahead
  /\ cmds' = SiteDownProgram => Ahead'
  /\ cmds' = Done => ~Ahead'
  BY ProgramsApart DEF Ahead

LEMMA ClientLinkFacts ==
  ASSUME Types, Control, LinkFacts, Client, [Next]_vars
  PROVE  LinkFacts'
<1> USE DEF LinkFacts
<1>1. /\ UNCHANGED <<link, conf, rules, cmds, failed, unit, step, current, active, config, admin>>
      /\ step # "up" /\ faults \in Nat /\ faults' \in Nat /\ faults' >= faults
  BY ClientFrame, FaultsGrow DEF Control
<1>2. Exposed'
  BY <1>1 DEF Exposed, Ahead
<1>3. Made' /\ UpAsAnswered'
  BY <1>1 DEF Made, UpAsAnswered
<1> QED
  BY <1>2, <1>3

LEMMA ServeLinkFacts ==
  ASSUME Types, Control, LinkFacts, Serve, [Next]_vars
  PROVE  LinkFacts'
<1> USE DEF LinkFacts
<1>1. /\ UNCHANGED <<link, conf, rules, config, admin>> /\ unit = "serving" /\ config # None
      /\ faults \in Nat /\ faults' \in Nat /\ faults' >= faults
      /\ admin.at # "remove"
  BY ServeFrame, FaultsGrow DEF Control, Standing
<1>2. ASSUME unit' = "serving", step' \notin {"up", "due", "waiting"},
             link = "up" =>
                 /\ step' \in {"rejected", "down", "save"} /\ ~Ahead' => faults' >= 1
                 /\ step' = "exit" /\ ~active' /\ ~Ahead' => faults' >= 1
      PROVE  LinkFacts'
  <2>1. Exposed'
    BY <1>1, <1>2 DEF Exposed
  <2>2. Made' /\ UpAsAnswered'
    BY <1>2 DEF Made, UpAsAnswered
  <2> QED
    BY <2>1, <2>2
<1>3. ASSUME unit' = "serving", step \in {"due", "waiting"}, step' \in {"due", "waiting"},
             UNCHANGED <<active, current>>
      PROVE  LinkFacts'
  <2>1. Exposed'
    BY <1>1, <1>3 DEF Exposed
  <2>2. Made' /\ UpAsAnswered'
    BY <1>1, <1>3 DEF Made, UpAsAnswered
  <2> QED
    BY <2>1, <2>2
<1>4. CASE Due \/ Unreachable \/ Unchanged
  <2>1. /\ unit' = "serving" /\ step \in {"due", "waiting"} /\ step' \in {"due", "waiting"}
        /\ UNCHANGED <<active, current>>
    BY <1>1, <1>4 DEF Due, Unreachable, Unchanged, Answering, Goto
  <2> QED
    BY <1>3, <2>1
<1>5. CASE Rejected \/ Change
  <2>1. /\ unit' = "serving" /\ step = "due" /\ step' \in {"rejected", "down"}
        /\ active => cmds' = SiteDownProgram
    BY <1>1, <1>5, DownStarts DEF Rejected, Change, Answering, Goto, TakeDown
  <2>2. link = "up" /\ ~active => faults >= 1
    BY <2>1 DEF Exposed
  <2> QED
    BY <1>1, <1>2, <2>1, <2>2, WhenAhead
<1>6. CASE RejectedDown
  <2>1. unit' = "serving" /\ step = "rejected" /\ step' = "exit" /\ cmds = Done
    BY <1>1, <1>6, DownStarts DEF RejectedDown, Goto
  <2>2. link = "up" => faults >= 1
    BY <2>1, WhenAhead DEF Exposed
  <2> QED
    BY <1>1, <1>2, <2>1, <2>2
<1>7. CASE OldDown
  <2>1. unit' = "serving" /\ step = "down" /\ step' \in {"exit", "save"} /\ cmds = Done
    BY <1>1, <1>7, DownStarts DEF OldDown, Goto
  <2>2. link = "up" => faults >= 1
    BY <2>1, WhenAhead DEF Exposed
  <2> QED
    BY <1>1, <1>2, <2>1, <2>2
<1>8. CASE Save
  <2>1. unit' = "serving" /\ step = "save" /\ step' = "up" /\ cmds' = SiteUpProgram /\ cmds = Done
    BY <1>1, <1>8 DEF Save, Goto, SiteUp, Run, Control, Running
  <2>2. link = "up" => faults >= 1
    BY <2>1, WhenAhead DEF Exposed
  <2>3. Exposed'
    BY <1>1, <2>1, <2>2 DEF Exposed
  <2>4. cmds' \notin {Up1, Up2, Up3, Done}
    BY <2>1, ProgramsApart DEF Ups
  <2>5. Made' /\ UpAsAnswered'
    BY <2>1, <2>4 DEF Made, UpAsAnswered
  <2> QED
    BY <2>3, <2>5
<1>9. CASE SaveFails
  <2>1. unit' = "serving" /\ step' = "exit" /\ faults' = faults + 1
    BY <1>1, <1>9 DEF SaveFails, Goto, Fault
  <2> QED
    BY <1>1, <1>2, <2>1
<1>10. CASE NewUp
  <2>1. unit' = "serving" /\ step = "up" /\ cmds = Done
    BY <1>1, <1>10, DownStarts DEF NewUp, Goto
  <2>2. CASE failed
    <3>1. step' = "exit"
      BY <1>10, <2>2 DEF NewUp, Goto
    <3>2. link = "up" => faults >= 1
      BY <2>1, <2>2 DEF Exposed
    <3> QED
      BY <1>1, <1>2, <2>1, <3>1, <3>2
  <2>3. CASE ~failed
    <3>1. step' = "waiting" /\ active' /\ current' = call.answer
      BY <1>10, <2>3 DEF NewUp, Goto
    <3>2. link = "up" => conf = call.answer /\ rules
      BY <2>1, <2>3 DEF Made
    <3>3. Exposed'
      BY <1>1, <2>1, <3>1 DEF Exposed
    <3>4. Made' /\ UpAsAnswered'
      BY <1>1, <3>1, <3>2 DEF Made, UpAsAnswered
    <3> QED
      BY <3>3, <3>4
  <2> QED
    BY <2>2, <2>3
<1>11. CASE Stopped
  <2>1. unit' = "serving" /\ step = "waiting" /\ step' = "exit" /\ active' = active
    BY <1>1, <1>11 DEF Stopped, Goto
  <2>2. link = "up" /\ ~active => faults >= 1
    BY <2>1 DEF Exposed
  <2> QED
    BY <1>1, <1>2, <2>1, <2>2
<1>12. CASE ExitDown
  <2>1. unit' = "serving" /\ step' = "exit" /\ cmds' = SiteDownProgram
    BY <1>1, <1>12, DownStarts DEF ExitDown, Goto
  <2> QED
    BY <1>1, <1>2, <2>1, WhenAhead
<1>13. CASE Exit
  <2>1. /\ step = "exit" /\ ~active /\ cmds = Done /\ unit' = "after" /\ step' = "none"
        /\ cmds' = SiteDownProgram
    BY <1>13, DownStarts DEF Exit, StopPost
  <2>2. link = "up" => faults >= 1
    BY <2>1, WhenAhead DEF Exposed
  <2>3. Exposed'
    BY <1>1, <2>1, <2>2, WhenAhead DEF Exposed
  <2>4. Made' /\ UpAsAnswered'
    BY <2>1 DEF Made, UpAsAnswered
  <2> QED
    BY <2>3, <2>4
<1> QED
  BY <1>4, <1>5, <1>6, <1>7, <1>8, <1>9, <1>10, <1>11, <1>12, <1>13 DEF Serve
LEMMA UnitActLinkFacts ==
  ASSUME Types, Control, LinkFacts, Unit \/ Crash \/ Reboot, [Next]_vars
  PROVE  LinkFacts'
<1> USE DEF LinkFacts
<1>1. CASE Reboot
  BY <1>1, GoneIsSafe DEF Reboot
<1>2. CASE Unit \/ Crash
  <2>1. /\ UNCHANGED <<link, conf, rules, config, admin>> /\ unit # "stopped" /\ config # None
        /\ faults \in Nat /\ faults' \in Nat /\ faults' >= faults
        /\ admin.at # "remove"
    <3>1. UNCHANGED <<link, conf, rules, config, admin>> /\ unit # "stopped"
      BY <1>2 DEF Unit, Cleaned, Ended, Restart, Crash, tunnelVars
    <3> QED
      BY <3>1, FaultsGrow DEF Control, Standing
  <2>2. ASSUME link = "up" =>
                   /\ unit' \in {"before", "pause", "stopped"} => faults' >= 2
                   /\ unit' = "after" => faults' >= 1 /\ (~Ahead' => faults' >= 2)
                   /\ step' = "due" => faults' >= 1,
               step' = "none" \/ (step' = "due" /\ ~active')
        PROVE  LinkFacts'
    <3>1. Exposed'
      BY <2>1, <2>2 DEF Exposed
    <3>2. Made' /\ UpAsAnswered'
      BY <2>2 DEF Made, UpAsAnswered
    <3> QED
      BY <3>1, <3>2
  <2>3. CASE Cleaned
    <3>1. /\ unit = "before" /\ ~active' /\ step' \in {"none", "due"}
          /\ unit' = "after" \/ unit' = "serving"
      BY <2>3 DEF Cleaned, Control, Standing
    <3>2. link = "up" => faults >= 2
      BY <3>1 DEF Exposed
    <3> QED
      BY <2>1, <2>2, <3>1, <3>2
  <2>4. CASE Ended
    <3>1. unit = "after" /\ step' = "none" /\ unit' \in {"stopped", "pause"} /\ cmds = Done
      BY <2>4, DownStarts DEF Ended, Control, Standing
    <3>2. link = "up" => faults >= 2
      BY <3>1, WhenAhead DEF Exposed
    <3> QED
      BY <2>1, <2>2, <3>1, <3>2
  <2>5. CASE Restart
    <3>1. unit = "pause" /\ step' = "none" /\ unit' \in {"stopped", "before"}
      BY <2>5 DEF Restart, StartUnit, Control, Standing
    <3>2. link = "up" => faults >= 2
      BY <3>1 DEF Exposed
    <3> QED
      BY <2>1, <2>2, <3>1, <3>2
  <2>6. CASE Crash
    <3>1. unit' = "after" /\ step' = "none" /\ cmds' = SiteDownProgram /\ faults' = faults + 1
      BY <2>6, DownStarts DEF Crash, StopPost, Fault
    <3> QED
      BY <2>1, <2>2, <3>1, WhenAhead
  <2> QED
    BY <1>2, <2>3, <2>4, <2>5, <2>6 DEF Unit
<1> QED
  BY <1>1, <1>2

LEMMA AdminLinkFacts ==
  ASSUME Types, Control, LinkFacts, Admin, [Next]_vars
  PROVE  LinkFacts'
<1> USE DEF LinkFacts
<1>1. /\ UNCHANGED <<link, conf, rules>> /\ unit = "stopped" /\ step' = "none"
      /\ unit' \in {"stopped", "before"}
      /\ faults \in Nat /\ faults' \in Nat /\ faults' >= faults
  BY AdminFrame, FaultsGrow DEF Enable, StartUnit
<1>2. link = "up" => faults >= 2
  BY <1>1 DEF Exposed
<1>3. Made' /\ UpAsAnswered'
  BY <1>1 DEF Made, UpAsAnswered
<1>4. CASE Install \/ Registered \/ Overlap \/ Persist \/ PersistFails \/ Undone \/ Enable \/ EnableFails
  <2>1. /\ admin'.at # "remove"
        /\ config' = None => config = None
    <3>1. CASE Install \/ Registered \/ Undone \/ Enable \/ EnableFails
      BY <3>1 DEF Install, Registered, Undone, Enable, EnableFails, AdminTo, NoCommand, Types, AdminType
    <3>2. CASE Overlap \/ PersistFails
      <4>1. admin.at = "persist" /\ admin'.at = "undo"
        BY <3>2 DEF Overlap, PersistFails, Undo, AdminTo, Types, AdminType
      <4>2. config = None
        BY <4>1 DEF Control, Standing
      <4> QED
        BY <4>1, <4>2
    <3>3. CASE Persist
      BY <3>3 DEF Persist, AdminTo, Types, AdminType, Control, Standing
    <3> QED
      BY <1>4, <3>1, <3>2, <3>3
  <2>2. Exposed'
    BY <1>1, <1>2, <2>1 DEF Exposed
  <2> QED
    BY <1>3, <2>2
<1>5. CASE Leave \/ Left
  <2>1. /\ config' = config /\ unit' = "stopped"
        /\ admin'.at = "leave" \/ (admin'.at = "remove" /\ cmds' = SiteDownProgram)
    BY <1>1, <1>5, DownStarts DEF Leave, Left, NothingElse, AdminTo, Types, AdminType
  <2>2. cmds' = SiteDownProgram => cmds' # Done /\ Ahead'
    BY ProgramsApart, WhenAhead
  <2>3. Exposed'
    BY <1>1, <1>2, <2>1, <2>2 DEF Exposed
  <2> QED
    BY <1>3, <2>3
<1>6. CASE Remove
  <2>1. /\ admin.at = "remove" /\ cmds = Done /\ unit' = "stopped" /\ admin'.at = "none"
        /\ config' = IF failed THEN config ELSE None
    BY <1>1, <1>6, DownStarts DEF Remove, NoCommand, unitVars
  <2>2. link = "up" => faults >= 3
    BY <2>1, WhenAhead DEF Exposed
  <2>3. config' = None => ~rules
    BY <2>1 DEF Exposed
  <2>4. Exposed'
    BY <1>1, <2>1, <2>2, <2>3 DEF Exposed
  <2> QED
    BY <1>3, <2>4
<1> QED
  BY <1>4, <1>5, <1>6 DEF Admin

LEMMA InterruptedLinkFacts ==
  ASSUME Types, Control, LinkFacts, Interrupted, [Next]_vars
  PROVE  LinkFacts'
<1> USE DEF LinkFacts
<1>1. /\ UNCHANGED <<link, conf, rules, unit, step, current, active, config>>
      /\ admin'.at = "none" /\ (unit = "stopped" \/ UNCHANGED <<cmds, failed>>)
      /\ unit # "serving" \/ UNCHANGED call
      /\ faults \in Nat /\ faults' \in Nat /\ faults' >= faults
  BY FaultsGrow DEF Interrupted, NoCommand, unitVars
<1>2. unit # "serving" => step = "none"
  BY DEF Control, Standing
<1>3. Exposed'
  <2>1. CASE unit = "stopped"
    BY <1>1, <1>2, <2>1 DEF Exposed
  <2>2. CASE unit # "stopped"
    BY <1>1, <1>2, <2>2 DEF Exposed, Ahead
  <2> QED
    BY <2>1, <2>2
<1>4. Made'
  BY <1>1, <1>2 DEF Made
<1>5. UpAsAnswered'
  BY <1>1 DEF UpAsAnswered
<1> QED
  BY <1>3, <1>4, <1>5

LEMMA WishLinkFacts ==
  ASSUME Types, Control, LinkFacts, Wishes, [Next]_vars
  PROVE  LinkFacts'
<1> USE DEF LinkFacts
<1>1. /\ UNCHANGED <<link, conf, rules, step, current, active, config, call>>
      /\ UNCHANGED <<cmds, failed>> \/ Start
      /\ UNCHANGED unit \/ Start
      /\ admin'.at \in {"none", "install", "forget"} \/ UNCHANGED admin
      /\ faults \in Nat /\ faults' \in Nat /\ faults' >= faults
  <2>1. UNCHANGED <<link, conf, rules, step, current, active, config, call>>
    BY DEF Wishes, Enroll, EnrollLost, GiveUp, Start, Stop, Forget, NothingElse, tunnelVars, unitVars
  <2>2. (UNCHANGED <<cmds, failed>> \/ Start) /\ (UNCHANGED unit \/ Start)
    BY DEF Wishes, Enroll, EnrollLost, GiveUp, Stop, Forget, tunnelVars, unitVars
  <2>3. admin'.at \in {"none", "install", "forget"} \/ UNCHANGED admin
    <3>1. ASSUME NEW id \in Identities, Enroll(id) \/ EnrollLost(id)
          PROVE  admin'.at = "install" \/ UNCHANGED admin
      BY <3>1 DEF Enroll, EnrollLost
    <3>2. GiveUp => admin'.at = "none"
      BY DEF GiveUp, NoCommand
    <3>3. Forget => admin'.at = "forget"
      BY DEF Forget
    <3>4. Start \/ Stop => UNCHANGED admin
      BY DEF Start, Stop
    <3> QED
      BY <3>1, <3>2, <3>3, <3>4 DEF Wishes
  <2> QED
    BY <2>1, <2>2, <2>3, FaultsGrow
<1>2. CASE Start
  <2>1. /\ unit = "stopped" /\ unit' = "before" /\ step = "none" /\ config # None
        /\ admin'.at = "none"
    BY <1>2 DEF Start, StartUnit, NoCommand, Control, Standing
  <2>2. link = "up" => faults >= 2
    BY <2>1 DEF Exposed
  <2>3. Exposed'
    BY <1>1, <2>1, <2>2 DEF Exposed
  <2>4. Made' /\ UpAsAnswered'
    BY <1>1, <2>1 DEF Made, UpAsAnswered
  <2> QED
    BY <2>3, <2>4
<1>3. CASE ~Start
  <2>1. Exposed'
    BY <1>1, <1>3 DEF Exposed, Ahead
  <2>2. Made' /\ UpAsAnswered'
    BY <1>1, <1>3 DEF Made, UpAsAnswered
  <2> QED
    BY <2>1, <2>2
<1> QED
  BY <1>2, <1>3

LEMMA CoreStepLinkFacts ==
  ASSUME Types, Control, LinkFacts,
         (\E id \in Identities : Revoke(id)) \/ NewOffer \/ CoreRestart \/ SiteLost, [Next]_vars
  PROVE  LinkFacts'
<1> USE DEF LinkFacts
<1>1. /\ UNCHANGED <<cmds, failed, unit, step, current, active, config, admin>>
      /\ call'.answer = call.answer
      /\ faults \in Nat /\ faults' \in Nat /\ faults' >= faults
  BY CoreStepControl, FaultsGrow
<1>2. UNCHANGED <<link, conf, rules>> \/ (link' = "none" /\ rules' = rules)
  BY DEF Revoke, NewOffer, CoreRestart, SiteLost, SetLink, tunnelVars
<1>3. Exposed'
  BY <1>1, <1>2 DEF Exposed, Ahead
<1>4. Made' /\ UpAsAnswered'
  BY <1>1, <1>2 DEF Made, UpAsAnswered
<1> QED
  BY <1>3, <1>4
LEMMA KernelLinkFacts ==
  ASSUME Types, Control, LinkFacts, Kernel, [Next]_vars
  PROVE  LinkFacts'
<1> USE DEF LinkFacts
<1>1. /\ UNCHANGED <<unit, stopping, step, current, active, enabled, config, call, admin>>
      /\ Command /\ cmds # Done
      /\ faults \in Nat /\ faults' \in Nat /\ faults' >= faults
      /\ Fault => faults' = faults + 1
  BY KernelFrame, ProgramDoes, FaultsGrow
<1>2. step \notin {"due", "waiting", "save"}
  BY <1>1 DEF Control, Running
<1>3. UpAsAnswered'
  BY <1>1, <1>2 DEF UpAsAnswered
<1>4. CASE cmds \in Downs
  <2>1. /\ Least /\ link' \in {link, "none"} /\ rules' \in {rules, FALSE}
        /\ ~Ahead => ~Ahead'
        /\ Ahead /\ ~Ahead' /\ link' = "up" => Fault
        /\ cmds' = Done /\ ~failed' => ~rules'
    BY <1>1, <1>4, DownStep
  <2>2. step = "up" => failed /\ failed'
    BY <1>1, <1>4, <2>1, ProgramsApart DEF Control, Running, Least
  <2>3. admin.at = "remove" => unit = "stopped"
    BY DEF Control, Standing
  <2>4. link' = "up" =>
          /\ unit \in {"before", "pause", "stopped"} => faults' >= 2
          /\ config = None => faults' >= 3
          /\ step \in {"due", "waiting"} /\ ~active => faults' >= 1
          /\ step = "up" => faults' >= 1
    BY <1>1, <2>1, <2>2 DEF Exposed
  <2>5. link' = "up" /\ unit = "after" => faults' >= 1 /\ (~Ahead' => faults' >= 2)
    BY <1>1, <2>1 DEF Exposed
  <2>6. link' = "up" /\ admin.at = "remove" /\ ~Ahead' => faults' >= 3
    BY <1>1, <2>1, <2>3 DEF Exposed
  <2>7. link' = "up" =>
          /\ step \in {"rejected", "down", "save"} /\ ~Ahead' => faults' >= 1
          /\ step = "exit" /\ ~active /\ ~Ahead' => faults' >= 1
    BY <1>1, <2>1 DEF Exposed
  <2>8. config = None => ~rules'
    BY <2>1 DEF Exposed
  <2>9. Exposed'
    BY ONLY <1>1, <2>1, <2>4, <2>5, <2>6, <2>7, <2>8 DEF Exposed
  <2>10. Made'
    BY <1>1, <2>2 DEF Made
  <2> QED
    BY <1>3, <2>9, <2>10
<1>5. CASE cmds \notin Downs
  <2>1. /\ unit = "serving" /\ step = "up" /\ site = call.answer
        /\ (cmds \in Ups /\ ~failed) \/ (cmds = Delete /\ failed)
    BY <1>5, WhoRuns DEF Control, Running
  <2>2. config # None /\ admin.at # "remove"
    BY <2>1 DEF Control, Standing
  <2>3. CASE cmds = Delete
    <3>1. failed' /\ link' \in {link, "none"}
      BY <1>1, <2>1, <2>3, DeleteStep, ProgramsApart DEF Least
    <3>2. link' = "up" => faults' >= 1
      BY <1>1, <2>1, <2>3, <3>1, ProgramsApart DEF Exposed
    <3>3. Exposed'
      BY <1>1, <2>1, <2>2, <3>2 DEF Exposed
    <3>4. Made'
      BY <3>1 DEF Made
    <3> QED
      BY <1>3, <3>3, <3>4
  <2>4. CASE cmds \in Ups /\ ~failed
    <3>1. cmds = Up1 /\ link = "up" => conf = site
      BY <2>1, <2>4 DEF Made
    <3>2. /\ link' = "up" /\ (failed' \/ cmds' \notin {Up1, Done}) =>
                 Fault \/ (link = "up" /\ cmds \notin {Up1, Done})
          /\ link' = "up" /\ ~failed' =>
                 /\ cmds' \notin {Up2, Up3}
                 /\ cmds' \in {Up1, Done} => conf' = site
                 /\ cmds' = Done => rules'
      BY <1>1, <2>4, <3>1, UpStep
    <3>3. link' = "up" /\ (failed' \/ cmds' \notin {Up1, Done}) => faults' >= 1
      BY <1>1, <2>1, <3>2 DEF Exposed
    <3>4. Exposed'
      BY <1>1, <2>1, <2>2, <3>3 DEF Exposed
    <3>5. Made'
      BY <1>1, <2>1, <3>2 DEF Made
    <3> QED
      BY <1>3, <3>4, <3>5
  <2> QED
    BY <2>1, <2>3, <2>4
<1> QED
  BY <1>4, <1>5

LEMMA LinkFactsStep ==
  ASSUME Types, Control, LinkFacts, [Next]_vars
  PROVE  LinkFacts'
<1>1. CASE UNCHANGED vars
  <2>1. UNCHANGED <<link, conf, rules, cmds, failed, faults, unit, step, current, active, config, admin, call>>
    BY <1>1 DEF vars, tunnelVars, unitVars
  <2> QED
    BY <2>1 DEF LinkFacts, Exposed, Ahead, Made, UpAsAnswered
<1>2. CASE Next
  BY <1>2, ClientLinkFacts, ServeLinkFacts, UnitActLinkFacts, AdminLinkFacts,
     InterruptedLinkFacts, WishLinkFacts, CoreStepLinkFacts, KernelLinkFacts DEF Next
<1> QED
  BY <1>1, <1>2

-----------------------------------------------------------------------------
(***************************************************************************)
(* The invariant, and what follows from it.                                *)
(***************************************************************************)
\* It holds of a machine that was never set up.
LEMMA InitIInv == Init => IInv
<1> SUFFICES ASSUME Init PROVE IInv
  OBVIOUS
<1> USE DEF Init, TunnelInit
<1>1. cmds = Done /\ step = "none" /\ unit = "stopped" /\ admin.at = "none" /\ call.at = "none"
  BY DEF Done, NoCall, NoCommand
<1>2. TunnelTypes /\ CoreTypes
  <2>1. faults \in 0..MaxFaults
    BY TunnelAssumption
  <2>2. TunnelTypes
    BY <2>1 DEF TunnelTypes
  <2>3. CoreTypes
    BY DEF CoreTypes
  <2> QED
    BY <2>2, <2>3
<1>3. UnitTypes /\ CallType /\ AdminType
  BY DEF UnitTypes, CallType, AdminType, NoCall, NoCommand
<1>4. Running
  BY <1>1, DownStarts DEF Running
<1>5. Standing
  BY <1>1 DEF Standing
<1>6. Calling
  BY <1>1 DEF Calling
<1>7. Told
  BY HomeAssumption DEF Told, NoCall
<1>8. SessionsReturned /\ RejectionIsTrue
  BY DEF SessionsReturned, RejectionIsTrue, NoCall
<1>9. PeerFacts
  BY <1>1 DEF PeerFacts, Kept, NoOrphan
<1>10. LinkFacts
  BY DEF LinkFacts, Exposed, Made, UpAsAnswered
<1> QED
  BY <1>2, <1>3, <1>4, <1>5, <1>6, <1>7, <1>8, <1>9, <1>10 DEF IInv, Types, Control, CallFacts

\* Every step of the machine, its administrator, its kernel and the core keeps it.
LEMMA NextIInv == IInv /\ [Next]_vars => IInv'
<1> SUFFICES ASSUME IInv, [Next]_vars PROVE IInv'
  OBVIOUS
<1>1. Types /\ Control /\ CallFacts /\ PeerFacts /\ LinkFacts
  BY DEF IInv
<1>2. Types'
  BY <1>1, TypesStep DEF Control, CallFacts, LinkFacts
<1>3. Control'
  BY <1>1, ControlStep DEF LinkFacts
<1>4. CallFacts' /\ PeerFacts' /\ LinkFacts'
  BY <1>1, CallFactsStep, PeerFactsStep, LinkFactsStep
<1> QED
  BY <1>2, <1>3, <1>4 DEF IInv

LEMMA Inductive == Spec => []IInv
  BY InitIInv, NextIInv, PTL DEF Spec

\* The types with their bounds: what runs is a program, and an identity has as many sessions
\* as there were faults, and one more while a call holds its token.
LEMMA TypesImplyTypeOK == IInv => TypeOK
<1> SUFFICES ASSUME IInv PROVE TypeOK
  OBVIOUS
<1> USE DEF IInv, Types
<1>1. TunnelTypeOK
  <2>1. cmds \in Seq(Commands)
    BY ProgramTypes DEF Control, Running
  <2> QED
    BY <2>1 DEF TunnelTypes, TunnelTypeOK
<1>2. sessions \in [Identities -> 0..MaxFaults + 1]
  <2>1. ASSUME NEW i \in Identities
        PROVE  sessions[i] \in 0..MaxFaults + 1
    <3>1. sessions[i] \in Nat
      BY DEF CoreTypes
    <3>2. sessions[i] <= faults + (IF call.id = i /\ call.token = "live" THEN 1 ELSE 0)
      BY DEF CallFacts, SessionsReturned
    <3>3. faults \in Nat /\ faults <= MaxFaults /\ MaxFaults \in Nat
      BY TunnelAssumption DEF TunnelTypes
    <3> QED
      BY ONLY <3>1, <3>2, <3>3
  <2> QED
    BY <2>1 DEF CoreTypes
<1> QED
  BY <1>1, <1>2 DEF CoreTypes, UnitTypes, CallType, AdminType, TypeOK

\* The types, and what the loop of serveService maintains: sessions are given back, the
\* interface that is up carries what the core answered last, and a rejection is reported
\* only of a device that was revoked (service.go, serveService).
THEOREM HomeServiceInv == Spec => []Inv
<1>1. IInv => Inv
  BY TypesImplyTypeOK DEF IInv, CallFacts, LinkFacts, Inv
<1> QED
  BY <1>1, Inductive, PTL

\* The core never keeps a home service that no machine holds, unless a request, a save or a
\* process was lost (installService, forgetService).
THEOREM HomeServiceNoOrphan == Spec => []NoOrphan
<1>1. IInv => NoOrphan
  BY DEF IInv, PeerFacts
<1> QED
  BY <1>1, Inductive, PTL

\* A machine that was stopped forwards nothing after any one failure, and one that forgot its
\* core nothing after any two (ExecStopPost, forgetService).
THEOREM HomeServiceNothingLeft == Spec => []NothingLeft
<1>1. IInv => NothingLeft
  <2>1. SUFFICES ASSUME IInv PROVE NothingLeft
    OBVIOUS
  <2>2. faults \in Nat
    BY <2>1, TunnelAssumption DEF IInv, Types, TunnelTypes
  <2>3. Exposed
    BY <2>1 DEF IInv, LinkFacts
  <2>4. StoppedIsDown
    BY <2>2, <2>3 DEF Exposed, StoppedIsDown
  <2>5. ForgottenIsGone
    BY <2>2, <2>3 DEF Exposed, ForgottenIsGone
  <2> QED
    BY <2>4, <2>5 DEF NothingLeft
<1> QED
  BY <1>1, Inductive, PTL

=============================================================================
