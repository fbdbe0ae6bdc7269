------------------------- MODULE CoreControllerProofs -------------------------
(***************************************************************************)
(* Proofs about CoreController for any number of connects under way, every *)
(* set of sessions and every number of calls, restarts and faults.         *)
(***************************************************************************)
EXTENDS CoreController, TLAPS

-----------------------------------------------------------------------------
(***************************************************************************)
(* The inductive invariant, in parts.                                      *)
(***************************************************************************)
\* Where each task can wait, and that a task at rest holds nothing.
Places ==
    /\ \A c \in Connects : pc[c] \in {"idle", "challenge", "login", "status"}
    /\ pc["refresh"] \in {"idle", "status", "challenge", "login", "renewed"}
    /\ pc["revoke"] \in {"idle", "revoke"}
    /\ \A t \in Tasks : Idle(t) =>
        /\ local[t].gen = 0 /\ local[t].token = None /\ ~local[t].device /\ answer[t] = "none"

\* No task is ahead of the controller, and no two connects are of one generation.
Generations ==
    /\ \A t \in Tasks : local[t].gen <= app.gen
    /\ \A c \in Connects : local[c].gen <= MaxAsks
    /\ \A c, d \in Connects : c # d /\ ~Idle(c) /\ ~Idle(d) => local[c].gen # local[d].gen
    /\ app.device => app.gen <= MaxAsks

\* What was under way when the user disconnected is not current.
OffIsOld == off => \A t \in Tasks \ {"revoke"} : ~Idle(t) => ~Current(t)

\* A current connect finds no session; a current refresh finds the one it began with.
FindsIts ==
    /\ \A c \in Connects : ~Idle(c) /\ Current(c) => app.token = None
    /\ ~Idle("refresh") /\ Current("refresh") => app.token # None
    /\ pc["refresh"] = "status" /\ Current("refresh") => app.token = local["refresh"].token

\* The tasks that are signing in, and when their session is known to them.
SignsIn(t) == t \in Connects \/ (t = "refresh" /\ pc[t] \in {"challenge", "login", "renewed"})
SignedIn ==
    \A t \in Tasks : SignsIn(t) =>
        ((~Idle(t) /\ pc[t] # "challenge" /\ (pc[t] = "login" => answer[t] = "ok"))
            <=> local[t].token # None)

\* A session that a task has opened is nobody else's.
OwnTokens ==
    /\ \A t \in Tasks : SignsIn(t) /\ local[t].token # None =>
        /\ local[t].token # app.token /\ local[t].token \notin leaving
        /\ \A u \in Tasks : u # t /\ SignsIn(u) => local[u].token # local[t].token
    /\ app.token \notin leaving

\* Every session at the core is known to somebody, or strayed.
Tracked ==
    open \subseteq {app.token} \cup strayed \cup leaving
                   \cup {local[t].token : t \in {u \in Tasks : SignsIn(u)}}

\* The session that refresh gives up or renews has ended at the core.
GivesUpEnded ==
    pc["refresh"] = "status" /\ answer["refresh"] = "rejected" =>
        local["refresh"].token \notin open
RenewsEnded ==
    SignsIn("refresh") => local["refresh"].device /\ (Current("refresh") => app.token \notin open)

\* The device was revoked, or the core has ended something by itself.
Excused == revoked \/ count.restarts + count.expiries > 0

\* Why a device can be rejected.
RejectedForCause ==
    /\ pc["refresh"] = "status" => ~local["refresh"].device
    /\ \A t \in Tasks : local[t].device =>
        /\ answer[t] = "rejected" => Excused
        /\ pc[t] = "login" \/ (pc[t] = "challenge" /\ answer[t] = "ok") =>
               local[t].challenged \/ Excused
        /\ local[t].token # None => local[t].token \in open \/ Excused
    /\ ~local["revoke"].device
    /\ answer["revoke"] = "ok" => revoked

IInv ==
    /\ TypeOK /\ Places /\ Generations /\ OffIsOld /\ FindsIts /\ SignedIn /\ OwnTokens
    /\ Tracked /\ GivesUpEnded /\ RenewsEnded /\ RejectedForCause
    /\ StaysOff /\ ConnectingEnds /\ LostMeansRevoked

-----------------------------------------------------------------------------
(***************************************************************************)
(* What the helpers of the actions do.                                     *)
(***************************************************************************)
Gens == 0..MaxAsks + 1
Locals == [gen : Gens, token : Tokens \cup {None}, device : BOOLEAN, challenged : BOOLEAN]
States == {"idle", "challenge", "login", "status", "renewed", "revoke"}
Answers == {"none", "ok", "rejected", "failed"}
Counts == [restarts : 0..MaxEnds, expiries : 0..MaxEnds, faults : 0..MaxFaults]

\* The variables of the tasks, but for task t.
OthersKept(t) ==
    \A u \in Tasks : u # t => pc'[u] = pc[u] /\ answer'[u] = answer[u] /\ local'[u] = local[u]

\* Await sets what its task waits for and nothing of another task.
LEMMA AwaitEffect ==
  ASSUME TypeOK, NEW t \in Tasks, NEW at \in States, NEW l \in Locals, Await(t, at, l)
  PROVE  /\ pc'[t] = at /\ answer'[t] = "none" /\ local'[t] = l /\ OthersKept(t)
         /\ pc' \in [Tasks -> States] /\ answer' \in [Tasks -> Answers]
         /\ local' \in [Tasks -> Locals]
  BY DEF TypeOK, Await, OthersKept, States, Answers, Locals, Gens

\* A task that returns is at rest.
LEMMA ReturnEffect ==
  ASSUME TypeOK, NEW t \in Tasks, Return(t)
  PROVE  /\ pc'[t] = "idle" /\ answer'[t] = "none" /\ local'[t] = NoLocal /\ OthersKept(t)
         /\ pc' \in [Tasks -> States] /\ answer' \in [Tasks -> Answers]
         /\ local' \in [Tasks -> Locals]
  <1>1. NoLocal \in Locals
    BY BoundsAssumption DEF NoLocal, Locals, Gens
  <1> QED
    BY <1>1, AwaitEffect DEF Return, States

\* Answer gives a task its answer.
LEMMA AnswerEffect ==
  ASSUME TypeOK, NEW t \in Tasks, NEW what \in Answers, Answer(t, what)
  PROVE  /\ answer'[t] = what /\ answer' \in [Tasks -> Answers]
         /\ \A u \in Tasks : u # t => answer'[u] = answer[u]
  BY DEF TypeOK, Answer, Answers

\* A fault, a restart and an expiry are counted and stay within their bounds.
LEMMA CountType ==
  ASSUME TypeOK
  PROVE  /\ Fault => count' \in Counts /\ count'.restarts = count.restarts
                     /\ count'.expiries = count.expiries
         /\ CoreRestart => count' \in Counts /\ count'.restarts + count'.expiries > 0
         /\ \A token : Expire(token) => count' \in Counts /\ count'.restarts + count'.expiries > 0
         /\ \A t : ChallengeExpires(t) => count' \in Counts /\ count'.restarts + count'.expiries > 0
  BY BoundsAssumption DEF TypeOK, Fault, CoreRestart, Expire, ChallengeExpires, Counts

\* The tasks of the controller.
LEMMA TasksAre ==
  /\ "refresh" \in Tasks /\ "revoke" \in Tasks /\ \A c \in Connects : c \in Tasks
  /\ "refresh" \notin Connects /\ "revoke" \notin Connects
  /\ \A t \in Tasks : t \in Connects \/ t = "refresh" \/ t = "revoke"
  BY OtherTasks DEF Tasks

-----------------------------------------------------------------------------
(***************************************************************************)
(* Types.                                                                  *)
(***************************************************************************)
\* The parts of TypeOK that the actions disturb.
TasksType ==
    /\ pc \in [Tasks -> States] /\ answer \in [Tasks -> Answers] /\ local \in [Tasks -> Locals]
AppType ==
    app \in [phase : {"disconnected", "connecting", "connected", "unreachable"},
             token : Tokens \cup {None}, device : BOOLEAN, lost : BOOLEAN,
             timer : BOOLEAN, gen : Gens]
CoreType ==
    /\ open \subseteq Tokens /\ password \subseteq open
    /\ revoked \in BOOLEAN /\ off \in BOOLEAN
    /\ leaving \subseteq Tokens /\ strayed \subseteq Tokens

Typed == TasksType /\ AppType /\ CoreType /\ count \in Counts

LEMMA TypeParts == TypeOK => Typed
  BY DEF TypeOK, Typed, TasksType, AppType, CoreType, Counts, States, Answers, Locals, Gens

\* What the controller does to its fields keeps their types.
LEMMA AppTypes ==
  ASSUME TypeOK
  PROVE  \A lost \in BOOLEAN : app.gen <= MaxAsks /\ Leave(lost) => AppType' /\ leaving' \subseteq Tokens
  <1>1. app.gen <= MaxAsks => app.gen + 1 \in Gens
    BY BoundsAssumption DEF TypeOK, Gens
  <1>2. Typed
    BY TypeParts
  <1> SUFFICES ASSUME NEW lost \in BOOLEAN, app.gen <= MaxAsks, Leave(lost)
               PROVE  AppType' /\ leaving' \subseteq Tokens
    OBVIOUS
  <1>3. app' = [app EXCEPT !.phase = "disconnected", !.token = None, !.timer = FALSE,
                           !.device = FALSE, !.gen = app.gen + 1, !.lost = lost]
    BY <1>2 DEF Leave, Ended, Typed, AppType
  <1>4. AppType'
    BY <1>1, <1>2, <1>3 DEF Typed, AppType
  <1>5. leaving' \subseteq Tokens
    BY <1>2 DEF Typed, AppType, CoreType, Leave, Tok
  <1> QED
    BY <1>4, <1>5

\* Every step keeps the types.
LEMMA TypeStep ==
  ASSUME TypeOK, Places, Generations, SignedIn, [Next]_vars
  PROVE  TypeOK'
  <1> USE DEF TasksType, AppType, CoreType, Typed
  <1>0. Typed
    BY TypeParts
  <1> SUFFICES Typed'
    BY DEF TypeOK, Counts, States, Answers, Locals, Gens
  <1>1. ASSUME NEW t \in Tasks, Serve(t) \/ Fail(t) \/ LoginLost(t)
        PROVE  Typed'
    <2>1. CASE Challenge(t)
      <3>1. answer' \in [Tasks -> Answers]
        BY <2>1, AnswerEffect DEF Challenge, Answers
      <3>2. local' \in [Tasks -> Locals]
        <4>1. \/ local' = [local EXCEPT ![t] = [local[t] EXCEPT !.challenged = TRUE]]
              \/ local' = local
          BY <1>0, <2>1 DEF Challenge
        <4>2. [local[t] EXCEPT !.challenged = TRUE] \in Locals
          BY <1>0 DEF Locals
        <4> QED
          BY <1>0, <4>1, <4>2
      <3> QED
        BY <1>0, <2>1, <3>1, <3>2 DEF Challenge, core
    <2>2. CASE Login(t)
      <3>1. answer' \in [Tasks -> Answers]
        BY <2>2, AnswerEffect DEF Login, Answers
      <3>2. local' \in [Tasks -> Locals]
        BY <1>0, <2>2 DEF Login, Free, Locals
      <3>3. CoreType'
        BY <1>0, <2>2 DEF Login, Free
      <3> QED
        BY <1>0, <2>2, <3>1, <3>2, <3>3 DEF Login
    <2>3. CASE LoginRejected(t)
      BY <1>0, <2>3, AnswerEffect DEF LoginRejected, Answers, core
    <2>4. CASE Status(t)
      BY <1>0, <2>4, AnswerEffect DEF Status, Answers, core
    <2>5. CASE RevokeRequest
      BY <1>0, <2>5, AnswerEffect, TasksAre DEF RevokeRequest, Revoked, Answers, core
    <2>6. CASE Fail(t)
      BY <1>0, <2>6, AnswerEffect, CountType DEF Fail, Answers, core
    <2>7. CASE LoginLost(t)
      <3>1. answer' \in [Tasks -> Answers] /\ count' \in Counts
        BY <2>7, AnswerEffect, CountType DEF LoginLost, Answers
      <3> QED
        BY <1>0, <2>7, <3>1 DEF LoginLost, Free
    <2> QED
      BY <1>1, <2>1, <2>2, <2>3, <2>4, <2>5, <2>6, <2>7 DEF Serve
  <1>2. ASSUME NEW t \in Tasks, NEW at \in States, NEW next \in States, GoOn(t, at, next)
        PROVE  Typed'
    <2>1. local[t] \in Locals
      BY <1>0
    <2> QED
      BY <1>0, <1>2, <2>1, AwaitEffect DEF GoOn, core
  <1>3. ASSUME NEW c \in Connects, Connected(c) \/ ConnectFails(c)
        PROVE  Typed'
    <2>1. TasksType'
      BY <1>3, TasksAre, ReturnEffect DEF Connected, ConnectFails
    <2>2. AppType'
      <3>1. local[c] \in Locals
        BY <1>0, TasksAre
      <3>2. local[c].token \in Tokens \cup {None} /\ local[c].device \in BOOLEAN
        BY <3>1 DEF Locals
      <3>3. CASE app' = app
        BY <1>0, <3>3
      <3>4. CASE app' = [app EXCEPT !.phase = "connected", !.token = local[c].token,
                                    !.device = local[c].device, !.timer = TRUE]
        BY <1>0, <3>2, <3>4
      <3>5. CASE app' = [app EXCEPT !.phase = "disconnected",
                                    !.lost = local[c].device /\ answer[c] = "rejected"]
        BY <1>0, <3>2, <3>5
      <3> QED
        BY <1>3, <3>3, <3>4, <3>5 DEF Connected, ConnectFails
    <2>3. leaving' \subseteq Tokens
      <3>1. local[c].token \in Tokens \cup {None}
        BY <1>0, TasksAre DEF Locals
      <3>2. CASE Connected(c)
        <4>1. local[c].token # None
          BY <3>2, TasksAre DEF Connected, Answered, SignedIn, SignsIn, Idle
        <4> QED
          BY <1>0, <3>1, <3>2, <4>1 DEF Connected
      <3>3. CASE ConnectFails(c)
        BY <1>0, <3>1, <3>3 DEF ConnectFails, Tok
      <3> QED
        BY <1>3, <3>2, <3>3
    <2> QED
      BY <1>0, <1>3, <2>1, <2>2, <2>3 DEF Connected, ConnectFails, core
  <1>4. CASE Refreshed
    <2>1. TasksType'
      <3>1. [NoLocal EXCEPT !.gen = app.gen, !.device = TRUE] \in Locals
        BY <1>0 DEF NoLocal, Locals
      <3> QED
        BY <1>4, <3>1, TasksAre, AwaitEffect, ReturnEffect DEF Refreshed, States
    <2>2. AppType'
      BY <1>0, <1>4 DEF Refreshed, Ended
    <2> QED
      BY <1>0, <1>4, <2>1, <2>2 DEF Refreshed, core
  <1>5. CASE Renewed \/ RenewalFails
    <2>1. TasksType'
      BY <1>5, TasksAre, ReturnEffect DEF Renewed, RenewalFails
    <2>2. local["refresh"].token \in Tokens \cup {None}
      BY <1>0, TasksAre DEF Locals
    <2>3. AppType'
      <3>1. \/ app' = app
            \/ app' = [app EXCEPT !.token = local["refresh"].token, !.phase = "connected"]
            \/ app' = [Ended EXCEPT !.lost = (answer["refresh"] = "rejected")]
        BY <1>5 DEF Renewed, RenewalFails
      <3>2. [app EXCEPT !.token = local["refresh"].token, !.phase = "connected"]
                \in [phase : {"disconnected", "connecting", "connected", "unreachable"},
                     token : Tokens \cup {None}, device : BOOLEAN, lost : BOOLEAN,
                     timer : BOOLEAN, gen : Gens]
        BY <1>0, <2>2
      <3>3. [Ended EXCEPT !.lost = (answer["refresh"] = "rejected")]
                \in [phase : {"disconnected", "connecting", "connected", "unreachable"},
                     token : Tokens \cup {None}, device : BOOLEAN, lost : BOOLEAN,
                     timer : BOOLEAN, gen : Gens]
        BY <1>0 DEF Ended
      <3> QED
        BY <1>0, <3>1, <3>2, <3>3
    <2>4. Renewed => local["refresh"].token # None
      BY TasksAre DEF Renewed, Answered, SignedIn, SignsIn, Idle
    <2>5. leaving' \subseteq Tokens
      BY <1>0, <1>5, <2>2, <2>4 DEF Renewed, RenewalFails, Tok
    <2> QED
      BY <1>0, <1>5, <2>1, <2>3, <2>5 DEF Renewed, RenewalFails, core
  <1>6. CASE RevokeAnswered
    <2>1. TasksType'
      BY <1>6, TasksAre, ReturnEffect DEF RevokeAnswered
    <2>2. AppType' /\ leaving' \subseteq Tokens /\ off' \in BOOLEAN
      <3>1. CASE answer["revoke"] = "ok" /\ app.device
        BY <1>6, <3>1, AppTypes DEF RevokeAnswered, Generations, Leave
      <3>2. CASE ~(answer["revoke"] = "ok" /\ app.device)
        BY <1>0, <1>6, <3>2 DEF RevokeAnswered
      <3> QED
        BY <3>1, <3>2
    <2> QED
      BY <1>0, <1>6, <2>1, <2>2 DEF RevokeAnswered, core
  <1>7. ASSUME NEW token \in Tokens, SignOut(token) \/ SignOutLost(token) \/ Expire(token)
        PROVE  Typed'
    <2>1. count' = count \/ count' \in Counts
      BY <1>7, CountType DEF SignOut, SignOutLost
    <2>2. /\ open' \subseteq open /\ password' \subseteq open'
          /\ leaving' \subseteq leaving /\ strayed' \subseteq strayed \cup {token}
      BY <1>0, <1>7 DEF SignOut, SignOutLost, Expire, core
    <2>3. UNCHANGED <<revoked, off, app, pc, answer, local>>
      BY <1>7 DEF SignOut, SignOutLost, Expire, core
    <2> QED
      BY <1>0, <2>1, <2>2, <2>3
  <1>8. CASE CoreRestart
    <2>1. \A t \in Tasks : [local[t] EXCEPT !.challenged = FALSE] \in Locals
      BY <1>0 DEF Locals
    <2>2. local' \in [Tasks -> Locals]
      BY <1>8, <2>1 DEF CoreRestart
    <2>3. count' \in Counts
      BY <1>8, CountType
    <2> QED
      BY <1>0, <1>8, <2>2, <2>3 DEF CoreRestart
  <1>9. CASE Revoke
    BY <1>0, <1>9 DEF Revoke, Revoked
  <1>10. CASE RevokeUntold
    <2>1. answer' \in [Tasks -> Answers] /\ count' \in Counts
      BY <1>10, TasksAre, AnswerEffect, CountType DEF RevokeUntold, Answers
    <2> QED
      BY <1>0, <1>10, <2>1 DEF RevokeUntold, Revoked
  <1>11. ASSUME NEW c \in Connects, NEW device \in BOOLEAN, Connect(c, device)
         PROVE  Typed'
    <2>1. app.gen + 1 \in Gens
      BY <1>0, <1>11, BoundsAssumption DEF Connect, Gens
    <2>2. [NoLocal EXCEPT !.gen = app.gen + 1, !.device = device] \in Locals
      BY <2>1 DEF NoLocal, Locals
    <2>3. TasksType'
      BY <1>11, <2>2, TasksAre, AwaitEffect DEF Connect, States
    <2>4. AppType' /\ strayed' \subseteq Tokens
      BY <1>0, <1>11, <2>1 DEF Connect, Tok
    <2> QED
      BY <1>0, <1>11, <2>3, <2>4 DEF Connect, core
  <1>12. CASE Refresh \/ RevokeDevice
    <2>1. [NoLocal EXCEPT !.gen = app.gen, !.token = app.token] \in Locals
      BY <1>0 DEF NoLocal, Locals
    <2>2. [NoLocal EXCEPT !.token = app.token] \in Locals
      <3>1. 0 \in Gens
        BY BoundsAssumption DEF Gens
      <3> QED
        BY <1>0, <3>1 DEF NoLocal, Locals
    <2>3. TasksType'
      BY <1>12, <2>1, <2>2, TasksAre, AwaitEffect DEF Refresh, RevokeDevice, States
    <2> QED
      BY <1>0, <1>12, <2>3 DEF Refresh, RevokeDevice, core
  <1>13. CASE Disconnect
    <2>1. app.gen <= MaxAsks
      BY <1>0, <1>13, BoundsAssumption DEF Disconnect, Gens
    <2>2. AppType' /\ leaving' \subseteq Tokens
      BY <1>13, <2>1, AppTypes, Zenon DEF Disconnect
    <2> QED
      BY <1>0, <1>13, <2>2 DEF Disconnect, Leave, core
  <1>14. ASSUME NEW t \in Tasks, ChallengeExpires(t)
         PROVE  Typed'
    <2>1. [local[t] EXCEPT !.challenged = FALSE] \in Locals
      BY <1>0 DEF Locals
    <2>2. local' \in [Tasks -> Locals]
      BY <1>0, <1>14, <2>1 DEF ChallengeExpires
    <2>3. count' \in Counts
      BY <1>14, CountType
    <2> QED
      BY <1>0, <1>14, <2>2, <2>3 DEF ChallengeExpires, core
  <1>15. CASE UNCHANGED vars
    BY <1>0, <1>15 DEF vars, core
  <1> QED
    BY <1>1, <1>2, <1>3, <1>4, <1>5, <1>6, <1>7, <1>8, <1>9, <1>10, <1>11, <1>12, <1>13, <1>14,
       <1>15
    DEF Next, GoesOn, States

-----------------------------------------------------------------------------
(***************************************************************************)
(* The two kinds of steps.                                                 *)
(***************************************************************************)
AtCore ==
    \/ \E t \in Tasks : Serve(t) \/ ChallengeExpires(t) \/ Fail(t) \/ LoginLost(t)
    \/ \E token \in Tokens : SignOut(token) \/ SignOutLost(token) \/ Expire(token)
    \/ CoreRestart \/ Revoke \/ RevokeUntold

\* What such a step leaves of the answers, and of the local variables.
AnswersKept ==
    \A t \in Tasks : answer'[t] # answer[t] => ~Idle(t) /\ answer[t] = "none" /\ answer'[t] # "none"
LocalsKept ==
    \A t \in Tasks :
        /\ local'[t].gen = local[t].gen /\ local'[t].device = local[t].device
        /\ local'[t].token # local[t].token => pc[t] = "login" /\ answer[t] = "none"

\* A step of the core or of the network leaves the controller alone, and of its tasks it changes
\* only what a request was waiting for: the answer, the challenge and the session.
LEMMA CoreKeeps ==
  ASSUME TypeOK, AtCore
  PROVE  app' = app /\ pc' = pc /\ off' = off /\ AnswersKept /\ LocalsKept
  <1>0. Typed
    BY TypeParts
  <1>1. app' = app /\ pc' = pc /\ off' = off
    BY DEF AtCore, Serve, Challenge, Login, LoginRejected, Status, RevokeRequest, ChallengeExpires,
           Fail, LoginLost, SignOut, SignOutLost, Expire, CoreRestart, Revoke, RevokeUntold
  <1>2. ASSUME NEW t \in Tasks, NEW what \in Answers \ {"none"}, ~Idle(t), answer[t] = "none",
               Answer(t, what)
        PROVE  AnswersKept
    BY <1>2, AnswerEffect DEF AnswersKept
  <1>3. local' = local => LocalsKept
    BY DEF LocalsKept
  <1>4. answer' = answer => AnswersKept
    BY DEF AnswersKept
  <1>5. ASSUME NEW t \in Tasks, Challenge(t)
        PROVE  AnswersKept /\ LocalsKept
    <2>1. AnswersKept
      BY <1>2, <1>5 DEF Challenge, Waits, Idle, Answers
    <2>2. LocalsKept
      BY <1>0, <1>5 DEF Typed, TasksType, Locals, LocalsKept, Challenge, Waits, Idle
    <2> QED
      BY <2>1, <2>2
  <1>6. ASSUME NEW t \in Tasks, Login(t)
        PROVE  AnswersKept /\ LocalsKept
    <2>1. AnswersKept
      BY <1>2, <1>6 DEF Login, Waits, Idle, Answers
    <2>2. LocalsKept
      BY <1>0, <1>6 DEF Typed, TasksType, Locals, LocalsKept, Login, Waits, Idle
    <2> QED
      BY <2>1, <2>2
  <1>7. ASSUME NEW t \in Tasks, LoginRejected(t) \/ Status(t) \/ Fail(t) \/ LoginLost(t)
        PROVE  AnswersKept /\ LocalsKept
    <2>1. local' = local
      BY <1>7 DEF LoginRejected, Status, Fail, LoginLost
    <2>2. PICK what \in Answers \ {"none"} : Answer(t, what)
      BY <1>7 DEF LoginRejected, Status, Fail, LoginLost, Answers
    <2>3. ~Idle(t) /\ answer[t] = "none"
      BY <1>7 DEF LoginRejected, Status, Fail, LoginLost, Waits, Checks, Idle
    <2> QED
      BY <1>2, <1>3, <2>1, <2>2, <2>3
  <1>8. ASSUME RevokeRequest \/ RevokeUntold
        PROVE  AnswersKept /\ LocalsKept
    <2>1. local' = local
      BY <1>8 DEF RevokeRequest, RevokeUntold
    <2>2. PICK what \in Answers \ {"none"} : Answer("revoke", what)
      BY <1>8 DEF RevokeRequest, RevokeUntold, Answers
    <2>3. ~Idle("revoke") /\ answer["revoke"] = "none"
      BY <1>8 DEF RevokeRequest, RevokeUntold, Waits, Idle
    <2> QED
      BY <1>2, <1>3, <2>1, <2>2, <2>3, TasksAre
  <1>9. CASE CoreRestart
    <2>1. LocalsKept
      BY <1>0, <1>9 DEF Typed, TasksType, Locals, LocalsKept, CoreRestart, Idle
    <2> QED
      BY <1>1, <1>4, <1>9, <2>1 DEF CoreRestart
  <1>10. CASE \/ \E token \in Tokens : SignOut(token) \/ SignOutLost(token) \/ Expire(token)
              \/ Revoke
    <2>1. local' = local /\ answer' = answer
      BY <1>10 DEF SignOut, SignOutLost, Expire, Revoke
    <2> QED
      BY <1>1, <1>3, <1>4, <2>1
  <1>11. ASSUME NEW t \in Tasks, ChallengeExpires(t)
         PROVE  AnswersKept /\ LocalsKept
    <2>1. LocalsKept
      BY <1>0, <1>11 DEF Typed, TasksType, Locals, LocalsKept, ChallengeExpires, Idle
    <2> QED
      BY <1>4, <1>11, <2>1 DEF ChallengeExpires
  <1> QED
    BY <1>1, <1>5, <1>6, <1>7, <1>8, <1>9, <1>10, <1>11 DEF AtCore, Serve

\* A task that waits, with the local variables it goes on with; Rests is its return.
Awaits(t, at, l) == pc'[t] = at /\ answer'[t] = "none" /\ local'[t] = l /\ OthersKept(t)
Rests(t) == Awaits(t, "idle", NoLocal)
CoreKept == UNCHANGED <<open, password, revoked, count>>

\* A step of the controller changes one task at most, and nothing at the core.
LEMMA TaskMoves ==
  ASSUME TypeOK
  PROVE  /\ \A t \in Tasks : GoOn(t, "challenge", "login") => Awaits(t, "login", local[t])
         /\ \A t \in Tasks : GoOn(t, "login", "status") => Awaits(t, "status", local[t])
         /\ \A t \in Tasks : GoOn(t, "login", "renewed") => Awaits(t, "renewed", local[t])
         /\ \A c \in Connects : Connected(c) \/ ConnectFails(c) => Rests(c)
         /\ Renewed \/ RenewalFails => Rests("refresh")
         /\ RevokeAnswered => Rests("revoke")
         /\ Refresh =>
              Awaits("refresh", "status", [NoLocal EXCEPT !.gen = app.gen, !.token = app.token])
         /\ RevokeDevice => Awaits("revoke", "revoke", [NoLocal EXCEPT !.token = app.token])
         /\ \A c \in Connects, device \in BOOLEAN : Connect(c, device) =>
              Awaits(c, IF device THEN "challenge" ELSE "login",
                     [NoLocal EXCEPT !.gen = app.gen + 1, !.device = device])
         /\ Refreshed =>
              IF Current("refresh") /\ answer["refresh"] = "rejected" /\ app.device
              THEN Awaits("refresh", "challenge", [NoLocal EXCEPT !.gen = app.gen, !.device = TRUE])
              ELSE Rests("refresh")
  <1>0. Typed
    BY TypeParts
  <1> USE DEF Awaits, Rests, States
  <1>1. ASSUME NEW t \in Tasks, NEW at \in States, NEW next \in States, GoOn(t, at, next)
        PROVE  Awaits(t, next, local[t])
    <2>1. local[t] \in Locals
      BY <1>0 DEF Typed, TasksType
    <2> QED
      BY <1>1, <2>1, AwaitEffect DEF GoOn
  <1>2. ASSUME NEW c \in Connects, Connected(c) \/ ConnectFails(c)
        PROVE  Rests(c)
    BY <1>2, TasksAre, ReturnEffect DEF Connected, ConnectFails
  <1>3. ASSUME Renewed \/ RenewalFails
        PROVE  Rests("refresh")
    BY <1>3, TasksAre, ReturnEffect DEF Renewed, RenewalFails
  <1>4. ASSUME RevokeAnswered
        PROVE  Rests("revoke")
    BY <1>4, TasksAre, ReturnEffect DEF RevokeAnswered
  <1>5. ASSUME Refresh
        PROVE  Awaits("refresh", "status", [NoLocal EXCEPT !.gen = app.gen, !.token = app.token])
    <2>1. [NoLocal EXCEPT !.gen = app.gen, !.token = app.token] \in Locals
      BY <1>0 DEF Typed, AppType, NoLocal, Locals
    <2> QED
      BY <1>5, <2>1, TasksAre, AwaitEffect DEF Refresh
  <1>6. ASSUME RevokeDevice
        PROVE  Awaits("revoke", "revoke", [NoLocal EXCEPT !.token = app.token])
    <2>1. 0 \in Gens
      BY BoundsAssumption DEF Gens
    <2>2. [NoLocal EXCEPT !.token = app.token] \in Locals
      BY <1>0, <2>1 DEF Typed, AppType, NoLocal, Locals
    <2> QED
      BY <1>6, <2>2, TasksAre, AwaitEffect DEF RevokeDevice
  <1>7. ASSUME NEW c \in Connects, NEW device \in BOOLEAN, Connect(c, device)
        PROVE  Awaits(c, IF device THEN "challenge" ELSE "login",
                      [NoLocal EXCEPT !.gen = app.gen + 1, !.device = device])
    <2>1. app.gen + 1 \in Gens
      BY <1>0, <1>7, BoundsAssumption DEF Typed, AppType, Connect, Gens
    <2>2. [NoLocal EXCEPT !.gen = app.gen + 1, !.device = device] \in Locals
      BY <2>1 DEF NoLocal, Locals
    <2> QED
      BY <1>7, <2>2, TasksAre, AwaitEffect DEF Connect
  <1>8. ASSUME Refreshed
        PROVE  IF Current("refresh") /\ answer["refresh"] = "rejected" /\ app.device
               THEN Awaits("refresh", "challenge",
                           [NoLocal EXCEPT !.gen = app.gen, !.device = TRUE])
               ELSE Rests("refresh")
    <2>1. [NoLocal EXCEPT !.gen = app.gen, !.device = TRUE] \in Locals
      BY <1>0 DEF Typed, AppType, NoLocal, Locals
    <2>2. CASE Current("refresh") /\ answer["refresh"] = "rejected" /\ app.device
      BY <1>8, <2>1, <2>2, TasksAre, AwaitEffect DEF Refreshed
    <2>3. CASE ~(Current("refresh") /\ answer["refresh"] = "rejected" /\ app.device)
      BY <1>8, <2>3, TasksAre, ReturnEffect DEF Refreshed
    <2> QED
      BY <2>2, <2>3
  <1> QED
    BY <1>1, <1>2, <1>3, <1>4, <1>5, <1>6, <1>7, <1>8

\* What the controller's steps do to its fields.
Keep(fields) == \A f \in fields : app'[f] = app[f]
Drops == app'.phase = "disconnected" /\ app'.token = None /\ ~app'.timer
LEMMA AppMoves ==
  ASSUME TypeOK
  PROVE  /\ \A c \in Connects, device \in BOOLEAN : Connect(c, device) =>
              /\ app'.phase = "connecting" /\ app'.token = None /\ ~app'.lost /\ ~app'.timer
              /\ app'.gen = app.gen + 1 /\ app'.device = app.device
         /\ \A c \in Connects : ConnectFails(c) =>
              IF ~Current(c) THEN app' = app
              ELSE /\ app'.phase = "disconnected" /\ Keep({"token", "device", "timer", "gen"})
                   /\ app'.lost <=> local[c].device /\ answer[c] = "rejected"
         /\ \A c \in Connects : Connected(c) =>
              IF ~Current(c) THEN app' = app
              ELSE /\ app'.phase = "connected" /\ app'.token = local[c].token
                   /\ app'.device = local[c].device /\ app'.timer /\ Keep({"lost", "gen"})
         /\ Refreshed =>
              IF ~Current("refresh") THEN app' = app
              ELSE IF answer["refresh"] # "rejected" \/ app.device
              THEN /\ app'.phase \in {"connected", "unreachable"}
                   /\ Keep({"token", "device", "lost", "timer", "gen"})
              ELSE Drops /\ Keep({"device", "lost", "gen"})
         /\ Renewed =>
              IF ~Current("refresh") THEN app' = app
              ELSE /\ app'.phase = "connected" /\ app'.token = local["refresh"].token
                   /\ Keep({"device", "lost", "timer", "gen"})
         /\ RenewalFails =>
              IF ~Current("refresh") THEN app' = app
              ELSE /\ Drops /\ Keep({"device", "gen"})
                   /\ app'.lost <=> answer["refresh"] = "rejected"
         /\ \A lost \in BOOLEAN : Leave(lost) =>
              Drops /\ ~app'.device /\ app'.gen = app.gen + 1 /\ (app'.lost <=> lost)
  <1>0. AppType
    BY TypeParts DEF Typed
  <1> USE <1>0 DEF AppType, Keep, Drops
  <1>1. ASSUME NEW c \in Connects, NEW device \in BOOLEAN, Connect(c, device)
        PROVE  /\ app'.phase = "connecting" /\ app'.token = None /\ ~app'.lost /\ ~app'.timer
               /\ app'.gen = app.gen + 1 /\ app'.device = app.device
    BY <1>1 DEF Connect
  <1>2. ASSUME NEW c \in Connects, ConnectFails(c)
        PROVE  IF ~Current(c) THEN app' = app
               ELSE /\ app'.phase = "disconnected" /\ Keep({"token", "device", "timer", "gen"})
                    /\ app'.lost <=> local[c].device /\ answer[c] = "rejected"
    BY <1>2 DEF ConnectFails
  <1>3. ASSUME NEW c \in Connects, Connected(c)
        PROVE  IF ~Current(c) THEN app' = app
               ELSE /\ app'.phase = "connected" /\ app'.token = local[c].token
                    /\ app'.device = local[c].device /\ app'.timer /\ Keep({"lost", "gen"})
    BY <1>3 DEF Connected
  <1>4. ASSUME Refreshed
        PROVE  IF ~Current("refresh") THEN app' = app
               ELSE IF answer["refresh"] # "rejected" \/ app.device
               THEN /\ app'.phase \in {"connected", "unreachable"}
                    /\ Keep({"token", "device", "lost", "timer", "gen"})
               ELSE Drops /\ Keep({"device", "lost", "gen"})
    <2>1. answer["refresh"] \in {"ok", "rejected", "failed"}
      <3>1. answer["refresh"] # "none"
        BY <1>4 DEF Refreshed, Answered
      <3>2. answer["refresh"] \in Answers
        BY TypeParts, TasksAre DEF Typed, TasksType
      <3> QED
        BY <3>1, <3>2 DEF Answers
    <2>2. CASE ~Current("refresh")
      BY <1>4, <2>2 DEF Refreshed
    <2>3. CASE Current("refresh") /\ answer["refresh"] = "ok"
      BY <1>4, <2>3 DEF Refreshed
    <2>4. CASE Current("refresh") /\ answer["refresh"] = "failed"
      BY <1>4, <2>4 DEF Refreshed
    <2>5. CASE Current("refresh") /\ answer["refresh"] = "rejected" /\ app.device
      BY <1>4, <2>5 DEF Refreshed
    <2>6. CASE Current("refresh") /\ answer["refresh"] = "rejected" /\ ~app.device
      BY <1>4, <2>6 DEF Refreshed, Ended
    <2> QED
      BY <2>1, <2>2, <2>3, <2>4, <2>5, <2>6
  <1>5. ASSUME Renewed
        PROVE  IF ~Current("refresh") THEN app' = app
               ELSE /\ app'.phase = "connected" /\ app'.token = local["refresh"].token
                    /\ Keep({"device", "lost", "timer", "gen"})
    BY <1>5 DEF Renewed
  <1>6. ASSUME RenewalFails
        PROVE  IF ~Current("refresh") THEN app' = app
               ELSE /\ Drops /\ Keep({"device", "gen"})
                    /\ app'.lost <=> answer["refresh"] = "rejected"
    BY <1>6 DEF RenewalFails, Ended
  <1>7. ASSUME NEW lost \in BOOLEAN, Leave(lost)
        PROVE  Drops /\ ~app'.device /\ app'.gen = app.gen + 1 /\ (app'.lost <=> lost)
    BY <1>7 DEF Leave, Ended
  <1> QED
    BY <1>1, <1>2, <1>3, <1>4, <1>5, <1>6, <1>7

\* A connect begins with a local state of its own generation and no token.
LEMMA ConnectMoves ==
  ASSUME TypeOK, NEW c \in Connects, NEW device \in BOOLEAN, Connect(c, device)
  PROVE  /\ pc'[c] \in {"challenge", "login"} /\ answer'[c] = "none" /\ OthersKept(c)
         /\ local'[c].gen = app.gen + 1 /\ local'[c].token = None
  <1> DEFINE l == [NoLocal EXCEPT !.gen = app.gen + 1, !.device = device]
             at == IF device THEN "challenge" ELSE "login"
  <1>1. Awaits(c, at, l)
    BY TaskMoves
  <1>2. l.gen = app.gen + 1 /\ l.token = None /\ at \in {"challenge", "login"}
    BY DEF NoLocal
  <1> HIDE DEF l, at
  <1> QED
    BY <1>1, <1>2 DEF Awaits

-----------------------------------------------------------------------------
(***************************************************************************)
(* Tasks and generations.                                                  *)
(***************************************************************************)
\* A task waits only where its function awaits, and rests with nothing in its hands.
LEMMA PlacesStep ==
  ASSUME TypeOK, Places, [Next]_vars
  PROVE  Places'
  <1> USE TasksAre DEF Places, Idle
  <1>0. ASSUME NEW t \in Tasks, NEW at \in States, NEW l, Awaits(t, at, l),
               t \in Connects => at \in {"idle", "challenge", "login", "status"},
               t = "refresh" => at \in {"idle", "status", "challenge", "login", "renewed"},
               t = "revoke" => at \in {"idle", "revoke"},
               at = "idle" => l.gen = 0 /\ l.token = None /\ ~l.device
        PROVE  Places'
    BY <1>0 DEF Awaits, OthersKept
  <1>1. ASSUME NEW t \in Tasks, Rests(t)
        PROVE  Places'
    BY <1>0, <1>1 DEF Rests, NoLocal, States
  <1>2. CASE AtCore
    BY <1>2, CoreKeeps DEF AnswersKept, LocalsKept
  <1>3. ASSUME NEW t \in Tasks, GoOn(t, "challenge", "login")
        PROVE  Places'
    <2>1. Awaits(t, "login", local[t])
      BY <1>3, TaskMoves
    <2>2. t # "revoke"
      BY <1>3 DEF GoOn, Answered
    <2> QED
      BY <1>0, <2>1, <2>2 DEF States
  <1>4. ASSUME NEW c \in Connects, GoOn(c, "login", "status")
        PROVE  Places'
    <2>1. Awaits(c, "status", local[c])
      BY <1>4, TaskMoves
    <2> QED
      BY <1>0, <2>1 DEF States
  <1>5. CASE GoOn("refresh", "login", "renewed")
    <2>1. Awaits("refresh", "renewed", local["refresh"])
      BY <1>5, TaskMoves
    <2> QED
      BY <1>0, <2>1 DEF States
  <1>6. CASE \/ \E c \in Connects : Connected(c) \/ ConnectFails(c)
             \/ Renewed \/ RenewalFails \/ RevokeAnswered
    BY <1>1, <1>6, TaskMoves
  <1>7. CASE Refreshed \/ Refresh
    <2>1. \E at \in {"idle", "challenge", "status"} : \E l :
            Awaits("refresh", at, l) /\ (at = "idle" => l = NoLocal)
      BY <1>7, TaskMoves DEF Rests
    <2> QED
      BY <1>0, <2>1 DEF States, NoLocal
  <1>8. CASE RevokeDevice
    <2>1. Awaits("revoke", "revoke", [NoLocal EXCEPT !.token = app.token])
      BY <1>8, TaskMoves
    <2> QED
      BY <1>0, <2>1 DEF States
  <1>9. ASSUME NEW c \in Connects, NEW device \in BOOLEAN, Connect(c, device)
        PROVE  Places'
    <2>1. \E at \in {"challenge", "login"} : \E l : Awaits(c, at, l)
      BY <1>9, TaskMoves
    <2> QED
      BY <1>0, <2>1 DEF States
  <1>10. CASE Disconnect \/ UNCHANGED vars
    BY <1>10 DEF Disconnect, vars
  <1> QED
    BY <1>2, <1>3, <1>4, <1>5, <1>6, <1>7, <1>8, <1>9, <1>10 DEF Next, GoesOn, AtCore

\* Waking up and returning keep the generations.
LEMMA GenerationsReturn ==
  ASSUME TypeOK, Places, Generations, NEW t \in Tasks, Rests(t),
         app'.gen \in Nat, app.gen <= app'.gen, app'.device => app'.gen <= MaxAsks
  PROVE  Generations'
  <1> USE TasksAre, BoundsAssumption DEF Generations, Idle
  <1>0. \A u \in Tasks : local[u].gen \in Nat /\ local[u].gen <= app.gen /\ app.gen \in Nat
    BY DEF TypeOK
  <1>1. local'[t].gen = 0 /\ pc'[t] = "idle" /\ OthersKept(t)
    BY DEF Rests, Awaits, NoLocal
  <1>2. \A u \in Tasks : local'[u].gen <= app'.gen
    BY <1>0, <1>1 DEF OthersKept
  <1> QED
    BY <1>1, <1>2 DEF OthersKept

\* A new connect is of a new generation, and disconnect begins one that nothing under way has.
LEMMA GenerationsStep ==
  ASSUME TypeOK, Places, Generations, [Next]_vars
  PROVE  Generations'
  <1> USE TasksAre, BoundsAssumption DEF Generations, Idle
  <1>0. /\ app.gen \in Nat /\ \A t \in Tasks : local[t].gen \in Nat
        /\ \A t \in Tasks : local[t].gen <= app.gen
    BY DEF TypeOK
  <1>1. ASSUME NEW t \in Tasks, NEW at, Awaits(t, at, local[t]), at # "idle", ~Idle(t),
               app' = app
        PROVE  Generations'
    BY <1>1 DEF Awaits, OthersKept
  <1>3. CASE AtCore
    BY <1>3, CoreKeeps DEF LocalsKept
  <1>4. ASSUME NEW t \in Tasks,
               \/ GoOn(t, "challenge", "login")
               \/ t \in Connects /\ GoOn(t, "login", "status")
               \/ t = "refresh" /\ GoOn(t, "login", "renewed")
        PROVE  Generations'
    BY <1>1, <1>4, TaskMoves DEF GoOn, Answered
  <1>5. ASSUME NEW c \in Connects, Connected(c) \/ ConnectFails(c)
        PROVE  Generations'
    <2>1. local[c].gen <= MaxAsks
      OBVIOUS
    <2>2. app'.gen = app.gen /\ (app'.device => app'.gen <= MaxAsks)
      BY <1>5, <2>1, AppMoves DEF Keep, Current
    <2>3. app'.gen \in Nat /\ app.gen <= app'.gen
      BY <1>0, <2>2
    <2>4. Rests(c)
      BY <1>5, TaskMoves
    <2> QED
      BY <2>2, <2>3, <2>4, GenerationsReturn
  <1>6. CASE Renewed \/ RenewalFails
    <2>1. app'.gen = app.gen /\ app'.device = app.device
      BY <1>6, AppMoves DEF Keep
    <2>2. app'.gen \in Nat /\ app.gen <= app'.gen /\ (app'.device => app'.gen <= MaxAsks)
      BY <1>0, <2>1
    <2>3. Rests("refresh")
      BY <1>6, TaskMoves
    <2> QED
      BY <2>2, <2>3, GenerationsReturn
  <1>7. CASE RevokeAnswered
    <2>1. app'.gen \in Nat /\ app.gen <= app'.gen /\ (app'.device => app'.gen <= MaxAsks)
      <3>1. CASE Leave(TRUE)
        <4>1. ~app'.device /\ app'.gen = app.gen + 1
          BY <3>1, AppMoves, Zenon
        <4> QED
          BY <1>0, <4>1
      <3>2. CASE app' = app
        BY <1>0, <3>2
      <3> QED
        BY <1>7, <3>1, <3>2, Zenon DEF RevokeAnswered
    <2>2. Rests("revoke")
      BY <1>7, TaskMoves
    <2> QED
      BY <2>1, <2>2, GenerationsReturn
  <1>8. CASE Refreshed
    <2>1. app'.gen = app.gen /\ app'.device = app.device
      BY <1>8, AppMoves DEF Keep
    <2>2. CASE Rests("refresh")
      <3>1. app'.gen \in Nat /\ app.gen <= app'.gen /\ (app'.device => app'.gen <= MaxAsks)
        BY <1>0, <2>1
      <3> QED
        BY <2>2, <3>1, GenerationsReturn
    <2>3. CASE Awaits("refresh", "challenge", [NoLocal EXCEPT !.gen = app.gen, !.device = TRUE])
      <3>1. local'["refresh"].gen = app.gen /\ OthersKept("refresh")
        BY <2>3 DEF Awaits, NoLocal
      <3> QED
        BY <1>0, <2>1, <3>1 DEF OthersKept
    <2> QED
      BY <1>8, <2>2, <2>3, TaskMoves
  <1>9. CASE Refresh
    <2>1. Awaits("refresh", "status", [NoLocal EXCEPT !.gen = app.gen, !.token = app.token])
      BY <1>9, TaskMoves
    <2>2. local'["refresh"].gen = app.gen /\ OthersKept("refresh") /\ app' = app
      BY <1>9, <2>1 DEF Refresh, Awaits, NoLocal
    <2> QED
      BY <1>0, <2>2 DEF OthersKept
  <1>10. CASE RevokeDevice
    <2>1. Awaits("revoke", "revoke", [NoLocal EXCEPT !.token = app.token])
      BY <1>10, TaskMoves
    <2> QED
      BY <1>0, <1>10, <2>1 DEF RevokeDevice, Awaits, OthersKept, NoLocal
  <1>11. ASSUME NEW c \in Connects, NEW device \in BOOLEAN, Connect(c, device)
         PROVE  Generations'
    <2>1. app'.gen = app.gen + 1 /\ app'.gen <= MaxAsks
      BY <1>0, <1>11 DEF TypeOK, Connect
    <2>2. pc'[c] # "idle" /\ local'[c].gen = app.gen + 1 /\ OthersKept(c)
      BY <1>11, ConnectMoves
    <2>3. \A u \in Tasks : local'[u].gen <= app'.gen
      BY <1>0, <2>1, <2>2 DEF OthersKept
    <2>4. \A d \in Connects : local'[d].gen <= MaxAsks
      BY <2>1, <2>2 DEF OthersKept
    <2>5. \A d \in Connects : d # c => pc'[d] = pc[d] /\ local'[d].gen = local[d].gen
                                       /\ local[d].gen # app.gen + 1
      BY <1>0, <2>2 DEF OthersKept
    <2>6. \A d, e \in Connects : d # e /\ pc'[d] # "idle" /\ pc'[e] # "idle"
                                     => local'[d].gen # local'[e].gen
      BY <2>2, <2>5
    <2> QED
      BY <2>1, <2>3, <2>4, <2>6
  <1>12. CASE Disconnect
    <2>1. app'.gen = app.gen + 1 /\ ~app'.device /\ local' = local /\ pc' = pc
      BY <1>12 DEF TypeOK, Disconnect, Leave, Ended
    <2> QED
      BY <1>0, <2>1
  <1>13. CASE UNCHANGED vars
    BY <1>13 DEF vars
  <1> QED
    BY <1>3, <1>4, <1>5, <1>6, <1>7, <1>8, <1>9, <1>10, <1>11, <1>12, <1>13
    DEF Next, GoesOn, AtCore

\* The steps of the controller, and the gen that a Leave begins, which nothing under way has.
LEMMA NewGeneration ==
  ASSUME TypeOK, Generations, TypeOK', app'.gen = app.gen + 1
  PROVE  \A t \in Tasks : local[t].gen # app'.gen
  BY DEF TypeOK, Generations

\* After disconnect nothing late brings the controller back.
LEMMA OffStep ==
  ASSUME TypeOK, TypeOK', Places, Generations, OffIsOld, StaysOff, [Next]_vars
  PROVE  OffIsOld' /\ StaysOff'
  <1> USE TasksAre DEF Idle
  <1>1. ASSUME app' = app, off' = off,
               \A t \in Tasks \ {"revoke"} :
                   pc'[t] # "idle" => pc[t] # "idle" /\ local'[t].gen = local[t].gen
        PROVE  OffIsOld' /\ StaysOff'
    BY <1>1 DEF OffIsOld, StaysOff, Current
  <1>2. ASSUME NEW t \in Tasks, NEW at, Awaits(t, at, local[t]), ~Idle(t), app' = app, off' = off
        PROVE  OffIsOld' /\ StaysOff'
    BY <1>1, <1>2 DEF Awaits, OthersKept
  <1>3. ASSUME NEW t \in Tasks, t # "revoke", Rests(t), ~Idle(t), ~Current(t) => app' = app, off' = off
        PROVE  OffIsOld' /\ StaysOff'
    <2>1. CASE off
      <3>1. app' = app
        BY <1>3, <2>1 DEF OffIsOld
      <3> QED
        BY <1>1, <1>3, <3>1 DEF Rests, Awaits, OthersKept
    <2>2. CASE ~off
      BY <1>3, <2>2 DEF OffIsOld, StaysOff
    <2> QED
      BY <2>1, <2>2
  <1>4. ASSUME NEW lost \in BOOLEAN, Leave(lost),
               \A t \in Tasks \ {"revoke"} :
                   pc'[t] # "idle" => local'[t].gen = local[t].gen
        PROVE  OffIsOld' /\ StaysOff'
    <2>1. Drops /\ app'.gen = app.gen + 1
      BY <1>4, AppMoves, Zenon
    <2> QED
      BY <1>4, <2>1, NewGeneration DEF OffIsOld, StaysOff, Current, Drops
  <1>5. CASE AtCore
    BY <1>1, <1>5, CoreKeeps DEF LocalsKept
  <1>6. ASSUME NEW t \in Tasks,
               \/ GoOn(t, "challenge", "login")
               \/ t \in Connects /\ GoOn(t, "login", "status")
               \/ t = "refresh" /\ GoOn(t, "login", "renewed")
        PROVE  OffIsOld' /\ StaysOff'
    <2>1. \E at : Awaits(t, at, local[t])
      BY <1>6, TaskMoves
    <2>2. ~Idle(t) /\ app' = app /\ off' = off
      BY <1>6 DEF GoOn, Answered
    <2> QED
      BY <1>2, <2>1, <2>2
  <1>7. ASSUME NEW c \in Connects, Connected(c) \/ ConnectFails(c)
        PROVE  OffIsOld' /\ StaysOff'
    <2>1. Rests(c) /\ (~Current(c) => app' = app)
      BY <1>7, TaskMoves, AppMoves
    <2>2. ~Idle(c) /\ off' = off
      BY <1>7 DEF Connected, ConnectFails, Answered
    <2> QED
      BY <1>3, <2>1, <2>2
  <1>8. CASE Renewed \/ RenewalFails
    <2>1. Rests("refresh") /\ (~Current("refresh") => app' = app)
      BY <1>8, TaskMoves, AppMoves
    <2>2. ~Idle("refresh") /\ off' = off
      BY <1>8 DEF Renewed, RenewalFails, Answered
    <2> QED
      BY <1>3, <2>1, <2>2
  <1>9. CASE Refreshed
    <2>1. ~Idle("refresh") /\ off' = off
      BY <1>9 DEF Refreshed, Answered
    <2>2. CASE off
      <3>1. ~Current("refresh")
        BY <2>1, <2>2 DEF OffIsOld
      <3>2. Rests("refresh") /\ app' = app
        BY <1>9, <3>1, TaskMoves, AppMoves
      <3> QED
        BY <1>3, <2>1, <3>2
    <2>3. CASE ~off
      BY <2>1, <2>3 DEF OffIsOld, StaysOff
    <2> QED
      BY <2>2, <2>3
  <1>10. CASE RevokeAnswered
    <2>1. \A t \in Tasks \ {"revoke"} : pc'[t] = pc[t] /\ local'[t] = local[t]
      BY <1>10, TaskMoves DEF Rests, Awaits, OthersKept
    <2>2. CASE Leave(TRUE)
      BY <1>4, <2>1, <2>2, Zenon
    <2>3. CASE app' = app /\ off' = off
      BY <1>1, <2>1, <2>3
    <2> QED
      BY <1>10, <2>2, <2>3, Zenon DEF RevokeAnswered
  <1>11. CASE Refresh \/ RevokeDevice
    <2>1. ~off /\ off' = off
      BY <1>11 DEF Refresh, RevokeDevice, StaysOff
    <2> QED
      BY <2>1 DEF OffIsOld, StaysOff
  <1>12. ASSUME NEW c \in Connects, NEW device \in BOOLEAN, Connect(c, device)
         PROVE  OffIsOld' /\ StaysOff'
    BY <1>12 DEF Connect, OffIsOld, StaysOff
  <1>13. CASE Disconnect
    <2>1. local' = local
      BY <1>13 DEF Disconnect
    <2>2. Leave(FALSE)
      BY <1>13, Zenon DEF Disconnect
    <2> QED
      BY <1>4, <2>1, <2>2, Zenon
  <1>14. CASE UNCHANGED vars
    BY <1>1, <1>14 DEF vars
  <1> QED
    BY <1>5, <1>6, <1>7, <1>8, <1>9, <1>10, <1>11, <1>12, <1>13, <1>14 DEF Next, GoesOn, AtCore

\* A current connect and a current refresh find what they left, and "connecting" ends with them.
LEMMA FindsStep ==
  ASSUME TypeOK, TypeOK', Places, Generations, SignedIn, FindsIts, ConnectingEnds, [Next]_vars
  PROVE  FindsIts' /\ ConnectingEnds'
  <1> USE TasksAre DEF Idle
  <1>1. CASE AtCore
    BY <1>1, CoreKeeps DEF LocalsKept, FindsIts, ConnectingEnds, Current
  <1>2. ASSUME NEW t \in Tasks,
               \/ GoOn(t, "challenge", "login")
               \/ t \in Connects /\ GoOn(t, "login", "status")
               \/ t = "refresh" /\ GoOn(t, "login", "renewed")
        PROVE  FindsIts' /\ ConnectingEnds'
    <2>1. \E at \in {"login", "status", "renewed"} :
            Awaits(t, at, local[t]) /\ (t = "refresh" => at # "status")
      BY <1>2, TaskMoves
    <2>2. ~Idle(t) /\ app' = app
      BY <1>2 DEF GoOn, Answered
    <2> QED
      BY <2>1, <2>2 DEF Awaits, OthersKept, FindsIts, ConnectingEnds, Current
  <1>3. ASSUME NEW c \in Connects, Connected(c) \/ ConnectFails(c)
        PROVE  FindsIts' /\ ConnectingEnds'
    <2>1. pc'[c] = "idle" /\ OthersKept(c) /\ ~Idle(c)
      BY <1>3, TaskMoves DEF Rests, Awaits, Connected, ConnectFails, Answered
    <2>2. CASE ~Current(c)
      <3>1. app' = app
        BY <1>3, <2>2, AppMoves
      <3> QED
        BY <2>1, <2>2, <3>1 DEF OthersKept, FindsIts, ConnectingEnds, Current
    <2>3. CASE Current(c)
      <3>1. app'.gen = app.gen /\ app'.phase # "connecting"
        BY <1>3, <2>3, AppMoves DEF Keep
      <3>2. \A d \in Connects : pc'[d] # "idle" => ~Current(d)'
        BY <2>1, <2>3, <3>1 DEF OthersKept, Generations, Current
      <3>3. pc'["refresh"] # "idle" => ~Current("refresh")'
        BY <2>1, <2>3, <3>1 DEF OthersKept, FindsIts, Current
      <3> QED
        <4>1. FindsIts'
          BY <3>2, <3>3 DEF FindsIts
        <4>2. ConnectingEnds'
          BY <3>1 DEF ConnectingEnds
        <4> QED
          BY <4>1, <4>2
    <2> QED
      BY <2>2, <2>3
  <1>4. CASE Refreshed \/ Renewed \/ RenewalFails
    <2>1. OthersKept("refresh") /\ ~Idle("refresh")
      BY <1>4, TaskMoves DEF Rests, Awaits, Refreshed, Renewed, RenewalFails, Answered
    <2>2. pc'["refresh"] \in {"idle", "challenge"}
      BY <1>4, TaskMoves DEF Rests, Awaits
    <2>3. CASE ~Current("refresh")
      <3>1. app' = app /\ pc'["refresh"] = "idle"
        BY <1>4, <2>3, TaskMoves, AppMoves DEF Rests, Awaits
      <3> QED
        BY <2>1, <3>1 DEF OthersKept, FindsIts, ConnectingEnds, Current
    <2>4. CASE Current("refresh")
      <3>1. app'.gen = app.gen /\ app'.phase # "connecting"
        BY <1>4, <2>4, AppMoves DEF Keep, Drops
      <3>2. \A c \in Connects : pc[c] # "idle" => ~Current(c)
        BY <2>1, <2>4 DEF FindsIts
      <3>3. \A c \in Connects : pc'[c] # "idle" => ~Current(c)'
        BY <2>1, <3>1, <3>2 DEF OthersKept, Current
      <3>4. pc'["refresh"] # "idle" => app'.token # None
        <4>1. CASE Refreshed /\ pc'["refresh"] # "idle"
          <5>1. answer["refresh"] = "rejected" /\ app.device
            BY <4>1, TaskMoves DEF Rests, Awaits
          <5>2. app'.token = app.token
            BY <2>4, <4>1, <5>1, AppMoves DEF Keep
          <5> QED
            BY <2>1, <2>4, <5>2 DEF FindsIts
        <4>2. CASE Renewed \/ RenewalFails
          BY <4>2, TaskMoves DEF Rests, Awaits
        <4> QED
          BY <1>4, <4>1, <4>2
      <3> QED
        BY <2>2, <3>1, <3>3, <3>4 DEF FindsIts, ConnectingEnds
    <2> QED
      BY <2>3, <2>4
  <1>5. ASSUME app'.gen = app.gen + 1, app'.phase # "connecting",
               \A t \in Tasks : pc'[t] # "idle" => local'[t].gen = local[t].gen
        PROVE  FindsIts' /\ ConnectingEnds'
    BY <1>5, NewGeneration DEF FindsIts, ConnectingEnds, Current
  <1>6. CASE RevokeAnswered
    <2>1. pc'["revoke"] = "idle" /\ OthersKept("revoke")
      BY <1>6, TaskMoves DEF Rests, Awaits
    <2>2. CASE Leave(TRUE)
      <3>1. Drops /\ app'.gen = app.gen + 1
        BY <2>2, AppMoves, Zenon
      <3> QED
        BY <1>5, <2>1, <3>1 DEF Drops, OthersKept
    <2>3. CASE app' = app
      BY <2>1, <2>3 DEF OthersKept, FindsIts, ConnectingEnds, Current
    <2> QED
      BY <1>6, <2>2, <2>3, Zenon DEF RevokeAnswered
  <1>7. CASE Refresh
    <2>1. /\ pc'["refresh"] = "status" /\ local'["refresh"].token = app.token /\ OthersKept("refresh")
      BY <1>7, TaskMoves DEF Awaits, NoLocal
    <2>2. app' = app /\ app.token # None
      BY <1>7 DEF Refresh
    <2> QED
      BY <2>1, <2>2 DEF OthersKept, FindsIts, ConnectingEnds, Current
  <1>8. CASE RevokeDevice
    <2>1. OthersKept("revoke") /\ app' = app
      BY <1>8, TaskMoves DEF Awaits, RevokeDevice
    <2> QED
      BY <2>1 DEF OthersKept, FindsIts, ConnectingEnds, Current
  <1>9. ASSUME NEW c \in Connects, NEW device \in BOOLEAN, Connect(c, device)
        PROVE  FindsIts' /\ ConnectingEnds'
    <2>1. app'.gen = app.gen + 1 /\ app'.token = None
      BY <1>9, AppMoves
    <2>2. pc'[c] # "idle" /\ local'[c].gen = app.gen + 1 /\ OthersKept(c)
      BY <1>9, ConnectMoves
    <2>3. ~Current("refresh")'
      BY <2>1, <2>2, NewGeneration DEF OthersKept, Current
    <2>4. Current(c)'
      BY <2>1, <2>2 DEF Current
    <2> QED
      BY <2>1, <2>2, <2>3, <2>4 DEF FindsIts, ConnectingEnds
  <1>10. CASE Disconnect
    <2>1. local' = local
      BY <1>10 DEF Disconnect
    <2>2. Leave(FALSE)
      BY <1>10, Zenon DEF Disconnect
    <2>3. Drops /\ app'.gen = app.gen + 1
      BY <2>2, AppMoves, Zenon
    <2> QED
      BY <1>5, <2>1, <2>3 DEF Drops
  <1>11. CASE UNCHANGED vars
    BY <1>11 DEF vars, FindsIts, ConnectingEnds, Current
  <1> QED
    BY <1>1, <1>2, <1>3, <1>4, <1>6, <1>7, <1>8, <1>9, <1>10, <1>11 DEF Next, GoesOn, AtCore

-----------------------------------------------------------------------------
(***************************************************************************)
(* Sessions, at steps of the core and the network.                         *)
(***************************************************************************)
\* A login opens one session, of a name nobody holds, and tells the task that asked for it.
LEMMA LoginOpens ==
  ASSUME TypeOK, NEW t \in Tasks, Login(t)
  PROVE  \E new \in Free :
           /\ open' = open \cup {new} /\ strayed' = strayed \ {new} /\ leaving' = leaving
           /\ local'[t].token = new /\ answer'[t] = "ok" /\ pc[t] = "login"
           /\ \A u \in Tasks : u # t => local'[u].token = local[u].token /\ answer'[u] = answer[u]
           /\ revoked' = revoked /\ count' = count /\ local'[t].challenged = local[t].challenged
           /\ \A u \in Tasks : local'[u].challenged = local[u].challenged
  <1>0. Typed
    BY TypeParts
  <1>1. PICK new \in Free : open' = open \cup {new} /\ strayed' = strayed \ {new}
                            /\ local' = [local EXCEPT ![t].token = new]
    BY DEF Login
  <1>2. /\ local'[t].token = new
        /\ \A u \in Tasks : u # t => local'[u].token = local[u].token
        /\ \A u \in Tasks : local'[u].challenged = local[u].challenged
    BY <1>0, <1>1 DEF Typed, TasksType, Locals
  <1>3. answer'[t] = "ok" /\ \A u \in Tasks : u # t => answer'[u] = answer[u]
    BY AnswerEffect DEF Login, Answers
  <1>4. pc[t] = "login" /\ leaving' = leaving /\ revoked' = revoked /\ count' = count
    BY DEF Login, Waits
  <1> QED
    BY <1>1, <1>2, <1>3, <1>4

\* Any other step there ends sessions, or opens one nobody will hear of.
Closes ==
    /\ \A t \in Tasks : local'[t].token = local[t].token
    /\ \A t \in Tasks : pc[t] = "login" /\ answer'[t] = "ok" => answer[t] = "ok"
    /\ \A t \in Tasks : pc[t] = "status" /\ answer'[t] = "rejected" =>
           answer[t] = "rejected" \/ (local[t].token \notin open /\ open' = open)
    /\ \A x \in open' : x \in open \/ (x \in strayed' /\ x \notin Held)
    /\ \A x \in leaving : x \in leaving' \/ x \notin open' \/ x \in strayed'
    /\ leaving' \subseteq leaving /\ strayed \subseteq strayed'
LEMMA CoreCloses ==
  ASSUME TypeOK, Places, AtCore, \A t \in Tasks : ~Login(t)
  PROVE  Closes
  <1>0. Typed
    BY TypeParts
  <1> USE TasksAre
  <1>1. ASSUME NEW t \in Tasks, Challenge(t)
        PROVE  Closes
    <2>1. \A u \in Tasks : local'[u].token = local[u].token
      BY <1>0, <1>1 DEF Challenge, Typed, TasksType, Locals
    <2>2. \A u \in Tasks : u # t => answer'[u] = answer[u]
      BY <1>1, AnswerEffect DEF Challenge, Answers
    <2> QED
      BY <1>1, <2>1, <2>2 DEF Challenge, Waits, Closes, core
  <1>2. ASSUME NEW t \in Tasks, LoginRejected(t) \/ Fail(t) \/ LoginLost(t)
        PROVE  Closes
    <2>1. /\ answer'[t] \in {"rejected", "failed"} /\ \A u \in Tasks : u # t => answer'[u] = answer[u]
          /\ pc[t] = "status" => answer'[t] = "failed"
      BY <1>2, AnswerEffect DEF LoginRejected, Fail, LoginLost, Waits, Answers
    <2>2. \A x \in open' : x \in open \/ (x \in strayed' /\ x \notin Held)
      BY <1>2 DEF LoginRejected, Fail, LoginLost, Free, core
    <2>3. local' = local /\ leaving' = leaving /\ strayed \subseteq strayed'
      BY <1>2 DEF LoginRejected, Fail, LoginLost
    <2> QED
      BY <2>1, <2>2, <2>3 DEF Closes
  <1>3. ASSUME NEW t \in Tasks, Status(t)
        PROVE  Closes
    <2>1. /\ answer'[t] \in {"rejected", "ok"} /\ \A u \in Tasks : u # t => answer'[u] = answer[u]
          /\ answer'[t] = "rejected" => ~Known(t)
      BY <1>3, AnswerEffect DEF Status, Answers
    <2>2. pc[t] # "login" /\ local' = local /\ leaving' = leaving /\ strayed' = strayed /\ open' = open
      BY <1>3 DEF Status, Checks, core
    <2> QED
      BY <2>1, <2>2 DEF Closes, Known
  <1>4. CASE RevokeRequest \/ RevokeUntold
    <2>1. \A u \in Tasks : u # "revoke" => answer'[u] = answer[u]
      BY <1>4, AnswerEffect DEF RevokeRequest, RevokeUntold, Answers
    <2>2. local' = local /\ leaving' = leaving /\ strayed' = strayed /\ open' \subseteq open
      BY <1>4 DEF RevokeRequest, RevokeUntold, Revoked, core
    <2> QED
      BY <1>4, <2>1, <2>2 DEF RevokeRequest, RevokeUntold, Waits, Closes
  <1>5. CASE CoreRestart
    <2>1. \A u \in Tasks : local'[u].token = local[u].token
      BY <1>0, <1>5 DEF CoreRestart, Typed, TasksType, Locals
    <2> QED
      BY <1>5, <2>1 DEF CoreRestart, Closes
  <1>6. ASSUME NEW token \in Tokens, SignOut(token) \/ SignOutLost(token) \/ Expire(token)
        PROVE  Closes
    BY <1>6 DEF SignOut, SignOutLost, Expire, Closes, core
  <1>7. CASE Revoke
    BY <1>7 DEF Revoke, Revoked, Closes
  <1>8. ASSUME NEW t \in Tasks, ChallengeExpires(t)
        PROVE  Closes
    <2>1. \A u \in Tasks : local'[u].token = local[u].token
      BY <1>0, <1>8 DEF ChallengeExpires, Typed, TasksType, Locals
    <2> QED
      BY <1>8, <2>1 DEF ChallengeExpires, Closes, core
  <1> QED
    BY <1>1, <1>2, <1>3, <1>4, <1>5, <1>6, <1>7, <1>8 DEF AtCore, Serve

\* The parts of the invariant about who knows which session.
Sessions == SignedIn /\ OwnTokens /\ Tracked /\ GivesUpEnded /\ RenewsEnded

\* A session is opened for one task, and is not one that another task, the controller or a
\* sign-out under way still names.
LEMMA SessionsAtCore ==
  ASSUME TypeOK, Places, FindsIts, Sessions, AtCore
  PROVE  Sessions'
  <1> USE TasksAre DEF Idle, Sessions
  <1>0. app' = app /\ pc' = pc /\ AnswersKept /\ LocalsKept
    BY CoreKeeps
  <1>1. \A t \in Tasks : SignsIn(t)' <=> SignsIn(t)
    BY <1>0 DEF SignsIn
  <1>2. ASSUME NEW t \in Tasks, Login(t)
        PROVE  Sessions'
    <2>1. PICK new \in Free :
            /\ open' = open \cup {new} /\ strayed' = strayed \ {new} /\ leaving' = leaving
            /\ local'[t].token = new /\ answer'[t] = "ok" /\ pc[t] = "login"
            /\ \A u \in Tasks : u # t => local'[u].token = local[u].token /\ answer'[u] = answer[u]
      BY <1>2, LoginOpens
    <2>2. /\ new # None /\ new # app.token /\ new \notin leaving
          /\ \A u \in Tasks : local[u].token # new
      BY NoToken DEF Free, Held
    <2>3. SignsIn(t)
      BY <2>1 DEF SignsIn, Places
    <2>4. local[t].token = None
      BY <1>2, <2>1, <2>3 DEF SignedIn, Login, Waits
    <2>5. SignedIn'
      BY <1>0, <1>1, <2>1, <2>2 DEF SignedIn
    <2>6. OwnTokens'
      BY <1>0, <1>1, <2>1, <2>2, <2>3 DEF OwnTokens
    <2>7. Tracked'
      <3>1. ASSUME NEW x \in open'
            PROVE  \/ x \in {app'.token} \cup strayed' \cup leaving'
                   \/ \E u \in Tasks : SignsIn(u)' /\ x = local'[u].token
        <4>1. CASE x = new
          BY <1>1, <2>1, <2>3, <4>1
        <4>2. CASE x # new
          <5>1. \/ x \in {app.token} \cup strayed \cup leaving
                \/ \E u \in Tasks : SignsIn(u) /\ x = local[u].token
            BY <2>1, <4>2 DEF Tracked
          <5>2. x # None
            BY <2>1, <4>2, NoToken DEF TypeOK
          <5> QED
            BY <1>0, <1>1, <2>1, <2>4, <4>2, <5>1, <5>2
        <4> QED
          BY <4>1, <4>2
      <3> QED
        BY <3>1 DEF Tracked
    <2>8. GivesUpEnded'
      BY <1>0, <2>1, <2>2 DEF GivesUpEnded
    <2>9. RenewsEnded'
      BY <1>0, <1>1, <2>1, <2>2 DEF RenewsEnded, LocalsKept, Current
    <2> QED
      BY <2>5, <2>6, <2>7, <2>8, <2>9
  <1>3. CASE Closes
    <2>1. \A t \in Tasks : local'[t].token = local[t].token
      BY <1>3 DEF Closes
    <2>2. SignedIn'
      BY <1>0, <1>1, <1>3, <2>1 DEF SignedIn, Closes, AnswersKept
    <2>3. OwnTokens'
      BY <1>0, <1>1, <1>3, <2>1 DEF OwnTokens, Closes
    <2>4. Tracked'
      <3>1. ASSUME NEW x \in open'
            PROVE  \/ x \in {app'.token} \cup strayed' \cup leaving'
                   \/ \E u \in Tasks : SignsIn(u)' /\ x = local'[u].token
        <4>1. CASE x \in open
          <5>1. \/ x \in {app.token} \cup strayed \cup leaving
                \/ \E u \in Tasks : SignsIn(u) /\ x = local[u].token
            BY <4>1 DEF Tracked
          <5> QED
            BY <1>0, <1>1, <1>3, <2>1, <5>1 DEF Closes
        <4>2. CASE x \notin open
          BY <1>3, <4>2 DEF Closes
        <4> QED
          BY <4>1, <4>2
      <3> QED
        BY <3>1 DEF Tracked
    <2>5. GivesUpEnded'
      BY <1>0, <1>3, <2>1 DEF GivesUpEnded, Closes, Held
    <2>6. RenewsEnded'
      BY <1>0, <1>1, <1>3 DEF RenewsEnded, Closes, Held, LocalsKept, Current
    <2> QED
      BY <2>2, <2>3, <2>4, <2>5, <2>6
  <1> QED
    BY <1>2, <1>3, CoreCloses

-----------------------------------------------------------------------------
(***************************************************************************)
(* Sessions, at steps of the controller.                                   *)
(***************************************************************************)
\* What a task knows of its session, and whose that is, when the task goes on signing in.
LEMMA SessionsGoOn ==
  ASSUME TypeOK, Places, Sessions, NEW t \in Tasks, NEW from, NEW at,
         GoOn(t, from, at), Awaits(t, at, local[t]),
         \/ from = "challenge" /\ at = "login"
         \/ from = "login" /\ at = "status" /\ t \in Connects
         \/ from = "login" /\ at = "renewed" /\ t = "refresh"
  PROVE  Sessions'
  <1> USE TasksAre DEF Idle, Sessions
  <1>1. pc[t] = from /\ answer[t] = "ok" /\ UNCHANGED <<open, app, leaving, strayed>>
    BY DEF GoOn, Answered, core
  <1>2. pc'[t] = at /\ answer'[t] = "none" /\ local'[t] = local[t] /\ OthersKept(t)
    BY DEF Awaits
  <1>3. t # "revoke" /\ SignsIn(t) /\ (SignsIn(t))'
    BY <1>1, <1>2 DEF Places, SignsIn
  <1>4. \A u \in Tasks : (SignsIn(u)' <=> SignsIn(u)) /\ local'[u] = local[u]
    BY <1>2, <1>3 DEF SignsIn, OthersKept
  <1>5. SignedIn'
    BY <1>1, <1>2, <1>3, <1>4 DEF SignedIn, OthersKept
  <1>6. OwnTokens' /\ Tracked' /\ RenewsEnded'
    BY <1>1, <1>4 DEF OwnTokens, Tracked, RenewsEnded, Current
  <1>7. GivesUpEnded'
    BY <1>1, <1>2 DEF GivesUpEnded, OthersKept
  <1> QED
    BY <1>5, <1>6, <1>7

\* The session a task has opened, if any.
Own(t) == IF SignsIn(t) THEN {local[t].token} \ {None} ELSE {}

\* A task comes to rest: its session is the controller's now, or is signed out of, and the
\* controller lets go of a session only when that has ended.
LEMMA SessionsReturn ==
  ASSUME TypeOK, Places, Sessions, NEW t \in Tasks, Rests(t), t # "revoke",
         UNCHANGED <<open, strayed>>,
         \/ leaving' = leaving \cup Own(t)
            /\ (app'.token = app.token \/ (app'.token = None /\ app.token \notin open))
         \/ leaving' = leaving /\ app'.token \in Own(t) /\ app.token \notin open,
         t # "refresh" /\ ~Idle("refresh") /\ Current("refresh")' =>
             Current("refresh") /\ app'.token = app.token
  PROVE  Sessions'
  <1> USE TasksAre DEF Idle, Sessions
  <1>1. pc'[t] = "idle" /\ answer'[t] = "none" /\ local'[t].token = None /\ OthersKept(t)
    BY DEF Rests, Awaits, NoLocal
  <1>2. \A u \in Tasks : u # t => (SignsIn(u)' <=> SignsIn(u)) /\ local'[u] = local[u]
    BY <1>1 DEF SignsIn, OthersKept
  <1>3. None \notin leaving /\ None \notin open
    BY NoToken DEF TypeOK
  <1>4. SignedIn'
    BY <1>1, <1>2 DEF SignedIn, OthersKept
  <1>5. OwnTokens'
    <2>1. ASSUME NEW u \in Tasks, SignsIn(u)', local'[u].token # None
          PROVE  /\ u # t /\ SignsIn(u) /\ local[u].token \notin Own(t)
                 /\ local[u].token # app.token /\ local[u].token \notin leaving
                 /\ \A v \in Tasks : v # u /\ SignsIn(v)' => local'[v].token # local[u].token
      <3>1. u # t
        BY <1>1, <2>1
      <3>2. SignsIn(u) /\ local[u].token # None /\ local'[u].token = local[u].token
        BY <1>2, <2>1, <3>1
      <3> QED
        BY <1>1, <1>2, <3>1, <3>2 DEF OwnTokens, Own
    <2>2. app'.token \notin leaving'
      BY <1>3 DEF OwnTokens, Own
    <2> QED
      BY <1>2, <2>1, <2>2 DEF OwnTokens
  <1>6. Tracked'
    <2>1. ASSUME NEW x \in open'
          PROVE  \/ x \in {app'.token} \cup strayed' \cup leaving'
                 \/ \E u \in Tasks : SignsIn(u)' /\ x = local'[u].token
      <3>1. \/ x \in {app.token} \cup strayed \cup leaving
            \/ \E u \in Tasks : SignsIn(u) /\ x = local[u].token
        BY <2>1 DEF Tracked
      <3>2. x # None /\ x \in open
        BY <1>3, <2>1
      <3>3. CASE x = app.token \/ x \in strayed \/ x \in leaving
        BY <3>2, <3>3 DEF Own
      <3>4. ASSUME NEW u \in Tasks, SignsIn(u), x = local[u].token
            PROVE  \/ x \in {app'.token} \cup strayed' \cup leaving'
                   \/ \E v \in Tasks : SignsIn(v)' /\ x = local'[v].token
        <4>1. CASE u = t
          <5>1. x \in Own(t) /\ Own(t) = {x}
            BY <3>2, <3>4, <4>1 DEF Own
          <5> QED
            BY <5>1
        <4>2. CASE u # t
          BY <1>2, <3>4, <4>2
        <4> QED
          BY <4>1, <4>2
      <3> QED
        BY <3>1, <3>3, <3>4
    <2> QED
      BY <2>1 DEF Tracked
  <1>7. GivesUpEnded'
    BY <1>1 DEF GivesUpEnded, OthersKept
  <1>8. RenewsEnded'
    <2>1. CASE t = "refresh"
      BY <1>1, <2>1 DEF RenewsEnded, SignsIn
    <2>2. CASE t # "refresh"
      <3>1. SignsIn("refresh")' => ~Idle("refresh") /\ SignsIn("refresh")
        BY <1>2, <2>2 DEF SignsIn
      <3>2. local'["refresh"] = local["refresh"]
        BY <1>2, <2>2
      <3> QED
        BY <2>2, <3>1, <3>2 DEF RenewsEnded
    <2> QED
      BY <2>1, <2>2
  <1> QED
    BY <1>4, <1>5, <1>6, <1>7, <1>8

\* The controller lets go of its session, and nothing under way is current any more.
LEMMA SessionsLeave ==
  ASSUME TypeOK, TypeOK', Places, Generations, Sessions, UNCHANGED open,
         app'.token = None, app'.gen = app.gen + 1,
         \/ leaving' = leaving \cup Tok(app.token) /\ strayed' = strayed
         \/ leaving' = leaving /\ strayed' = strayed \cup Tok(app.token),
         \A t \in Tasks : \/ pc'[t] = pc[t] /\ answer'[t] = answer[t] /\ local'[t] = local[t]
                          \/ t = "revoke" /\ pc'[t] \in {"idle", "revoke"}
                          \/ /\ t \in Connects /\ local[t].token = None /\ local'[t].token = None
                             /\ pc'[t] \in {"challenge", "login"} /\ answer'[t] = "none"
  PROVE  Sessions'
  <1> USE TasksAre DEF Idle, Sessions
  <1>1. None \notin leaving /\ None \notin open
    BY NoToken DEF TypeOK
  <1>2. \A t \in Tasks : /\ SignsIn(t)' <=> SignsIn(t)
                         /\ SignsIn(t) => local'[t].token = local[t].token
    BY DEF SignsIn, Places
  <1>3. SignedIn'
    <2>1. ASSUME NEW t \in Tasks, SignsIn(t)
          PROVE  (pc'[t] # "idle" /\ pc'[t] # "challenge" /\ (pc'[t] = "login" => answer'[t] = "ok"))
                   <=> local'[t].token # None
      BY <2>1 DEF SignedIn, SignsIn
    <2> QED
      BY <1>2, <2>1 DEF SignedIn
  <1>4. OwnTokens'
    BY <1>1, <1>2 DEF OwnTokens, Tok
  <1>5. Tracked'
    <2>1. ASSUME NEW x \in open'
          PROVE  \/ x \in {app'.token} \cup strayed' \cup leaving'
                 \/ \E u \in Tasks : SignsIn(u)' /\ x = local'[u].token
      <3>1. \/ x \in {app.token} \cup strayed \cup leaving
            \/ \E u \in Tasks : SignsIn(u) /\ x = local[u].token
        BY <2>1 DEF Tracked
      <3>2. x # None
        BY <1>1, <2>1
      <3> QED
        BY <1>2, <3>1, <3>2 DEF Tok
    <2> QED
      BY <2>1 DEF Tracked
  <1>6. GivesUpEnded'
    BY DEF GivesUpEnded, Places
  <1>7. RenewsEnded'
    <2>1. local'["refresh"] = local["refresh"]
      OBVIOUS
    <2>2. ~Current("refresh")'
      BY <2>1, NewGeneration DEF Current
    <2> QED
      BY <1>2, <2>1, <2>2 DEF RenewsEnded
  <1> QED
    BY <1>3, <1>4, <1>5, <1>6, <1>7

\* refresh and revokeDevice borrow the controller's session and open none; a renewal begins
\* when the core has ended the session.
LEMMA SessionsBorrow ==
  ASSUME TypeOK, Places, FindsIts, Sessions, NEW t \in {"refresh", "revoke"},
         UNCHANGED <<open, leaving, strayed>>, app'.token = app.token, app'.gen = app.gen,
         OthersKept(t), answer'[t] = "none", ~SignsIn(t),
         t = "refresh" =>
             \/ pc'[t] = "status"
             \/ /\ pc'[t] = "challenge" /\ local'[t].token = None /\ local'[t].device
                /\ pc[t] = "status" /\ answer[t] = "rejected" /\ Current(t)
  PROVE  Sessions'
  <1> USE TasksAre DEF Idle, Sessions
  <1>1. t \in Tasks
    OBVIOUS
  <1>2. \A u \in Tasks : u # t => (SignsIn(u)' <=> SignsIn(u)) /\ local'[u] = local[u]
                                  /\ pc'[u] = pc[u] /\ answer'[u] = answer[u]
    BY DEF SignsIn, OthersKept
  <1>3. SignsIn(t)' => t = "refresh" /\ pc'[t] = "challenge" /\ local'[t].token = None
    BY DEF SignsIn
  <1>4. SignedIn'
    BY <1>2, <1>3 DEF SignedIn
  <1>5. OwnTokens'
    BY <1>2, <1>3 DEF OwnTokens
  <1>6. Tracked'
    <2>1. ASSUME NEW x \in open'
          PROVE  \/ x \in {app'.token} \cup strayed' \cup leaving'
                 \/ \E u \in Tasks : SignsIn(u)' /\ x = local'[u].token
      <3>1. \/ x \in {app.token} \cup strayed \cup leaving
            \/ \E u \in Tasks : SignsIn(u) /\ x = local[u].token
        BY <2>1 DEF Tracked
      <3> QED
        BY <1>2, <3>1
    <2> QED
      BY <2>1 DEF Tracked
  <1>7. GivesUpEnded'
    BY <1>2 DEF GivesUpEnded
  <1>8. RenewsEnded'
    <2>1. CASE t = "refresh" /\ pc'[t] = "challenge"
      <3>1. app.token \notin open
        BY <2>1 DEF FindsIts, GivesUpEnded
      <3> QED
        BY <2>1, <3>1 DEF RenewsEnded
    <2>2. CASE t = "refresh" /\ pc'[t] = "status"
      BY <2>2 DEF RenewsEnded, SignsIn
    <2>3. CASE t = "revoke"
      BY <1>2, <2>3 DEF RenewsEnded, Current
    <2> QED
      BY <2>1, <2>2, <2>3
  <1> QED
    BY <1>4, <1>5, <1>6, <1>7, <1>8

\* Every session the core has is known to one task, to the controller or to a sign-out, whatever
\* the order in which the answers arrive.
LEMMA SessionsStep ==
  ASSUME TypeOK, TypeOK', Places, Generations, FindsIts, Sessions, [Next]_vars
  PROVE  Sessions'
  <1> USE TasksAre DEF Idle
  <1>1. CASE AtCore
    BY <1>1, SessionsAtCore
  <1>2. ASSUME NEW t \in Tasks, GoOn(t, "challenge", "login")
        PROVE  Sessions'
    <2>1. Awaits(t, "login", local[t])
      BY <1>2, TaskMoves
    <2> QED
      BY <1>2, <2>1, SessionsGoOn
  <1>3. ASSUME NEW c \in Connects, GoOn(c, "login", "status")
        PROVE  Sessions'
    <2>1. Awaits(c, "status", local[c])
      BY <1>3, TaskMoves
    <2> QED
      BY <1>3, <2>1, SessionsGoOn
  <1>4. CASE GoOn("refresh", "login", "renewed")
    <2>1. Awaits("refresh", "renewed", local["refresh"])
      BY <1>4, TaskMoves
    <2> QED
      BY <1>4, <2>1, SessionsGoOn
  <1>5. ASSUME NEW c \in Connects, Connected(c)
        PROVE  Sessions'
    <2>1. Rests(c) /\ OthersKept(c) /\ pc[c] = "status" /\ UNCHANGED <<open, strayed>>
      BY <1>5, TaskMoves DEF Rests, Awaits, Connected, Answered, core
    <2>2. Own(c) = {local[c].token}
      BY <2>1 DEF Own, SignsIn, Sessions, SignedIn
    <2>3. CASE Current(c)
      <3>1. app'.token \in Own(c) /\ app'.gen = app.gen /\ leaving' = leaving
        BY <1>5, <2>2, <2>3, AppMoves DEF Keep, Connected
      <3>2. app.token = None /\ None \notin open
        BY <2>1, <2>3, NoToken DEF FindsIts, TypeOK
      <3>3. ~Idle("refresh") => ~Current("refresh")'
        BY <2>1, <3>1, <3>2 DEF OthersKept, FindsIts, Current
      <3> QED
        BY <2>1, <3>1, <3>2, <3>3, SessionsReturn
    <2>4. CASE ~Current(c)
      <3>1. app' = app /\ leaving' = leaving \cup Own(c)
        BY <1>5, <2>2, <2>4, AppMoves DEF Connected
      <3>2. Current("refresh")' => Current("refresh")
        BY <2>1, <3>1 DEF OthersKept, Current
      <3> QED
        BY <2>1, <3>1, <3>2, SessionsReturn
    <2> QED
      BY <2>3, <2>4
  <1>6. ASSUME NEW c \in Connects, ConnectFails(c)
        PROVE  Sessions'
    <2>1. Rests(c) /\ OthersKept(c) /\ UNCHANGED <<open, strayed>>
      BY <1>6, TaskMoves DEF Rests, Awaits, ConnectFails, core
    <2>2. leaving' = leaving \cup Own(c)
      BY <1>6 DEF ConnectFails, Own, SignsIn, Tok
    <2>3. app'.token = app.token /\ app'.gen = app.gen
      BY <1>6, AppMoves DEF Keep
    <2>4. Current("refresh")' => Current("refresh")
      BY <2>1, <2>3 DEF OthersKept, Current
    <2> QED
      BY <2>1, <2>2, <2>3, <2>4, SessionsReturn
  <1>7. CASE Renewed
    <2>1. Rests("refresh") /\ pc["refresh"] = "renewed" /\ UNCHANGED <<open, strayed>>
      BY <1>7, TaskMoves DEF Renewed, Answered, core
    <2>2. Own("refresh") = {local["refresh"].token} /\ SignsIn("refresh")
      BY <2>1 DEF Own, SignsIn, Sessions, SignedIn
    <2>3. CASE Current("refresh")
      <3>1. app'.token \in Own("refresh") /\ leaving' = leaving /\ app.token \notin open
        BY <1>7, <2>2, <2>3, AppMoves DEF Renewed, Sessions, RenewsEnded
      <3> QED
        BY <2>1, <3>1, SessionsReturn
    <2>4. CASE ~Current("refresh")
      <3>1. app' = app /\ leaving' = leaving \cup Own("refresh")
        BY <1>7, <2>2, <2>4, AppMoves DEF Renewed
      <3> QED
        BY <2>1, <3>1, SessionsReturn
    <2> QED
      BY <2>3, <2>4
  <1>8. CASE RenewalFails
    <2>1. Rests("refresh") /\ SignsIn("refresh") /\ UNCHANGED <<open, strayed>>
      BY <1>8, TaskMoves DEF RenewalFails, SignsIn, core
    <2>2. leaving' = leaving \cup Own("refresh")
      BY <1>8, <2>1 DEF RenewalFails, Own, Tok
    <2>3. app' = app \/ (app'.token = None /\ app.token \notin open)
      BY <1>8, <2>1, AppMoves DEF Drops, Sessions, RenewsEnded
    <2> QED
      BY <2>1, <2>2, <2>3, SessionsReturn
  <1>9. CASE Refreshed
    <2>1. pc["refresh"] = "status" /\ ~SignsIn("refresh") /\ UNCHANGED <<open, leaving, strayed>>
      BY <1>9 DEF Refreshed, Answered, SignsIn, core
    <2>2. Own("refresh") = {}
      BY <2>1 DEF Own
    <2>3. CASE Current("refresh") /\ answer["refresh"] = "rejected" /\ app.device
      <3>1. Awaits("refresh", "challenge", [NoLocal EXCEPT !.gen = app.gen, !.device = TRUE])
        BY <1>9, <2>3, TaskMoves
      <3>2. /\ pc'["refresh"] = "challenge" /\ local'["refresh"].token = None
            /\ local'["refresh"].device /\ answer'["refresh"] = "none" /\ OthersKept("refresh")
        BY <3>1 DEF Awaits, NoLocal
      <3>3. app'.token = app.token /\ app'.gen = app.gen
        BY <1>9, <2>3, AppMoves DEF Keep
      <3> QED
        BY <2>1, <2>3, <3>2, <3>3, SessionsBorrow
    <2>4. CASE ~(Current("refresh") /\ answer["refresh"] = "rejected" /\ app.device)
      <3>1. Rests("refresh")
        BY <1>9, <2>4, TaskMoves
      <3>2. app'.token = app.token \/ (app'.token = None /\ app.token \notin open)
        <4>1. CASE Current("refresh") /\ answer["refresh"] = "rejected" /\ ~app.device
          <5>1. app.token \notin open
            BY <2>1, <4>1 DEF FindsIts, Sessions, GivesUpEnded
          <5> QED
            BY <1>9, <4>1, <5>1, AppMoves DEF Drops
        <4>2. CASE ~Current("refresh") \/ answer["refresh"] # "rejected"
          BY <1>9, <4>2, AppMoves DEF Keep
        <4> QED
          BY <2>4, <4>1, <4>2
      <3> QED
        BY <2>1, <2>2, <3>1, <3>2, SessionsReturn
    <2> QED
      BY <2>3, <2>4
  <1>10. CASE Refresh
    <2>1. /\ pc'["refresh"] = "status" /\ answer'["refresh"] = "none" /\ OthersKept("refresh")
      BY <1>10, TaskMoves DEF Awaits
    <2>2. ~SignsIn("refresh") /\ UNCHANGED <<open, app, leaving, strayed>>
      BY <1>10 DEF Refresh, SignsIn, core
    <2> QED
      BY <2>1, <2>2, SessionsBorrow
  <1>11. CASE RevokeDevice
    <2>1. answer'["revoke"] = "none" /\ OthersKept("revoke")
      BY <1>11, TaskMoves DEF Awaits
    <2>2. ~SignsIn("revoke") /\ UNCHANGED <<open, app, leaving, strayed>>
      BY <1>11 DEF RevokeDevice, SignsIn, core
    <2> QED
      BY <2>1, <2>2, SessionsBorrow
  <1>12. CASE RevokeAnswered
    <2>1. /\ pc'["revoke"] = "idle" /\ answer'["revoke"] = "none" /\ OthersKept("revoke")
          /\ ~SignsIn("revoke") /\ UNCHANGED <<open, strayed>>
      BY <1>12, TaskMoves DEF Rests, Awaits, RevokeAnswered, SignsIn, core
    <2>2. CASE Leave(TRUE)
      <3>1. app'.token = None /\ app'.gen = app.gen + 1
        BY <2>2, AppMoves, Zenon DEF Drops
      <3>2. leaving' = leaving \cup Tok(app.token)
        BY <2>2 DEF Leave
      <3> QED
        BY <2>1, <3>1, <3>2, SessionsLeave DEF OthersKept
    <2>3. CASE app' = app /\ leaving' = leaving
      BY <2>1, <2>3, SessionsBorrow
    <2> QED
      BY <1>12, <2>2, <2>3, Zenon DEF RevokeAnswered
  <1>13. ASSUME NEW c \in Connects, NEW device \in BOOLEAN, Connect(c, device)
         PROVE  Sessions'
    <2>1. /\ pc'[c] \in {"challenge", "login"} /\ answer'[c] = "none" /\ local'[c].token = None
          /\ OthersKept(c)
      BY <1>13, ConnectMoves
    <2>2. app'.token = None /\ app'.gen = app.gen + 1
      BY <1>13, AppMoves
    <2>3. UNCHANGED <<open, leaving>> /\ strayed' = strayed \cup Tok(app.token) /\ local[c].token = None
      BY <1>13 DEF Connect, core, Places
    <2> QED
      BY <2>1, <2>2, <2>3, SessionsLeave DEF OthersKept
  <1>14. CASE Disconnect
    <2>1. Leave(FALSE)
      BY <1>14, Zenon DEF Disconnect
    <2>2. app'.token = None /\ app'.gen = app.gen + 1
      BY <2>1, AppMoves, Zenon DEF Drops
    <2>3. leaving' = leaving \cup Tok(app.token) /\ UNCHANGED <<open, pc, answer, local, strayed>>
      BY <1>14, <2>1 DEF Disconnect, Leave, core
    <2> QED
      BY <2>2, <2>3, SessionsLeave
  <1>15. CASE UNCHANGED vars
    BY <1>15 DEF vars, core, Sessions, SignedIn, OwnTokens, Tracked, GivesUpEnded, RenewsEnded,
                 SignsIn, Current
  <1> QED
    BY <1>1, <1>2, <1>3, <1>4, <1>5, <1>6, <1>7, <1>8, <1>9, <1>10, <1>11, <1>12, <1>13, <1>14, <1>15
    DEF Next, GoesOn, AtCore

-----------------------------------------------------------------------------
(***************************************************************************)
(* Why a device is rejected.                                               *)
(***************************************************************************)
\* A revocation, a restart and an expiry are not undone.
LEMMA StaysExcused ==
  ASSUME TypeOK, TypeOK', AtCore, Excused
  PROVE  Excused'
  <1>1. revoked => revoked'
    BY DEF AtCore, Serve, Challenge, Login, LoginRejected, Status, RevokeRequest, ChallengeExpires,
           Fail, LoginLost, SignOut, SignOutLost, Expire, CoreRestart, Revoke, RevokeUntold,
           Revoked, core
  <1>2. \/ count' = count
        \/ count'.restarts = count.restarts /\ count'.expiries = count.expiries
        \/ count'.restarts + count'.expiries > 0
    <2>1. CASE Fault
      BY <2>1, CountType
    <2>2. CASE \/ CoreRestart \/ \E token \in Tokens : Expire(token)
               \/ \E t \in Tasks : ChallengeExpires(t)
      BY <2>2, CountType
    <2>3. \/ count' = count \/ Fault \/ CoreRestart \/ \E token \in Tokens : Expire(token)
          \/ \E t \in Tasks : ChallengeExpires(t)
      BY DEF AtCore, Serve, Challenge, Login, LoginRejected, Status, RevokeRequest, Fail, LoginLost,
             SignOut, SignOutLost, Revoke, RevokeUntold
    <2> QED
      BY <2>1, <2>2, <2>3
  <1> QED
    BY <1>1, <1>2 DEF Excused

\* What the core does with a device's challenges and sessions when it has no cause to reject it.
Trusts ==
    \A t \in Tasks : local[t].device =>
        /\ local[t].challenged => local'[t].challenged \/ Excused'
        /\ pc[t] = "challenge" /\ answer'[t] = "ok" => answer[t] = "ok" \/ local'[t].challenged
        /\ SignsIn(t) /\ local[t].token # None /\ local[t].token \in open =>
               local[t].token \in open' \/ Excused'
        /\ answer'[t] = "rejected" => answer[t] = "rejected" \/ Excused'
Tells ==
    answer'["revoke"] = "ok" => answer["revoke"] = "ok" \/ revoked'

LEMMA CoreTrusts ==
  ASSUME TypeOK, TypeOK', Places, SignedIn, OwnTokens, RejectedForCause, AtCore
  PROVE  Trusts /\ Tells
  <1> USE TasksAre
  <1>0. Typed
    BY TypeParts
  <1>1. ASSUME NEW t \in Tasks, Challenge(t)
        PROVE  Trusts /\ Tells
    <2>1. /\ open' = open /\ revoked' = revoked /\ pc[t] = "challenge"
          /\ \A u \in Tasks : u # t => answer'[u] = answer[u]
      BY <1>1, AnswerEffect DEF Challenge, Waits, Answers, core
    <2>2. t # "revoke"
      BY <2>1 DEF Places
    <2>3. CASE ~revoked
      <3>1. answer'[t] = "ok" /\ local' = [local EXCEPT ![t].challenged = TRUE]
        BY <1>1, <2>3, AnswerEffect DEF Challenge, Answers
      <3>2. /\ local'[t].challenged
            /\ \A u \in Tasks : u # t => local'[u].challenged = local[u].challenged
        BY <1>0, <3>1 DEF Typed, TasksType, Locals
      <3> QED
        BY <2>1, <2>2, <3>1, <3>2 DEF Trusts, Tells
    <2>4. CASE revoked
      <3>1. answer'[t] = "rejected" /\ local' = local
        BY <1>1, <2>4, AnswerEffect DEF Challenge, Answers
      <3>2. Excused'
        BY <2>1, <2>4 DEF Excused
      <3> QED
        BY <2>1, <2>2, <3>1, <3>2 DEF Trusts, Tells
    <2> QED
      BY <2>3, <2>4
  <1>2. ASSUME NEW t \in Tasks, Login(t)
        PROVE  Trusts /\ Tells
    <2>1. /\ pc[t] = "login" /\ answer'[t] = "ok" /\ \A u \in Tasks : u # t => answer'[u] = answer[u]
          /\ \A u \in Tasks : local'[u].challenged = local[u].challenged
          /\ open \subseteq open'
      BY <1>2, LoginOpens
    <2>2. t # "revoke"
      BY <2>1 DEF Places
    <2> QED
      BY <2>1, <2>2 DEF Trusts, Tells
  <1>3. ASSUME NEW t \in Tasks, LoginRejected(t)
        PROVE  Trusts /\ Tells
    <2>1. /\ pc[t] = "login" /\ answer'[t] = "rejected" /\ local' = local /\ open' = open
          /\ revoked' = revoked /\ count' = count /\ \A u \in Tasks : u # t => answer'[u] = answer[u]
      BY <1>3, AnswerEffect DEF LoginRejected, Waits, Answers, core
    <2>2. local[t].device => Excused'
      BY <1>3, <2>1 DEF LoginRejected, Accepts, RejectedForCause, Excused
    <2> QED
      BY <2>1, <2>2 DEF Trusts, Tells
  <1>4. ASSUME NEW t \in Tasks, Status(t)
        PROVE  Trusts /\ Tells
    <2>1. /\ pc[t] \in {"status", "renewed"} /\ local' = local /\ open' = open
          /\ revoked' = revoked /\ count' = count /\ \A u \in Tasks : u # t => answer'[u] = answer[u]
          /\ answer'[t] = "rejected" => local[t].token \notin open
      BY <1>4, AnswerEffect DEF Status, Checks, Known, Answers, core
    <2>2. t # "revoke"
      BY <2>1 DEF Places
    <2>3. local[t].device => SignsIn(t) /\ local[t].token # None
      BY <2>1, <2>2 DEF SignedIn, SignsIn, RejectedForCause, Places, Idle
    <2>4. local[t].device /\ answer'[t] = "rejected" => Excused'
      BY <2>1, <2>3 DEF RejectedForCause, Excused
    <2> QED
      BY <2>1, <2>2, <2>4 DEF Trusts, Tells
  <1>5. CASE RevokeRequest \/ RevokeUntold
    <2>1. /\ \A u \in Tasks : u # "revoke" => answer'[u] = answer[u]
          /\ answer'["revoke"] \in {"ok", "rejected", "failed"} /\ pc["revoke"] = "revoke"
      BY <1>5, AnswerEffect DEF RevokeRequest, RevokeUntold, Waits, Answers
    <2>2. local' = local /\ (revoked' \/ (open' = open /\ answer'["revoke"] # "ok"))
      BY <1>5, AnswerEffect DEF RevokeRequest, RevokeUntold, Revoked, Answers, core
    <2> QED
      BY <2>1, <2>2 DEF Trusts, Tells, Excused, RejectedForCause
  <1>6. ASSUME NEW t \in Tasks, Fail(t) \/ LoginLost(t)
        PROVE  Trusts /\ Tells
    <2>1. /\ answer'[t] = "failed" /\ \A u \in Tasks : u # t => answer'[u] = answer[u]
      BY <1>6, AnswerEffect DEF Fail, LoginLost, Answers
    <2>2. local' = local /\ open \subseteq open'
      BY <1>6 DEF Fail, LoginLost, core
    <2> QED
      BY <2>1, <2>2 DEF Trusts, Tells
  <1>7. ASSUME NEW token \in Tokens, SignOut(token) \/ SignOutLost(token)
        PROVE  Trusts /\ Tells
    <2>1. local' = local /\ answer' = answer /\ token \in leaving /\ open \ {token} \subseteq open'
      BY <1>7 DEF SignOut, SignOutLost, core
    <2> QED
      BY <2>1 DEF Trusts, Tells, OwnTokens
  <1>8. CASE \/ CoreRestart \/ \E token \in Tokens : Expire(token)
             \/ \E t \in Tasks : ChallengeExpires(t)
    <2>1. Excused'
      BY <1>8, CountType DEF Excused
    <2>2. answer' = answer
      BY <1>8 DEF CoreRestart, Expire, ChallengeExpires
    <2> QED
      BY <2>1, <2>2 DEF Trusts, Tells
  <1>9. CASE Revoke
    <2>1. revoked' /\ answer' = answer
      BY <1>9 DEF Revoke, Revoked
    <2> QED
      BY <2>1 DEF Trusts, Tells, Excused
  <1> QED
    BY <1>1, <1>2, <1>3, <1>4, <1>5, <1>6, <1>7, <1>8, <1>9 DEF AtCore, Serve

\* A device is rejected only after a revocation, or after the core ended something by itself.
LEMMA RejectedStep ==
  ASSUME TypeOK, TypeOK', Places, Sessions, RejectedForCause, LostMeansRevoked, [Next]_vars
  PROVE  RejectedForCause' /\ LostMeansRevoked'
  <1> USE TasksAre DEF Idle
  <1>1. CASE AtCore
    <2>0. app' = app /\ pc' = pc /\ AnswersKept /\ LocalsKept
      BY <1>1, CoreKeeps
    <2>1. Excused => Excused'
      BY <1>1, StaysExcused
    <2>2. revoked => revoked'
      BY <1>1
      DEF AtCore, Serve, Challenge, Login, LoginRejected, Status, RevokeRequest, ChallengeExpires,
          Fail, LoginLost, SignOut, SignOutLost, Expire, CoreRestart, Revoke, RevokeUntold,
          Revoked, core
    <2>3. Trusts /\ Tells
      BY <1>1, CoreTrusts DEF Sessions
    <2>4. LostMeansRevoked'
      BY <2>0, <2>1 DEF LostMeansRevoked, Excused
    <2>5. ASSUME NEW t \in Tasks, local'[t].device, local'[t].token # None
          PROVE  local'[t].token \in open' \/ Excused'
      <3>1. local[t].device /\ t # "revoke"
        BY <2>0, <2>5 DEF LocalsKept, RejectedForCause
      <3>2. CASE local'[t].token = local[t].token
        <4>1. SignsIn(t)
          BY <2>5, <3>1, <3>2 DEF SignsIn, Places, RejectedForCause
        <4> QED
          BY <2>1, <2>3, <2>5, <3>1, <3>2, <4>1 DEF Trusts, RejectedForCause
      <3>3. CASE local'[t].token # local[t].token
        <4>1. PICK u \in Tasks : Login(u)
          BY <1>1, <3>3, CoreCloses DEF Closes
        <4>2. PICK new \in Free :
                /\ open' = open \cup {new} /\ local'[u].token = new
                /\ \A v \in Tasks : v # u => local'[v].token = local[v].token
          BY <4>1, LoginOpens
        <4> QED
          BY <3>3, <4>2
      <3> QED
        BY <3>2, <3>3
    <2>6. ASSUME NEW t \in Tasks, local'[t].device
          PROVE  /\ answer'[t] = "rejected" => Excused'
                 /\ pc'[t] = "login" \/ (pc'[t] = "challenge" /\ answer'[t] = "ok") =>
                        local'[t].challenged \/ Excused'
      <3>1. local[t].device
        BY <2>0, <2>6 DEF LocalsKept
      <3> QED
        BY <2>0, <2>1, <2>3, <3>1 DEF Trusts, RejectedForCause
    <2>7. RejectedForCause'
      BY <2>0, <2>2, <2>3, <2>5, <2>6 DEF RejectedForCause, LocalsKept, Tells
    <2> QED
      BY <2>4, <2>7
  <1>2. ASSUME NEW t \in Tasks, NEW at, NEW l, Awaits(t, at, l), CoreKept,
               app'.lost => Excused,
               l.device => t # "revoke" /\ at # "idle" /\ (t = "refresh" => at # "status"),
               l.device /\ at = "login" => l.challenged \/ Excused,
               l.device /\ l.token # None => l.token \in open \/ Excused
        PROVE  RejectedForCause' /\ LostMeansRevoked'
    <2>1. Excused' <=> Excused
      BY <1>2 DEF Excused, CoreKept
    <2>2. LostMeansRevoked'
      BY <1>2, <2>1 DEF LostMeansRevoked, Excused
    <2>3. pc'[t] = at /\ answer'[t] = "none" /\ local'[t] = l /\ OthersKept(t)
      BY <1>2 DEF Awaits
    <2>4. ASSUME NEW u \in Tasks, local'[u].device
          PROVE  /\ answer'[u] = "rejected" => Excused'
                 /\ pc'[u] = "login" \/ (pc'[u] = "challenge" /\ answer'[u] = "ok") =>
                        local'[u].challenged \/ Excused'
                 /\ local'[u].token # None => local'[u].token \in open' \/ Excused'
      BY <1>2, <2>1, <2>3, <2>4 DEF OthersKept, RejectedForCause, CoreKept
    <2>5. /\ pc'["refresh"] = "status" => ~local'["refresh"].device
          /\ ~local'["revoke"].device /\ (answer'["revoke"] = "ok" => revoked')
      BY <1>2, <2>3 DEF OthersKept, RejectedForCause, CoreKept
    <2> QED
      BY <2>2, <2>4, <2>5 DEF RejectedForCause
  <1>3. app.lost => Excused
    BY DEF LostMeansRevoked, Excused
  <1>4. ASSUME NEW t \in Tasks, Rests(t), CoreKept, app'.lost => Excused
        PROVE  RejectedForCause' /\ LostMeansRevoked'
    BY <1>2, <1>4 DEF Rests, NoLocal
  <1>5. ASSUME NEW t \in Tasks, NEW from, NEW at, GoOn(t, from, at), Awaits(t, at, local[t]),
               \/ from = "challenge" /\ at = "login"
               \/ from = "login" /\ at = "status" /\ t \in Connects
               \/ from = "login" /\ at = "renewed" /\ t = "refresh"
        PROVE  RejectedForCause' /\ LostMeansRevoked'
    <2>1. pc[t] = from /\ answer[t] = "ok" /\ CoreKept /\ app' = app
      BY <1>5 DEF GoOn, Answered, CoreKept, core
    <2>2. local[t].device => /\ t # "revoke" /\ (at = "login" => local[t].challenged \/ Excused)
                             /\ local[t].token # None => local[t].token \in open \/ Excused
      BY <1>5, <2>1 DEF RejectedForCause
    <2> QED
      BY <1>2, <1>3, <1>5, <2>1, <2>2
  <1>6. ASSUME NEW t \in Tasks, GoOn(t, "challenge", "login")
        PROVE  RejectedForCause' /\ LostMeansRevoked'
    <2>1. Awaits(t, "login", local[t])
      BY <1>6, TaskMoves
    <2> QED
      BY <1>5, <1>6, <2>1
  <1>7. ASSUME NEW c \in Connects, GoOn(c, "login", "status")
        PROVE  RejectedForCause' /\ LostMeansRevoked'
    <2>1. Awaits(c, "status", local[c])
      BY <1>7, TaskMoves
    <2> QED
      BY <1>5, <1>7, <2>1
  <1>8. CASE GoOn("refresh", "login", "renewed")
    <2>1. Awaits("refresh", "renewed", local["refresh"])
      BY <1>8, TaskMoves
    <2> QED
      BY <1>5, <1>8, <2>1
  <1>9. ASSUME NEW c \in Connects, Connected(c) \/ ConnectFails(c)
        PROVE  RejectedForCause' /\ LostMeansRevoked'
    <2>1. Rests(c) /\ CoreKept
      BY <1>9, TaskMoves DEF Connected, ConnectFails, CoreKept, core
    <2>2. app' = app \/ app'.lost = app.lost
            \/ (app'.lost => local[c].device /\ answer[c] = "rejected")
      BY <1>9, AppMoves DEF Keep
    <2>3. app'.lost => Excused
      BY <1>3, <2>2 DEF RejectedForCause
    <2>4. c \in Tasks
      BY TasksAre
    <2> QED
      BY ONLY <1>4, <2>1, <2>3, <2>4
  <1>10. CASE Renewed \/ RenewalFails
    <2>1. Rests("refresh") /\ CoreKept
      BY <1>10, TaskMoves DEF Renewed, RenewalFails, CoreKept, core
    <2>2. RenewalFails => local["refresh"].device
      BY DEF RenewalFails, Sessions, RenewsEnded, SignsIn
    <2>3. app' = app \/ app'.lost = app.lost
            \/ (app'.lost => local["refresh"].device /\ answer["refresh"] = "rejected")
      BY <1>10, <2>2, AppMoves DEF Keep
    <2>4. app'.lost => Excused
      BY <1>3, <2>3 DEF RejectedForCause
    <2> QED
      BY <1>4, <2>1, <2>4
  <1>11. CASE Refreshed
    <2>1. CoreKept
      BY <1>11 DEF Refreshed, CoreKept, core
    <2>2. app'.lost => Excused
      BY <1>3, <1>11, AppMoves DEF Keep
    <2>3. CASE Rests("refresh")
      BY <1>4, <2>1, <2>2, <2>3
    <2>4. CASE Awaits("refresh", "challenge", [NoLocal EXCEPT !.gen = app.gen, !.device = TRUE])
      BY <1>2, <2>1, <2>2, <2>4 DEF NoLocal
    <2> QED
      BY <1>11, <2>3, <2>4, TaskMoves
  <1>12. CASE Refresh
    <2>1. Awaits("refresh", "status", [NoLocal EXCEPT !.gen = app.gen, !.token = app.token])
      BY <1>12, TaskMoves
    <2>2. CoreKept /\ app' = app
      BY <1>12 DEF Refresh, CoreKept, core
    <2> QED
      BY <1>2, <1>3, <2>1, <2>2 DEF NoLocal
  <1>13. CASE RevokeDevice
    <2>1. Awaits("revoke", "revoke", [NoLocal EXCEPT !.token = app.token])
      BY <1>13, TaskMoves
    <2>2. CoreKept /\ app' = app
      BY <1>13 DEF RevokeDevice, CoreKept, core
    <2> QED
      BY <1>2, <1>3, <2>1, <2>2 DEF NoLocal
  <1>14. CASE RevokeAnswered
    <2>1. Rests("revoke") /\ CoreKept
      BY <1>14, TaskMoves DEF RevokeAnswered, CoreKept, core
    <2>2. app' = app \/ answer["revoke"] = "ok"
      BY <1>14 DEF RevokeAnswered
    <2>3. app'.lost => Excused
      BY <1>3, <2>2 DEF RejectedForCause, Excused
    <2> QED
      BY <1>4, <2>1, <2>3
  <1>15. ASSUME NEW c \in Connects, NEW device \in BOOLEAN, Connect(c, device)
         PROVE  RejectedForCause' /\ LostMeansRevoked'
    <2>1. Awaits(c, IF device THEN "challenge" ELSE "login",
                 [NoLocal EXCEPT !.gen = app.gen + 1, !.device = device])
      BY <1>15, TaskMoves
    <2>2. CoreKept /\ ~app'.lost
      BY <1>15, AppMoves DEF Connect, CoreKept, core
    <2>3. CASE device
      BY <1>2, <2>1, <2>2, <2>3 DEF NoLocal
    <2>4. CASE ~device
      BY <1>2, <2>1, <2>2, <2>4 DEF NoLocal
    <2> QED
      BY <2>3, <2>4
  <1>16. CASE Disconnect
    <2>1. Leave(FALSE)
      BY <1>16, Zenon DEF Disconnect
    <2>2. ~app'.lost
      BY <2>1, AppMoves, Zenon
    <2>3. UNCHANGED <<open, revoked, count, pc, answer, local>>
      BY <1>16 DEF Disconnect, core
    <2> QED
      BY <2>2, <2>3 DEF RejectedForCause, LostMeansRevoked, Excused
  <1>17. CASE UNCHANGED vars
    BY <1>17 DEF vars, core, RejectedForCause, LostMeansRevoked, Excused
  <1> QED
    BY <1>1, <1>6, <1>7, <1>8, <1>9, <1>10, <1>11, <1>12, <1>13, <1>14, <1>15, <1>16, <1>17
    DEF Next, GoesOn, AtCore

-----------------------------------------------------------------------------
(***************************************************************************)
(* The theorems.                                                           *)
(***************************************************************************)
\* The controller starts disconnected, with nothing under way and no session at the core.
LEMMA Initially == Init => IInv
  <1> SUFFICES ASSUME Init PROVE IInv
    OBVIOUS
  <1> USE TasksAre, BoundsAssumption, NoToken DEF Init
  <1>1. 0 \in Gens /\ NoLocal \in Locals
    BY DEF Gens, Locals, NoLocal
  <1>2. \A t \in Tasks : /\ pc[t] = "idle" /\ answer[t] = "none"
                         /\ local[t].gen = 0 /\ local[t].token = None /\ ~local[t].device
    BY DEF NoLocal
  <1>3. pc \in [Tasks -> States] /\ answer \in [Tasks -> Answers] /\ local \in [Tasks -> Locals]
    BY <1>1 DEF States, Answers
  <1>4. AppType /\ count \in Counts
    BY <1>1 DEF AppType, Counts
  <1>5. TypeOK
    BY <1>3, <1>4 DEF TypeOK, AppType, Counts, States, Answers, Locals, Gens
  <1>6. Places /\ Generations /\ OffIsOld /\ FindsIts
    BY <1>2 DEF Places, Generations, OffIsOld, FindsIts, Idle
  <1>7. Sessions
    BY <1>2 DEF Sessions, SignedIn, OwnTokens, Tracked, GivesUpEnded, RenewsEnded, SignsIn, Idle
  <1>8. RejectedForCause /\ StaysOff /\ ConnectingEnds /\ LostMeansRevoked
    BY <1>2 DEF RejectedForCause, StaysOff, ConnectingEnds, LostMeansRevoked
  <1> QED
    BY <1>5, <1>6, <1>7, <1>8 DEF IInv, Sessions

\* Every step keeps the invariant.
LEMMA Inductive == Spec => []IInv
  <1>1. IInv /\ [Next]_vars => IInv'
    <2> SUFFICES ASSUME IInv, [Next]_vars PROVE IInv'
      OBVIOUS
    <2>1. TypeOK'
      BY TypeStep DEF IInv
    <2>2. Places' /\ Generations'
      BY PlacesStep, GenerationsStep DEF IInv
    <2>3. OffIsOld' /\ StaysOff' /\ FindsIts' /\ ConnectingEnds'
      BY <2>1, OffStep, FindsStep DEF IInv
    <2>4. Sessions'
      BY <2>1, SessionsStep DEF IInv, Sessions
    <2>5. RejectedForCause' /\ LostMeansRevoked'
      BY <2>1, RejectedStep DEF IInv, Sessions
    <2> QED
      BY <2>1, <2>2, <2>3, <2>4, <2>5 DEF IInv, Sessions
  <1> QED
    BY <1>1, Initially, PTL DEF Spec

\* What holds at every await of the controller: the types, that disconnect is final, that
\* "connecting" is some connect's, and that a device hears that its authorization is lost only
\* for cause (connect, refresh, disconnect and revokeDevice of app/lib/core_controller.dart).
THEOREM ControllerCorrect == Spec => []Inv
  <1>1. IInv => Inv
    BY DEF IInv, Inv
  <1> QED
    BY <1>1, Inductive, PTL

\* When nothing is under way the core keeps no session that the app has not, apart from those
\* whose answer or sign-out was lost or that connect forgot (core_controller.dart, the sign-outs
\* of connect, refresh and disconnect).
THEOREM NoTokenKept == Spec => []TokensReturned
  <1>1. IInv => TokensReturned
    <2> SUFFICES ASSUME IInv, \A t \in Tasks : Idle(t), leaving = {}
                 PROVE  open \subseteq {app.token} \cup strayed
      BY DEF TokensReturned
    <2>1. \A t \in Tasks : local[t].token = None
      BY DEF IInv, Places
    <2>2. None \notin open
      BY NoToken DEF IInv, TypeOK
    <2> QED
      BY <2>1, <2>2 DEF IInv, Tracked
  <1> QED
    BY <1>1, Inductive, PTL

\* Within one generation the controller lets go of a session only when the core has ended it
\* (refresh of core_controller.dart, whose answers come late or not at all).
THEOREM NoneGivenUp == Spec => OnlyEndedDropped
  <1>1. IInv /\ [Next]_vars =>
          [app.token # None /\ app'.token # app.token /\ app'.gen = app.gen =>
             app.token \notin open]_vars
    <2> SUFFICES ASSUME IInv, Next, app.token # None, app'.token # app.token, app'.gen = app.gen
                 PROVE  app.token \notin open
      OBVIOUS
    <2> USE TasksAre DEF IInv, Idle
    <2>0. app.gen # app.gen + 1
      BY DEF TypeOK
    <2>1. CASE AtCore
      BY <2>1, CoreKeeps
    <2>2. CASE \E c \in Connects : Connected(c)
      BY <2>2, AppMoves DEF FindsIts, Connected, Answered
    <2>3. CASE \E c \in Connects : ConnectFails(c)
      BY <2>3, AppMoves DEF Keep
    <2>4. CASE Refreshed
      BY <2>4, AppMoves DEF Keep, FindsIts, GivesUpEnded, Refreshed, Answered
    <2>5. CASE Renewed
      BY <2>5, AppMoves DEF RenewsEnded, SignsIn, Renewed, Answered
    <2>6. CASE RenewalFails
      BY <2>6, AppMoves DEF RenewsEnded, SignsIn, RenewalFails
    <2>7. CASE Leave(TRUE) \/ Leave(FALSE)
      BY <2>0, <2>7, AppMoves, Zenon
    <2>8. CASE \E c \in Connects, device \in BOOLEAN : Connect(c, device)
      BY <2>0, <2>8, AppMoves
    <2>9. CASE app' = app
      BY <2>9
    <2>10. RevokeAnswered \/ Disconnect => Leave(TRUE) \/ Leave(FALSE) \/ app' = app
      BY Zenon DEF RevokeAnswered, Disconnect
    <2>11. (\E t \in Tasks, from, at \in States : GoOn(t, from, at)) \/ Refresh \/ RevokeDevice
             => app' = app
      BY DEF GoOn, Refresh, RevokeDevice
    <2> QED
      BY <2>1, <2>2, <2>3, <2>4, <2>5, <2>6, <2>7, <2>8, <2>9, <2>10, <2>11
      DEF Next, GoesOn, AtCore, States
  <1> QED
    BY <1>1, Inductive, PTL DEF Spec, OnlyEndedDropped

===============================================================================
