# EasyPrivacy: specifications and proofs

TLA+ models of EasyPrivacy's core node, VPN helper, home service and app, the
TLC runs that check them on small instances, and TLAPS proofs of what matters
most. Paths are relative to the repository unless they name a module here.

## 1. The system

EasyPrivacy is a self-hosted privacy node. A small server ("core") on a VPS
authorizes its owner's devices and, through a privileged helper, gives each of
them a WireGuard peer. A device leaves the VPN either at the VPS or at a "home"
machine, which is itself a paired device that serves as exit.

| Component | Code | State it keeps | Operations |
|---|---|---|---|
| Device pairing | `core/internal/node/pairing.go` | one code with its attempts and deadline, exchanges, verified enrollments, password slots, all under `Server.mu` | create code (terminal or paired device), start, finish, enroll |
| Device records | `core/internal/node/devices.go` | map in memory, `devices.json` | add, revoke, reload at start; each save may fail |
| Sessions | `server.go`, `device_auth.go` | sessions (64), challenges (64) under `Server.mu` | login, challenge, device login, logout, authenticate, revoke |
| Rate limiter | `server.go` `allowLogin` | per-address and global fixed windows | admit or refuse |
| Node VPN API | `core/internal/node/vpn.go` | none of its own | register, serve as home, disconnect, status: authenticate, lock, check again, call the helper |
| VPN helper | `core/internal/vpn/manager.go` | peers in memory, `peers.json` | register, remove, status, exits, reconcile each second |
| Linux backend | `linux.go`, `home_routing.go` | kernel peers, policy rules, guard rules, its own cache of peers | set peer, remove peer, up, down; every command may fail half way |
| Helper client | `core/internal/vpn/client.go` | none | calls with a 6 s timeout that the helper does not see |
| Home service | `cmd/easyprivacy-node/service.go`, `site.go`, `core/internal/link` | saved site, tunnel | register every 30 s, reconfigure, stop |
| Core identity | `core/internal/node/state.go` | identity file, password hash | created once |
| Native PAKE | `native/pairing`, `core/internal/pake` | table of exchange states (256) | start, finish, free |
| App, core link | `app/lib/core_client.dart`, `core_controller.dart`, `pairing_client.dart` | saved profile, session token, phase | connect, refresh, disconnect, pair |
| App, VPN | `app/lib/vpn_controller.dart`, `vpn_backend.dart` | phase, tunnel, generation counter | connect, refresh, disconnect across awaits |
| Android tunnel | `app/android/.../*.kt` | foreground service, one backend | start, stop |
| Windows tunnel | `native/windows-vpn` | helper process, tunnel | supervise |
| Packaging, UI, installers | `core/packaging`, `app/lib/main.dart`, `app/windows` ... | | |

How they interact: the app talks to the node over pinned TLS; every handler of
the node runs in its own goroutine and meets the others at `Server.mu`, which
several handlers take more than once. The node reaches the helper over a Unix
socket, mostly while it holds `Server.mu`; the helper reads the node's
`devices.json` by itself (`cmd/easyprivacy-node/vpn.go`) and drops peers that
are no longer authorized. Only files survive a restart: `devices.json`,
`peers.json`, the identity, the saved site and the app's profile.

What is hard here:

- two-phase handlers: authenticate, unlock, lock, act (`createPairingCode`,
  `revokeDevice`, `vpnPeer`), and `pairingEnroll`, which computes a password
  hash between two critical sections;
- partial failure: a save that fails after the map changed, a kernel command
  that fails after the one before it succeeded, roll-backs that may fail too;
- restarts between any two steps, with memory lost and files kept;
- the app's controllers, whose methods interleave at every `await`.

What makes each component correct is stated with its module below; what can go
wrong, line by line, is the list of hazards in `PROJECT.json`.

## 2. Modules

`X -> Y`: X is built on Y.

| Module | Models | Run |
|---|---|---|
| `DeviceStore` | device records, saves, reload | used by `Pairing` and `Sessions` |
| `Pairing` -> `DeviceStore` | the pairing protocol on the core | `pairing` |
| `Enrollment` | what pairing promises, abstractly | implemented by `Pairing` |
| `PairingProofs` -> `Pairing` | TLAPS proofs | |
| `Sessions` -> `DeviceStore` | sign-in, authenticated handlers, revocation | `sessions` |
| `RateLimit` | the limiter that sign-in and pairing pass first | `rate_limit` |
| `ServerProofs` -> `Sessions`, `RateLimit` | TLAPS proofs | |
| `LinuxBackend` | the helper's backend and the kernel it configures | used by `VPNManager` |
| `VPNManager` -> `LinuxBackend` | the VPN helper, from start to crash | `vpn`, `vpn_live`, `vpn_interface` |
| `VPNManagerProofs` -> `VPNManager` | TLAPS proofs | |
| `CoreVPN` | core and helper together: calls that time out | `core_vpn` |
| `CoreVPNProofs` -> `CoreVPN` | TLAPS proofs | |
| `SiteTunnel` | the home machine's interface and its commands | used by `HomeService` |
| `HomeService` -> `SiteTunnel` | the home machine: unit, registration loop, administrator | `home` |
| `HomeServiceProofs` -> `HomeService` | TLAPS proofs | |
| `CoreController` | the app's link to its core | `link` |
| `CoreControllerProofs` -> `CoreController` | TLAPS proofs | |
| `AppPairing` | pairing, saving, connecting and forgetting in the app | `app_pairing` |
| `AppPairingProofs` -> `AppPairing` | TLAPS proofs | |
| `VPNController` | the app's control of its tunnel | `app` |
| `WindowsTunnel` | the supervisor service of the Windows app | `windows` |
| `AppVPNProofs` -> `VPNController`, `WindowsTunnel` | TLAPS proofs | |

Each `MC...` module is what TLC runs, with the symmetry sets where symmetry is
sound (never in a run that checks liveness); the constants are in the `.cfg`
files. A definition commented "Mutant:" is not part of a specification: it is a
plausible bug in the code the definition after it models, kept to show that a
property notices it. Where a module has an invariant `Inv`, it is the type
invariant together with the plainer invariants named in it, checked as one.

Four pairs of modules meet at an interface. `CoreVPN` is the composition of the
core's handlers and the helper, where each side does in one step what
`Sessions` and `VPNManager` detail. `HomeService` has in it the part of the core
that answers a home service. `CoreController` has the core's sessions as
`Sessions` keeps them, and `VPNController` sees of `CoreController` only whether
there is a session and that it lost its authorization. `AppPairing` has the core as its `Enrollment`
specification plus what is verified under a code.

### Pairing

Every critical section of `Server.mu` is one action, so between the two
sections of `pairingEnroll` (`EnrollBegin` ... `EnrollCommit`) and of
`createPairingCode` (`CodeAuthenticate` ... `CodeCreate`) every other action may
happen. `req[r]` is what a running handler carries from one section to the next.

| State | Code |
|---|---|
| `devices`, `disk` | `DeviceStore.devices`, `devices.json` |
| `code`, `cooldown` | `Server.code`, time since `Server.lastCode` |
| `pairings`, `enrollments` | `Server.pairings`, `Server.enrollments` |
| `handles` | the table of native PAKE states |
| `slots` | `Server.passwordSlots` |
| `req` | the locals of running handlers |
| `via` | history: which code authorized which device |

Deadlines are kept as what is left of them, so the model needs no clock and no
horizon; `Tick` ages all of them at once. A code identity stands for
`randomID()`: it is any identity nothing in the state holds any more, which is
as good as one never used and keeps the state space finite without a bound on
the number of codes. Refusals of the rate limiter, malformed bodies and unknown
identifiers change nothing here and have no action. The proof and PAKE message
of a finish are abstracted to whether the app knows the code
(`PairingFinish` or `PairingFinishRefused`), the password to right or wrong.

**What the run checks.** `pairing` (2 devices, 3 handlers, 4 code identities, 2
attempts per code, 2 password attempts, 2 slots; lifetimes 2, 1 and 1 ticks):
pending work belongs to the standing code (`PendingUnderCode`); parallel,
abandoned and verified exchanges stay within the attempts (`AttemptsReserved`);
no PAKE state leaks (`HandlesMatchExchanges`); a code's creator is authorized at
all times (`CodeCreatorAuthorized`); and the whole implements `Enrollment`, in
which a device is authorized only through a code that is good at that instant
and revocation is final. `Inv` is the types, that records in memory and on disk
agree (`RecordsDurable`), that password attempts are counted before they run
(`PasswordsCounted`), that slots are never lost (`SlotsAccounted`), and that a
code authorizes one device (`OneDevicePerCode`). The bounds are the least at
which two exchanges compete for the last attempt, two requests use one
enrollment, a third finds no slot, and an enrollment meets a replaced, expired
or consumed code. The four identities are enough for the standing code, two that
enrolled devices, and one a stale request still holds.

**What is proved**, for all values of the constants, in `PairingProofs`: type
correctness together with the slot count (the count stays within its type only
because it equals the number of holders, so the two are one induction); the
invariants `PendingUnderCode`, `AttemptsReserved`, `HandlesMatchExchanges`,
`RecordsDurable`, `CodeCreatorAuthorized`, `OneDevicePerCode`, `PasswordsCounted`, and
so `Inv`; the action
property `StandingMovesForward`; and that `Pairing` implements `Enrollment`.
`NextPending` and `NextCode` sort the actions by what they do to the pending
work and to the code, and each invariant is proved over those cases. A
by-product: the repeated checks of the creator in `pairingStart`,
`pairingFinish` and `pairingEnroll` never fail, since revoking a device ends the
code it made (`CreatorCorrect`). `PasswordsCounted` needs one strengthening of its own:
a request that computes a password names an enrollment or an exchange that once was
(`HashersKnown`), so that a new enrollment starts with nobody computing for it. The
assumptions are that limits and lifetimes are positive, that devices and requests are
finitely many, and that nobody, the terminal and the identities have distinct names.

### Sessions

A handler that needs a session authenticates in one critical section
(`Authenticate`, `AuthenticateRefused`) and does its work in a later one
(`Register`, `Disconnect`, `DeviceRevoke`, `Logout`, `MakeCode`); `acts[r]` is
what it carries across. Whatever happens between the two is an action of its
own, revocation by another handler or by the terminal included.

| State | Code |
|---|---|
| `devices`, `disk` | `DeviceStore.devices`, `devices.json` |
| `sessions`, `challenges` | `Server.sessions`, `Server.challenges`, with what is left of each deadline |
| `acts` | the locals of handlers that passed `authenticate` |
| `asked` | the last command about each device that the node gave the helper |
| `removing` | the `id` of `revokeLocked`, between its save and its call of the helper |
| `revoker` | history: who revoked each device |
| `failed` | history: the challenges whose answer opened no session |
| `missed` | history: the revoked devices whose removal a crash kept from being asked |

A token and a challenge identity stand for random values: any that nothing in
the state holds any more. A challenge is answered rightly (`DeviceLogin`) or not
(`DeviceLoginRefused`: another device, a wrong signature, or too late, all of
which use it up). `revokeLocked` is two steps as far as sessions go: `RevokeLocked` saves
the records and drops what the device had, `RemovalAsked` calls the helper. `Server.mu`
is held all the time, so that in between nothing else runs but `Disconnect`, which takes
no lock for its call, the clock, and a crash (`Locked` is what waits). That a revocation
also ends the code the device made is in `Pairing`. An operation refused before it
changes anything has one action, `Refused`.

**What the run checks.** `sessions` (2 devices, 2 handlers, 3 tokens, 3
challenge identities, room for 2 sessions and 1 challenge, lifetimes of one
tick): nothing of a revoked device is left (`SessionsAuthorized`,
`ChallengesAuthorized`), a challenge opens at most one session and none once an answer to
it was refused or found no room (`ChallengesSingleUse`), and two
devices cannot revoke each other (`NoMutualRevocation`). `RevokedStayRemoved` says that
the last thing asked of the helper for a revoked device is never a registration, although
a request authenticated before the revocation may still be about to register it. It
names its two exceptions, both of the order save first, helper later: the removal still
to be asked, and one that a crash of the core prevented. After such a crash the device is
revoked and its peer is still there; nothing in the node asks again on a start, and the
helper's own look at the records is what removes it (`RevocationTakesEffect`, below).
Two handlers are what an interleaving needs; two sessions and one challenge make both
tables full, with expired entries still in them; three tokens are one for each session
and one that a handler about to log out still holds.

**What is proved**, in `ServerProofs`, for all values of the constants: all
five, and type correctness. `NextSessions`, `NextRecords` and `AnswerSteps` sort the
actions by what they do to sessions and challenges, to the records and the helper, and
to challenges and the failed answers; each invariant is an induction over those few
cases. The strengthenings:
sets stay finite (`Typed`), memory and disk agree, so that a restart brings no
device back (`Authorized`, `Revocations`), a device has a revoker only once it
is revoked (`Revocations`), no two challenges share an identity, and none that is
pending was answered before (`Identified`). The assumptions are that the limits and
lifetimes are positive and that the names of nobody and of the terminal are not device
names.

### VPNManager and LinuxBackend

`Manager.mu` serializes the helper, so one `task` is under way at a time; its
field `at` names the next step of the operation. A call of the backend is a
program, a sequence of commands in `cmds`, that is run a command a step. So a
crash, a revocation in the core's records, or a failure may fall between any two
commands, saves or reads.

| State | Code |
|---|---|
| `link`, `base` | interface `epwg0` and whether it carries our alias; the interface's own rules and NAT |
| `owner`, `gateway` | WireGuard allowed-ips: the key of each address, and of `0.0.0.0/0` |
| `chain` | the `easyprivacy-peer-N` rules of `FORWARD`, in order, first match first |
| `policy` | addresses with an `ip rule` to the home table |
| `cache` | `Linux.peers` |
| `cmds`, `failed` | the rest of the backend call, and its error |
| `peers`, `stored` | `Manager.peers`, `peers.json` |
| `serving`, `task` | whether `Serve` listens; the operation under way |
| `authorized` | devices the core's `devices.json` authorizes |
| `promised` | history: the exit the holder of each key was last told it has |

A command does its work (`RunCommand`), is refused by the kernel
(`CommandRefused`: a duplicate policy rule, an interface that is not ours), or
fails without or *with* its effect (`CommandFails`; `command` kills it after four
seconds). A query that fails reads as "not there" (`QueryFails`). `Rollback` is
what `SetPeer` and `Up` do about a failure. A save fails before or after its
rename (`SaveFails`). `LeavesAtVPS` reads the rules as the kernel would: the
first that matches decides.

A home service is a peer with exit `"service"`. Names, management addresses,
DNS and the text of requests change nothing here. Routes and addresses of the
interface are one command, `configure`, since any of them failing takes the
interface down again. Each fault is counted in `faults`: commands, saves and reads that
fail, and crashes, together at most `MaxFaults`.

**What the runs check.** `vpn` (2 devices, 3 keys, addresses 2 and 3, 2 peers, 1
fault): `HomeNeverFallsBack`, `KernelKnown`, `FailureKeepsRegistration` (a registration
that fails leaves the one before it in the map and, when it failed in the kernel, writes
it back to `peers.json` unless that save fails as well), and
`Inv`, which is the types, that `peers.json` always loads (`AlwaysLoadable`) and
that without faults kernel, cache and file say the same (`AllAgree`). Two devices
are a home service and its user, or two users of one address after each other;
three keys allow a key to change while another device holds one. One fault at
any step, with everything that can follow it, is also where the claims end.
**With two faults** `HomeNeverFallsBack` and `KernelKnown` do not hold: an
`accept` rule left by one failure, then a `wg set` killed after it took effect,
whose roll-back (`linux.go:199-201`) deletes the guard of a peer that is live,
lets home traffic out at the VPS until the next command takes the peer down; and
a roll-back whose `RemovePeer` fails as well leaves a peer nobody recorded until
the helper restarts.

`vpn_live` (1 device, 2 keys): a revoked device loses its address in the end
(`RevocationTakesEffect`), after any one fault. It assumes `FairSpec`: an
operation under way goes on (commands end within four seconds), the ticker gets
the lock though requests compete for it, and systemd starts the helper again
(`Restart=on-failure`). Requests and revocations are under no fairness.
`vpn_interface` is in section 3.

**What is proved**, in `VPNManagerProofs`, for any devices, keys, addresses and any number
of faults: the types (with `cmds` a program the backend has, and the address a
registration takes one of the subnet), `AlwaysLoadable` and
`FailureKeepsRegistration`. Neither is inductive alone. What a save writes is
`peers`, so `peers` must be loadable at every step; a roll-back puts `task.old` back,
so what it would restore must be loadable too, while the peer that replaced it is
there (`Attempt`); and a loop over peers never names one that is gone (`Looping`).
`SomeFree` is the pigeon-hole behind `freeAddress`: with fewer than `MaxPeers` peers, and
`MaxPeers` below the number of addresses (`ManagerAssumption`), one is free.
With that `Inv` is proved (`InvCorrect`). Its part `AllAgree` speaks of states between two tasks
and of no faults, and needs a second invariant, `SureInv`, that speaks of all states without
faults: the program that runs is what is left of `SetPeer` (`Setting`), `RemovePeer`
(`Dropping`), `Up` or `Down` from some command on, and the chain, the policy rule and the key of
its address are what the commands before that one made of them (`Adding`, `Removing`); the
peers in the map are all in place, of distinct addresses, and every address they leave is clean
(`Apart`, `Whole`); the map holds only what is recorded (`Matches`); and every recorded peer is
in force, but for those the task has still to bring in or out (`Pending`, `InForce`). The
lemmas follow a call command by command (`AddingStep`, `RemovingStep`, `UpStep`, `DownStep`);
that a delete leaves the rules it should rests on the order `peerRules` lists them in
(`LastDeleted`).

`HomeNeverFallsBack` and `KernelKnown` are proved while there was at most one fault
(`HomeIsKept`, `KernelStaysKnown`), which is the most that can be said: with two both fail, as
above. They need a third invariant, `SafeInv`, which says of every state with at most one fault:

- whatever may come into the kernel, from the map, the file, the request or the roll-back,
  honours what the holder of its key was last told (`Honored`, `Asked`);
- the map knows every key that has an address, and a home user's address has its policy rule
  (`Owning`), but for the one peer whose call is under way. What that call has done so far is
  what its remaining commands say (`Taking`, `Placing`, and around them `Entering`, `Leaving`,
  `Undone`, `Retracting`);
- a key that the map does not know is there only after a `wg set` that was killed once it had
  worked; then no rule accepts its packets, since the accept rule of a home user only ever
  stands behind a guard (`Astray`, `Guarded`);
- while the helper starts or stops, `Up` and `Down` take the rules and the NAT away before a
  key, or with it (`Lifting`, `Lowering`, `Bare`).

So of the two barriers, the policy rule and the guard in front of every accept, one fault leaves
one. Where there was no fault yet, `SureInv` says what the state before the first one was. `None` is
assumed to be neither a peer nor an exit (`NoneAssumption`): no exit promised is not the home exit.

### CoreVPN

A handler of the core holds `Server.mu` while it asks the helper to register or to
remove a peer (not in `vpnDisconnect`), and gives up after six seconds; the helper
does not notice and goes on. `pc[c]` is the core's side of request `c`, `helper[c]`
the helper's, so the two run apart after a time-out (`TimeOut`). A device may be revoked
again (`devices.go:173-175`), as one does after a warning: `Lock` then changes no record
and asks the helper again. A request that `Send` has not brought to the helper is that of
a core that dies between the saved revocation and its call, or of a helper that is not
there.

| State | Code |
|---|---|
| `authorized` | the device records, written by the core and read by the helper |
| `mu`, `hmu` | who holds `Server.mu` and `Manager.mu` |
| `configured`, `up` | `vpn-enabled` exists; the helper serves its socket |
| `peers`, `stored` | the devices of `Manager.peers` and of `peers.json` |
| `confirmed`, `given` | history: revocations answered without a warning; registrations answered and not asked to end |

`core_vpn` (2 devices, 2 requests at a time, 2 restarts of core or helper, 1 failed
command or save): a revocation that was answered without a warning, the first one of a
device or a repeated one, leaves no peer, also when a registration the core gave up on is still queued in the helper
(`RevocationConfirmed`); a registration that was answered stays (`RegistrationHolds`,
in `Inv` with who holds which lock); and `Server.mu` is always given back
(`CoreGoesOn`), under fairness of the core's own handlers and of their time-outs
only: the helper may hang for ever. Two requests are one that the helper works on
late and one that meets it; a restart of each side fits in two.

**What is proved**, in `CoreVPNProofs`: `Inv` and `RevocationConfirmed`. The argument is
what the two mutexes are for. While a handler that asks holds `Server.mu` the records stay
as it found them (`Locked`); a registration that is past the helper's reading of the
records is about a device whose revocation nobody has answered for yet (`Asked`), since
that answer comes from a helper that waits for the same mutex. With them, a confirmed device
is not authorized and has no peer (`Confirmed`), and one that was told of its registration
is authorized, in the file and in the map, with no removal under way (`Given`).

### RateLimit

A handler reads the clock before it takes `Server.mu` (`Arrive`) and decides under it
(`Admit`, `Refuse`), so it can decide by a time that has passed: `waiting` keeps the
age of its reading. Windows are kept by their age; the histories `admitted` and `total`
say for each span how many attempts it has seen, so that no bound is a sum. Names carry
the prefix `Limiter` where `Sessions`, read by the same proofs, has one too.

| State | Code |
|---|---|
| `attempts`, `global` | `Server.attempts`, `Server.global` |
| `waiting` | the locals of handlers in `allowLogin` |
| `admitted`, `total` | history: attempts of each address, and of all, in the last k + 1 ticks |

`rate_limit` (3 addresses in a table of 2, limits 2 and 3, a window of 2 ticks, 2
handlers, a wait of up to 1 tick): `LimiterInv` bounds what any window of the clock admits,
for one address (`SlidingBound`) and for all (`GlobalSlidingBound`), and says that a
window counts what it admitted (`CountsTrue`). Two fixed windows that meet admit less
than twice the limit; a call that waited with its reading opens a window that is
already old, so with waiting it is more: for all addresses together at most three times,
since each window begins after the end of the one before. An address has it worse. Any call
prunes the table, so a window that has ended for a call of *another* address is
forgotten, and a handler with an older reading opens the next one although the first is, by
that reading, still open. Each window is then shorter by the wait, and less than three times
the limit is certain only as long as nobody waits more than half a minute (with a window of
three ticks and a wait of two, TLC finds three times the limit). `SlidingBound` says it for
any wait. `LockoutEnds`: nobody is refused for good, by own attempts, those of others or a
full table, with `SF` of the clock (it passes however many calls there are) and `WF` of a
handler that waits for the lock. The table is smaller than the number of addresses and the
global limit less than twice an address's, so each of the three reasons to refuse occurs
alone.

**What is proved**, in `ServerProofs`: `LimiterInv`, for any limits, table and addresses and
any wait shorter than a window (`LimitAssumption`). The inductive invariant is a `Ledger`:
counting back from the beginning of an address's window, every `Shortest` ticks (a window
less the longest wait) add less than `Limit` attempts (`Spread`), whether its window is in
the table or was forgotten (`SpreadForgotten`); for all addresses every full window adds at
most `GlobalLimit` (`GlobalSpread`). A first version claimed three times the limit for every
wait, as TLC had found on its instance; the step that forgets a window could not be proved.

### SiteTunnel and HomeService

`SiteTunnel` is `site.go`: the programs of commands of `SiteUp` and `SiteDown`, run a
command a step as in `LinuxBackend`. `HomeService` is the machine around it: systemd's
unit with `ExecStartPre` and `ExecStopPost`, the process that signs in, registers and
signs out every 30 seconds (`step`, `call`), and the administrator's commands
(`admin`): setup with enrollment, installation with its undo, start, stop, forget.
Signing in takes a challenge and a login (`client.go:224`), two requests of which each can
be refused or lost; a challenge is `"stale"` once the core has restarted. That its 30 seconds
run out between the two is left out: the client sends one right after the other.

| State | Code |
|---|---|
| `link`, `conf`, `rules` | `epsite0`, its configuration, its iptables rules |
| `cmds`, `site`, `failed` | the rest of the running `SiteUp` or `SiteDown`, and its error |
| `records`, `peer`, `offer`, `sessions` | the core: `devices.json`, its one home service, the profile it answers with, open sessions |
| `config`, `enabled`, `stopping`, `unit` | `service.json`; the unit as systemd sees it |
| `step`, `current`, `active` | where `serveService` is, and its locals |
| `call` | `registerSite` or `disconnectSite` under way |

`home` (2 identities, 2 profiles, 2 faults of any kind: lost requests, failed commands
and saves, crashes, reboots, a restart of the core, an interface somebody deletes):
`NoOrphan`, the core keeps no home service that no machine holds; `NothingLeft`, a
stopped machine forwards nothing after any one failure, and one without `service.json` has
no rule ever and no interface after any two, since each of three cleanups may fail once; `RevokedGoesDown`, a revoked identity's interface
goes down for good whatever fails once; `FollowsCore`, an authorized service that runs
comes to what the core offers. `Inv` adds to the types that sessions are signed out
(`SessionsReturned`), that an interface that is up is configured as answered
(`UpAsAnswered`), and `RejectionIsTrue`. Two identities are the enrolled one and the
one it is replaced by; two profiles are a change. `FairSpec` says that processes that run go on, that
commands and requests end (all have time limits), and that systemd starts the unit
again (`Restart=on-failure`); the administrator, the core's changes and faults are under
no fairness. One administrator's command runs at a time. `site.json` and the status
file are never read to decide and are left out.

**What is proved**, in `HomeServiceProofs`, for any identities, profiles and number of faults:
`Inv`, `NoOrphan` and `NothingLeft`. The inductive invariant says who runs which program, and
what can be left of it (`Running`); how the unit, its process, `service.json` and the
administrator's command stand to each other (`Standing`); whose call is under way and what it
knows of the core (`Calling`, `Told`), so that a rejection is true and a session is signed out;
at which points of an installation and of a forget the core does not yet, or no longer, keep
the identity as its home service (`Kept`). `NothingLeft` rests on a count
(`Exposed`): how many faults it took for an interface to be up where it should not be, which is
one less where the deletion of `SiteDown` is still ahead (`Ahead`); `UpAsAnswered` on what the
commands of `SiteUp` have made so far (`Made`). `HomeAssumption` says that `None` is no identity
and that the core's other answers are no profiles.

### VPNController

Dart runs one step from an `await` to the next, and other calls run in between: a
task is a method (`connect`, `load`, `refresh`, `restoreStatus`, a call of
`disconnect`), `pc[t]` names what it awaits, `call[t]` the call and its answer,
`local[t]` its locals with the generation it read. The backend serves calls in any
order, and a call given up by the app may be served later (`strays`).

| State | Code |
|---|---|
| `tunnel`, `installed`, `saved` | the device: the tunnel and its exit, the helper, the saved selection |
| `peer`, `offered`, `revoked` | the core: this device's registration, exits, standing |
| `session` | what `CoreController` tells its listeners |
| `app` | the fields of `VPNController` |
| `stopped`, `owed` | history: the last disconnect that returned true; a registration that was not given back, because there was no session for it when it came to it or when the core got to it, or because the core had rejected the device |

The core link comes in as its notifications (`_coreChanged`): a sign-in, an outage, a session
that ended (`Expired`), and an authorization that was lost (`Rejected`), with a session or
without one. The last is set by any 401 or 403 of a sign-in or a renewal
(`core_controller.dart:90`, 138): the device was revoked, or the core lost the sign-in half way
because it restarted or let the challenge expire (`Lapse`). `disconnect` has three callers: the
panel, the app's Disconnect and Forget (`CoreDisconnect`; Forget is offered without a session
and while a connect is under way), and a rejection. The core refuses what it gets from a session
that has ended meanwhile (`Unauthorized`); the call may as well have been served before the end.

`app` (2 exits; 2 calls of connect and disconnect; a sign-in; one of: a failed call, a
restart of the app, a tunnel stopped outside it, an outage, an expired session, a
revocation, a sign-in that the core lost half way, Home leaving the list): `DisconnectRestores`, after a disconnect that
returned true the tunnel is down, whatever its call met; `PeerGivenBack`, a
registration whose tunnel did not stay up is removed; `SelectionKept`; and
`OutagePreserves`, on the core's behalf no outage and no end of a session takes a tunnel down,
but only a rejection, whatever was its cause. `Inv`
is the types and `Disconnectable`: once nothing is under way, a tunnel that is up is polled
for, so that the panel comes to offer its Disconnect. Two calls are a connect and the disconnect that
supersedes it, or a disconnect and a connect after it; the sign-in makes load and
refresh run beside them. The phases "handshake", "connecting" and "connected" are one
("up"): nothing is decided by their difference.

`DisconnectRestores`, `PeerGivenBack` and `Disconnectable` are claimed as long as no call
failed and the app was not restarted. A restart alone is enough to break the first: a connect of the
app's former life that the helper still serves, and that the app signs in again before,
comes up after a disconnect of the new life returned true.

**What is proved**, in `AppVPNProofs`: all five, for any number of exits, of calls of
disconnect at a time, of connects, sign-ins and events. There are two invariants. The first,
`IInv`, says what each task can await and which call it makes (`Awaits`), that every connect
and disconnect begins a generation of its own (`Generations`), and what the latest
disconnect leaves (`LatestDisconnect`): from the moment it has read that the tunnel is down,
or has had it taken down, the tunnel is down, or a connect that was superseded is about to
take it down (`GoesDown`). So a superseded connect may bring the tunnel up after the
disconnect was served, and still `DisconnectRestores` holds. `OutagePreserves` is proved by going
over the steps that end a tunnel, from the fact that a disconnect on behalf of the core began
with a rejection (`LostIsRejected`), `SelectionKept` over those that set the selection. The second, `JInv`,
holds while no call has failed and names who sees to a tunnel that is up (`Tended`: polling, or
a task that will show it or take it down) and to a registration without one (`Accounted`).
It needs that connect brings a tunnel up only where there was none (`Rising`), that a
refresh which is still current read the truth (`Polled`), and that connect cancels only what
was superseded (`Withdrawn`). With every task at rest it is `Disconnectable` and
`PeerGivenBack`.

### CoreController

As `VPNController`: a task is a call of `connect`, the timer's `refresh` or
`revokeDevice`, and a step runs from one request to the next. A device signs in with a
challenge and a login; challenges and sessions are in the core's memory and lost when it
restarts. A revoked device gets no challenge, and one that was given expires
(`ChallengeExpires`).

| State | Code |
|---|---|
| `open`, `password`, `revoked` | the core: `Server.sessions` of this app, the device's standing |
| `app` | the fields of `CoreController` |
| `pc`, `answer`, `local` | what each task awaits, its answer, its locals |
| `leaving` | sign-outs, which nobody awaits |
| `strayed`, `off` | history: tokens of lost answers and those connect forgot (line 52); whether disconnect was the last thing asked |

`link` (2 tokens, 2 calls of connect under way, 3 calls altogether, one expiry of a session
or a challenge or one restart of the core, one lost request): `TokensReturned`, once nothing is under way the
core has no session but the one in use; `OnlyEndedDropped`, the app gives up no session
that lives; `RevocationNoticed`, a revoked device comes to know it, with the requests,
the isolate and the timer fair (requests have time-outs). `Inv` adds `StaysOff`, no
late answer brings the link back after disconnect, `ConnectingEnds`, the phase that
refuses further connects does not outlast them, and `LostMeansRevoked`. Three calls
are a connect, one that supersedes it and a disconnect; two tokens are those of two
connects.

**What is proved**, in `CoreControllerProofs`: `Inv`, `TokensReturned` and `OnlyEndedDropped`.
Every session at the core is known to somebody: the app, a task that is signing in, a
sign-out, or the history of those that strayed (`Tracked`), and nobody shares one
(`OwnTokens`); so when all tasks are at rest only the app's own is left.
`StaysOff` rests on generations: what was under way at a disconnect is not current
(`OffIsOld`), and no two connects are of one generation (`Generations`). A rejection that
reaches the app has a cause, at whichever of the requests of a device sign-in it arises
(`RejectedForCause`).

### AppPairing

`main.dart` moves a saved profile, a core that was verified but not enrolled with, and
the link, in `_pair`, `_enroll`, `_connectPaired` and `_forget`; the storage may fail
at each call and the answer of the core may be lost.

| State | Code |
|---|---|
| `code`, `proven`, `records` | the core: a good code, what is verified under it, the records |
| `store` | the secure storage |
| `app` | the home screen's fields and the controller's session |
| `step`, `forget`, `pc`, `arg` | where `_enroll`, `_forget` and each `_connectPaired` are |

`app_pairing` (3 identities, 2 connects under way, 4 asks, 2 restarts, 2 faults): what
is saved is a device the core authorized (`SavedIsAuthorized`, in `Inv`), and an
authorized device whose key nobody holds is due to a lost answer, a failed storage, a
restart before the save or a forget, one each (`RecordsHeld`). Three identities are
two stranded ones and one in use. One forget is under way at a time, although its button stays
enabled meanwhile (`main.dart:649`): a second one would delete what the first deletes.

**What is proved**, in `AppPairingProofs`, for finitely many identities and connects
(`FiniteAssumption`; the code has no bound on either): `Inv` and `RecordsHeld`. The first rests on what the screen allows
(`OneAtATime`): the app pairs only without a profile, forgets only with one, and never both.
The second is a count, and its induction is a ledger: the stranded devices, a saved profile
that the next save will overwrite and a forget under way are together at most what faults,
restarts and forgets have paid for (`StrandedPaid`). Another ledger bounds the generation,
by what the user asked and the devices enrolled (`GenerationsPaid`), which its type needs.

### WindowsTunnel

The supervisor serves connect and disconnect under a mutex by stopping and starting
the tunnel's own service; `Execute` stops the tunnel under the same mutex when the
supervisor is stopped, and `install` replaces both. Assumed of Windows: the service
manager refuses to control a service that is starting or stopping, a file being
executed cannot be written, the supervisor starts at boot and the tunnel does not. A
poll may run out of time at any moment.

| State | Code |
|---|---|
| `sup`, `mu`, `where`, `conf` | the supervisor service, its mutex, its handlers and what they ask for |
| `tun`, `file` | the tunnel service with the configuration it has read, `EasyPrivacy.conf` |
| `installer` | where `install` is |
| `off` | history: the last request the mutex let in was a disconnect, and it succeeded |

`windows` (2 requests at a time, 5 altogether, 2 configurations, 2 installs, 2 stops or
reboots, 1 failed call): `DisconnectHolds`, after a disconnect that succeeded no tunnel
comes up by itself, also none whose start was still going on; `ConfigCurrent` (in
`WindowsInv`), what runs is what the file says; `Handled`, every request ends although the
tunnel may never start or stop. `WindowsFairSpec` is strong fairness of the handlers alone:
Go's mutex starves nobody, and polls have deadlines. Two configurations and five
requests let a connect follow a disconnect that followed a connect, with one waiting
for the mutex meanwhile.

**What is proved**, in `AppVPNProofs`, which reads both modules of the app's tunnel (hence the
prefix of the names here): `WindowsInv` and `DisconnectHolds`. After a disconnect
the tunnel is down and nobody who holds the mutex connects (`OffIsOff`); a handler past
`stopTunnel` finds the tunnel down, so it cannot be restarted between (`PastStop`); and
a tunnel that is down has read no configuration (`DownIsClean`), so `ConfigCurrent` survives
the write of a new one.

## 3. Where the code and its documents differ

Each was found by TLC while a module was written, with one fault or one
interleaving. The first is kept as a run; of the others the property that fails
was weakened to what holds, or left out, so that the runs say what the code does.

On the core and the helper:

- `vpn_interface`: `linux.go:255` says "Remove the ingress interface first,
  including on crash cleanup". A helper that dies between creating `epwg0` (149)
  and tagging it (152) takes it for somebody else's from then on, and can neither
  start nor clean up until it is deleted by hand. `site.go:107-110` is the same
  for `epsite0` of the home service.
- Unavailable records: `core/README.md:67-68` says that they make the helper stop
  and remove its interface. That is so for the ticker and the start. If the read
  that fails is that of a status query or a registration (`manager.go:258`, 271,
  162), the peers are removed from the kernel, the caller gets the error, and the
  helper goes on with `m.peers` as it was; the peers stay disconnected.
- A refused registration in the file: a `save` that fails after its rename, while it
  syncs the directory (`types.go:228-236`, `manager.go:207-214`), makes `register` put the map and the kernel
  back and leave the file, which the next start reads: with the new key and exit, although
  the caller was told of a failure. `manager_test.go:109` has the words "failed rotation
  replaced persistent authorization" for that, and looks at the map.
- Accepted but not applied: `manager_test.go:106` calls it a failure when a
  "failed kernel update accepted". After a removal that failed between WireGuard
  and the rules, `Linux.peers` still holds the peer (`linux.go:206-219`), and a
  registration with the same key (the app keeps its keys) succeeds without a
  command (181-184).
- A policy rule left behind: when `configurePeerRouting` fails after it added the
  rule (`home_routing.go:109-113`), nobody takes it out, and the next owner of the
  address is routed to the home table whatever exit it chose, although
  `docs/home-service-node.md:110` speaks of "source policy routing for
  Home-selected peers".

On the home machine:

- `service.go:387` reports "Device authorization was rejected. Re-enroll this
  service node." for every 401 and 403. A core that restarts between the challenge
  and the login answers 401, one between the login and the registration 403
  (`device_auth.go:75`, `vpn.go:78`), although nobody revoked the device: the service takes its interface
  down, tells its owner to enroll again and exits, to be started again after ten
  seconds. `RejectionIsTrue` is therefore claimed for no faults.

In the app:

- A connect that was superseded while the backend brought the tunnel up calls
  `backend.disconnect` once (`vpn_controller.dart:273`); if that call fails the
  tunnel stays up although `disconnect` has returned true
  (`docs/vpn-milestone.md:48`: "**Disconnect VPN** restores normal networking").
  A late call that fails, a status that says inactive for a tunnel that is starting, or a
  connect from before a restart of the app that the helper serves after that disconnect, breaks
  it as well: `DisconnectRestores` is claimed for no failed calls and no restarts.
- `restoreStatus` asks for the status once (line 127). If that call fails, nothing
  asks again before sign-in, and a running tunnel has no Disconnect, although
  `docs/vpn-milestone.md:49` says "Active native tunnels remain disconnectable even
  before core login." `Disconnectable` is claimed for no failed calls.
- `load` replaces exits and selection also during a connect (line 170): when Home
  leaves the list between Connect and the tunnel, the app shows the VPS for a
  tunnel that uses Home. `app/test/vpn_test.dart:132` says "home selection survives
  app restart and loss of its service entry"; `SelectionKept` says that much and no
  more. `restoreStatus`, too, reads the selection before it compares generations,
  and can overwrite a later one.
- `disconnect` becomes idle before the core has removed the peer (line 371): the
  removal can reach the core after the registration of the next connect, and takes
  that one. The tunnel is up and has no peer.
- A `disconnect` whose call fails leaves the phase at "disconnecting" until the
  next refresh.
- A core that restarts, or lets the challenge expire, between two requests of one device
  sign-in answers the second with 401; `core_controller.dart:90` and 138 take every 401 for a lost
  authorization, and the app stops the VPN (`app/README.md:31`: "An explicit
  device-authorization rejection stops it."). `OutagePreserves` lets a tunnel go down for it,
  and `LostMeansRevoked` is claimed as long as no session and no challenge ends by itself. Conversely, a renewal that fails
  for any other reason drops the session without a word.
- `_forget` clears `savedProfile` only after it waited for the sign-out
  (`main.dart:256`), and leaves the buttons of the remembered device enabled until
  then: a connect that passed the check of line 225 in that wait links the app with
  the key it has just deleted (`docs/connection-milestone.md:36`: "**Forget this
  core** removes the local credential.").
- On Windows, `server.Close` does not wait for handlers and `Execute` ignores the
  error of `stopTunnel` (`main_windows.go:335`): a connect that waited for the mutex
  while install stopped the supervisor starts the tunnel; its process holds the file
  that install has to replace, and install returns without a supervisor. No
  Disconnect reaches that tunnel.

## 4. Not modelled

- Cryptography (SPAKE2, HMAC, TLS, signatures) beyond accept or refuse; JSON
  parsing beyond accept or refuse; the clock of the core being set back.
- The core's identity (`state.go`): created once by a setup that publishes it with
  a hard link, and only read afterwards. Setup, firewall and packaging scripts:
  prompts, files and commands in sequence, run once by an administrator.
- The Android tunnel: one executor with a single thread runs everything in order,
  so nothing of its own interleaves; what remains is the platform's.
- Widgets, apart from the guards of buttons that `VPNController` and `AppPairing`
  need, and the PAKE messages on the app's side.
- `Pairing` and `Sessions` as one specification: they share the device records and
  nothing else, and each has every action that changes those records with the whole
  of what it does on its side. The endpoints' refusals by the rate limiter change
  nothing but the limiter, which is `RateLimit`.
- When the helper stops, a handler that outlived the three seconds of `Shutdown` may
  set a peer while `Down` runs: the process ends right after, and the next start
  removes everything first. Packets that no rule of EasyPrivacy matches follow the
  host's own policy.

Proved and not proved:

- Liveness stays with TLC: the prover handles neither fairness nor `ENABLED`.
- `VPNManager`: `HomeNeverFallsBack` and `KernelKnown` hold, and are proved, for at most one
  fault. What becomes of a kernel after two is left to the next start.

A property that turned out not to be inductive showed something more than once. The cases of
`CoreController`'s `Refreshed` overlapped where TLC took the first one and the logic allows any;
they are disjoint now. `DisconnectRestores` had been claimed with restarts, which the bounds of the run
could not refute. `Disconnectable` had been stated for states in which nobody polls; the proof
showed that no tunnel is up in those, and it now says that polling goes on.
`SlidingBound` had been three times the limit for every wait, which is false.

## 5. What is left

All components with state of their own and something to order are modelled, and every
invariant and every action property of the runs that must pass is proved. Only model-checked
are the liveness properties (`RevocationTakesEffect`, `CoreGoesOn`, `RevocationNoticed`,
`RevokedGoesDown`, `FollowsCore`, `LockoutEnds`, `Handled`): the installed provers handle
neither fairness nor `ENABLED`. `vpn_interface` refutes a claim and has nothing to prove.
