------------------------------ MODULE RateLimit ------------------------------
(***************************************************************************)
(* The limiter that sign-in, pairing and challenges pass first             *)
(* (core/internal/node/server.go, allowLogin): a window of attempts for    *)
(* each address, one for all of them, and a table of bounded size.         *)
(*                                                                         *)
(* A handler reads the clock before it takes Server.mu (Arrive) and        *)
(* decides under it (Admit, Refuse).  It may wait for the lock while       *)
(* another handler calls the helper, so the time it decides by may be old. *)
(* Times are kept as ages, which Tick increases.                           *)
(***************************************************************************)
EXTENDS Integers, FiniteSets

CONSTANTS
    Addresses,    \* hosts that call
    Handlers,     \* handlers that run at the same time
    Limit,        \* attempts of one address in a window: 10
    GlobalLimit,  \* attempts of all addresses in a window: 60
    TableLimit,   \* addresses in the table: 1024
    Window,       \* length of a window in ticks: a minute
    MaxWait,      \* longest wait for Server.mu, in ticks
    Nobody        \* not an address

ASSUME LimitAssumption ==
    /\ Limit \in Nat \ {0} /\ GlobalLimit \in Nat \ {0} /\ TableLimit \in Nat \ {0}
    /\ Window \in Nat \ {0} /\ MaxWait \in Nat /\ MaxWait < Window
    /\ Nobody \notin Addresses

VARIABLES
    attempts,  \* Server.attempts: the window of each address in the table
    global,    \* Server.global
    waiting,   \* address and age of the clock reading of each running handler
    admitted,  \* history: attempts of each address admitted in the last k + 1 ticks
    total      \* history: attempts of all addresses admitted in the last k + 1 ticks
limiterVars == <<attempts, global, waiting, admitted, total>>

\* An age at which every window has ended for every handler.
Old == Window + MaxWait
Windows(limit) == [age : 0..Old, count : 0..limit]
Idle == [host |-> Nobody, age |-> 0]

\* What a history counts: the attempts in the last k + 1 ticks.
Spans == 0..Window - 1
OneMore(counts) == [k \in Spans |-> counts[k] + 1]
TickLater(counts) == [k \in Spans |-> IF k = 0 THEN 0 ELSE counts[k - 1]]

LimiterTypeOK ==
    /\ attempts \in UNION {[S -> Windows(Limit)] : S \in SUBSET Addresses}
    /\ Cardinality(DOMAIN attempts) <= TableLimit
    /\ global \in Windows(GlobalLimit)
    /\ waiting \in [Handlers -> [host : Addresses \cup {Nobody}, age : 0..MaxWait]]
    /\ admitted \in [Addresses -> [Spans -> Nat]]
    /\ total \in [Spans -> Nat]

LimiterInit ==
    /\ attempts = [a \in {} |-> 0]
    /\ global = [age |-> Old, count |-> 0]
    /\ waiting = [h \in Handlers |-> Idle]
    /\ admitted = [a \in Addresses |-> [k \in Spans |-> 0]]
    /\ total = [k \in Spans |-> 0]

-----------------------------------------------------------------------------
(***************************************************************************)
(* The decision, for a call that read the clock wait ticks ago.            *)
(***************************************************************************)

\* Mutant: a window ends a tick early.
EndedEarly(window, wait) == window.age - wait >= Window - 1
Ended(window, wait) == window.age - wait >= Window

\* Mutant: windows stay in the table when they have ended.
NeverPruned(wait) == attempts
\* The table without the windows that have ended.
Pruned(wait) == LET open == {a \in DOMAIN attempts : ~Ended(attempts[a], wait)}
                IN [a \in open |-> attempts[a]]

GlobalNow(wait) == IF Ended(global, wait) THEN [age |-> wait, count |-> 0] ELSE global

EntryOf(a, wait) ==
    LET table == Pruned(wait)
    IN IF a \in DOMAIN table THEN table[a] ELSE [age |-> wait, count |-> 0]

Refuses(a, wait) ==
    \/ GlobalNow(wait).count >= GlobalLimit
    \/ a \notin DOMAIN Pruned(wait) /\ Cardinality(DOMAIN Pruned(wait)) >= TableLimit
    \/ EntryOf(a, wait).count >= Limit

Arrive(h, a) ==
    /\ waiting[h] = Idle
    /\ waiting' = [waiting EXCEPT ![h] = [host |-> a, age |-> 0]]
    /\ UNCHANGED <<attempts, global, admitted, total>>

Admit(h) ==
    LET a == waiting[h].host
        wait == waiting[h].age
        entry == [EntryOf(a, wait) EXCEPT !.count = @ + 1]
    IN
    /\ a # Nobody
    /\ ~Refuses(a, wait)
    /\ attempts' = [b \in DOMAIN Pruned(wait) \cup {a} |->
                       IF b = a THEN entry ELSE attempts[b]]
    /\ global' = [GlobalNow(wait) EXCEPT !.count = @ + 1]
    /\ admitted' = [admitted EXCEPT ![a] = OneMore(@)]
    /\ total' = OneMore(total)
    /\ waiting' = [waiting EXCEPT ![h] = Idle]

Refuse(h) ==
    LET a == waiting[h].host
        wait == waiting[h].age
    IN
    /\ a # Nobody
    /\ Refuses(a, wait)
    /\ attempts' = Pruned(wait)
    /\ global' = GlobalNow(wait)
    /\ waiting' = [waiting EXCEPT ![h] = Idle]
    /\ UNCHANGED <<admitted, total>>

Older(n, most) == IF n < most THEN n + 1 ELSE most

\* No handler waits longer than MaxWait.
LimiterTick ==
    /\ \A h \in Handlers : waiting[h].host # Nobody => waiting[h].age < MaxWait
    /\ attempts' = [a \in DOMAIN attempts |-> [attempts[a] EXCEPT !.age = Older(@, Old)]]
    /\ global' = [global EXCEPT !.age = Older(@, Old)]
    /\ waiting' = [h \in Handlers |->
                      IF waiting[h].host = Nobody THEN Idle ELSE [waiting[h] EXCEPT !.age = @ + 1]]
    /\ admitted' = [a \in Addresses |-> TickLater(admitted[a])]
    /\ total' = TickLater(total)

Decide(h) == Admit(h) \/ Refuse(h)

LimiterNext ==
    \/ \E h \in Handlers, a \in Addresses : Arrive(h, a)
    \/ \E h \in Handlers : Decide(h)
    \/ LimiterTick

LimiterSpec == LimiterInit /\ [][LimiterNext]_limiterVars

\* Time passes however many calls there are, and handlers get the lock; nobody
\* has to call.
LimiterFairSpec ==
    /\ LimiterSpec
    /\ SF_limiterVars(LimiterTick)
    /\ \A h \in Handlers : WF_limiterVars(Decide(h))

-----------------------------------------------------------------------------
\* Within any minute an address is admitted less than n + 1 times its limit, if
\* n windows, each shortened by the longest wait, are as long as a minute: less
\* than twice the limit if nobody ever waits, less than three times if nobody
\* waits for longer than half a minute.  A wait can shorten a window because a
\* call of any address takes an ended window out of the table, and a handler
\* with an older reading then opens the next one.
SlidingBound ==
    \A a \in Addresses, n \in 1..Window :
        Window <= n * (Window - MaxWait) => admitted[a][Window - 1] < (n + 1) * Limit

\* The same for all addresses together.  Their window is only ever replaced by
\* one that begins after its end, so at most three meet in a minute; the attempt
\* that opens one may be refused, so the bound itself can be reached.
GlobalSlidingBound ==
    total[Window - 1] <= (IF MaxWait = 0 THEN 2 ELSE 3) * GlobalLimit

\* A window holds against an address the attempts admitted while it is open, no
\* attempt from before it and all of those since.  At the edge it may be off by
\* the attempts decided while its first one waited.
Counted(window, counts) ==
    window.age < Window =>
        /\ window.count <= counts[window.age]
        /\ window.age > MaxWait => window.count >= counts[window.age - MaxWait - 1]

CountsTrue ==
    /\ \A a \in DOMAIN attempts : Counted(attempts[a], admitted[a])
    /\ Counted(global, total)

\* The types, and what the windows hold.
LimiterInv == LimiterTypeOK /\ CountsTrue /\ SlidingBound /\ GlobalSlidingBound

\* A call of the address that came now would be refused.
LockedOut(a) == Refuses(a, 0)

\* Nobody is locked out for good, not by own attempts that go on and are
\* refused, not by those of others, and not by a table full of addresses.
LockoutEnds == \A a \in Addresses : LockedOut(a) ~> ~LockedOut(a)
==============================================================================
