------------------------------ MODULE Rollover ------------------------------
(***************************************************************************)
(* The counters of the current month and the retained history of op-flowd  *)
(* (internal/collector/usage.go, Poll, ApplyDestroy and ResetCounters of   *)
(* collector.go).                                                          *)
(*                                                                         *)
(* A host's counters are zeroed when the month changes, while the daily    *)
(* buckets of the months before are retained.  The change of month is not  *)
(* an event of its own: whoever takes the tracker's lock first compares    *)
(* currentMonth with the month of a time it captured BEFORE it waited for  *)
(* the lock.  What a poll or a destroy event credits (module Accounting)   *)
(* is an input here.                                                       *)
(*                                                                         *)
(* Time is counted in months and the buckets of the days of a month are    *)
(* taken together: every rule below depends on a day only through its      *)
(* month.  Upload and download are treated alike, so one counter stands    *)
(* for both.                                                               *)
(***************************************************************************)
EXTENDS Integers

CONSTANTS
    Hosts,          \* LAN hosts
    Collector, Listener, API, \* the goroutines that take the tracker's lock
    MaxMonth,       \* bound: months that pass
    MaxCredit,      \* bound: bytes one poll or event credits to a host
    MaxBytes,       \* bound: bytes in a bucket of the history
    MaxStarts       \* bound: starts of the daemon

Actors == {Collector, Listener, API}
Months == 1..MaxMonth

ASSUME BoundsAssumption ==
    /\ MaxMonth \in Nat \ {0}
    /\ {MaxCredit, MaxBytes, MaxStarts} \subseteq Nat

VARIABLES
    clock,        \* month of the router's local time
    running,      \* the daemon is up
    now,          \* the time each actor captured before asking for the lock;
                  \* 0: it is not waiting
    currentMonth, \* 0: ""
    hosts,        \* host counters
    daily,        \* buckets of the history, by month
    disk,         \* the state file
    starts,       \* bound
    reentered     \* history: a rollover came back to a month with traffic

counters == <<currentMonth, hosts, daily>>
vars == <<clock, running, now, counters, disk, starts, reentered>>

-----------------------------------------------------------------------------
(* Data *)

Zero == [h \in Hosts |-> 0]
NoDays == [m \in Months |-> Zero]

State == [version : 1..2, month : 0..MaxMonth, hosts : [Hosts -> Nat],
          daily : [Months -> [Hosts -> Nat]], savedAt : Months]

\* store.Empty(), also what a damaged or unsupported file is replaced by.
Empty == [version |-> 2, month |-> 0, hosts |-> Zero, daily |-> NoDays, savedAt |-> 1]

\* A version 1 file has no history: what the hosts counted is assigned to the
\* day it was saved.
migrateV1(state) ==
    [state EXCEPT !.version = 2,
                  !.month = state.savedAt,
                  !.daily = [NoDays EXCEPT ![state.savedAt] = state.hosts]]

Load(state) == IF state.version = 1 THEN migrateV1(state) ELSE state

\* Faulty variant: the month is only set when there is none.
EnteredOnce(m, period) == IF m = 0 THEN period ELSE m

\* The month after ensureMonthLocked(period) in month m.
Entered(m, period) == period

\* Faulty variant: the counters of the old month are kept if the clock went
\* back.
RolledForwardOnly(m, h, period) == IF m = 0 \/ m >= period THEN h ELSE Zero

\* ensureMonthLocked(now) on the counters h of month m.
Rolled(m, h, period) == IF m \in {0, period} THEN h ELSE Zero

Plus(f, g) == [h \in Hosts |-> f[h] + g[h]]

\* Coming back to a month whose traffic is no longer in the host counters.
Reenters(m, d, period) == m \notin {0, period} /\ d[period] # Zero

-----------------------------------------------------------------------------
Init ==
    /\ clock = 1
    /\ running = FALSE
    /\ now = [a \in Actors |-> 0]
    /\ currentMonth = 0
    /\ hosts = Zero
    /\ daily = NoDays
    /\ disk \in {Empty}
         \cup [version : {1}, month : {0}, hosts : [Hosts -> 0..MaxCredit],
               daily : {NoDays}, savedAt : {1}]
    /\ starts = 0
    /\ reentered = FALSE

Tick ==
    /\ clock < MaxMonth
    /\ clock' = clock + 1
    /\ UNCHANGED <<running, now, counters, disk, starts, reentered>>

\* time.Now() in Run, at the top of ApplyDestroy and of ResetCounters.
Capture(a) ==
    /\ running
    /\ now[a] = 0
    /\ now' = [now EXCEPT ![a] = clock]
    /\ UNCHANGED <<clock, running, counters, disk, starts, reentered>>

\* Faulty variant: the bucket of the time at which the lock was granted.
recordUsageAtClock(period, credits) ==
    daily' = [daily EXCEPT ![clock] = Plus(@, credits)]

\* recordUsageLocked: the bucket is that of the captured time.
recordUsage(period, credits) ==
    daily' = [daily EXCEPT ![period] = Plus(@, credits)]

\* The tracker's part of Poll and ApplyDestroy, under one lock: roll over, then
\* credit hosts and history alike.
Account(a, credits) ==
    /\ running
    /\ now[a] # 0
    /\ \A h \in Hosts : daily[now[a]][h] + credits[h] <= MaxBytes
    /\ reentered' = (reentered \/ Reenters(currentMonth, daily, now[a]))
    /\ currentMonth' = Entered(currentMonth, now[a])
    /\ hosts' = Plus(Rolled(currentMonth, hosts, now[a]), credits)
    /\ recordUsage(now[a], credits)
    /\ now' = [now EXCEPT ![a] = 0]
    /\ UNCHANGED <<clock, running, disk, starts>>

\* Poll credits any number of hosts.
Poll == \E credits \in [Hosts -> 0..MaxCredit] : Account(Collector, credits)

\* A poll that ends before it takes the lock: the table cannot be opened.
PollFails ==
    /\ running
    /\ now[Collector] # 0
    /\ now' = [now EXCEPT ![Collector] = 0]
    /\ UNCHANGED <<clock, running, counters, disk, starts, reentered>>

\* A destroy event credits one host, or none if classify() refuses it: the
\* month is rolled over before that.
ApplyDestroy ==
    \E h \in Hosts, credit \in 0..MaxCredit :
        Account(Listener, [Zero EXCEPT ![h] = credit])

\* Faulty variant: all of the history is cleared.
WithoutAny(d, period) == NoDays

\* The daily buckets that remain after a manual reset.
Without(d, period) == [d EXCEPT ![period] = Zero]

\* ResetCounters; its save is a Save.
ResetCounters ==
    /\ running
    /\ now[API] # 0
    /\ reentered' = (reentered \/ Reenters(currentMonth, daily, now[API]))
    /\ currentMonth' = Entered(currentMonth, now[API])
    /\ hosts' = Zero
    /\ daily' = Without(daily, now[API])
    /\ now' = [now EXCEPT ![API] = 0]
    /\ UNCHANGED <<clock, running, disk, starts>>

Save ==
    /\ running
    /\ disk' = [version |-> 2, month |-> currentMonth, hosts |-> hosts,
                daily |-> daily, savedAt |-> clock]
    /\ UNCHANGED <<clock, running, now, counters, starts, reentered>>

\* New: load, or start from a clean state if the file is damaged; ensureMonth.
Start(damaged) ==
    LET state == IF damaged THEN Empty ELSE Load(disk) IN
        /\ ~running
        /\ starts < MaxStarts
        /\ starts' = starts + 1
        /\ running' = TRUE
        /\ reentered' = (reentered \/ Reenters(state.month, state.daily, clock))
        /\ currentMonth' = Entered(state.month, clock)
        /\ hosts' = Rolled(state.month, state.hosts, clock)
        /\ daily' = state.daily
        /\ UNCHANGED <<clock, now, disk>>

Stop ==
    /\ running
    /\ running' = FALSE
    /\ now' = [a \in Actors |-> 0]
    /\ currentMonth' = 0
    /\ hosts' = Zero
    /\ daily' = NoDays
    /\ UNCHANGED <<clock, disk, starts, reentered>>

Next ==
    \/ Tick \/ Poll \/ PollFails \/ ApplyDestroy \/ ResetCounters \/ Save
    \/ \E a \in Actors : Capture(a)
    \/ \E damaged \in BOOLEAN : Start(damaged)
    \/ Stop

Spec == Init /\ [][Next]_vars

\* Run polls again and again and the table can be opened again and again.
FairSpec == Spec /\ WF_vars(Capture(Collector)) /\ SF_vars(Poll)

-----------------------------------------------------------------------------
(* Properties *)

TypeOK ==
    /\ clock \in Months
    /\ running \in BOOLEAN
    /\ now \in [Actors -> 0..MaxMonth]
    /\ currentMonth \in 0..MaxMonth
    /\ hosts \in [Hosts -> Nat]
    /\ daily \in [Months -> [Hosts -> Nat]]
    /\ disk \in State
    /\ starts \in Nat
    /\ reentered \in BOOLEAN

\* The overview of the month never shows more than the history of that month
\* has, through rollovers in any order, resets, restarts, damaged and version 1
\* files: no byte of another month, or from before a reset, is left in it
\* (ensureMonthLocked, recordUsageLocked, ResetCounters, migrateV1).
HostsWithinMonth ==
    running => \A h \in Hosts : hosts[h] <= daily[currentMonth][h]

\* As long as the month does not go back to one that has traffic, overview and
\* history of the month agree to the byte.
OverviewIsMonth ==
    running /\ ~reentered => \A h \in Hosts : hosts[h] = daily[currentMonth][h]

\* While the daemon runs the history only grows, except for the one month that
\* a manual reset was asked for in (ResetCounters).
HistoryKept ==
    [][running /\ running' =>
         \A m \in Months : \/ \A h \in Hosts : daily[m][h] <= daily'[m][h]
                           \/ m = now[API] /\ now'[API] = 0]_vars

\* A new month is entered in the end, without any traffic and although polls
\* may fail from time to time (ensureMonthLocked in Poll).
MonthEntered ==
    \A m \in Months :
        (running /\ clock = m) ~> (~running \/ currentMonth >= m)
=============================================================================
