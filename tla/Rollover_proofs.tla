--------------------------- MODULE Rollover_proofs ---------------------------
(***************************************************************************)
(* Proofs about Rollover, for every set of hosts and every bound: the      *)
(* overview of the month stays within the history of that month, and       *)
(* agrees with it unless the month went back.                              *)
(***************************************************************************)
EXTENDS Rollover, TLAPS

(* The inductive invariant *)

\* The counters h of month m stay within, or agree with, the history d.
Within(m, h, d) ==
    /\ m = 0 => h = Zero /\ d = NoDays
    /\ m # 0 => \A x \in Hosts : h[x] <= d[m][x]

Agree(m, h, d) == m # 0 => \A x \in Hosts : h[x] = d[m][x]

\* What New makes of the state file.
Saved == Load(disk)

IInv ==
    /\ TypeOK
    /\ running => currentMonth # 0
    /\ running => Within(currentMonth, hosts, daily)
    /\ Within(Saved.month, Saved.hosts, Saved.daily)
    /\ ~reentered =>
         /\ running => Agree(currentMonth, hosts, daily)
         /\ Agree(Saved.month, Saved.hosts, Saved.daily)

-----------------------------------------------------------------------------
(* Lemmas about the operators *)

LEMMA ZeroType ==
    /\ Zero \in [Hosts -> Nat]
    /\ NoDays \in [Months -> [Hosts -> Nat]]
    /\ \A x \in Hosts : Zero[x] = 0
    /\ \A m \in Months : NoDays[m] = Zero
BY DEF Zero, NoDays

LEMMA MonthTypes == MaxMonth \in Nat /\ 1 \in Months /\ Months \subseteq 0..MaxMonth
                    /\ 0 \notin Months
BY BoundsAssumption DEF Months

LEMMA PlusType ==
    ASSUME NEW f \in [Hosts -> Nat], NEW g \in [Hosts -> Nat]
    PROVE  Plus(f, g) \in [Hosts -> Nat]
           /\ \A x \in Hosts : Plus(f, g)[x] = f[x] + g[x]
BY DEF Plus

\* What a version 1 file becomes is a state of the present version.
LEMMA LoadType ==
    ASSUME NEW state \in State
    PROVE  /\ Load(state).month \in 0..MaxMonth
           /\ Load(state).hosts \in [Hosts -> Nat]
           /\ Load(state).daily \in [Months -> [Hosts -> Nat]]
<1>1. CASE state.version # 1
  BY <1>1 DEF Load, State
<1>2. CASE state.version = 1
  <2>1. state.savedAt \in Months /\ state.hosts \in [Hosts -> Nat]
    BY DEF State
  <2>2. /\ Load(state).month = state.savedAt
        /\ Load(state).hosts = state.hosts
        /\ Load(state).daily = [NoDays EXCEPT ![state.savedAt] = state.hosts]
    BY <1>2 DEF Load, migrateV1, State
  <2>3. [NoDays EXCEPT ![state.savedAt] = state.hosts] \in [Months -> [Hosts -> Nat]]
    BY <2>1, ZeroType
  <2> QED
    BY <2>1, <2>2, <2>3, MonthTypes
<1> QED
  BY <1>1, <1>2

\* Rolling over to period and crediting hosts and history alike keeps the
\* overview within the month, and in agreement with it unless the month had
\* traffic already.
LEMMA RollAndCredit ==
    ASSUME NEW m \in 0..MaxMonth, NEW h \in [Hosts -> Nat],
           NEW d \in [Months -> [Hosts -> Nat]], NEW period \in Months,
           Within(m, h, d)
    PROVE  /\ Rolled(m, h, period) \in [Hosts -> Nat]
           /\ \A x \in Hosts : Rolled(m, h, period)[x] <= d[period][x]
           /\ Agree(m, h, d) /\ ~Reenters(m, d, period) =>
                \A x \in Hosts : Rolled(m, h, period)[x] = d[period][x]
<1>1. Rolled(m, h, period) \in [Hosts -> Nat]
  BY ZeroType DEF Rolled
<1>2. d[period] \in [Hosts -> Nat] /\ period # 0
  BY MonthTypes
<1>3. CASE m = 0
  BY <1>2, <1>3, ZeroType DEF Rolled, Within
<1>4. CASE m = period
  BY <1>2, <1>4 DEF Rolled, Within, Agree
<1>5. CASE m \notin {0, period}
  BY <1>2, <1>5, ZeroType DEF Rolled, Reenters
<1> QED
  BY <1>1, <1>3, <1>4, <1>5

-----------------------------------------------------------------------------
(* Initially *)

LEMMA TypeInit == Init => TypeOK
<1> SUFFICES ASSUME Init PROVE TypeOK
  OBVIOUS
<1>1. Empty \in State
  BY ZeroType, MonthTypes DEF Empty, State
<1>2. disk \in State
  <2>1. CASE disk = Empty
    BY <1>1, <2>1
  <2>2. CASE disk \in [version : {1}, month : {0}, hosts : [Hosts -> 0..MaxCredit],
                       daily : {NoDays}, savedAt : {1}]
    <3>1. disk.hosts \in [Hosts -> Nat]
      BY <2>2, BoundsAssumption
    <3> QED
      BY <2>2, <3>1, ZeroType, MonthTypes DEF State
  <2> QED
    BY <2>1, <2>2 DEF Init
<1>3. 0 \in 0..MaxMonth /\ now \in [Actors -> 0..MaxMonth]
  BY MonthTypes DEF Init
<1>4. /\ clock \in Months /\ running \in BOOLEAN /\ currentMonth \in 0..MaxMonth
      /\ starts \in Nat /\ reentered \in BOOLEAN
  BY <1>3, MonthTypes DEF Init
<1>5. hosts \in [Hosts -> Nat] /\ daily \in [Months -> [Hosts -> Nat]]
  BY ZeroType DEF Init
<1> QED
  BY <1>2, <1>3, <1>4, <1>5 DEF TypeOK

LEMMA IInvInit == Init => IInv
<1> SUFFICES ASSUME Init PROVE IInv
  OBVIOUS
<1>1. TypeOK /\ ~running
  BY TypeInit DEF Init
<1>2. Within(Saved.month, Saved.hosts, Saved.daily)
      /\ Agree(Saved.month, Saved.hosts, Saved.daily)
  <2>1. CASE disk = Empty
    <3>1. Saved.month = 0 /\ Saved.hosts = Zero /\ Saved.daily = NoDays
      BY <2>1 DEF Saved, Load, Empty
    <3> QED
      BY <3>1 DEF Within, Agree
  <2>2. CASE disk.version = 1 /\ disk.savedAt = 1
    <3>1. disk.hosts \in [Hosts -> Nat]
      BY <1>1 DEF TypeOK, State
    <3>2. /\ Saved.month = 1 /\ Saved.hosts = disk.hosts
          /\ Saved.daily = [NoDays EXCEPT ![1] = disk.hosts]
      BY <1>1, <2>2 DEF Saved, Load, migrateV1, TypeOK, State
    <3>3. Saved.daily[1] = disk.hosts
      BY <3>2, ZeroType, MonthTypes
    <3> QED
      BY <3>1, <3>2, <3>3 DEF Within, Agree
  <2> QED
    BY <2>1, <2>2 DEF Init
<1> QED
  BY <1>1, <1>2 DEF IInv

-----------------------------------------------------------------------------
(* Every step *)

\* A poll or a destroy event.
LEMMA AccountNext ==
    ASSUME IInv, NEW a \in Actors, NEW credits \in [Hosts -> Nat],
           Account(a, credits)
    PROVE  IInv'
<1> DEFINE period == now[a]
           h == Rolled(currentMonth, hosts, period)
<1>1. TypeOK /\ Within(currentMonth, hosts, daily) /\ running
      /\ now \in [Actors -> 0..MaxMonth] /\ currentMonth \in 0..MaxMonth
      /\ hosts \in [Hosts -> Nat] /\ daily \in [Months -> [Hosts -> Nat]]
  BY DEF IInv, TypeOK, Account
<1>2. period \in Months
  BY <1>1, MonthTypes DEF Account, Months
<1>3. /\ h \in [Hosts -> Nat]
      /\ \A x \in Hosts : h[x] <= daily[period][x]
      /\ Agree(currentMonth, hosts, daily) /\ ~Reenters(currentMonth, daily, period)
           => \A x \in Hosts : h[x] = daily[period][x]
  BY <1>1, <1>2, RollAndCredit
<1>4. /\ currentMonth' = period /\ period # 0
      /\ hosts' = Plus(h, credits)
      /\ daily' = [daily EXCEPT ![period] = Plus(daily[period], credits)]
      /\ reentered' = (reentered \/ Reenters(currentMonth, daily, period))
      /\ now' = [now EXCEPT ![a] = 0]
      /\ UNCHANGED <<clock, running, disk, starts>>
  BY <1>1, <1>2, MonthTypes DEF Account, Entered, recordUsage
<1> HIDE DEF period, h
<1>5. /\ hosts' \in [Hosts -> Nat]
      /\ \A x \in Hosts : hosts'[x] = h[x] + credits[x]
  BY <1>3, <1>4, PlusType
<1>6. /\ daily[period] \in [Hosts -> Nat]
      /\ Plus(daily[period], credits) \in [Hosts -> Nat]
      /\ \A x \in Hosts : Plus(daily[period], credits)[x] = daily[period][x] + credits[x]
  BY <1>1, <1>2, PlusType
<1>7. /\ daily' \in [Months -> [Hosts -> Nat]]
      /\ \A x \in Hosts : daily'[period][x] = daily[period][x] + credits[x]
  BY <1>1, <1>2, <1>4, <1>6
<1>8. \A x \in Hosts : hosts'[x] <= daily'[period][x]
  BY <1>3, <1>5, <1>6, <1>7
<1>9. ~reentered' => \A x \in Hosts : hosts'[x] = daily'[period][x]
  BY <1>1, <1>3, <1>4, <1>5, <1>6, <1>7 DEF IInv
<1>10. TypeOK'
  <2>1. now' \in [Actors -> 0..MaxMonth]
    BY <1>1, <1>4, MonthTypes
  <2>2. reentered' \in BOOLEAN
    BY <1>1, <1>4 DEF TypeOK, Reenters
  <2>3. currentMonth' \in 0..MaxMonth
    BY <1>2, <1>4, MonthTypes
  <2> QED
    BY <1>1, <1>4, <1>5, <1>7, <2>1, <2>2, <2>3 DEF TypeOK
<1>11. Saved' = Saved
  BY <1>4 DEF Saved
<1> QED
  BY <1>4, <1>8, <1>9, <1>10, <1>11 DEF IInv, Within, Agree

LEMMA ResetNext ==
    ASSUME IInv, ResetCounters
    PROVE  IInv'
<1> DEFINE period == now[API]
<1>1. TypeOK /\ API \in Actors /\ period \in Months /\ period # 0
  BY MonthTypes DEF IInv, ResetCounters, TypeOK, Actors, Months
<1>2. /\ currentMonth' = period /\ hosts' = Zero
      /\ daily' = [daily EXCEPT ![period] = Zero]
      /\ reentered' = (reentered \/ Reenters(currentMonth, daily, period))
      /\ now' = [now EXCEPT ![API] = 0]
      /\ UNCHANGED <<clock, running, disk, starts>>
  BY DEF ResetCounters, Entered, Without
<1> HIDE DEF period
<1>3. daily' \in [Months -> [Hosts -> Nat]] /\ daily'[period] = Zero
  BY <1>1, <1>2, ZeroType DEF TypeOK
<1>4. TypeOK'
  <2>1. now' \in [Actors -> 0..MaxMonth]
    BY <1>1, <1>2, MonthTypes DEF TypeOK
  <2>2. reentered' \in BOOLEAN
    BY <1>1, <1>2 DEF TypeOK, Reenters
  <2>3. currentMonth' \in 0..MaxMonth
    BY <1>1, <1>2, MonthTypes
  <2> QED
    BY <1>1, <1>2, <1>3, <2>1, <2>2, <2>3, ZeroType DEF TypeOK
<1>5. Saved' = Saved
  BY <1>2 DEF Saved
<1>6. \A x \in Hosts : hosts'[x] = 0 /\ daily'[currentMonth'][x] = 0
  BY <1>2, <1>3, ZeroType
<1>7. Within(currentMonth, hosts, daily)' /\ Agree(currentMonth, hosts, daily)'
  BY <1>1, <1>2, <1>6 DEF Within, Agree
<1>8. ~reentered' => ~reentered
  BY <1>2
<1> QED
  BY <1>1, <1>2, <1>4, <1>5, <1>7, <1>8 DEF IInv, Within, Agree

LEMMA SaveNext ==
    ASSUME IInv, Save
    PROVE  IInv'
<1>1. TypeOK /\ running /\ currentMonth # 0
  BY DEF IInv, Save
<1>2. /\ disk' = [version |-> 2, month |-> currentMonth, hosts |-> hosts,
                  daily |-> daily, savedAt |-> clock]
      /\ UNCHANGED <<clock, running, now, counters, starts, reentered>>
  BY DEF Save
<1>3. disk' \in State
  BY <1>1, <1>2 DEF TypeOK, State
<1>4. Saved' = disk'
  BY <1>2 DEF Saved, Load
<1>5. TypeOK'
  BY <1>1, <1>2, <1>3 DEF TypeOK, counters
<1> QED
  BY <1>1, <1>2, <1>4, <1>5 DEF IInv, Within, Agree, counters

LEMMA StartNext ==
    ASSUME IInv, NEW damaged \in BOOLEAN, Start(damaged)
    PROVE  IInv'
<1> DEFINE state == IF damaged THEN Empty ELSE Load(disk)
<1>1. TypeOK /\ clock \in Months /\ clock # 0
  BY MonthTypes DEF IInv, TypeOK
<1>2. /\ state.month \in 0..MaxMonth
      /\ state.hosts \in [Hosts -> Nat]
      /\ state.daily \in [Months -> [Hosts -> Nat]]
      /\ Within(state.month, state.hosts, state.daily)
      /\ ~reentered => Agree(state.month, state.hosts, state.daily)
  <2>1. CASE damaged
    BY <2>1, ZeroType, MonthTypes DEF Empty, Within, Agree
  <2>2. CASE ~damaged
    <3>1. state = Saved
      BY <2>2 DEF Saved
    <3>2. disk \in State
      BY <1>1 DEF TypeOK
    <3>3. /\ Saved.month \in 0..MaxMonth
          /\ Saved.hosts \in [Hosts -> Nat]
          /\ Saved.daily \in [Months -> [Hosts -> Nat]]
      BY <3>2, LoadType DEF Saved
    <3> HIDE DEF state
    <3> QED
      BY <3>1, <3>3 DEF IInv
  <2> QED
    BY <2>1, <2>2
<1>3. /\ running' = TRUE /\ starts' = starts + 1
      /\ currentMonth' = clock
      /\ hosts' = Rolled(state.month, state.hosts, clock)
      /\ daily' = state.daily
      /\ reentered' = (reentered \/ Reenters(state.month, state.daily, clock))
      /\ UNCHANGED <<clock, now, disk>>
  BY DEF Start, Entered
<1> HIDE DEF state
<1>4. /\ hosts' \in [Hosts -> Nat]
      /\ \A x \in Hosts : hosts'[x] <= daily'[clock][x]
      /\ ~reentered' => \A x \in Hosts : hosts'[x] = daily'[clock][x]
  <2>1. PICK m \in 0..MaxMonth, h \in [Hosts -> Nat],
             d \in [Months -> [Hosts -> Nat]] :
          m = state.month /\ h = state.hosts /\ d = state.daily
    BY <1>2
  <2>2. /\ Rolled(m, h, clock) \in [Hosts -> Nat]
        /\ \A x \in Hosts : Rolled(m, h, clock)[x] <= d[clock][x]
        /\ Agree(m, h, d) /\ ~Reenters(m, d, clock) =>
             \A x \in Hosts : Rolled(m, h, clock)[x] = d[clock][x]
    BY <1>1, <1>2, <2>1, RollAndCredit
  <2> QED
    BY <1>2, <1>3, <2>1, <2>2
<1>5. TypeOK'
  <2>1. reentered' \in BOOLEAN
    BY <1>1, <1>3 DEF TypeOK, Reenters
  <2> QED
    BY <1>1, <1>2, <1>3, <1>4, <2>1, MonthTypes DEF TypeOK
<1>6. Saved' = Saved
  BY <1>3 DEF Saved
<1> QED
  BY <1>1, <1>3, <1>4, <1>5, <1>6 DEF IInv, Within, Agree

LEMMA IInvNext ==
    ASSUME IInv, [Next]_vars
    PROVE  IInv'
<1>1. ASSUME NEW a \in Actors, NEW credits \in [Hosts -> Nat],
             Account(a, credits)
      PROVE  IInv'
  BY <1>1, AccountNext
<1>2. CASE Poll
  <2>1. PICK credits \in [Hosts -> 0..MaxCredit] : Account(Collector, credits)
    BY <1>2 DEF Poll
  <2>2. credits \in [Hosts -> Nat]
    BY BoundsAssumption
  <2> QED
    BY <1>1, <2>1, <2>2 DEF Actors
<1>3. CASE ApplyDestroy
  <2>1. PICK x \in Hosts, credit \in 0..MaxCredit :
          Account(Listener, [Zero EXCEPT ![x] = credit])
    BY <1>3 DEF ApplyDestroy
  <2>2. [Zero EXCEPT ![x] = credit] \in [Hosts -> Nat]
    BY ZeroType, BoundsAssumption
  <2> QED
    BY <1>1, <2>1, <2>2 DEF Actors
<1>4. CASE ResetCounters
  BY <1>4, ResetNext
<1>5. CASE Save
  BY <1>5, SaveNext
<1>6. ASSUME NEW damaged \in BOOLEAN, Start(damaged) PROVE IInv'
  BY <1>6, StartNext
<1>7. CASE Stop
  <2>1. /\ running' = FALSE /\ now' = [a \in Actors |-> 0]
        /\ currentMonth' = 0 /\ hosts' = Zero /\ daily' = NoDays
        /\ UNCHANGED <<clock, disk, starts, reentered>>
    BY <1>7 DEF Stop
  <2>2. now' \in [Actors -> 0..MaxMonth] /\ currentMonth' \in 0..MaxMonth
    BY <2>1, MonthTypes
  <2>3. TypeOK'
    BY <2>1, <2>2, ZeroType DEF IInv, TypeOK
  <2>4. Saved' = Saved
    BY <2>1 DEF Saved
  <2> QED
    BY <2>1, <2>3, <2>4 DEF IInv, Within, Agree
<1>8. CASE UNCHANGED <<running, counters, disk, reentered>> /\ TypeOK'
  BY <1>8 DEF IInv, Within, Agree, Saved, counters
<1>9. CASE Tick
  <2>1. clock' \in Months
    BY <1>9, BoundsAssumption DEF IInv, TypeOK, Tick, Months
  <2> QED
    BY <1>8, <1>9, <2>1 DEF IInv, TypeOK, Tick, counters
<1>10. ASSUME NEW a \in Actors, Capture(a) PROVE IInv'
  <2>1. now' \in [Actors -> 0..MaxMonth]
    BY <1>10, MonthTypes DEF IInv, TypeOK, Capture
  <2> QED
    BY <1>8, <1>10, <2>1 DEF IInv, TypeOK, Capture, counters
<1>11. CASE PollFails
  <2>1. now' \in [Actors -> 0..MaxMonth]
    <3>1. now \in [Actors -> 0..MaxMonth] /\ now' = [now EXCEPT ![Collector] = 0]
      BY <1>11 DEF IInv, TypeOK, PollFails
    <3>2. Collector \in Actors /\ 0 \in 0..MaxMonth
      BY BoundsAssumption DEF Actors
    <3> QED
      BY <3>1, <3>2
  <2> QED
    BY <1>8, <1>11, <2>1 DEF IInv, TypeOK, PollFails, counters
<1>12. CASE UNCHANGED vars
  BY <1>8, <1>12 DEF IInv, TypeOK, vars, counters
<1> QED
  BY <1>2, <1>3, <1>4, <1>5, <1>6, <1>7, <1>9, <1>10, <1>11, <1>12 DEF Next

-----------------------------------------------------------------------------
(* The theorems *)

LEMMA Invariance == Spec => []IInv
<1>1. Init => IInv
  BY IInvInit
<1>2. IInv /\ [Next]_vars => IInv'
  BY IInvNext
<1> QED
  BY <1>1, <1>2, PTL DEF Spec

\* The overview of the month never shows traffic that the history of the month
\* does not have, whatever the order in which polls, destroy events, resets,
\* restarts and changes of the month take the lock.
THEOREM OverviewWithinHistory == Spec => []HostsWithinMonth
<1>1. IInv => HostsWithinMonth
  BY DEF IInv, Within, HostsWithinMonth
<1> QED
  BY <1>1, Invariance, PTL

\* Overview and history agree to the byte as long as no rollover has gone back
\* to a month with traffic.
THEOREM OverviewAgrees == Spec => []OverviewIsMonth
<1>1. IInv => OverviewIsMonth
  BY DEF IInv, Agree, OverviewIsMonth
<1> QED
  BY <1>1, Invariance, PTL

\* While the daemon runs, only a manual reset removes traffic from the history,
\* and only that of the month it was asked for in.
THEOREM HistoryIsKept == Spec => HistoryKept
<1>1. IInv /\ [Next]_vars =>
        (running /\ running' =>
           \A m \in Months : \/ \A h \in Hosts : daily[m][h] <= daily'[m][h]
                             \/ m = now[API] /\ now'[API] = 0)
  <2> SUFFICES ASSUME IInv, [Next]_vars, running, running', NEW m \in Months
               PROVE  \/ \A h \in Hosts : daily[m][h] <= daily'[m][h]
                      \/ m = now[API] /\ now'[API] = 0
    OBVIOUS
  <2>1. TypeOK /\ daily[m] \in [Hosts -> Nat]
    BY DEF IInv, TypeOK
  <2>2. CASE UNCHANGED daily
    BY <2>1, <2>2
  <2>3. ASSUME NEW a \in Actors, NEW credits \in [Hosts -> Nat],
               Account(a, credits)
        PROVE  \A h \in Hosts : daily[m][h] <= daily'[m][h]
    <3>1. daily' = [daily EXCEPT ![now[a]] = Plus(@, credits)]
      BY <2>3 DEF Account, recordUsage
    <3>2. \A h \in Hosts : Plus(daily[m], credits)[h] = daily[m][h] + credits[h]
      BY <2>1, PlusType
    <3>3. daily'[m] = daily[m] \/ daily'[m] = Plus(daily[m], credits)
      BY <2>1, <3>1 DEF TypeOK
    <3> QED
      BY <2>1, <3>2, <3>3
  <2>4. CASE Poll
    <3>1. PICK credits \in [Hosts -> 0..MaxCredit] : Account(Collector, credits)
      BY <2>4 DEF Poll
    <3>2. credits \in [Hosts -> Nat]
      BY BoundsAssumption
    <3> QED
      BY <2>3, <3>1, <3>2 DEF Actors
  <2>5. CASE ApplyDestroy
    <3>1. PICK x \in Hosts, credit \in 0..MaxCredit :
            Account(Listener, [Zero EXCEPT ![x] = credit])
      BY <2>5 DEF ApplyDestroy
    <3>2. [Zero EXCEPT ![x] = credit] \in [Hosts -> Nat]
      BY ZeroType, BoundsAssumption
    <3> QED
      BY <2>3, <3>1, <3>2 DEF Actors
  <2>6. CASE ResetCounters
    <3>1. /\ daily' = [daily EXCEPT ![now[API]] = Zero]
          /\ now' = [now EXCEPT ![API] = 0]
      BY <2>6 DEF ResetCounters, Without
    <3>2. now'[API] = 0
      BY <2>1, <3>1 DEF TypeOK, Actors
    <3>3. m # now[API] => daily'[m] = daily[m]
      BY <2>1, <3>1 DEF TypeOK
    <3> QED
      BY <2>1, <3>2, <3>3
  <2>7. ~(\E damaged \in BOOLEAN : Start(damaged)) /\ ~Stop
    BY DEF Start, Stop
  <2> QED
    BY <2>2, <2>4, <2>5, <2>6, <2>7
       DEF Next, Tick, PollFails, Save, Capture, counters, vars
<1> QED
  BY <1>1, Invariance, PTL DEF Spec, HistoryKept
=============================================================================
