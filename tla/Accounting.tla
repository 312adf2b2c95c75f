----------------------------- MODULE Accounting -----------------------------
(***************************************************************************)
(* The accounting core of op-flowd (internal/collector/collector.go): how  *)
(* the byte counters of conntrack become the cumulative counters of the    *)
(* LAN hosts.                                                              *)
(*                                                                         *)
(* Two goroutines feed the tracker.  The collector reads the conntrack     *)
(* table row by row WITHOUT the tracker's lock (pollFile, Parse), then     *)
(* takes the lock and applies the rows it kept (Poll).  The ctnetlink      *)
(* listener hands over the final counters of every connection the kernel   *)
(* destroys (ApplyDestroy).  Both subtract the baseline the tracker keeps  *)
(* per connection key, and a baseline not refreshed for Retention is       *)
(* forgotten.  The counters and the baselines are saved together, and a    *)
(* restart continues from the last save.                                   *)
(*                                                                         *)
(* One byte counter stands for the two directions, which the code treats   *)
(* alike.  A host's counter is the sum of what its connections contributed *)
(* to it; counted keeps these contributions apart, so that they can be     *)
(* compared with what the kernel forwarded.  Month rollover and manual     *)
(* reset only zero the host counters and are the subject of Rollover.      *)
(***************************************************************************)
EXTENDS Integers, Sequences

CONSTANTS
    Conns,          \* conntrack tuples
    KeyOf,          \* Connection.Key(): the baseline key of a tuple
    LegacyOf,       \* Connection.LegacyKey(): its key in r10 state files
    Retention,      \* baselineRetention(), in clock ticks
    MaxBytes,       \* bound: bytes one incarnation of a tuple carries
    MaxGen,         \* bound: incarnations of a tuple
    MaxTime,        \* bound: clock ticks
    MaxQueue,       \* bound: destroy events waiting in the netlink socket
    MaxDuplicates,  \* bound: destroy events delivered twice
    MaxStarts,      \* bound: starts of the daemon
    MaxLanChanges   \* bound: changes of the discovered LAN prefixes

Keys == {KeyOf[c] : c \in Conns} \cup {LegacyOf[c] : c \in Conns}

ASSUME BoundsAssumption ==
    /\ {Retention, MaxBytes, MaxTime, MaxQueue} \subseteq Nat
    /\ {MaxDuplicates, MaxStarts, MaxLanChanges} \subseteq Nat
    /\ MaxGen \in Nat \ {0}

ASSUME KeyAssumption ==
    /\ KeyOf \in [Conns -> Keys]
    /\ LegacyOf \in [Conns -> Keys]
    /\ \A c, d \in Conns : KeyOf[c] # LegacyOf[d]

VARIABLES
    \* The kernel.
    live,       \* tuples present in the conntrack table
    gen,        \* incarnation of each tuple, 0 before the first
    bytes,      \* byte counter of that incarnation
    queue,      \* destroy events not yet received
    clock,
    \* The tracker.
    phase,      \* "down", "idle", "parse" (table being read), "apply" (locked)
    listener,   \* ListenDestroy: "new", "on" or "off" (it never restarts)
    lan,        \* tuples that classify() attributes to a LAN host
    at,         \* the time pollFile was called with
    unread,     \* tuples whose place in the table the scan has not reached
    rows,       \* parsed rows not yet applied
    polled,     \* ~ lastPoll.IsZero()
    initial,    \* initialPoll of the poll that holds the lock
    observed,   \* keys observed by that poll
    active,     \* baselines; NoBaseline where the map has no entry
    counted,    \* bytes of each tuple in the host counters
    disk,       \* the state file
    \* Bounds and history variables: no action's guard on tracker state
    \* depends on them.
    duplicates, starts, lanChanges,
    base,       \* bytes a tuple carried before each of its incarnations
    mark,       \* newest incarnation older than this run, or whose baseline
                \* has outlived its retention in it
    suspect,    \* tuples that a reading may have credited twice
    lossy       \* tuples some of whose bytes no reading will credit

kernel == <<live, gen, bytes>>
scan == <<at, unread, rows, polled, initial, observed>>
ledger == <<active, counted>>
bounds == <<duplicates, starts, lanChanges>>
history == <<base, mark, suspect, lossy>>
vars == <<kernel, queue, clock, phase, listener, lan, scan, ledger, disk,
          bounds, history>>

-----------------------------------------------------------------------------
(* Data *)

\* A row of the table, or the counters of a destroy event.  The code has no
\* field for the incarnation: it cannot tell a reused tuple from the old one.
Reading == [conn : Conns, gen : 1..MaxGen, bytes : Nat]

\* store.Baseline.  gen, the incarnation the bytes were read from, is history
\* only; gen = 0 is a missing map entry, for which Go returns the zero value.
Baseline == [bytes : Nat, gen : 0..MaxGen, seen : Nat]

NoBaseline == [bytes |-> 0, gen |-> 0, seen |-> 0]

RowOf(c) == [conn |-> c, gen |-> gen[c], bytes |-> bytes[c]]

BaselineOf(r, now) == [bytes |-> r.bytes, gen |-> r.gen, seen |-> now]

\* Bytes a tuple carried up to a position (reading or baseline) of it.
Upto(c, position) == base[c][position.gen] + position.bytes

\* Bytes a tuple carried since the daemon was first started.
Carried(c) == IF gen[c] = 0 THEN 0 ELSE base[c][gen[c]] + bytes[c]

\* connectionBaselineLocked: the current key wins over the legacy one.
Previous(c) ==
    IF active[KeyOf[c]].gen # 0 THEN active[KeyOf[c]] ELSE active[LegacyOf[c]]

Seen(c) == Previous(c).gen # 0

\* connectionBaselineLocked deletes the legacy entry when it falls back to it;
\* the caller then stores the new baseline under the current key.
Rebase(c, baseline) ==
    [k \in Keys |->
        IF k = KeyOf[c] THEN baseline
        ELSE IF k = LegacyOf[c] /\ active[KeyOf[c]].gen = 0 THEN NoBaseline
        ELSE active[k]]

\* Faulty variant: a lower counter is taken for an idle connection.
IdleWhenLower(current, previous, seen) ==
    IF ~seen THEN current ELSE IF current >= previous THEN current - previous ELSE 0

counterDelta(current, previous, seen) ==
    IF seen /\ current >= previous THEN current - previous ELSE current

\* Faulty variant: a connection only counts from its second reading on.
DeltaFromSecond(r, skip) ==
    IF Seen(r.conn) THEN counterDelta(r.bytes, Previous(r.conn).bytes, TRUE) ELSE 0

\* What a reading adds to the host: an unseen row of the first poll only
\* establishes a baseline.  The destroy handler has no such exception.
Delta(r, skip) ==
    IF skip /\ ~Seen(r.conn) THEN 0
    ELSE counterDelta(r.bytes, Previous(r.conn).bytes, Seen(r.conn))

-----------------------------------------------------------------------------
(* History *)

\* The reading is older than the baseline it is compared with.
Stale(r) ==
    LET b == Previous(r.conn) IN
        /\ Seen(r.conn)
        /\ r.gen < b.gen \/ (r.gen = b.gen /\ r.bytes < b.bytes)

\* The whole counter of an incarnation that is older than this run of the
\* daemon, or whose baseline outlived its retention, is credited for want of
\* a baseline.
Recount(r, skip) == ~skip /\ ~Seen(r.conn) /\ r.gen <= mark[r.conn]

\* A reading that cannot credit all that its tuple carried since the baseline:
\* the first poll's exclusion, or a reused tuple that already outgrew the old
\* incarnation's counter.
Truncated(r, skip) ==
    \/ skip /\ ~Seen(r.conn)
    \/ Seen(r.conn) /\ Previous(r.conn).gen # r.gen
                    /\ r.bytes >= Previous(r.conn).bytes
                    /\ Previous(r.conn).bytes > 0

\* The part of Poll's loop and of ApplyDestroy that changes the ledger.
Credit(r, skip, now) ==
    /\ counted' = [counted EXCEPT ![r.conn] = @ + Delta(r, skip)]
    /\ active' = Rebase(r.conn, BaselineOf(r, now))
    /\ suspect' = IF Stale(r) \/ Recount(r, skip)
                  THEN suspect \cup {r.conn} ELSE suspect
    /\ lossy' = IF Truncated(r, skip) THEN lossy \cup {r.conn} ELSE lossy
    /\ UNCHANGED <<base, mark>>

\* The baseline of c was last refreshed more than Retention before the poll.
Outlived(c) == Seen(c) /\ at - Previous(c).seen > Retention

\* Tuples with a destroy event that has not been received.
Awaited == {queue[i].conn : i \in 1..Len(queue)}

\* classify() refuses the connection: it is not a LAN host's.
Ignore(r) ==
    /\ lossy' = lossy \cup {r.conn}
    /\ UNCHANGED <<ledger, base, mark, suspect>>

-----------------------------------------------------------------------------
(* Initial states: the daemon has never run, or the state file is one of   *)
(* release r10, whose baselines are stored under legacy keys.              *)

Init ==
    /\ live \in SUBSET Conns
    /\ gen = [c \in Conns |-> IF c \in live THEN 1 ELSE 0]
    /\ bytes \in [Conns -> 0..MaxBytes]
    /\ \A c \in Conns \ live : bytes[c] = 0
    /\ queue = <<>>
    /\ clock = 0
    /\ phase = "down"
    /\ listener = "off"
    /\ lan \in SUBSET Conns
    /\ at = 0
    /\ unread = {}
    /\ rows = {}
    /\ polled = FALSE
    /\ initial = FALSE
    /\ observed = {}
    /\ active = [k \in Keys |-> NoBaseline]
    /\ counted = [c \in Conns |-> 0]
    /\ \E migrated \in SUBSET live :
         /\ \A c \in migrated, d \in live : LegacyOf[c] = LegacyOf[d] => c = d
         /\ disk = [active |->
                      [k \in Keys |->
                         IF \E c \in migrated : LegacyOf[c] = k
                         THEN LET c == CHOOSE c \in migrated : LegacyOf[c] = k
                              IN BaselineOf(RowOf(c), 0)
                         ELSE NoBaseline],
                    counted |-> counted]
    /\ duplicates = 0
    /\ starts = 0
    /\ lanChanges = 0
    /\ base = [c \in Conns |-> [g \in 1..MaxGen |-> IF g = 1 THEN -bytes[c] ELSE 0]]
    /\ mark = gen
    /\ suspect = {}
    /\ lossy = {}

-----------------------------------------------------------------------------
(* The kernel *)

Open(c) ==
    /\ c \notin live
    /\ gen[c] < MaxGen
    /\ live' = live \cup {c}
    /\ gen' = [gen EXCEPT ![c] = @ + 1]
    /\ bytes' = [bytes EXCEPT ![c] = 0]
    /\ base' = [base EXCEPT ![c][gen[c] + 1] = Carried(c)]
    /\ UNCHANGED <<queue, clock, phase, listener, lan, scan, ledger, disk,
                   bounds, mark, suspect, lossy>>

Transfer(c) ==
    /\ c \in live
    /\ bytes[c] < MaxBytes
    /\ bytes' = [bytes EXCEPT ![c] = @ + 1]
    /\ UNCHANGED <<live, gen, queue, clock, phase, listener, lan, scan, ledger,
                   disk, bounds, history>>

\* The connection is destroyed; the event is queued if the socket is bound.
Close(c) ==
    /\ c \in live
    /\ live' = live \ {c}
    /\ IF listener = "on"
       THEN /\ Len(queue) < MaxQueue
            /\ queue' = Append(queue, RowOf(c))
            /\ UNCHANGED lossy
       ELSE /\ lossy' = lossy \cup {c}
            /\ UNCHANGED queue
    /\ UNCHANGED <<gen, bytes, clock, phase, listener, lan, scan, ledger, disk,
                   bounds, base, mark, suspect>>

Tick ==
    /\ clock < MaxTime
    /\ clock' = clock + 1
    /\ UNCHANGED <<kernel, queue, phase, listener, lan, scan, ledger, disk,
                   bounds, history>>

-----------------------------------------------------------------------------
(* The destroy listener *)

ListenDestroy ==
    /\ phase # "down"
    /\ listener = "new"
    /\ listener' = "on"
    /\ UNCHANGED <<kernel, queue, clock, phase, lan, scan, ledger, disk,
                   bounds, history>>

\* Any error of socket, bind or Recvfrom (a full socket buffer included) ends
\* the listener for good and discards what the socket holds.
ListenerFails ==
    /\ phase # "down"
    /\ listener \in {"new", "on"}
    /\ listener' = "off"
    /\ queue' = <<>>
    /\ lossy' = lossy \cup Awaited
    /\ UNCHANGED <<kernel, clock, phase, lan, scan, ledger, disk, bounds,
                   base, mark, suspect>>

\* Faulty variant: the poll does not release the lock.
LockedSincePoll == phase = "apply" \/ polled

\* A poll holds the tracker's lock.  Everything else the tracker does under its
\* lock is a single step.
Locked == phase = "apply"

\* The handler waits for the lock while a poll applies its rows.
ApplyDestroy(again) ==
    /\ phase # "down" /\ ~Locked
    /\ queue # <<>>
    /\ LET r == Head(queue) IN
         IF r.conn \in lan THEN Credit(r, FALSE, clock) ELSE Ignore(r)
    /\ IF again
       THEN /\ duplicates < MaxDuplicates
            /\ duplicates' = duplicates + 1
            /\ UNCHANGED queue
       ELSE /\ queue' = Tail(queue)
            /\ UNCHANGED duplicates
    /\ UNCHANGED <<kernel, clock, phase, listener, lan, scan, disk, starts,
                   lanChanges>>

-----------------------------------------------------------------------------
(* The collector *)

\* pollFile takes its time from Run, refreshes the LAN prefixes (under the
\* lock, released again), and opens the table.
BeginPoll ==
    /\ phase = "idle"
    /\ phase' = "parse"
    /\ at' = clock
    /\ \/ UNCHANGED <<lan, lanChanges>>
       \/ /\ lanChanges < MaxLanChanges
          /\ lanChanges' = lanChanges + 1
          /\ lan' \in SUBSET Conns \ {lan}
    /\ unread' = Conns
    /\ UNCHANGED <<kernel, queue, clock, listener, rows, polled, initial,
                   observed, ledger, disk, duplicates, starts, history>>

\* os.Open fails: no poll takes place.
OpenFails ==
    /\ phase = "parse"
    /\ unread = Conns
    /\ phase' = "idle"
    /\ unread' = {}
    /\ at' = 0
    /\ UNCHANGED <<kernel, queue, clock, listener, lan, rows, polled, initial,
                   observed, ledger, disk, bounds, history>>

\* Parse reaches the place of c in the table.
ReadRow(c) ==
    /\ phase = "parse"
    /\ c \in unread
    /\ unread' = unread \ {c}
    /\ rows' = IF c \in live THEN rows \cup {RowOf(c)} ELSE rows
    /\ UNCHANGED <<kernel, queue, clock, phase, listener, lan, at, polled,
                   initial, observed, ledger, disk, bounds, history>>

\* Poll takes the lock only now; lastPoll is set for good.
LockPoll ==
    /\ phase = "parse"
    /\ unread = {}
    /\ phase' = "apply"
    /\ initial' = ~polled
    /\ polled' = TRUE
    /\ observed' = {}
    /\ UNCHANGED <<kernel, queue, clock, listener, lan, at, unread, rows,
                   ledger, disk, bounds, history>>

\* One turn of Poll's loop over the parsed connections.
ApplyRow(r) ==
    /\ phase = "apply"
    /\ r \in rows
    /\ rows' = rows \ {r}
    /\ IF r.conn \in lan
       THEN /\ Credit(r, initial, at)
            /\ observed' = observed \cup {KeyOf[r.conn]}
       ELSE /\ Ignore(r)
            /\ UNCHANGED observed
    /\ UNCHANGED <<kernel, queue, clock, phase, listener, lan, at, unread,
                   polled, initial, disk, bounds>>

\* Faulty variants: baselines are forgotten as soon as the row is gone (release
\* r10), or one tick too early.
ForgottenAtOnce(k) == k \notin observed
ForgottenEarly(k) == k \notin observed /\ active[k].seen <= at - Retention

\* The poll did not observe the key, and its baseline is before the cutoff.
Forgotten(k) == k \notin observed /\ active[k].seen < at - Retention

\* After the loop: forget old baselines, unlock.
EndPoll ==
    /\ phase = "apply"
    /\ rows = {}
    /\ phase' = "idle"
    /\ active' = [k \in Keys |->
                    IF Forgotten(k) THEN NoBaseline ELSE active[k]]
    /\ mark' = [c \in Conns |->
                  IF Outlived(c) /\ mark[c] < Previous(c).gen
                  THEN Previous(c).gen ELSE mark[c]]
    /\ observed' = {}
    /\ initial' = FALSE
    /\ at' = 0
    /\ UNCHANGED <<kernel, queue, clock, listener, lan, unread, rows, polled,
                   counted, disk, bounds, base, suspect, lossy>>

-----------------------------------------------------------------------------
(* Persistence and lifecycle *)

\* Save copies hosts and baselines under one read lock; the file is replaced
\* by a rename, so it takes effect as a whole (module StateFile).
Save ==
    /\ phase # "down" /\ ~Locked
    /\ disk' = [active |-> active, counted |-> counted]
    /\ UNCHANGED <<kernel, queue, clock, phase, listener, lan, scan, ledger,
                   bounds, history>>

\* Faulty variant: the counters are not loaded.
LoadedBaselines == [disk EXCEPT !.counted = [c \in Conns |-> 0]]

Loaded == disk

\* New loads the state file; Run and the listener are started afterwards.
Start ==
    /\ phase = "down"
    /\ starts < MaxStarts
    /\ starts' = starts + 1
    /\ phase' = "idle"
    /\ listener' = "new"
    /\ active' = Loaded.active
    /\ counted' = Loaded.counted
    /\ mark' = gen
    /\ UNCHANGED <<kernel, queue, clock, lan, scan, disk, duplicates, lanChanges, base,
                   suspect, lossy>>

\* The state file has a baseline of the incarnation that is open now.
SavedCurrent(c) ==
    disk.active[KeyOf[c]].gen = gen[c] \/ disk.active[LegacyOf[c]].gen = gen[c]

\* The process ends and its memory with it.  A normal shutdown is a Save
\* followed by this step.
Crash ==
    /\ phase # "down"
    /\ phase' = "down"
    /\ listener' = "off"
    /\ queue' = <<>>
    /\ unread' = {}
    /\ rows' = {}
    /\ observed' = {}
    /\ initial' = FALSE
    /\ polled' = FALSE
    /\ at' = 0
    /\ active' = [k \in Keys |-> NoBaseline]
    /\ counted' = [c \in Conns |-> 0]
    /\ lossy' = lossy \cup Awaited
                     \cup {c \in Conns : c \notin live \/ ~SavedCurrent(c)}
    /\ UNCHANGED <<kernel, clock, lan, disk, bounds, base, mark, suspect>>

-----------------------------------------------------------------------------
Kernel == Tick \/ \E c \in Conns : Open(c) \/ Transfer(c) \/ Close(c)

Listener == ListenDestroy \/ ListenerFails \/ ApplyDestroy(FALSE) \/ ApplyDestroy(TRUE)

Collector ==
    \/ BeginPoll \/ OpenFails \/ LockPoll \/ EndPoll
    \/ \E c \in Conns : ReadRow(c)
    \/ \E r \in rows : ApplyRow(r)

Lifecycle == Save \/ Start \/ Crash

Next == Kernel \/ Listener \/ Collector \/ Lifecycle

Spec == Init /\ [][Next]_vars

\* Run's loop keeps going once it has started a poll.  The listener's Lock is
\* granted in the end although polls take the lock again and again: a blocked
\* writer of a sync.RWMutex is not overtaken for ever.
FairSpec ==
    /\ Spec
    /\ WF_vars(\E c \in Conns : ReadRow(c))
    /\ WF_vars(LockPoll)
    /\ WF_vars(\E r \in rows : ApplyRow(r))
    /\ WF_vars(EndPoll)
    /\ SF_vars(ApplyDestroy(FALSE))

-----------------------------------------------------------------------------
(* Properties *)

\* The types of the tracker's state, its lock discipline (rows are applied
\* only under the lock) and the bounds on what the kernel does.
TypeOK ==
    /\ live \in SUBSET Conns
    /\ gen \in [Conns -> 0..MaxGen]
    /\ bytes \in [Conns -> Nat]
    /\ queue \in Seq(Reading)
    /\ clock \in Nat
    /\ phase \in {"down", "idle", "parse", "apply"}
    /\ listener \in {"new", "on", "off"}
    /\ lan \in SUBSET Conns
    /\ at \in Nat
    /\ unread \in SUBSET Conns
    /\ rows \in SUBSET Reading
    /\ polled \in BOOLEAN
    /\ initial \in BOOLEAN
    /\ observed \in SUBSET Keys
    /\ active \in [Keys -> Baseline]
    /\ counted \in [Conns -> Nat]
    /\ disk \in [active : [Keys -> Baseline], counted : [Conns -> Nat]]
    /\ duplicates \in Nat
    /\ starts \in Nat
    /\ lanChanges \in Nat
    /\ base \in [Conns -> [1..MaxGen -> Int]]
    /\ mark \in [Conns -> 0..MaxGen]
    /\ suspect \in SUBSET Conns
    /\ lossy \in SUBSET Conns

\* A host is never credited with more than its connection carried since the
\* daemon was installed, unless a reading was older than the baseline it was
\* compared with, or had lost its baseline: no other interleaving of scans,
\* destroy events, tuple reuse, retention, saves and restarts counts a byte
\* twice (Poll, ApplyDestroy, counterDelta).
NoRecountUnlessSuspect ==
    \A c \in Conns \ suspect : counted[c] <= Carried(c)

\* c has ended, and no destroy event of it waits for the tracker.
Settled(c) == phase # "down" /\ c \notin live /\ c \notin Awaited

\* A connection that has ended and whose destroy event has been applied is
\* counted to the last byte, the bytes after the last poll included, also when
\* its tuple is reused, when a poll still holds a row of it, and when the daemon
\* was restarted while it was open, unless it is one of the named losses (first
\* poll, lost event, not a LAN host, a reused tuple that outgrew the old
\* counter) (ApplyDestroy).
SettledExact ==
    \A c \in Conns \ (suspect \cup lossy) :
        Settled(c) => counted[c] = Carried(c)

\* The counters in the state file never shrink, through saves, crashes and
\* restarts: a run continues from what the previous ones have saved (New, Save).
SavedOnlyGrows == [][\A c \in Conns : disk.counted[c] <= disk'.counted[c]]_vars

\* A destroy event does not wait for ever behind the polls that hold the lock:
\* it is applied, or lost with the listener or the process (ApplyDestroy).
DestroysApplied == \A c \in Conns : c \in Awaited ~> c \notin Awaited

\* A connection that ends while the listener is on is counted to the last byte
\* in the end, unless it is one of the named exceptions (Poll, ApplyDestroy).
EndedIsCounted ==
    \A c \in Conns :
        (c \notin live /\ phase # "down") ~>
            \/ counted[c] = Carried(c)
            \/ c \in suspect \cup lossy \cup live
            \/ phase = "down"

\* One connection read by a scan and finished by a destroy event while that scan
\* waits for the lock is counted once: the scan's row is a stale snapshot that
\* must not count again (the comment on ApplyDestroy).  Connections that had
\* carried bytes before the daemon was installed, and reused tuples, are left out.
StaleRowHarmless ==
    \A c \in Conns :
        gen[c] = 1 /\ base[c][1] = 0 => counted[c] <= Carried(c)
=============================================================================
