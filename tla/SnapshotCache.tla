--------------------------- MODULE SnapshotCache ----------------------------
(***************************************************************************)
(* How the HTTP handlers of op-flowd read the tracker while the collector  *)
(* writes it: Snapshot (internal/collector/collector.go), UsageHistory and *)
(* its cache (internal/collector/usage.go), and the writers they compete   *)
(* with, down to the two phases of sync.RWMutex.                           *)
(*                                                                         *)
(* A poll changes the tracker's state as a whole under the write lock.  A  *)
(* handler never waits for it: if TryRLock fails, it answers from a cache. *)
(* Every answer that did get the read lock is stored in the cache, but     *)
(* AFTER the lock was released.                                            *)
(*                                                                         *)
(* The state of the tracker is a version: every change makes a new one.    *)
(* The history cache is modelled for the newest period, which every writer *)
(* changes.                                                                *)
(***************************************************************************)
EXTENDS Naturals, FiniteSets

CONSTANTS
    Readers,             \* handlers of /v1/dashboard, /v1/history, /v1/export
    Collector, Listener, Resetter, \* the goroutines that write the tracker
    None,
    MaxVersion           \* bound: changes of the tracker's state

Writers == {Collector, Listener, Resetter}
Actors == Readers \cup Writers

ASSUME ActorAssumption == None \notin Actors /\ Readers \cap Writers = {}
ASSUME BoundsAssumption == MaxVersion \in Nat

VARIABLES
    version,  \* of the tracker's state
    changing, \* a writer is in the middle of it
    resetAt,  \* version the latest manual reset made
    pc,       \* where each actor is
    want,     \* what each actor reads: a dashboard or a history
    seen,     \* what each actor copied under the read lock, until it stored it
    writer,   \* holder of the mutex among writers, or None: it has locked
              \* mu or keeps new readers out until the present ones are gone
    readers,  \* holders of the read lock
    cache     \* cachedSnapshot and usageCache

lock == <<writer, readers>>
vars == <<version, changing, resetAt, pc, want, seen, lock, cache>>

-----------------------------------------------------------------------------
Kinds == {"dashboard", "history"}

\* A copy of the state is complete unless it was taken in the middle of a
\* change.
Copy == [version : Nat, complete : BOOLEAN]

Now == [version |-> version, complete |-> ~changing]

NoCopy == [version |-> 0, complete |-> TRUE]

\* New has called primeUsageCache and Snapshot.
Init ==
    /\ version = 0
    /\ changing = FALSE
    /\ resetAt = 0
    /\ pc = [a \in Actors |-> "idle"]
    /\ want = [a \in Actors |-> "dashboard"]
    /\ seen = [a \in Actors |-> NoCopy]
    /\ writer = None
    /\ readers = {}
    /\ cache = [k \in Kinds |-> Now]

Goto(a, step) == pc' = [pc EXCEPT ![a] = step]

-----------------------------------------------------------------------------
(* Reading *)

Ask(r) ==
    /\ pc[r] = "idle"
    /\ Goto(r, "ask")
    /\ \E k \in Kinds : want' = [want EXCEPT ![r] = k]
    /\ UNCHANGED <<version, changing, resetAt, seen, lock, cache>>

\* A sync.RWMutex admits no reader while a writer holds it or waits for it.
Admitted == writer = None

\* Faulty variant: the state is read without the lock.
ReadsAnyway(r) == TRUE

\* TryRLock has succeeded.
Reads(r) == Admitted

TryRLock(r) ==
    /\ pc[r] = "ask"
    /\ Reads(r)
    /\ readers' = readers \cup {r}
    /\ Goto(r, "copy")
    /\ UNCHANGED <<version, changing, resetAt, want, seen, writer, cache>>

\* Faulty variant: an answer from the cache is only given while it is current.
FromCurrentCache(r) == ~Admitted /\ cache[want[r]] = Now

\* TryRLock has failed.
FromCache(r) == ~Admitted

\* The cached dashboard or history, or ErrHistoryBusy: the request named no
\* period, or the cache is empty.
Answer(r) ==
    /\ pc[r] = "ask"
    /\ FromCache(r)
    /\ want[r] = "history" \/ cache[want[r]] # None
    /\ Goto(r, "idle")
    /\ want' = [want EXCEPT ![r] = "dashboard"]
    /\ UNCHANGED <<version, changing, resetAt, seen, lock, cache>>

\* Faulty variant: a handler keeps the read lock.
NeverReleased(a) == readers

Released(a) == readers \ {a}

\* snapshotLocked or usageHistoryLocked, and RUnlock.
CopyState(a) ==
    /\ pc[a] = "copy"
    /\ seen' = [seen EXCEPT ![a] = Now]
    /\ readers' = Released(a)
    /\ Goto(a, "store")
    /\ UNCHANGED <<version, changing, resetAt, want, writer, cache>>

\* Faulty variant: what is cached already is left alone.
StoreOnce(a) ==
    /\ pc[a] = "store"
    /\ cache' = [cache EXCEPT ![want[a]] = IF @ = None THEN seen[a] ELSE @]
    /\ Goto(a, "idle")
    /\ want' = [want EXCEPT ![a] = "dashboard"]
    /\ seen' = [seen EXCEPT ![a] = NoCopy]
    /\ UNCHANGED <<version, changing, resetAt, lock>>

\* cachedSnapshot.Store or cacheUsageHistory; the answer is sent.
Store(a) ==
    /\ pc[a] = "store"
    /\ cache' = [cache EXCEPT ![want[a]] = seen[a]]
    /\ Goto(a, "idle")
    /\ want' = [want EXCEPT ![a] = "dashboard"]
    /\ seen' = [seen EXCEPT ![a] = NoCopy]
    /\ UNCHANGED <<version, changing, resetAt, lock>>

-----------------------------------------------------------------------------
(* Writing *)

\* The writers that are about to make a new version.
Writing == {w \in Writers : pc[w] \in {"wait", "drain", "write"}}

\* Poll has parsed the table, a destroy event or the request for a reset has
\* arrived: Lock.
AskLock(w) ==
    /\ pc[w] = "idle"
    /\ version + Cardinality(Writing) < MaxVersion
    /\ Goto(w, "wait")
    /\ UNCHANGED <<version, changing, resetAt, want, seen, lock, cache>>

\* First phase of Lock: no other writer; new readers are kept out.
Announce(w) ==
    /\ pc[w] = "wait"
    /\ writer = None
    /\ writer' = w
    /\ Goto(w, "drain")
    /\ UNCHANGED <<version, changing, resetAt, want, seen, readers, cache>>

\* Second phase: the readers are gone.
Lock(w) ==
    /\ pc[w] = "drain"
    /\ readers = {}
    /\ changing' = TRUE
    /\ Goto(w, "write")
    /\ UNCHANGED <<version, resetAt, want, seen, lock, cache>>

\* What a writer does next: Poll primes the history cache every five seconds,
\* ResetCounters clears it first.
After(w) ==
    CASE w = Collector -> {"idle", "rlock"}
      [] w = Listener -> {"idle"}
      [] w = Resetter -> {"clear"}

\* Unlock, which lets in the readers that RLock has blocked.
Unlock(w) ==
    /\ pc[w] = "write"
    /\ version' = version + 1
    /\ changing' = FALSE
    /\ resetAt' = IF w = Resetter THEN version + 1 ELSE resetAt
    /\ writer' = None
    /\ LET blocked == {a \in Actors : pc[a] = "blocked"} IN
         /\ readers' = readers \cup blocked
         /\ \E step \in After(w) :
              pc' = [a \in Actors |->
                       IF a = w THEN step
                       ELSE IF a \in blocked THEN "copy" ELSE pc[a]]
    /\ UNCHANGED <<want, seen, cache>>

clearUsageCache(w) ==
    /\ pc[w] = "clear"
    /\ cache' = [cache EXCEPT !["history"] = None]
    /\ Goto(w, "rlock")
    /\ UNCHANGED <<version, changing, resetAt, want, seen, lock>>

\* The RLock of primeUsageCache.
RLock(w) ==
    /\ pc[w] = "rlock"
    /\ IF Admitted
       THEN Goto(w, "copy") /\ readers' = readers \cup {w}
       ELSE Goto(w, "blocked") /\ UNCHANGED readers
    /\ want' = [want EXCEPT ![w] = "history"]
    /\ UNCHANGED <<version, changing, resetAt, seen, writer, cache>>

-----------------------------------------------------------------------------
ReaderStep(r) == TryRLock(r) \/ Answer(r) \/ CopyState(r) \/ Store(r)

WriterStep(w) ==
    \/ Announce(w) \/ Lock(w) \/ clearUsageCache(w) \/ RLock(w)
    \/ CopyState(w) \/ Store(w)

Next ==
    \/ \E r \in Readers : Ask(r) \/ ReaderStep(r)
    \/ \E w \in Writers : AskLock(w) \/ WriterStep(w) \/ Unlock(w)

Spec == Init /\ [][Next]_vars

\* Handlers and writers keep running, and the mutex among the writers does not
\* starve one.  Unlock is not assumed: a writer may hold the lock for as long as
\* it likes.
FairSpec ==
    /\ Spec
    /\ \A r \in Readers : WF_vars(ReaderStep(r))
    /\ \A w \in Writers : WF_vars(WriterStep(w)) /\ SF_vars(Announce(w))

-----------------------------------------------------------------------------
(* Properties *)

\* The types, and the exclusion that sync.RWMutex grants.
TypeOK ==
    /\ version \in Nat
    /\ changing \in BOOLEAN
    /\ resetAt \in Nat
    /\ pc \in [Actors -> {"idle", "ask", "copy", "store", "wait", "drain",
                          "write", "clear", "rlock", "blocked"}]
    /\ want \in [Actors -> Kinds]
    /\ seen \in [Actors -> Copy]
    /\ writer \in Writers \cup {None}
    /\ readers = {a \in Actors : pc[a] = "copy"}
    /\ \A w \in Writers : pc[w] \in {"drain", "write"} <=> writer = w
    /\ \A w \in Writers : pc[w] = "write" => readers = {}
    /\ cache \in [Kinds -> Copy \cup {None}]

\* No answer and no cached answer mixes the state before a poll with the state
\* after it, although the copies are stored without a lock (Snapshot).
AnswersComplete ==
    /\ \A a \in Actors : seen[a].complete
    /\ \A k \in Kinds : cache[k] # None => cache[k].complete

\* A handler answers although a poll never lets go of the lock (Snapshot,
\* UsageHistory): no rpcd helper waits behind a writer.
ReadersAnswer == \A r \in Readers : pc[r] = "ask" ~> pc[r] = "idle"

\* Readers that come again and again do not keep the collector from its poll,
\* nor do the other writers, provided that they release the lock again and again
\* (sync.RWMutex).
CollectorAdmitted ==
    []<>(\A w \in Writers : pc[w] # "write") =>
        (pc[Collector] = "wait" ~> pc[Collector] = "write")

\* A manual reset reaches the overview and the histories: copies from before it,
\* which a handler that read before it may store after it, are gone from a cache
\* for good once handlers have read again and again (ResetCounters, Snapshot,
\* cacheUsageHistory).
ResetReachesCaches ==
    \A k \in Kinds :
        []<>(\E r \in Readers : pc[r] = "store" /\ want[r] = k) =>
            <>[](cache[k] # None => cache[k].version >= resetAt)
=============================================================================
