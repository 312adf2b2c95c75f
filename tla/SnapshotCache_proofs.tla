------------------------ MODULE SnapshotCache_proofs ------------------------
(***************************************************************************)
(* Proofs about SnapshotCache: the exclusion of readers and writers, and   *)
(* that no handler ever answers with half of a poll.                       *)
(*                                                                         *)
(* A copy is complete if it was taken while no writer was in the middle of *)
(* its change.  That is so because changing is set exactly while some      *)
(* writer is at "write", and then the exclusion leaves nobody at "copy".   *)
(***************************************************************************)
EXTENDS SnapshotCache, TLAPS

Steps == {"idle", "ask", "copy", "store", "wait", "drain", "write", "clear",
          "rlock", "blocked"}

\* The state is in the middle of a change exactly while a writer is at it.
ChangingIsWriting == changing <=> \E w \in Writers : pc[w] = "write"

-----------------------------------------------------------------------------
LEMMA ActorFacts ==
    /\ Writers \subseteq Actors
    /\ Readers \subseteq Actors
    /\ None \notin Writers
    /\ \A r \in Readers : r \notin Writers
BY ActorAssumption DEF Actors

\* What each step has to keep: the places, the exclusion, and the data.
Exclusion ==
    /\ pc \in [Actors -> Steps]
    /\ writer \in Writers \cup {None}
    /\ readers = {a \in Actors : pc[a] = "copy"}
    /\ \A w \in Writers : pc[w] \in {"drain", "write"} <=> writer = w
    /\ \A w \in Writers : pc[w] = "write" => readers = {}
    /\ ChangingIsWriting

Data ==
    /\ version \in Nat
    /\ changing \in BOOLEAN
    /\ resetAt \in Nat
    /\ want \in [Actors -> Kinds]
    /\ seen \in [Actors -> Copy]
    /\ cache \in [Kinds -> Copy \cup {None}]

LEMMA Parts == TypeOK /\ ChangingIsWriting <=> Exclusion /\ Data
BY DEF TypeOK, Exclusion, Data, Steps

\* While anyone holds the read lock nothing changes, so that a copy is complete.
LEMMA CopyComplete ==
    ASSUME Exclusion, Data, NEW a \in Actors, pc[a] = "copy"
    PROVE  Now \in Copy /\ Now.complete
<1>1. a \in readers
  BY DEF Exclusion
<1>2. ~changing
  BY <1>1 DEF Exclusion, ChangingIsWriting
<1> QED
  BY <1>2 DEF Now, Copy, Data

LEMMA InitInv == Init => Exclusion /\ Data /\ AnswersComplete
<1> SUFFICES ASSUME Init PROVE Exclusion /\ Data /\ AnswersComplete
  OBVIOUS
<1>1. \A a \in Actors : pc[a] = "idle" /\ seen[a] = NoCopy
  BY DEF Init
<1>2. Exclusion
  BY <1>1, ActorFacts DEF Init, Exclusion, Steps, ChangingIsWriting
<1>3. Now = NoCopy /\ NoCopy \in Copy /\ NoCopy.complete
  BY DEF Init, Now, NoCopy, Copy
<1>4. Data
  BY <1>3 DEF Init, Data, Kinds
<1>5. AnswersComplete
  BY <1>1, <1>3 DEF Init, AnswersComplete
<1> QED
  BY <1>2, <1>4, <1>5

\* An actor that moves between places without a lock disturbs no exclusion.
LEMMA Moves ==
    ASSUME Exclusion, NEW a \in Actors, NEW s \in Steps,
           pc' = [pc EXCEPT ![a] = s],
           pc[a] \notin {"copy", "drain", "write"},
           s \notin {"copy", "drain", "write"},
           UNCHANGED <<lock, changing>>
    PROVE  Exclusion'
<1> USE ActorFacts DEF lock
<1>1. pc \in [Actors -> Steps] /\ pc' \in [Actors -> Steps]
  BY DEF Exclusion, Steps
<1>2. \A b \in Actors : pc'[b] = IF b = a THEN s ELSE pc[b]
  BY <1>1
<1>3. \A b \in Actors : \A t \in {"copy", "drain", "write"} :
          pc'[b] = t <=> pc[b] = t
  BY <1>2
<1>4. readers' = {b \in Actors : pc'[b] = "copy"}
  BY <1>3 DEF Exclusion
<1>5. \A w \in Writers : pc'[w] \in {"drain", "write"} <=> writer' = w
  BY <1>3 DEF Exclusion
<1>6. \A w \in Writers : pc'[w] = "write" => readers' = {}
  BY <1>3 DEF Exclusion
<1>7. ChangingIsWriting'
  BY <1>3 DEF ChangingIsWriting, Exclusion
<1> QED
  BY <1>1, <1>4, <1>5, <1>6, <1>7 DEF Exclusion

\* An actor takes the read lock while no writer has announced itself.
LEMMA Enters ==
    ASSUME Exclusion, NEW a \in Actors,
           pc' = [pc EXCEPT ![a] = "copy"],
           writer = None,
           readers' = readers \cup {a},
           UNCHANGED <<writer, changing>>
    PROVE  Exclusion'
<1> USE ActorFacts
<1>1. pc \in [Actors -> Steps] /\ pc' \in [Actors -> Steps]
  BY DEF Exclusion, Steps
<1>2. \A b \in Actors : pc'[b] = IF b = a THEN "copy" ELSE pc[b]
  BY <1>1
<1>3. \A w \in Writers : pc[w] \notin {"drain", "write"}
  BY DEF Exclusion
<1>4. \A w \in Writers : pc'[w] \notin {"drain", "write"}
  BY <1>2, <1>3
<1>5. readers' = {b \in Actors : pc'[b] = "copy"}
  BY <1>2 DEF Exclusion
<1>6. ChangingIsWriting'
  BY <1>3, <1>4 DEF Exclusion, ChangingIsWriting
<1> QED
  BY <1>1, <1>4, <1>5, <1>6 DEF Exclusion

\* An actor gives the read lock back.
LEMMA Leaves ==
    ASSUME Exclusion, NEW a \in Actors,
           pc[a] = "copy",
           pc' = [pc EXCEPT ![a] = "store"],
           readers' = readers \ {a},
           UNCHANGED <<writer, changing>>
    PROVE  Exclusion'
<1> USE ActorFacts
<1>1. pc \in [Actors -> Steps] /\ pc' \in [Actors -> Steps]
  BY DEF Exclusion, Steps
<1>2. \A b \in Actors : pc'[b] = IF b = a THEN "store" ELSE pc[b]
  BY <1>1
<1>3. \A b \in Actors : \A t \in {"drain", "write"} : pc'[b] = t <=> pc[b] = t
  BY <1>2
<1>4. readers' = {b \in Actors : pc'[b] = "copy"}
  BY <1>2 DEF Exclusion
<1>5. \A w \in Writers : pc'[w] \in {"drain", "write"} <=> writer' = w
  BY <1>3 DEF Exclusion
<1>6. \A w \in Writers : pc'[w] # "write"
  BY <1>3 DEF Exclusion
<1>7. ChangingIsWriting'
  BY <1>3 DEF ChangingIsWriting, Exclusion
<1> QED
  BY <1>1, <1>4, <1>5, <1>6, <1>7 DEF Exclusion

\* A writer announces itself: from here on nobody enters.
LEMMA Announces ==
    ASSUME Exclusion, NEW w \in Writers,
           writer = None, writer' = w,
           pc[w] = "wait",
           pc' = [pc EXCEPT ![w] = "drain"],
           UNCHANGED <<readers, changing>>
    PROVE  Exclusion'
<1> USE ActorFacts
<1>1. pc \in [Actors -> Steps] /\ pc' \in [Actors -> Steps]
  BY DEF Exclusion, Steps
<1>2. \A b \in Actors : pc'[b] = IF b = w THEN "drain" ELSE pc[b]
  BY <1>1
<1>3. \A v \in Writers : pc[v] \notin {"drain", "write"}
  BY DEF Exclusion
<1>4. readers' = {b \in Actors : pc'[b] = "copy"}
  BY <1>2 DEF Exclusion
<1>5. \A v \in Writers : pc'[v] \in {"drain", "write"} <=> writer' = v
  BY <1>2, <1>3
<1>6. \A v \in Writers : pc'[v] # "write"
  BY <1>2, <1>3
<1>7. ChangingIsWriting'
  BY <1>3, <1>6 DEF ChangingIsWriting, Exclusion
<1> QED
  BY <1>1, <1>4, <1>5, <1>6, <1>7 DEF Exclusion

\* The announced writer starts its change once the readers are gone.
LEMMA Locks ==
    ASSUME Exclusion, NEW w \in Writers,
           pc[w] = "drain", readers = {},
           changing' = TRUE,
           pc' = [pc EXCEPT ![w] = "write"],
           UNCHANGED lock
    PROVE  Exclusion'
<1> USE ActorFacts DEF lock
<1>1. pc \in [Actors -> Steps] /\ pc' \in [Actors -> Steps]
  BY DEF Exclusion, Steps
<1>2. \A b \in Actors : pc'[b] = IF b = w THEN "write" ELSE pc[b]
  BY <1>1
<1>3. readers' = {b \in Actors : pc'[b] = "copy"}
  BY <1>2 DEF Exclusion
<1>4. \A v \in Writers : pc'[v] \in {"drain", "write"} <=> writer' = v
  BY <1>2 DEF Exclusion
<1>5. ChangingIsWriting'
  BY <1>2 DEF ChangingIsWriting
<1> QED
  BY <1>1, <1>3, <1>4, <1>5 DEF Exclusion

\* The writer ends its change, and everyone whom RLock has blocked enters.
LEMMA Unlocks ==
    ASSUME Exclusion, NEW w \in Writers, Unlock(w)
    PROVE  Exclusion'
<1> USE ActorFacts
<1> DEFINE blocked == {a \in Actors : pc[a] = "blocked"}
<1>1. PICK step \in After(w) :
          pc' = [a \in Actors |->
                   IF a = w THEN step
                   ELSE IF a \in blocked THEN "copy" ELSE pc[a]]
  BY DEF Unlock
<1>2. step \in {"idle", "rlock", "clear"}
  BY <1>1 DEF After, Writers
<1>3. /\ pc[w] = "write"
      /\ writer' = None
      /\ changing' = FALSE
      /\ readers' = readers \cup blocked
  BY DEF Unlock
<1>4. pc \in [Actors -> Steps] /\ writer = w /\ readers = {}
  BY <1>3 DEF Exclusion
<1>5. \A a \in Actors :
          pc'[a] = IF a = w THEN step
                   ELSE IF pc[a] = "blocked" THEN "copy" ELSE pc[a]
  BY <1>1
<1>6. pc' \in [Actors -> Steps]
  BY <1>1, <1>2, <1>4 DEF Steps
<1>7. \A v \in Writers : pc'[v] \notin {"drain", "write"}
  BY <1>2, <1>4, <1>5 DEF Exclusion
<1>8. readers' = {a \in Actors : pc'[a] = "copy"}
  <2>1. \A a \in Actors : pc[a] # "copy"
    BY <1>4 DEF Exclusion
  <2>2. \A a \in Actors : pc'[a] = "copy" <=> pc[a] = "blocked"
    BY <1>2, <1>3, <1>5, <2>1
  <2> QED
    BY <1>3, <1>4, <2>2
<1>9. ChangingIsWriting'
  BY <1>3, <1>7 DEF ChangingIsWriting
<1> QED
  BY <1>3, <1>6, <1>7, <1>8, <1>9 DEF Exclusion

-----------------------------------------------------------------------------
\* What an actor may do, whoever it is.
Step(a) ==
    \/ Ask(a) \/ TryRLock(a) \/ Answer(a) \/ CopyState(a) \/ Store(a)
    \/ a \in Writers /\ \/ AskLock(a) \/ Announce(a) \/ Lock(a)
                        \/ clearUsageCache(a) \/ RLock(a) \/ Unlock(a)

LEMMA NextIsStep == Next => \E a \in Actors : Step(a)
BY ActorFacts DEF Next, Step, ReaderStep, WriterStep

LEMMA ExclusionKept ==
    ASSUME Exclusion, NEW a \in Actors, Step(a)
    PROVE  Exclusion'
<1>1. CASE Ask(a)
  BY <1>1, Moves DEF Ask, Goto, Steps
<1>2. CASE TryRLock(a)
  BY <1>2, Enters DEF TryRLock, Reads, Admitted, Goto
<1>3. CASE Answer(a)
  BY <1>3, Moves DEF Answer, Goto, Steps
<1>4. CASE CopyState(a)
  BY <1>4, Leaves DEF CopyState, Released, Goto
<1>5. CASE Store(a)
  BY <1>5, Moves DEF Store, Goto, Steps
<1>6. CASE AskLock(a)
  BY <1>6, Moves DEF AskLock, Goto, Steps
<1>7. CASE a \in Writers /\ Announce(a)
  BY <1>7, Announces DEF Announce, Goto
<1>8. CASE a \in Writers /\ Lock(a)
  BY <1>8, Locks DEF Lock, Goto
<1>9. CASE clearUsageCache(a)
  BY <1>9, Moves DEF clearUsageCache, Goto, Steps
<1>10. CASE RLock(a)
  <2>1. CASE Admitted
    BY <1>10, <2>1, Enters DEF RLock, Admitted, Goto
  <2>2. CASE ~Admitted
    BY <1>10, <2>2, Moves DEF RLock, Goto, Steps, lock
  <2> QED
    BY <2>1, <2>2
<1>11. CASE a \in Writers /\ Unlock(a)
  BY <1>11, Unlocks
<1> QED
  BY <1>1, <1>2, <1>3, <1>4, <1>5, <1>6, <1>7, <1>8, <1>9, <1>10, <1>11
     DEF Step

\* A copy enters at CopyState, where it is complete, and goes on to the cache.
LEMMA DataKept ==
    ASSUME Exclusion, Data, AnswersComplete, NEW a \in Actors, Step(a)
    PROVE  Data' /\ AnswersComplete'
<1>1. CASE UNCHANGED <<seen, cache>> /\ UNCHANGED <<version, changing, resetAt>>
  <2>1. want' \in [Actors -> Kinds]
    BY DEF Data, Step, Ask, TryRLock, Answer, CopyState, Store, AskLock,
           Announce, Lock, clearUsageCache, RLock, Unlock, Kinds
  <2> QED
    BY <1>1, <2>1 DEF Data, AnswersComplete
<1>2. CASE CopyState(a)
  <2>1. Now \in Copy /\ Now.complete
    BY <1>2, CopyComplete DEF CopyState
  <2>2. seen' = [seen EXCEPT ![a] = Now]
    BY <1>2 DEF CopyState
  <2>3. seen' \in [Actors -> Copy] /\ \A b \in Actors : seen'[b].complete
    BY <2>1, <2>2 DEF Data, AnswersComplete
  <2> QED
    BY <1>2, <2>3 DEF CopyState, Data, AnswersComplete
<1>3. CASE Store(a)
  <2>1. NoCopy \in Copy /\ NoCopy.complete
    BY DEF NoCopy, Copy
  <2>2. seen' \in [Actors -> Copy] /\ \A b \in Actors : seen'[b].complete
    BY <1>3, <2>1 DEF Store, Data, AnswersComplete
  <2>3. want[a] \in Kinds /\ seen[a] \in Copy /\ seen[a].complete
    BY DEF Data, AnswersComplete
  <2>4. cache' = [cache EXCEPT ![want[a]] = seen[a]]
    BY <1>3 DEF Store
  <2>5. /\ cache' \in [Kinds -> Copy \cup {None}]
        /\ \A k \in Kinds : cache'[k] # None => cache'[k].complete
    BY <2>3, <2>4 DEF Data, AnswersComplete
  <2>6. want' \in [Actors -> Kinds]
    BY <1>3 DEF Store, Data, Kinds
  <2> QED
    BY <1>3, <2>2, <2>5, <2>6 DEF Store, Data, AnswersComplete
<1>4. CASE clearUsageCache(a)
  <2>1. /\ cache' \in [Kinds -> Copy \cup {None}]
        /\ \A k \in Kinds : cache'[k] # None => cache'[k].complete
    BY <1>4 DEF clearUsageCache, Data, AnswersComplete
  <2> QED
    BY <1>4, <2>1 DEF clearUsageCache, Data, AnswersComplete
<1>5. CASE Lock(a)
  BY <1>5 DEF Lock, Data, AnswersComplete
<1>6. CASE Unlock(a)
  <2>1. /\ version' = version + 1
        /\ changing' = FALSE
        /\ resetAt' = version + 1 \/ resetAt' = resetAt
    BY <1>6, Zenon DEF Unlock
  <2>2. version' \in Nat /\ resetAt' \in Nat
    BY <2>1 DEF Data
  <2>3. changing' \in BOOLEAN
    BY <2>1
  <2> QED
    BY <1>6, <2>2, <2>3 DEF Unlock, Data, AnswersComplete
<1> QED
  BY <1>1, <1>2, <1>3, <1>4, <1>5, <1>6
     DEF Step, Ask, TryRLock, Answer, AskLock, Announce, RLock

-----------------------------------------------------------------------------
\* However many handlers run, no answer and no cached answer mixes the state
\* before a poll with the state after it, because nobody holds the read lock
\* while a writer is at its change (Snapshot, UsageHistory, primeUsageCache).
THEOREM NoTornAnswer == Spec => [](TypeOK /\ AnswersComplete)
<1> DEFINE I == Exclusion /\ Data /\ AnswersComplete
<1>1. Init => I
  BY InitInv
<1>2. I /\ [Next]_vars => I'
  <2> SUFFICES ASSUME I, [Next]_vars PROVE I'
    OBVIOUS
  <2>1. CASE Next
    <3>1. PICK a \in Actors : Step(a)
      BY <2>1, NextIsStep
    <3> QED
      BY <3>1, ExclusionKept, DataKept
  <2>2. CASE UNCHANGED vars
    BY <2>2 DEF vars, lock, Exclusion, ChangingIsWriting, Data, AnswersComplete
  <2> QED
    BY <2>1, <2>2
<1>3. I => TypeOK /\ AnswersComplete
  BY Parts
<1> QED
  BY <1>1, <1>2, <1>3, PTL DEF Spec
=============================================================================
