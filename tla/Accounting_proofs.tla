-------------------------- MODULE Accounting_proofs --------------------------
(***************************************************************************)
(* Proofs about Accounting, for every set of connections and every bound:  *)
(* type correctness; a host is credited with no more than its connections  *)
(* carried unless a reading was stale or had lost its baseline; a          *)
(* connection that has ended is credited with all of it unless it is one   *)
(* of the named losses; and the saved counters only grow.                  *)
(***************************************************************************)
EXTENDS Accounting, TLAPS

\* Every tuple has a key and a legacy key of its own.
DistinctKeyAssumption ==
    \A c, d \in Conns : c # d => KeyOf[c] # KeyOf[d] /\ LegacyOf[c] # LegacyOf[d]

(* The inductive invariant *)

\* p is a position tuple c went through: an incarnation up to the present one,
\* no further than its counter, and all later incarnations started after it.
Past(c, p) ==
    /\ p.gen \in 1..gen[c]
    /\ p.gen = gen[c] => p.bytes <= bytes[c]
    /\ \A h \in 1..gen[c] : p.gen < h => base[c][p.gen] + p.bytes <= base[c][h]

Opened ==
    /\ \A c \in live : gen[c] # 0
    /\ \A c \in Conns : gen[c] = 0 => bytes[c] = 0

ReadingsPast ==
    /\ \A i \in 1..Len(queue) : Past(queue[i].conn, queue[i])
    /\ \A r \in rows : Past(r.conn, r)

\* A ledger (the tracker's, or the one on disk) in which c has at most one
\* baseline, of a past position.
BaselinesPast(baselines) ==
    \A c \in Conns :
        /\ baselines[KeyOf[c]].gen = 0 \/ baselines[LegacyOf[c]].gen = 0
        /\ \A k \in {KeyOf[c], LegacyOf[c]} :
             baselines[k].gen # 0 => Past(c, baselines[k])

\* What is credited to c was carried up to the position of its baseline.
Covered(c, credit, baselines) ==
    \A k \in {KeyOf[c], LegacyOf[c]} :
        baselines[k].gen # 0 =>
            credit[c] <= base[c][baselines[k].gen] + baselines[k].bytes

\* Without a baseline, nothing that c carries in an incarnation not yet
\* accounted for has been credited.
Uncredited(c) ==
    ~Seen(c) =>
        /\ phase # "down" =>
             \A g \in 1..gen[c] : mark[c] < g => counted[c] <= base[c][g]
        /\ (~polled \/ initial) =>
             \A r \in rows : r.conn = c => counted[c] <= Upto(c, r)

LockInv ==
    /\ initial => phase = "apply"
    /\ phase \in {"down", "idle"} => rows = {}
    /\ phase = "parse" => \A r \in rows : r.conn \notin unread

\* The part of the invariant that a suspect tuple may break.
Honest(c) ==
    /\ counted[c] <= Carried(c)
    /\ disk.counted[c] <= Carried(c)
    /\ Covered(c, counted, active)
    /\ Covered(c, disk.counted, disk.active)
    /\ Uncredited(c)

IInv ==
    /\ TypeOK
    /\ Opened
    /\ ReadingsPast
    /\ BaselinesPast(active)
    /\ BaselinesPast(disk.active)
    /\ LockInv
    /\ \A c \in Conns \ suspect : Honest(c)

-----------------------------------------------------------------------------
(* Lemmas about the operators *)

LEMMA BoundTypes ==
    MaxBytes \in Nat /\ Retention \in Nat /\ MaxGen \in Nat /\ 1 \in 1..MaxGen
BY BoundsAssumption

LEMMA KeyFacts ==
    ASSUME NEW c \in Conns
    PROVE  KeyOf[c] \in Keys /\ LegacyOf[c] \in Keys /\ KeyOf[c] # LegacyOf[c]
BY KeyAssumption DEF Keys

LEMMA NoBaselineType == NoBaseline \in Baseline
BY BoundsAssumption DEF NoBaseline, Baseline

\* The baseline a connection is compared with is a baseline.
LEMMA PreviousType ==
    ASSUME TypeOK, NEW c \in Conns
    PROVE  Previous(c) \in Baseline
BY KeyFacts DEF TypeOK, Previous

\* A reading credits a non-negative amount, and none beyond its own counter.
LEMMA DeltaType ==
    ASSUME TypeOK, NEW r \in Reading, NEW skip \in BOOLEAN
    PROVE  Delta(r, skip) \in Nat /\ Delta(r, skip) <= r.bytes
<1>1. Previous(r.conn) \in Baseline
  BY PreviousType DEF Reading
<1>2. Previous(r.conn).bytes \in Nat /\ r.bytes \in Nat
  BY <1>1 DEF Baseline, Reading
<1> QED
  BY <1>2 DEF Delta, counterDelta

LEMMA RebaseType ==
    ASSUME TypeOK, NEW c \in Conns, NEW b \in Baseline
    PROVE  Rebase(c, b) \in [Keys -> Baseline]
BY NoBaselineType DEF TypeOK, Rebase

LEMMA BaselineOfType ==
    ASSUME NEW r \in Reading, NEW now \in Nat
    PROVE  BaselineOf(r, now) \in Baseline
BY BoundsAssumption DEF BaselineOf, Reading, Baseline

\* Crediting a reading keeps the types of what it changes.
LEMMA CreditType ==
    ASSUME TypeOK, NEW r \in Reading, NEW skip \in BOOLEAN, NEW now \in Nat,
           Credit(r, skip, now)
    PROVE  /\ active' \in [Keys -> Baseline]
           /\ counted' \in [Conns -> Nat]
           /\ base' = base /\ mark' = mark
           /\ suspect' \in SUBSET Conns
           /\ lossy' \in SUBSET Conns
<1>1. r.conn \in Conns
  BY DEF Reading
<1>2. active' \in [Keys -> Baseline]
  BY <1>1, RebaseType, BaselineOfType DEF Credit
<1>3. counted' \in [Conns -> Nat]
  <2>1. Delta(r, skip) \in Nat
    BY DeltaType
  <2>2. counted' = [counted EXCEPT ![r.conn] = @ + Delta(r, skip)]
    BY DEF Credit
  <2> QED
    BY <1>1, <2>1, <2>2 DEF TypeOK
<1> QED
  BY <1>1, <1>2, <1>3 DEF Credit, TypeOK

LEMMA IgnoreType ==
    ASSUME TypeOK, NEW r \in Reading, Ignore(r)
    PROVE  /\ active' \in [Keys -> Baseline]
           /\ counted' \in [Conns -> Nat]
           /\ base' = base /\ mark' = mark
           /\ suspect' \in SUBSET Conns
           /\ lossy' \in SUBSET Conns
BY DEF Ignore, ledger, TypeOK, Reading

\* What the table holds of a tuple that is open is a reading.
LEMMA RowType ==
    ASSUME TypeOK, Opened, NEW c \in live
    PROVE  RowOf(c) \in Reading
BY DEF RowOf, Reading, TypeOK, Opened

LEMMA CarriedType ==
    ASSUME TypeOK, NEW c \in Conns
    PROVE  Carried(c) \in Int
BY BoundsAssumption, SMTT(30) DEF TypeOK, Carried

\* The position of a reading, in bytes.
LEMMA UptoType ==
    ASSUME TypeOK, NEW r \in Reading
    PROVE  /\ Upto(r.conn, r) = base[r.conn][r.gen] + r.bytes
           /\ Upto(r.conn, r) \in Int
<1>1. r.conn \in Conns /\ r.gen \in 1..MaxGen /\ r.bytes \in Nat
  BY DEF Reading
<1>2. base[r.conn] \in [1..MaxGen -> Int]
  BY <1>1 DEF TypeOK
<1>3. base[r.conn][r.gen] \in Int
  BY <1>1, <1>2
<1> QED
  BY <1>1, <1>3 DEF Upto

LEMMA HeadTail ==
    ASSUME NEW S, NEW q \in Seq(S), q # <<>>
    PROVE  Head(q) \in S /\ Tail(q) \in Seq(S) /\ Head(q) = q[1]
           /\ Len(q) >= 1
           /\ \A i \in 1..Len(Tail(q)) : i + 1 \in 1..Len(q) /\ Tail(q)[i] = q[i + 1]
OBVIOUS

LEMMA AppendType ==
    ASSUME NEW S, NEW q \in Seq(S), NEW e \in S
    PROVE  /\ Append(q, e) \in Seq(S)
           /\ Len(Append(q, e)) = Len(q) + 1
           /\ \A i \in 1..Len(q) : Append(q, e)[i] = q[i]
           /\ Append(q, e)[Len(q) + 1] = e
OBVIOUS

LEMMA ElementType ==
    ASSUME NEW S, NEW q \in Seq(S), NEW i \in 1..Len(q)
    PROVE  q[i] \in S
OBVIOUS

LEMMA AwaitedType ==
    ASSUME TypeOK
    PROVE  Awaited \in SUBSET Conns
<1>1. ASSUME NEW i \in 1..Len(queue) PROVE queue[i].conn \in Conns
  <2>1. queue[i] \in Reading
    BY ElementType DEF TypeOK
  <2> QED
    BY <2>1 DEF Reading
<1> QED
  BY <1>1 DEF Awaited

-----------------------------------------------------------------------------
(* Type correctness *)

LEMMA TypeInit == Init => TypeOK /\ Opened
<1> SUFFICES ASSUME Init PROVE TypeOK /\ Opened
  OBVIOUS
<1>1. /\ live \in SUBSET Conns
      /\ gen \in [Conns -> 0..MaxGen]
      /\ bytes \in [Conns -> Nat]
      /\ \A c \in live : gen[c] = 1
      /\ \A c \in Conns : gen[c] = 0 => bytes[c] = 0
  <2>1. live \in SUBSET Conns /\ gen = [c \in Conns |-> IF c \in live THEN 1 ELSE 0]
    BY DEF Init
  <2>2. bytes \in [Conns -> 0..MaxBytes] /\ \A c \in Conns \ live : bytes[c] = 0
    BY DEF Init
  <2>3. gen \in [Conns -> 0..MaxGen]
    BY <2>1, BoundTypes
  <2>4. bytes \in [Conns -> Nat]
    BY <2>2, BoundTypes
  <2> QED
    <3>1. \A c \in live : gen[c] = 1
      BY <2>1
    <3>2. \A c \in Conns : gen[c] = 0 => bytes[c] = 0
      BY <2>1, <2>2
    <3> QED
      BY <2>1, <2>3, <2>4, <3>1, <3>2
<1>2. counted \in [Conns -> Nat] /\ active \in [Keys -> Baseline]
  BY NoBaselineType DEF Init
<1>3. disk \in [active : [Keys -> Baseline], counted : [Conns -> Nat]]
  <2>1. PICK migrated \in SUBSET live :
          disk = [active |->
                   [k \in Keys |->
                      IF \E c \in migrated : LegacyOf[c] = k
                      THEN LET c == CHOOSE c \in migrated : LegacyOf[c] = k
                           IN BaselineOf(RowOf(c), 0)
                      ELSE NoBaseline],
                  counted |-> counted]
    BY DEF Init
  <2>2. ASSUME NEW c \in live PROVE BaselineOf(RowOf(c), 0) \in Baseline
    BY <1>1, BoundsAssumption DEF BaselineOf, RowOf, Baseline
  <2> DEFINE legacy(k) == CHOOSE c \in migrated : LegacyOf[c] = k
  <2>3. ASSUME NEW k \in Keys, \E c \in migrated : LegacyOf[c] = k
        PROVE  BaselineOf(RowOf(legacy(k)), 0) \in Baseline
    BY <2>2, <2>3
  <2> QED
    BY <1>2, <2>1, <2>3, NoBaselineType
<1>4. base \in [Conns -> [1..MaxGen -> Int]]
  <2>1. base = [c \in Conns |->
                  [g \in 1..MaxGen |-> IF g = 1 THEN -bytes[c] ELSE 0]]
    BY DEF Init
  <2>2. ASSUME NEW c \in Conns PROVE -bytes[c] \in Int
    BY <1>1
  <2> QED
    BY <2>1, <2>2
<1>5. queue \in Seq(Reading)
  BY DEF Init
<1>6. mark \in [Conns -> 0..MaxGen]
  BY <1>1 DEF Init
<1>7. /\ clock \in Nat /\ phase \in {"down", "idle", "parse", "apply"}
      /\ listener \in {"new", "on", "off"} /\ lan \in SUBSET Conns
      /\ at \in Nat /\ unread \in SUBSET Conns /\ rows \in SUBSET Reading
      /\ polled \in BOOLEAN /\ initial \in BOOLEAN /\ observed \in SUBSET Keys
      /\ duplicates \in Nat /\ starts \in Nat /\ lanChanges \in Nat
      /\ suspect \in SUBSET Conns /\ lossy \in SUBSET Conns
  BY DEF Init
<1> QED
  BY <1>1, <1>2, <1>3, <1>4, <1>5, <1>6, <1>7 DEF TypeOK, Opened

\* Every step keeps the types.
LEMMA TypeNext ==
    ASSUME TypeOK, Opened, [Next]_vars
    PROVE  TypeOK'
<1> USE DEF kernel, scan, ledger, bounds, history
<1>1. ASSUME NEW c \in Conns, Open(c) PROVE TypeOK'
  <2>1. gen[c] + 1 \in 1..MaxGen
    BY <1>1, BoundTypes DEF Open, TypeOK
  <2>2. gen' \in [Conns -> 0..MaxGen] /\ bytes' \in [Conns -> Nat]
        /\ live' \in SUBSET Conns
    BY <1>1, <2>1 DEF Open, TypeOK
  <2>3. base' \in [Conns -> [1..MaxGen -> Int]]
    BY <1>1, <2>1, CarriedType DEF Open, TypeOK
  <2> QED
    BY <1>1, <2>2, <2>3 DEF Open, TypeOK
<1>2. ASSUME NEW c \in Conns, Transfer(c) PROVE TypeOK'
  BY <1>2 DEF Transfer, TypeOK
<1>3. ASSUME NEW c \in Conns, Close(c) PROVE TypeOK'
  <2>1. RowOf(c) \in Reading
    BY <1>3, RowType DEF Close
  <2>2. queue' \in Seq(Reading)
    <3>1. Append(queue, RowOf(c)) \in Seq(Reading)
      BY <2>1, AppendType DEF TypeOK
    <3> QED
      BY <1>3, <3>1 DEF Close, TypeOK
  <2>3. live' \in SUBSET Conns /\ lossy' \in SUBSET Conns
    BY <1>3 DEF Close, TypeOK
  <2> QED
    BY <1>3, <2>2, <2>3 DEF Close, TypeOK
<1>4. ASSUME Tick PROVE TypeOK'
  BY <1>4 DEF Tick, TypeOK
<1>5. ASSUME ListenDestroy PROVE TypeOK'
  BY <1>5 DEF ListenDestroy, TypeOK
<1>6. Awaited \in SUBSET Conns
  BY AwaitedType
<1>7. ASSUME ListenerFails PROVE TypeOK'
  BY <1>6, <1>7 DEF ListenerFails, TypeOK
<1>8. ASSUME NEW again \in BOOLEAN, ApplyDestroy(again) PROVE TypeOK'
  <2>1. Head(queue) \in Reading /\ Tail(queue) \in Seq(Reading)
    BY <1>8, HeadTail DEF ApplyDestroy, TypeOK
  <2>2. /\ active' \in [Keys -> Baseline]
        /\ counted' \in [Conns -> Nat]
        /\ base' = base /\ mark' = mark
        /\ suspect' \in SUBSET Conns
        /\ lossy' \in SUBSET Conns
    <3>1. clock \in Nat
      BY DEF TypeOK
    <3>2. CASE Head(queue).conn \in lan
      BY <1>8, <2>1, <3>1, <3>2, CreditType DEF ApplyDestroy
    <3>3. CASE Head(queue).conn \notin lan
      BY <1>8, <2>1, <3>3, IgnoreType DEF ApplyDestroy
    <3> QED
      BY <3>2, <3>3
  <2>3. queue' \in Seq(Reading) /\ duplicates' \in Nat
    <3>1. queue' \in Seq(Reading)
      BY <1>8, <2>1 DEF ApplyDestroy, TypeOK
    <3>2. duplicates' \in Nat
      BY <1>8 DEF ApplyDestroy, TypeOK
    <3> QED
      BY <3>1, <3>2
  <2> QED
    BY <1>8, <2>2, <2>3 DEF ApplyDestroy, TypeOK
<1>9. ASSUME BeginPoll PROVE TypeOK'
  <2>1. lan' \in SUBSET Conns /\ lanChanges' \in Nat
    BY <1>9 DEF BeginPoll, TypeOK
  <2> QED
    BY <1>9, <2>1 DEF BeginPoll, TypeOK
<1>10. ASSUME OpenFails PROVE TypeOK'
  BY <1>10 DEF OpenFails, TypeOK
<1>11. ASSUME NEW c \in Conns, ReadRow(c) PROVE TypeOK'
  <2>1. rows' \in SUBSET Reading
    BY <1>11, RowType DEF ReadRow, TypeOK
  <2> QED
    BY <1>11, <2>1 DEF ReadRow, TypeOK
<1>12. ASSUME LockPoll PROVE TypeOK'
  BY <1>12 DEF LockPoll, TypeOK
<1>13. ASSUME NEW r \in rows, ApplyRow(r) PROVE TypeOK'
  <2>1. r \in Reading /\ r.conn \in Conns /\ initial \in BOOLEAN /\ at \in Nat
    BY DEF TypeOK, Reading
  <2>2. /\ active' \in [Keys -> Baseline]
        /\ counted' \in [Conns -> Nat]
        /\ base' = base /\ mark' = mark
        /\ suspect' \in SUBSET Conns
        /\ lossy' \in SUBSET Conns
    <3>1. CASE r.conn \in lan
      BY <1>13, <2>1, <3>1, CreditType DEF ApplyRow
    <3>2. CASE r.conn \notin lan
      BY <1>13, <2>1, <3>2, IgnoreType DEF ApplyRow
    <3> QED
      BY <3>1, <3>2
  <2>3. observed' \in SUBSET Keys
    <3>1. KeyOf[r.conn] \in Keys
      BY <2>1, KeyFacts
    <3> QED
      BY <1>13, <3>1 DEF ApplyRow, TypeOK
  <2> QED
    BY <1>13, <2>2, <2>3 DEF ApplyRow, TypeOK
<1>14. ASSUME EndPoll PROVE TypeOK'
  <2>1. active' \in [Keys -> Baseline]
    BY <1>14, NoBaselineType DEF EndPoll, TypeOK
  <2>2. mark' \in [Conns -> 0..MaxGen]
    <3>1. ASSUME NEW c \in Conns PROVE Previous(c).gen \in 0..MaxGen
      BY PreviousType DEF Baseline
    <3> QED
      BY <1>14, <3>1 DEF EndPoll, TypeOK
  <2> QED
    BY <1>14, <2>1, <2>2 DEF EndPoll, TypeOK
<1>15. ASSUME Save PROVE TypeOK'
  BY <1>15 DEF Save, TypeOK
<1>16. ASSUME Start PROVE TypeOK'
  BY <1>16 DEF Start, Loaded, TypeOK
<1>17. ASSUME Crash PROVE TypeOK'
  <2>1. active' \in [Keys -> Baseline] /\ counted' \in [Conns -> Nat]
    BY <1>17, NoBaselineType DEF Crash
  <2>2. lossy' \in SUBSET Conns
    BY <1>6, <1>17 DEF Crash, TypeOK
  <2>3. queue' \in Seq(Reading) /\ rows' \in SUBSET Reading
    BY <1>17 DEF Crash
  <2> QED
    BY <1>17, <2>1, <2>2, <2>3 DEF Crash, TypeOK
<1>18. ASSUME UNCHANGED vars PROVE TypeOK'
  BY <1>18 DEF vars, TypeOK
<1> QED
  BY <1>1, <1>2, <1>3, <1>4, <1>5, <1>7, <1>8, <1>9, <1>10, <1>11, <1>12,
     <1>13, <1>14, <1>15, <1>16, <1>17, <1>18
     DEF Next, Kernel, Listener, Collector, Lifecycle

LEMMA OpenedNext ==
    ASSUME TypeOK, Opened, [Next]_vars
    PROVE  Opened'
<1> USE DEF kernel, scan, ledger, bounds, history
<1>1. ASSUME NEW c \in Conns, Open(c) PROVE Opened'
  <2>0. /\ gen \in [Conns -> Nat] /\ bytes \in [Conns -> Nat]
        /\ live \in SUBSET Conns
    BY BoundTypes DEF TypeOK
  <2>1. /\ gen' = [gen EXCEPT ![c] = @ + 1]
        /\ bytes' = [bytes EXCEPT ![c] = 0]
        /\ live' = live \cup {c}
    BY <1>1 DEF Open
  <2>2. ASSUME NEW d \in Conns
        PROVE  /\ gen[d] \in Nat /\ gen'[d] \in Nat
               /\ d # c => gen'[d] = gen[d] /\ bytes'[d] = bytes[d]
               /\ d = c => gen'[d] = gen[d] + 1
    <3>1. CASE d = c
      BY <2>0, <2>1, <3>1
    <3>2. CASE d # c
      BY <2>0, <2>1, <3>2
    <3> QED
      BY <3>1, <3>2
  <2>3. \A d \in live' : gen'[d] # 0
    <3>1. ASSUME NEW d \in live' PROVE gen'[d] # 0
      <4>1. CASE d = c
        BY <2>2, <4>1
      <4>2. CASE d # c
        BY <2>0, <2>1, <2>2, <4>2 DEF Opened
      <4> QED
        BY <4>1, <4>2
    <3> QED
      BY <3>1
  <2>5. \A d \in Conns : gen'[d] = 0 => bytes'[d] = 0
    BY <2>2 DEF Opened
  <2> QED
    BY <2>3, <2>5 DEF Opened
<1>2. ASSUME NEW c \in Conns, Transfer(c) PROVE Opened'
  BY <1>2 DEF Transfer, Opened, TypeOK
<1>3. ASSUME NEW c \in Conns, Close(c) PROVE Opened'
  BY <1>3 DEF Close, Opened
<1>4. CASE UNCHANGED kernel
  BY <1>4 DEF Opened
<1> QED
  BY <1>1, <1>2, <1>3, <1>4
     DEF Next, Kernel, Listener, Collector, Lifecycle, Tick, ListenDestroy,
         ListenerFails, ApplyDestroy, BeginPoll, OpenFails, ReadRow, LockPoll,
         ApplyRow, EndPoll, Save, Start, Crash, vars

\* The tracker's state has the declared types in every reachable state.
THEOREM TypeCorrect == Spec => [](TypeOK /\ Opened)
<1>1. Init => TypeOK /\ Opened
  BY TypeInit
<1>2. TypeOK /\ Opened /\ [Next]_vars => (TypeOK /\ Opened)'
  BY TypeNext, OpenedNext
<1> QED
  BY <1>1, <1>2, PTL DEF Spec

-----------------------------------------------------------------------------
(* Positions *)

\* The kernel moves a tuple forward only: a past position stays past, and the
\* history before it is not rewritten.
LEMMA PastStable ==
    ASSUME TypeOK, Opened, [Next]_vars,
           NEW c \in Conns, NEW p \in [gen : Nat, bytes : Nat], Past(c, p)
    PROVE  /\ Past(c, p)'
           /\ base'[c][p.gen] = base[c][p.gen]
<1> USE DEF kernel, scan, ledger, bounds, history
<1>1. /\ gen[c] \in 0..MaxGen /\ bytes[c] \in Nat
      /\ base[c] \in [1..MaxGen -> Int]
      /\ p.gen \in Nat /\ p.bytes \in Nat
  BY DEF TypeOK
<1>2. p.gen \in 1..gen[c] /\ p.gen \in 1..MaxGen /\ gen[c] \in 1..MaxGen
  BY <1>1, BoundTypes DEF Past
<1>3. CASE gen'[c] = gen[c] /\ base'[c] = base[c] /\ bytes[c] <= bytes'[c]
  <2>1. bytes'[c] \in Nat
    BY TypeNext DEF TypeOK
  <2>2. p.gen = gen'[c] => p.bytes <= bytes'[c]
    BY <1>1, <1>3, <2>1 DEF Past
  <2>3. \A h \in 1..gen'[c] : p.gen < h => base'[c][p.gen] + p.bytes <= base'[c][h]
    BY <1>3 DEF Past
  <2> QED
    BY <1>2, <1>3, <2>2, <2>3 DEF Past
<1>4. CASE Open(c)
  <2>1. /\ gen'[c] = gen[c] + 1
        /\ base'[c] = [base[c] EXCEPT ![gen[c] + 1] = base[c][gen[c]] + bytes[c]]
        /\ gen[c] + 1 \in 1..MaxGen
    <3>1. Carried(c) = base[c][gen[c]] + bytes[c]
      BY <1>1, <1>2 DEF Carried
    <3>2. gen' = [gen EXCEPT ![c] = @ + 1] /\ gen[c] < MaxGen
      BY <1>4 DEF Open
    <3>3. base' = [base EXCEPT ![c][gen[c] + 1] = Carried(c)]
      BY <1>4 DEF Open
    <3>4. gen'[c] = gen[c] + 1 /\ gen[c] + 1 \in 1..MaxGen
      BY <1>1, <1>2, <3>2, BoundTypes, SMTT(30) DEF TypeOK
    <3>5. base'[c] = [base[c] EXCEPT ![gen[c] + 1] = Carried(c)]
      BY <3>3 DEF TypeOK
    <3> QED
      BY <3>1, <3>4, <3>5
  <2>2. base'[c][p.gen] = base[c][p.gen]
    BY <1>1, <1>2, <2>1
  <2>3. base[c][p.gen] + p.bytes <= base[c][gen[c]] + bytes[c]
    <3>1. base[c][p.gen] \in Int /\ base[c][gen[c]] \in Int
      BY <1>1, <1>2
    <3>2. CASE p.gen = gen[c]
      BY <1>1, <3>1, <3>2 DEF Past
    <3>3. CASE p.gen < gen[c]
      <4>1. base[c][p.gen] + p.bytes <= base[c][gen[c]]
        BY <1>1, <1>2, <3>3 DEF Past
      <4> QED
        BY <1>1, <3>1, <4>1
    <3> QED
      BY <1>1, <1>2, <3>2, <3>3
  <2>4. ASSUME NEW h \in 1..gen'[c], p.gen < h
        PROVE  base'[c][p.gen] + p.bytes <= base'[c][h]
    <3>1. CASE h = gen[c] + 1
      BY <1>1, <2>1, <2>2, <2>3, <3>1
    <3>2. CASE h # gen[c] + 1
      <4>1. h \in 1..gen[c] /\ base'[c][h] = base[c][h]
        BY <1>1, <1>2, <2>1, <3>2
      <4> QED
        BY <2>2, <2>4, <4>1 DEF Past
    <3> QED
      BY <3>1, <3>2
  <2>5. p.gen \in 1..gen'[c] /\ p.gen # gen'[c]
    BY <1>1, <1>2, <2>1
  <2> QED
    BY <2>2, <2>4, <2>5 DEF Past
<1>5. ASSUME NEW d \in Conns, Open(d), d # c
      PROVE  gen'[c] = gen[c] /\ base'[c] = base[c] /\ bytes[c] <= bytes'[c]
  BY <1>1, <1>5 DEF Open, TypeOK
<1>6. ASSUME NEW d \in Conns, Transfer(d)
      PROVE  gen'[c] = gen[c] /\ base'[c] = base[c] /\ bytes[c] <= bytes'[c]
  BY <1>1, <1>6 DEF Transfer, TypeOK
<1>7. CASE UNCHANGED <<gen, bytes, base>>
  BY <1>1, <1>3, <1>7
<1>8. \/ \E d \in Conns : Open(d) \/ Transfer(d)
      \/ UNCHANGED <<gen, bytes, base>>
  BY DEF Next, Kernel, Listener, Collector, Lifecycle, Close, Tick,
         ListenDestroy, ListenerFails, ApplyDestroy, Credit, Ignore, BeginPoll,
         OpenFails, ReadRow, LockPoll, ApplyRow, EndPoll, Save, Start, Crash,
         vars
<1> QED
  BY <1>3, <1>4, <1>5, <1>6, <1>7, <1>8

\* The arithmetic of positions: g, m and f are a tuple's incarnation, counter
\* and history.
LEMMA PositionBound ==
    ASSUME NEW g \in 1..MaxGen, NEW m \in Nat, NEW f \in [1..MaxGen -> Int],
           NEW p \in [gen : Nat, bytes : Nat],
           p.gen \in 1..g,
           p.gen = g => p.bytes <= m,
           \A h \in 1..g : p.gen < h => f[p.gen] + p.bytes <= f[h]
    PROVE  f[p.gen] + p.bytes <= f[g] + m
<1>1. p.gen \in 1..MaxGen /\ p.bytes \in Nat
  BY BoundTypes
<1>2. f[p.gen] \in Int /\ f[g] \in Int
  BY <1>1
<1>3. CASE p.gen = g
  BY <1>1, <1>2, <1>3
<1>4. CASE p.gen < g
  <2>1. f[p.gen] + p.bytes <= f[g]
    BY <1>4, BoundTypes
  <2> QED
    BY <1>1, <1>2, <2>1
<1> QED
  BY <1>1, <1>3, <1>4, BoundTypes

\* No past position is beyond what the tuple has carried.
LEMMA PastCarried ==
    ASSUME TypeOK, NEW c \in Conns,
           NEW p \in [gen : Nat, bytes : Nat], Past(c, p)
    PROVE  base[c][p.gen] + p.bytes <= Carried(c)
<1>1. gen[c] \in 1..MaxGen /\ bytes[c] \in Nat /\ base[c] \in [1..MaxGen -> Int]
  BY BoundTypes DEF TypeOK, Past
<1>2. base[c][p.gen] + p.bytes <= base[c][gen[c]] + bytes[c]
  BY <1>1, PositionBound DEF Past
<1> QED
  BY <1>1, <1>2 DEF Carried

\* The present counter is a past position.
LEMMA PresentPast ==
    ASSUME TypeOK, NEW c \in Conns, gen[c] # 0
    PROVE  /\ Past(c, [gen |-> gen[c], bytes |-> bytes[c]])
           /\ Past(c, RowOf(c))
           /\ Upto(c, RowOf(c)) = Carried(c)
<1>1. gen[c] \in 1..gen[c] /\ gen[c] \in Nat /\ bytes[c] \in Nat
  BY BoundTypes DEF TypeOK
<1> QED
  BY <1>1 DEF Past, RowOf, Upto, Carried

\* What a tuple has carried never shrinks.
LEMMA CarriedGrows ==
    ASSUME TypeOK, Opened, [Next]_vars, NEW c \in Conns
    PROVE  Carried(c) <= Carried(c)'
<1> USE DEF kernel, scan, ledger, bounds, history
<1>1. gen[c] \in 0..MaxGen /\ bytes[c] \in Nat /\ base[c] \in [1..MaxGen -> Int]
  BY DEF TypeOK
<1>2. CASE gen[c] = 0
  <2>1. Carried(c) = 0
    BY <1>2 DEF Carried
  <2>2. CASE gen'[c] = 0
    BY <2>1, <2>2 DEF Carried
  <2>3. CASE Open(c)
    <3>1. gen'[c] = 1 /\ bytes'[c] = 0 /\ 1 \in 1..MaxGen
      BY <1>1, <1>2, <2>3, BoundTypes DEF Open, TypeOK
    <3>2. base'[c][1] = 0
      BY <1>2, <2>1, <2>3, <3>1 DEF Open, TypeOK
    <3> QED
      BY <2>1, <3>1, <3>2 DEF Carried
  <2>4. ASSUME NEW d \in Conns, Open(d), d # c PROVE gen'[c] = gen[c]
    BY <2>4 DEF Open, TypeOK
  <2>5. \/ \E d \in Conns : Open(d)
        \/ gen' = gen
    BY DEF Next, Kernel, Listener, Collector, Lifecycle, Transfer, Close,
           Tick, ListenDestroy, ListenerFails, ApplyDestroy, BeginPoll,
           OpenFails, ReadRow, LockPoll, ApplyRow, EndPoll, Save, Start,
           Crash, vars
  <2> QED
    BY <1>2, <2>2, <2>3, <2>4, <2>5
<1>3. CASE gen[c] # 0
  <2> DEFINE p == [gen |-> gen[c], bytes |-> bytes[c]]
  <2>1. p \in [gen : Nat, bytes : Nat] /\ Past(c, p)
    BY <1>1, <1>3, BoundTypes, PresentPast
  <2>2. PICK q \in [gen : Nat, bytes : Nat] : q = p
    BY <2>1
  <2>3. Past(c, q)' /\ base'[c][q.gen] = base[c][q.gen]
    BY <2>1, <2>2, PastStable
  <2>4. base'[c][q.gen] + q.bytes <= Carried(c)'
    <3>1. TypeOK'
      BY TypeNext
    <3>2. /\ gen'[c] \in 1..MaxGen /\ bytes'[c] \in Nat
          /\ base'[c] \in [1..MaxGen -> Int]
      <4>1. /\ gen'[c] \in 0..MaxGen /\ bytes'[c] \in Nat
            /\ base'[c] \in [1..MaxGen -> Int]
        BY <3>1 DEF TypeOK
      <4>2. q.gen \in 1..gen'[c]
        BY <2>3 DEF Past
      <4> QED
        BY <4>1, <4>2, BoundTypes
    <3>3. base'[c][q.gen] + q.bytes <= base'[c][gen'[c]] + bytes'[c]
      BY <2>3, <3>2, PositionBound DEF Past
    <3> QED
      BY <3>2, <3>3 DEF Carried
  <2> QED
    BY <1>3, <2>2, <2>3, <2>4 DEF Carried
<1> QED
  BY <1>2, <1>3

-----------------------------------------------------------------------------
(* Every reading and every baseline stays a past position *)

LEMMA BaselinesStable ==
    ASSUME TypeOK, Opened, [Next]_vars,
           NEW b \in [Keys -> Baseline], BaselinesPast(b)
    PROVE  BaselinesPast(b)'
<1>1. ASSUME NEW c \in Conns, NEW k \in {KeyOf[c], LegacyOf[c]}, b[k].gen # 0
      PROVE  Past(c, b[k])'
  <2>1. k \in Keys
    BY KeyFacts
  <2>2. b[k] \in [gen : Nat, bytes : Nat, seen : Nat]
    BY <2>1, BoundTypes DEF Baseline
  <2>3. PICK p \in [gen : Nat, bytes : Nat] : p.gen = b[k].gen /\ p.bytes = b[k].bytes
    <3> DEFINE q == [gen |-> b[k].gen, bytes |-> b[k].bytes]
    <3>1. q \in [gen : Nat, bytes : Nat] /\ q.gen = b[k].gen /\ q.bytes = b[k].bytes
      BY <2>2
    <3> QED
      BY <3>1
  <2>4. Past(c, p)
    BY <1>1, <2>3 DEF BaselinesPast, Past
  <2>5. Past(c, p)'
    BY <2>4, PastStable
  <2> QED
    BY <2>3, <2>5 DEF Past
<1>2. ASSUME NEW c \in Conns PROVE b[KeyOf[c]].gen = 0 \/ b[LegacyOf[c]].gen = 0
  BY DEF BaselinesPast
<1> QED
  BY <1>1, <1>2 DEF BaselinesPast

\* What a baseline covers it goes on covering.
LEMMA CoveredStable ==
    ASSUME TypeOK, Opened, [Next]_vars,
           NEW b \in [Keys -> Baseline], BaselinesPast(b),
           NEW c \in Conns, NEW credit, Covered(c, credit, b)
    PROVE  Covered(c, credit, b)'
<1>1. ASSUME NEW k \in {KeyOf[c], LegacyOf[c]}, b[k].gen # 0
      PROVE  base'[c][b[k].gen] = base[c][b[k].gen]
  <2>1. k \in Keys
    BY KeyFacts
  <2>2. b[k] \in [gen : Nat, bytes : Nat, seen : Nat]
    BY <2>1, BoundTypes DEF Baseline
  <2> DEFINE q == [gen |-> b[k].gen, bytes |-> b[k].bytes]
  <2>3. q \in [gen : Nat, bytes : Nat] /\ q.gen = b[k].gen /\ q.bytes = b[k].bytes
    BY <2>2
  <2>4. Past(c, q)
    BY <1>1, <2>3 DEF BaselinesPast, Past
  <2>5. base'[c][q.gen] = base[c][q.gen]
    BY <2>3, <2>4, PastStable
  <2> QED
    BY <2>3, <2>5
<1> QED
  BY <1>1 DEF Covered

\* A reading that is past stays past, wherever it waits.
LEMMA ReadingStable ==
    ASSUME TypeOK, Opened, [Next]_vars, NEW r \in Reading, Past(r.conn, r)
    PROVE  /\ Past(r.conn, r)'
           /\ base'[r.conn][r.gen] = base[r.conn][r.gen]
<1> DEFINE q == [gen |-> r.gen, bytes |-> r.bytes]
<1>1. q \in [gen : Nat, bytes : Nat] /\ q.gen = r.gen /\ q.bytes = r.bytes
      /\ r.conn \in Conns
  BY BoundTypes DEF Reading
<1>2. Past(r.conn, q)
  BY <1>1 DEF Past
<1>3. PICK p \in [gen : Nat, bytes : Nat] :
        p.gen = r.gen /\ p.bytes = r.bytes /\ Past(r.conn, p)
  BY <1>1, <1>2
<1>4. Past(r.conn, p)' /\ base'[r.conn][p.gen] = base[r.conn][p.gen]
  BY <1>1, <1>3, PastStable
<1> QED
  BY <1>3, <1>4 DEF Past

LEMMA QueueReading ==
    ASSUME TypeOK, NEW i \in 1..Len(queue)
    PROVE  queue[i] \in Reading
BY ElementType DEF TypeOK

LEMMA ReadingsPastNext ==
    ASSUME TypeOK, Opened, ReadingsPast, [Next]_vars
    PROVE  ReadingsPast'
<1> USE DEF kernel, scan, ledger, bounds, history
<1>1. ASSUME NEW i \in 1..Len(queue) PROVE Past(queue[i].conn, queue[i])'
                                           \/ queue' # queue
  <2>1. PICK r \in Reading : r = queue[i]
    BY QueueReading
  <2>2. Past(r.conn, r)
    BY <2>1 DEF ReadingsPast
  <2>3. Past(r.conn, r)'
    BY <2>2, ReadingStable
  <2> QED
    BY <2>1, <2>3
<1>2. ASSUME NEW r \in rows PROVE Past(r.conn, r)'
  <2>1. r \in Reading /\ Past(r.conn, r)
    BY DEF TypeOK, ReadingsPast
  <2> QED
    BY <2>1, ReadingStable
<1>3. \A i \in 1..Len(queue') : Past(queue[i].conn, queue[i])'
  <2>1. CASE queue' = queue
    BY <1>1, <2>1
  <2>2. CASE queue' = <<>>
    BY <2>2
  <2>3. ASSUME queue # <<>>, queue' = Tail(queue), NEW i \in 1..Len(queue')
        PROVE  Past(queue[i].conn, queue[i])'
    <3>1. i + 1 \in 1..Len(queue) /\ queue'[i] = queue[i + 1]
      BY <2>3, HeadTail DEF TypeOK
    <3>2. PICK r \in Reading : r = queue[i + 1]
      BY <3>1, QueueReading
    <3>3. Past(r.conn, r)'
      BY <3>1, <3>2, ReadingStable DEF ReadingsPast
    <3> QED
      BY <3>1, <3>2, <3>3
  <2>4. ASSUME NEW c \in live, queue' = Append(queue, RowOf(c)),
               NEW i \in 1..Len(queue')
        PROVE  Past(queue[i].conn, queue[i])'
    <3>1. RowOf(c) \in Reading /\ c \in Conns /\ gen[c] # 0 /\ RowOf(c).conn = c
      BY RowType DEF TypeOK, Opened, RowOf
    <3>2. Past(c, RowOf(c))
      BY <3>1, PresentPast
    <3>3. PICK r \in Reading : r = RowOf(c)
      BY <3>1
    <3>4. Past(r.conn, r)'
      BY <3>1, <3>2, <3>3, ReadingStable
    <3>5. /\ Len(queue') = Len(queue) + 1
          /\ \A j \in 1..Len(queue) : queue'[j] = queue[j]
          /\ queue'[Len(queue) + 1] = r
      BY <2>4, <3>1, <3>3, AppendType DEF TypeOK
    <3>6. CASE i = Len(queue) + 1
      BY <3>4, <3>5, <3>6
    <3>7. CASE i # Len(queue) + 1
      <4>1. i \in 1..Len(queue)
        <5>1. Len(queue) \in Nat
          BY DEF TypeOK
        <5> QED
          BY <3>5, <3>7, <5>1
      <4>2. PICK x \in Reading : x = queue[i]
        BY <4>1, QueueReading
      <4>3. Past(x.conn, x)'
        BY <4>1, <4>2, ReadingStable DEF ReadingsPast
      <4> QED
        BY <3>5, <4>1, <4>2, <4>3
    <3> QED
      BY <3>6, <3>7
  <2>5. \/ queue' = queue \/ queue' = <<>>
        \/ queue # <<>> /\ queue' = Tail(queue)
        \/ \E c \in live : queue' = Append(queue, RowOf(c))
    BY DEF Next, Kernel, Listener, Collector, Lifecycle, Open, Transfer, Close,
           Tick, ListenDestroy, ListenerFails, ApplyDestroy, BeginPoll,
           OpenFails, ReadRow, LockPoll, ApplyRow, EndPoll, Save, Start,
           Crash, vars
  <2> QED
    BY <2>1, <2>2, <2>3, <2>4, <2>5
<1>4. \A r \in rows' : Past(r.conn, r)'
  <2>1. CASE rows' \subseteq rows
    BY <1>2, <2>1
  <2>2. ASSUME NEW c \in live, rows' = rows \cup {RowOf(c)}
        PROVE  \A r \in rows' : Past(r.conn, r)'
    <3>1. RowOf(c) \in Reading /\ c \in Conns /\ gen[c] # 0 /\ RowOf(c).conn = c
      BY RowType DEF TypeOK, Opened, RowOf
    <3>2. PICK x \in Reading : x = RowOf(c)
      BY <3>1
    <3>3. Past(x.conn, x)'
      BY <3>1, <3>2, PresentPast, ReadingStable
    <3> QED
      BY <1>2, <2>2, <3>2, <3>3
  <2>3. rows' \subseteq rows \/ \E c \in live : rows' = rows \cup {RowOf(c)}
    BY DEF Next, Kernel, Listener, Collector, Lifecycle, Open, Transfer, Close,
           Tick, ListenDestroy, ListenerFails, ApplyDestroy, BeginPoll,
           OpenFails, ReadRow, LockPoll, ApplyRow, EndPoll, Save, Start,
           Crash, vars
  <2> QED
    BY <2>1, <2>2, <2>3
<1> QED
  BY <1>3, <1>4 DEF ReadingsPast

-----------------------------------------------------------------------------
(* What crediting a reading does to the ledger *)

\* connectionBaselineLocked leaves one baseline per tuple, and those of the
\* other tuples alone.
LEMMA RebaseFacts ==
    ASSUME TypeOK, DistinctKeyAssumption, BaselinesPast(active),
           NEW c \in Conns, NEW b \in Baseline, active' = Rebase(c, b)
    PROVE  /\ active'[KeyOf[c]] = b
           /\ active'[LegacyOf[c]].gen = 0
           /\ \A d \in Conns \ {c} : /\ active'[KeyOf[d]] = active[KeyOf[d]]
                                    /\ active'[LegacyOf[d]] = active[LegacyOf[d]]
<1>1. active'[KeyOf[c]] = b
  BY KeyFacts DEF Rebase
<1>2. active'[LegacyOf[c]].gen = 0
  <2>1. CASE active[KeyOf[c]].gen = 0
    BY <2>1, KeyFacts DEF Rebase, NoBaseline
  <2>2. CASE active[KeyOf[c]].gen # 0
    BY <2>2, KeyFacts DEF Rebase, BaselinesPast
  <2> QED
    BY <2>1, <2>2
<1>3. ASSUME NEW d \in Conns \ {c}
      PROVE  /\ active'[KeyOf[d]] = active[KeyOf[d]]
             /\ active'[LegacyOf[d]] = active[LegacyOf[d]]
  <2>1. KeyOf[d] # KeyOf[c] /\ LegacyOf[d] # LegacyOf[c]
        /\ KeyOf[d] # LegacyOf[c] /\ LegacyOf[d] # KeyOf[c]
    BY KeyAssumption DEF DistinctKeyAssumption
  <2> QED
    BY <2>1, KeyFacts DEF Rebase
<1> QED
  BY <1>1, <1>2, <1>3

\* The heart of the matter: if the reading is not stale and no recount, what is
\* then credited to its tuple was carried up to the reading.
LEMMA CreditCovers ==
    ASSUME TypeOK, NEW r \in Reading, NEW skip \in BOOLEAN, NEW now \in Nat,
           Past(r.conn, r), BaselinesPast(active),
           Credit(r, skip, now), r.conn \notin suspect',
           Covered(r.conn, counted, active),
           ~Seen(r.conn) /\ skip => counted[r.conn] <= Upto(r.conn, r),
           ~Seen(r.conn) /\ ~skip /\ mark[r.conn] < r.gen
             => counted[r.conn] <= base[r.conn][r.gen]
    PROVE  counted'[r.conn] <= Upto(r.conn, r)
<1> DEFINE c == r.conn
           b == Previous(c)
<1>1. /\ c \in Conns /\ b \in Baseline /\ r.bytes \in Nat /\ r.gen \in 1..MaxGen
      /\ b.bytes \in Nat /\ b.gen \in 0..MaxGen
      /\ counted[c] \in Nat /\ gen[c] \in 0..MaxGen
      /\ base[c] \in [1..MaxGen -> Int] /\ mark[c] \in 0..MaxGen
  BY PreviousType DEF Reading, Baseline, TypeOK
<1>2. Delta(r, skip) \in Nat
  BY DeltaType
<1>3. counted'[c] = counted[c] + Delta(r, skip)
  BY <1>1, <1>2 DEF Credit, TypeOK
<1>4. ~Stale(r) /\ ~Recount(r, skip)
  BY DEF Credit
<1>5. base[c][r.gen] \in Int /\ Upto(c, r) = base[c][r.gen] + r.bytes
  BY <1>1 DEF Upto
<1>6. CASE Seen(c)
  <2>1. b.gen \in 1..MaxGen /\ base[c][b.gen] \in Int
    <3>1. b.gen # 0
      BY <1>6 DEF Seen
    <3>2. b.gen \in 1..MaxGen
      BY <1>1, <3>1, BoundTypes
    <3> QED
      BY <1>1, <3>2
  <2>2. counted[c] <= base[c][b.gen] + b.bytes
    BY <1>6 DEF Covered, Seen, Previous
  <2>3. b.gen <= r.gen /\ (b.gen = r.gen => b.bytes <= r.bytes)
    BY <1>1, <1>4, <1>6, BoundTypes, SMTT(30) DEF Stale
  <2>4. Delta(r, skip) = counterDelta(r.bytes, b.bytes, TRUE)
    BY <1>6 DEF Delta
  <2>5. CASE b.gen = r.gen
    <3>1. Delta(r, skip) = r.bytes - b.bytes
      BY <2>3, <2>4, <2>5 DEF counterDelta
    <3> QED
      BY <1>1, <1>3, <1>5, <2>1, <2>2, <2>5, <3>1, SMTT(30)
  <2>6. CASE b.gen < r.gen
    <3>1. Past(c, b)
      BY <1>1, <1>6 DEF BaselinesPast, Seen, Previous
    <3>2. r.gen \in 1..gen[c]
      BY DEF Past
    <3>3. base[c][b.gen] + b.bytes <= base[c][r.gen]
      BY <2>6, <3>1, <3>2 DEF Past
    <3>4. Delta(r, skip) <= r.bytes
      BY DeltaType
    <3>5. counted[c] <= base[c][r.gen]
      <4> HIDE DEF c, b
      <4> QED
        BY <1>1, <1>5, <2>1, <2>2, <3>3, SMTT(30)
    <3>6. counted[c] + Delta(r, skip) <= base[c][r.gen] + r.bytes
      <4> HIDE DEF c, b
      <4> QED
        BY <1>1, <1>2, <1>5, <3>4, <3>5
    <3> QED
      BY <1>3, <1>5, <3>6
  <2>7. b.gen \in Nat /\ r.gen \in Nat
    BY <1>1, BoundTypes
  <2>8. b.gen = r.gen \/ b.gen < r.gen
    <3> HIDE DEF b
    <3> QED
      BY <2>3, <2>7
  <2> QED
    BY <2>5, <2>6, <2>8
<1>7. CASE ~Seen(c) /\ skip
  <2>1. Delta(r, skip) = 0
    BY <1>7 DEF Delta
  <2>2. counted'[c] = counted[c]
    BY <1>1, <1>3, <2>1
  <2> QED
    BY <1>7, <2>2
<1>8. CASE ~Seen(c) /\ ~skip
  <2>1. Delta(r, skip) = r.bytes
    BY <1>8 DEF Delta, counterDelta
  <2>2. mark[c] < r.gen
    BY <1>1, <1>4, <1>8, BoundTypes, SMTT(30) DEF Recount
  <2> QED
    BY <1>1, <1>3, <1>5, <1>8, <2>1, <2>2
<1> QED
  BY <1>6, <1>7, <1>8

\* A ledger that nobody writes keeps its part of the invariant.
LEMMA LedgerStable ==
    ASSUME TypeOK, Opened, [Next]_vars,
           NEW b \in [Keys -> Baseline], BaselinesPast(b),
           NEW credit \in [Conns -> Nat], NEW c \in Conns,
           credit[c] <= Carried(c), Covered(c, credit, b)
    PROVE  credit[c] <= Carried(c)' /\ Covered(c, credit, b)'
<1>1. credit[c] \in Int /\ Carried(c) \in Int /\ Carried(c)' \in Int
  <2>1. Carried(c)' \in Int
    <3>1. TypeOK'
      BY TypeNext
    <3>2. /\ gen'[c] \in 0..MaxGen /\ bytes'[c] \in Nat
          /\ base'[c] \in [1..MaxGen -> Int]
      BY <3>1 DEF TypeOK
    <3> QED
      BY <3>2, BoundTypes DEF Carried
  <2> QED
    BY <2>1, CarriedType
<1>2. Carried(c) <= Carried(c)'
  BY CarriedGrows
<1> QED
  BY <1>1, <1>2, CoveredStable

\* Crediting a reading that is past keeps the ledger's part of the invariant.
LEMMA CreditNext ==
    ASSUME IInv, DistinctKeyAssumption,
           NEW r \in Reading, NEW skip \in BOOLEAN, NEW now \in Nat,
           Past(r.conn, r), Credit(r, skip, now), UNCHANGED kernel,
           ~Seen(r.conn) /\ skip /\ r.conn \notin suspect
             => counted[r.conn] <= Upto(r.conn, r),
           ~Seen(r.conn) /\ ~skip /\ mark[r.conn] < r.gen /\ r.conn \notin suspect
             => counted[r.conn] <= base[r.conn][r.gen]
    PROVE  /\ BaselinesPast(active)'
           /\ \A c \in Conns \ suspect' :
                /\ c \notin suspect
                /\ counted'[c] <= Carried(c)'
                /\ Covered(c, counted, active)'
                /\ c = r.conn => Seen(c)'
                /\ c # r.conn => counted'[c] = counted[c] /\ Seen(c)' = Seen(c)
<1> DEFINE d == r.conn
           b == BaselineOf(r, now)
<1>1. TypeOK /\ BaselinesPast(active) /\ d \in Conns /\ b \in Baseline
      /\ b.gen = r.gen /\ b.bytes = r.bytes /\ r.gen \in 1..MaxGen /\ r.gen # 0
  BY BaselineOfType, BoundTypes DEF IInv, Reading, BaselineOf
<1>2. /\ active'[KeyOf[d]] = b
      /\ active'[LegacyOf[d]].gen = 0
      /\ \A c \in Conns \ {d} : /\ active'[KeyOf[c]] = active[KeyOf[c]]
                               /\ active'[LegacyOf[c]] = active[LegacyOf[c]]
  BY <1>1, RebaseFacts DEF Credit
<1>3. gen' = gen /\ bytes' = bytes /\ base' = base /\ suspect \subseteq suspect'
  BY DEF Credit, kernel
<1>4. \A c \in Conns : Carried(c)' = Carried(c)
  BY <1>3 DEF Carried
<1>5. BaselinesPast(active)'
  <2>1. ASSUME NEW c \in Conns \ {d}
        PROVE  /\ active'[KeyOf[c]].gen = 0 \/ active'[LegacyOf[c]].gen = 0
               /\ \A k \in {KeyOf[c], LegacyOf[c]} :
                    active'[k].gen # 0 => Past(c, active[k])'
    BY <1>1, <1>2, <1>3 DEF BaselinesPast, Past
  <2>2. Past(d, active[KeyOf[d]])'
    BY <1>1, <1>2, <1>3 DEF Past
  <2> QED
    BY <1>2, <2>1, <2>2 DEF BaselinesPast
<1>6. ASSUME d \notin suspect'
      PROVE  counted'[d] <= Carried(d)' /\ Covered(d, counted, active)' /\ Seen(d)'
  <2>1. d \notin suspect
    BY <1>3, <1>6
  <2>2. Covered(d, counted, active)
    BY <1>1, <2>1 DEF IInv, Honest
  <2>3. counted'[d] <= Upto(d, r)
    BY <1>1, <1>6, <2>1, <2>2, CreditCovers
  <2>4. Upto(d, r) = base[d][r.gen] + r.bytes /\ Upto(d, r) \in Int
    BY <1>1, UptoType
  <2>5. Upto(d, r) <= Carried(d)
    <3> DEFINE q == [gen |-> r.gen, bytes |-> r.bytes]
    <3>1. q \in [gen : Nat, bytes : Nat] /\ q.gen = r.gen /\ q.bytes = r.bytes
      BY BoundTypes DEF Reading
    <3>2. Past(d, q)
      BY <3>1 DEF Past
    <3> QED
      BY <1>1, <2>4, <3>1, <3>2, PastCarried
  <2>6. counted'[d] \in Int /\ Carried(d) \in Int
    BY <1>1, CreditType, CarriedType
  <2>7. counted'[d] <= Carried(d)'
    BY <1>1, <1>4, <2>3, <2>4, <2>5, <2>6
  <2>8. Covered(d, counted, active)'
    BY <1>1, <1>2, <1>3, <2>3, <2>4 DEF Covered
  <2>9. Seen(d)'
    BY <1>1, <1>2 DEF Seen, Previous
  <2> QED
    BY <2>7, <2>8, <2>9
<1>7. ASSUME NEW c \in Conns \ suspect', c # d
      PROVE  /\ counted'[c] = counted[c] /\ Seen(c)' = Seen(c)
             /\ counted'[c] <= Carried(c)' /\ Covered(c, counted, active)'
  <2>1. c \notin suspect /\ counted[c] <= Carried(c) /\ Covered(c, counted, active)
    BY <1>3 DEF IInv, Honest
  <2>2. counted'[c] = counted[c]
    BY <1>1, <1>7 DEF Credit, TypeOK
  <2>3. Seen(c)' = Seen(c)
    BY <1>2, <1>7 DEF Seen, Previous
  <2>4. Covered(c, counted, active)'
    BY <1>2, <1>3, <1>7, <2>1, <2>2 DEF Covered
  <2> QED
    BY <1>4, <2>1, <2>2, <2>3, <2>4
<1> QED
  BY <1>3, <1>5, <1>6, <1>7

-----------------------------------------------------------------------------
(* The inductive step, part by part *)

LEMMA LockNext ==
    ASSUME TypeOK, LockInv, [Next]_vars
    PROVE  LockInv'
<1> USE DEF kernel, scan, ledger, bounds, history
<1>1. CASE BeginPoll
  BY <1>1 DEF BeginPoll, LockInv
<1>2. CASE OpenFails
  <2>1. rows = {}
    BY <1>2 DEF OpenFails, LockInv, TypeOK, Reading
  <2> QED
    BY <1>2, <2>1 DEF OpenFails, LockInv
<1>3. ASSUME NEW c \in Conns, ReadRow(c) PROVE LockInv'
  BY <1>3 DEF ReadRow, LockInv, RowOf
<1>4. CASE LockPoll
  BY <1>4 DEF LockPoll, LockInv
<1>5. ASSUME NEW r \in rows, ApplyRow(r) PROVE LockInv'
  BY <1>5 DEF ApplyRow, LockInv
<1>6. CASE EndPoll
  BY <1>6 DEF EndPoll, LockInv
<1>7. CASE Start
  BY <1>7 DEF Start, LockInv
<1>8. CASE Crash
  BY <1>8 DEF Crash, LockInv
<1>9. CASE UNCHANGED <<phase, rows, unread, initial>>
  BY <1>9 DEF LockInv
<1> QED
  BY <1>1, <1>2, <1>3, <1>4, <1>5, <1>6, <1>7, <1>8, <1>9
     DEF Next, Kernel, Listener, Collector, Lifecycle, Open, Transfer, Close,
         Tick, ListenDestroy, ListenerFails, ApplyDestroy, Save, vars

LEMMA SuspectGrows ==
    ASSUME [Next]_vars
    PROVE  suspect \subseteq suspect'
BY DEF Next, Kernel, Listener, Collector, Lifecycle, Open, Transfer, Close,
       Tick, ListenDestroy, ListenerFails, ApplyDestroy, Credit, Ignore,
       BeginPoll, OpenFails, ReadRow, LockPoll, ApplyRow, EndPoll, Save, Start,
       Crash, vars, kernel, scan, ledger, bounds, history

\* The state file: it only ever receives the tracker's ledger.
LEMMA DiskNext ==
    ASSUME IInv, [Next]_vars
    PROVE  /\ BaselinesPast(disk.active)'
           /\ \A c \in Conns \ suspect :
                /\ disk'.counted[c] <= Carried(c)'
                /\ Covered(c, disk.counted, disk.active)'
<1>1. TypeOK /\ Opened
  BY DEF IInv
<1>2. ASSUME NEW b \in [Keys -> Baseline], NEW credit \in [Conns -> Nat],
             disk'.active = b, disk'.counted = credit, BaselinesPast(b),
             \A c \in Conns \ suspect :
               credit[c] <= Carried(c) /\ Covered(c, credit, b)
      PROVE  /\ BaselinesPast(disk.active)'
             /\ \A c \in Conns \ suspect :
                  /\ disk'.counted[c] <= Carried(c)'
                  /\ Covered(c, disk.counted, disk.active)'
  <2>1. BaselinesPast(b)'
    BY <1>1, <1>2, BaselinesStable
  <2>2. ASSUME NEW c \in Conns \ suspect
        PROVE  credit[c] <= Carried(c)' /\ Covered(c, credit, b)'
    BY <1>1, <1>2, LedgerStable
  <2> QED
    BY <1>2, <2>1, <2>2 DEF BaselinesPast, Covered
<1>3. CASE disk' = disk
  <2>1. PICK b \in [Keys -> Baseline], credit \in [Conns -> Nat] :
          b = disk.active /\ credit = disk.counted
    BY <1>1 DEF TypeOK
  <2>2. BaselinesPast(b)
        /\ \A c \in Conns \ suspect :
             credit[c] <= Carried(c) /\ Covered(c, credit, b)
    BY <2>1 DEF IInv, Honest
  <2> QED
    BY <1>2, <1>3, <2>1, <2>2
<1>4. CASE Save
  <2>1. PICK b \in [Keys -> Baseline], credit \in [Conns -> Nat] :
          b = active /\ credit = counted
    BY <1>1 DEF TypeOK
  <2>2. BaselinesPast(b)
        /\ \A c \in Conns \ suspect :
             credit[c] <= Carried(c) /\ Covered(c, credit, b)
    BY <2>1 DEF IInv, Honest
  <2>3. disk'.active = b /\ disk'.counted = credit
    BY <1>4, <2>1 DEF Save
  <2> QED
    BY <1>2, <2>2, <2>3
<1> QED
  BY <1>3, <1>4 DEF Next, Kernel, Listener, Collector, Lifecycle, Open,
     Transfer, Close, Tick, ListenDestroy, ListenerFails, ApplyDestroy,
     BeginPoll, OpenFails, ReadRow, LockPoll, ApplyRow, EndPoll, Start,
     Crash, vars

\* New incarnations start beyond what has been credited.
LEMMA UncreditedStable ==
    ASSUME TypeOK, Opened, [Next]_vars, NEW c \in Conns, NEW x \in Nat,
           NEW m \in 0..MaxGen, x <= Carried(c),
           \A g \in 1..gen[c] : m < g => x <= base[c][g]
    PROVE  \A g \in 1..gen'[c] : m < g => x <= base'[c][g]
<1> USE DEF kernel, scan, ledger, bounds, history
<1>1. gen[c] \in 0..MaxGen /\ base[c] \in [1..MaxGen -> Int]
  BY DEF TypeOK
<1>2. CASE Open(c)
  <2>1. gen' = [gen EXCEPT ![c] = @ + 1] /\ gen[c] < MaxGen
        /\ base' = [base EXCEPT ![c][gen[c] + 1] = Carried(c)]
    BY <1>2 DEF Open
  <2>2. gen'[c] = gen[c] + 1 /\ gen[c] + 1 \in 1..MaxGen
    BY <1>1, <2>1, BoundTypes DEF TypeOK
  <2>3. base'[c] = [base[c] EXCEPT ![gen[c] + 1] = Carried(c)]
    BY <2>1 DEF TypeOK
  <2>4. ASSUME NEW g \in 1..gen'[c], m < g PROVE x <= base'[c][g]
    <3>1. CASE g = gen[c] + 1
      BY <1>1, <2>2, <2>3, <3>1
    <3>2. CASE g # gen[c] + 1
      <4>1. g \in 1..gen[c] /\ base'[c][g] = base[c][g]
        BY <1>1, <2>2, <2>3, <3>2, BoundTypes
      <4> QED
        BY <2>4, <4>1
    <3> QED
      BY <3>1, <3>2
  <2> QED
    BY <2>4
<1>3. ASSUME NEW d \in Conns, Open(d), d # c
      PROVE  gen'[c] = gen[c] /\ base'[c] = base[c]
  BY <1>1, <1>3 DEF Open, TypeOK
<1>4. (\E d \in Conns : Open(d)) \/ UNCHANGED <<gen, base>>
  BY DEF Next, Kernel, Listener, Collector, Lifecycle, Transfer, Close, Tick,
         ListenDestroy, ListenerFails, ApplyDestroy, Credit, Ignore, BeginPoll,
         OpenFails, ReadRow, LockPoll, ApplyRow, EndPoll, Save, Start, Crash,
         vars
<1> QED
  BY <1>2, <1>3, <1>4

\* What a step does to an unaccounted tuple whose own credit it leaves alone.
LEMMA UncreditedKept ==
    ASSUME IInv, [Next]_vars, NEW c \in Conns, c \notin suspect,
           counted'[c] = counted[c], mark'[c] = mark[c],
           Seen(c)' = Seen(c),
           phase' # "down" => phase # "down",
           ~polled' \/ initial' => ~polled \/ initial,
           \A r \in rows' : r.conn = c =>
             r \in rows \/ (r \in Reading /\ Past(c, r) /\ Upto(c, r) = Carried(c))
    PROVE  Uncredited(c)'
<1>1. TypeOK /\ Opened /\ Uncredited(c) /\ counted[c] <= Carried(c)
  BY DEF IInv, Honest
<1>2. counted[c] \in Nat /\ mark[c] \in 0..MaxGen
  BY <1>1 DEF TypeOK
<1>3. ASSUME ~Seen(c)', phase' # "down"
      PROVE  \A g \in 1..gen'[c] : mark'[c] < g => counted'[c] <= base'[c][g]
  <2>1. \A g \in 1..gen[c] : mark[c] < g => counted[c] <= base[c][g]
    BY <1>1, <1>3 DEF Uncredited
  <2>2. PICK x \in Nat, m \in 0..MaxGen : x = counted[c] /\ m = mark[c]
    BY <1>2
  <2>3. \A g \in 1..gen'[c] : m < g => x <= base'[c][g]
    BY <1>1, <2>1, <2>2, UncreditedStable
  <2> QED
    BY <2>2, <2>3
<1>4. ASSUME ~Seen(c)', ~polled' \/ initial', NEW r \in rows', r.conn = c
      PROVE  counted'[c] <= Upto(c, r)'
  <2>1. r \in Reading /\ Past(c, r) /\ counted[c] <= Upto(c, r)
    <3>1. CASE r \in rows
      BY <1>1, <1>4, <3>1 DEF Uncredited, IInv, ReadingsPast, TypeOK
    <3>2. CASE r \notin rows
      BY <1>1, <1>4, <3>2
    <3> QED
      BY <3>1, <3>2
  <2>2. base'[c][r.gen] = base[c][r.gen]
    BY <1>1, <1>4, <2>1, ReadingStable
  <2> QED
    BY <2>1, <2>2 DEF Upto
<1> QED
  BY <1>3, <1>4 DEF Uncredited

\* A step that writes neither the ledger nor the marks.
LEMMA LedgerKept ==
    ASSUME IInv, [Next]_vars, active' = active, counted' = counted,
           mark' = mark,
           phase' # "down" => phase # "down",
           ~polled' \/ initial' => ~polled \/ initial,
           \A r \in rows' :
             r \in rows \/ (/\ r \in Reading /\ Past(r.conn, r)
                            /\ Upto(r.conn, r) = Carried(r.conn))
    PROVE  /\ BaselinesPast(active)'
           /\ \A c \in Conns \ suspect' :
                /\ counted'[c] <= Carried(c)'
                /\ Covered(c, counted, active)'
                /\ Uncredited(c)'
<1>1. TypeOK /\ Opened /\ BaselinesPast(active)
  BY DEF IInv
<1>2. PICK b \in [Keys -> Baseline], x \in [Conns -> Nat] :
        b = active /\ x = counted
  BY <1>1 DEF TypeOK
<1>3. BaselinesPast(active)'
  <2>1. BaselinesPast(b)'
    BY <1>1, <1>2, BaselinesStable
  <2> QED
    BY <1>2, <2>1 DEF BaselinesPast
<1>4. ASSUME NEW c \in Conns \ suspect'
      PROVE  /\ counted'[c] <= Carried(c)'
             /\ Covered(c, counted, active)'
             /\ Uncredited(c)'
  <2>1. c \notin suspect
    BY SuspectGrows
  <2>2. x[c] <= Carried(c) /\ Covered(c, x, b)
    BY <1>2, <2>1 DEF IInv, Honest
  <2>3. x[c] <= Carried(c)' /\ Covered(c, x, b)'
    BY <1>1, <1>2, <2>2, LedgerStable
  <2>4. Seen(c)' = Seen(c)
    BY DEF Seen, Previous
  <2>5. Uncredited(c)'
    BY <2>1, <2>4, UncreditedKept
  <2> QED
    BY <1>2, <2>3, <2>5 DEF Covered
<1> QED
  BY <1>3, <1>4

\* A step that credits a reading: a row under the lock, or a destroy event.
LEMMA LedgerCredited ==
    ASSUME IInv, DistinctKeyAssumption, [Next]_vars, UNCHANGED kernel,
           NEW r \in Reading, NEW skip \in BOOLEAN, NEW now \in Nat,
           Past(r.conn, r), Credit(r, skip, now),
           phase # "down", phase' = phase, polled' = polled, initial' = initial,
           rows' \subseteq rows,
           skip => initial /\ r \in rows
    PROVE  /\ BaselinesPast(active)'
           /\ \A c \in Conns \ suspect' :
                /\ counted'[c] <= Carried(c)'
                /\ Covered(c, counted, active)'
                /\ Uncredited(c)'
<1>1. TypeOK /\ r.conn \in Conns
  BY DEF IInv, Reading
<1>2. ASSUME ~Seen(r.conn), skip, r.conn \notin suspect
      PROVE  counted[r.conn] <= Upto(r.conn, r)
  BY <1>1, <1>2 DEF IInv, Honest, Uncredited
<1>3. ASSUME ~Seen(r.conn), ~skip, mark[r.conn] < r.gen, r.conn \notin suspect
      PROVE  counted[r.conn] <= base[r.conn][r.gen]
  <2>1. r.gen \in 1..gen[r.conn]
    BY DEF Past
  <2> QED
    BY <1>1, <1>3, <2>1 DEF IInv, Honest, Uncredited
<1>4. /\ BaselinesPast(active)'
      /\ \A c \in Conns \ suspect' :
           /\ c \notin suspect
           /\ counted'[c] <= Carried(c)'
           /\ Covered(c, counted, active)'
           /\ c = r.conn => Seen(c)'
           /\ c # r.conn => counted'[c] = counted[c] /\ Seen(c)' = Seen(c)
  BY <1>2, <1>3, CreditNext
<1>5. ASSUME NEW c \in Conns \ suspect' PROVE Uncredited(c)'
  <2>1. CASE c = r.conn
    BY <1>4, <2>1 DEF Uncredited
  <2>2. CASE c # r.conn
    <3>1. mark' = mark
      BY DEF Credit
    <3> QED
      BY <1>4, <2>2, <3>1, UncreditedKept
  <2> QED
    BY <2>1, <2>2
<1> QED
  BY <1>4, <1>5

\* Forgetting a baseline: the mark then stands where the baseline stood.
LEMMA LedgerForgotten ==
    ASSUME IInv, EndPoll
    PROVE  /\ BaselinesPast(active)'
           /\ \A c \in Conns \ suspect' :
                /\ counted'[c] <= Carried(c)'
                /\ Covered(c, counted, active)'
                /\ Uncredited(c)'
<1>1. /\ gen' = gen /\ bytes' = bytes /\ base' = base /\ counted' = counted
      /\ suspect' = suspect /\ rows' = {} /\ phase = "apply"
      /\ active' = [k \in Keys |->
                      IF Forgotten(k) THEN NoBaseline ELSE active[k]]
      /\ mark' = [c \in Conns |->
                    IF Outlived(c) /\ mark[c] < Previous(c).gen
                    THEN Previous(c).gen ELSE mark[c]]
  BY DEF EndPoll, kernel
<1>2. TypeOK /\ BaselinesPast(active)
  BY DEF IInv
<1>3. ASSUME NEW k \in Keys
      PROVE  /\ active'[k] = active[k] \/ (active'[k].gen = 0 /\ Forgotten(k))
             /\ active'[k].gen # 0 => active'[k] = active[k]
  BY <1>1 DEF NoBaseline
<1>4. BaselinesPast(active)'
  <2>1. ASSUME NEW c \in Conns
        PROVE  active'[KeyOf[c]].gen = 0 \/ active'[LegacyOf[c]].gen = 0
    BY <1>2, <1>3, KeyFacts DEF BaselinesPast
  <2>2. ASSUME NEW c \in Conns, NEW k \in {KeyOf[c], LegacyOf[c]},
               active'[k].gen # 0
        PROVE  Past(c, active[k])'
    <3>1. k \in Keys /\ active'[k] = active[k]
      BY <1>3, <2>2, KeyFacts
    <3>2. Past(c, active[k])
      BY <1>2, <2>2, <3>1 DEF BaselinesPast
    <3> QED
      BY <1>1, <3>1, <3>2 DEF Past
  <2> QED
    BY <2>1, <2>2 DEF BaselinesPast
<1>5. ASSUME NEW c \in Conns \ suspect'
      PROVE  counted'[c] <= Carried(c)' /\ Covered(c, counted, active)'
  <2>1. counted[c] <= Carried(c) /\ Covered(c, counted, active)
    BY <1>1 DEF IInv, Honest
  <2>2. counted'[c] <= Carried(c)'
    BY <1>1, <2>1 DEF Carried
  <2>3. ASSUME NEW k \in {KeyOf[c], LegacyOf[c]}, active'[k].gen # 0
        PROVE  counted'[c] <= base'[c][active'[k].gen] + active'[k].bytes
    BY <1>1, <1>3, <2>1, <2>3, KeyFacts DEF Covered
  <2> QED
    BY <2>2, <2>3 DEF Covered
<1>6. ASSUME NEW c \in Conns \ suspect', ~Seen(c)',
             NEW g \in 1..gen[c], mark'[c] < g
      PROVE  counted[c] <= base[c][g]
  <2>1. c \notin suspect /\ Uncredited(c) /\ Covered(c, counted, active)
    BY <1>1, <1>6 DEF IInv, Honest
  <2>2. CASE ~Seen(c)
    <3>1. mark'[c] = mark[c]
      BY <1>1, <2>2 DEF Outlived
    <3> QED
      BY <1>1, <1>6, <2>1, <2>2, <3>1 DEF Uncredited
  <2>3. CASE Seen(c)
    <3>1. PICK k \in {KeyOf[c], LegacyOf[c]} :
            Previous(c) = active[k] /\ active[k].gen # 0
      BY <2>3 DEF Seen, Previous
    <3>2. k \in Keys /\ active'[k].gen = 0
      BY <1>6, <3>1, KeyFacts DEF Seen, Previous
    <3>3. Forgotten(k)
      BY <1>3, <3>1, <3>2
    <3>4. active[k] \in Baseline /\ at \in Nat /\ mark[c] \in 0..MaxGen
      BY <1>2, <3>2 DEF TypeOK
    <3>5. active[k].seen \in Nat /\ active[k].gen \in Nat /\ active[k].bytes \in Nat
      BY <3>4, BoundTypes DEF Baseline
    <3>6. Outlived(c)
      BY <2>3, <3>1, <3>3, <3>4, <3>5, BoundTypes DEF Outlived, Forgotten
    <3>7. active[k].gen < g
      <4>1. mark'[c] = IF mark[c] < active[k].gen THEN active[k].gen ELSE mark[c]
        BY <1>1, <3>1, <3>6
      <4>2. g \in Nat /\ mark[c] \in Nat
        <5>1. gen[c] \in 0..MaxGen
          BY <1>2 DEF TypeOK
        <5> QED
          BY <3>4, <5>1, BoundTypes
      <4> QED
        BY <1>6, <3>5, <4>1, <4>2
    <3>8. base[c][active[k].gen] + active[k].bytes <= base[c][g]
      BY <1>2, <3>1, <3>7 DEF BaselinesPast, Past
    <3>9. counted[c] <= base[c][active[k].gen] + active[k].bytes
      BY <2>1, <3>1 DEF Covered
    <3>10. /\ counted[c] \in Int
           /\ base[c][active[k].gen] \in Int /\ base[c][g] \in Int
      <4>1. base[c] \in [1..MaxGen -> Int]
        BY <1>2 DEF TypeOK
      <4>2. counted[c] \in Nat /\ gen[c] \in 0..MaxGen
        BY <1>2 DEF TypeOK
      <4>3. g \in 1..MaxGen
        BY <4>2, BoundTypes
      <4>4. active[k].gen \in 1..MaxGen
        BY <3>1, <3>4 DEF Baseline
      <4>5. base[c][g] \in Int
        BY <4>1, <4>3
      <4>6. base[c][active[k].gen] \in Int
        BY <4>1, <4>4
      <4> QED
        BY <4>2, <4>5, <4>6
    <3> QED
      BY <3>5, <3>8, <3>9, <3>10
  <2> QED
    BY <2>2, <2>3
<1>7. ASSUME NEW c \in Conns \ suspect' PROVE Uncredited(c)'
  BY <1>1, <1>6, <1>7 DEF Uncredited
<1> QED
  BY <1>4, <1>5, <1>7

\* New continues from the state file: whatever is open by now is older than
\* this run.
LEMMA LedgerLoaded ==
    ASSUME IInv, Start
    PROVE  /\ BaselinesPast(active)'
           /\ \A c \in Conns \ suspect' :
                /\ counted'[c] <= Carried(c)'
                /\ Covered(c, counted, active)'
                /\ Uncredited(c)'
<1>1. /\ gen' = gen /\ bytes' = bytes /\ base' = base /\ suspect' = suspect
      /\ rows' = rows /\ phase = "down" /\ mark' = gen
      /\ active' = disk.active /\ counted' = disk.counted
  BY DEF Start, Loaded, kernel, scan
<1>2. BaselinesPast(active)'
  BY <1>1 DEF IInv, BaselinesPast, Past
<1>3. ASSUME NEW c \in Conns \ suspect'
      PROVE  /\ counted'[c] <= Carried(c)'
             /\ Covered(c, counted, active)'
             /\ Uncredited(c)'
  <2>1. disk.counted[c] <= Carried(c) /\ Covered(c, disk.counted, disk.active)
    BY <1>1 DEF IInv, Honest
  <2>2. rows' = {}
    BY <1>1 DEF IInv, LockInv
  <2>3. gen[c] \in Nat
    BY BoundTypes DEF IInv, TypeOK
  <2>4. \A g \in 1..gen'[c] : ~(mark'[c] < g)
    BY <1>1, <2>3
  <2>5. Uncredited(c)'
    BY <2>2, <2>4 DEF Uncredited
  <2> QED
    BY <1>1, <2>1, <2>5 DEF Carried, Covered
<1> QED
  BY <1>2, <1>3

LEMMA LedgerLost ==
    ASSUME IInv, Crash
    PROVE  /\ BaselinesPast(active)'
           /\ \A c \in Conns \ suspect' :
                /\ counted'[c] <= Carried(c)'
                /\ Covered(c, counted, active)'
                /\ Uncredited(c)'
<1>1. /\ gen' = gen /\ bytes' = bytes /\ base' = base /\ suspect' = suspect
      /\ rows' = {} /\ phase' = "down"
      /\ active' = [k \in Keys |-> NoBaseline]
      /\ counted' = [c \in Conns |-> 0]
  BY DEF Crash, kernel
<1>2. \A k \in Keys : active'[k].gen = 0
  BY <1>1 DEF NoBaseline
<1>3. BaselinesPast(active)'
  BY <1>2, KeyFacts DEF BaselinesPast
<1>4. ASSUME NEW c \in Conns \ suspect'
      PROVE  /\ counted'[c] <= Carried(c)'
             /\ Covered(c, counted, active)'
             /\ Uncredited(c)'
  <2>1. disk.counted[c] <= Carried(c)
    BY <1>1 DEF IInv, Honest
  <2>2. disk.counted[c] \in Nat /\ Carried(c) \in Int
    BY CarriedType DEF IInv, TypeOK
  <2>3. counted'[c] <= Carried(c)'
    <3>1. Carried(c)' = Carried(c)
      BY <1>1 DEF Carried
    <3>2. counted'[c] = 0
      BY <1>1
    <3> QED
      BY <2>1, <2>2, <3>1, <3>2
  <2>4. Covered(c, counted, active)'
    BY <1>2, KeyFacts DEF Covered
  <2>5. Uncredited(c)'
    BY <1>1 DEF Uncredited
  <2> QED
    BY <2>3, <2>4, <2>5
<1> QED
  BY <1>3, <1>4

LEMMA LedgerNext ==
    ASSUME IInv, DistinctKeyAssumption, [Next]_vars
    PROVE  /\ BaselinesPast(active)'
           /\ \A c \in Conns \ suspect' :
                /\ counted'[c] <= Carried(c)'
                /\ Covered(c, counted, active)'
                /\ Uncredited(c)'
<1> DEFINE Goal == /\ BaselinesPast(active)'
                   /\ \A c \in Conns \ suspect' :
                        /\ counted'[c] <= Carried(c)'
                        /\ Covered(c, counted, active)'
                        /\ Uncredited(c)'
<1> USE DEF kernel, scan, ledger, bounds, history
<1>1. TypeOK /\ Opened /\ ReadingsPast /\ LockInv
  BY DEF IInv
<1>2. CASE UNCHANGED <<active, counted, mark, rows, polled, initial>>
           /\ (phase' # "down" => phase # "down")
  BY <1>2, LedgerKept
<1>3. ASSUME NEW again \in BOOLEAN, ApplyDestroy(again) PROVE Goal
  <2>1. queue # <<>> /\ queue \in Seq(Reading)
    BY <1>1, <1>3 DEF ApplyDestroy, TypeOK
  <2>2. PICK r \in Reading : r = Head(queue)
    BY <2>1, HeadTail
  <2>3. Past(r.conn, r)
    <3>1. 1 \in 1..Len(queue) /\ r = queue[1]
      <4>1. Len(queue) \in Nat /\ Len(queue) >= 1 /\ r = queue[1]
        BY <2>1, <2>2, HeadTail
      <4> QED
        BY <4>1
    <3> QED
      BY <1>1, <3>1 DEF ReadingsPast
  <2>4. /\ IF r.conn \in lan THEN Credit(r, FALSE, clock) ELSE Ignore(r)
        /\ phase # "down" /\ phase' = phase /\ UNCHANGED <<kernel, scan>>
    BY <1>3, <2>2 DEF ApplyDestroy
  <2>5. CASE r.conn \in lan
    <3>1. clock \in Nat
      BY <1>1 DEF TypeOK
    <3> QED
      BY <2>3, <2>4, <2>5, <3>1, LedgerCredited
  <2>6. CASE r.conn \notin lan
    BY <2>4, <2>6, LedgerKept DEF Ignore
  <2> QED
    BY <2>5, <2>6
<1>4. ASSUME NEW c \in Conns, ReadRow(c) PROVE Goal
  <2>1. ASSUME NEW r \in rows'
        PROVE  r \in rows \/ (/\ r \in Reading /\ Past(r.conn, r)
                              /\ Upto(r.conn, r) = Carried(r.conn))
    <3>1. CASE r \in rows
      BY <3>1
    <3>2. CASE r \notin rows
      <4>1. c \in live /\ r = RowOf(c) /\ r.conn = c
        BY <1>4, <3>2 DEF ReadRow, RowOf
      <4>2. RowOf(c) \in Reading /\ gen[c] # 0
        BY <1>1, <4>1, RowType DEF Opened
      <4> QED
        BY <1>1, <4>1, <4>2, PresentPast
    <3> QED
      BY <3>1, <3>2
  <2>2. UNCHANGED <<active, counted, mark, phase, polled, initial>>
    BY <1>4 DEF ReadRow
  <2> QED
    BY <2>1, <2>2, LedgerKept
<1>5. CASE LockPoll
  <2>1. UNCHANGED <<active, counted, mark, rows>> /\ phase = "parse"
        /\ polled' = TRUE /\ initial' = ~polled
    BY <1>5 DEF LockPoll
  <2> QED
    BY <2>1, LedgerKept
<1>6. ASSUME NEW r \in rows, ApplyRow(r) PROVE Goal
  <2>1. r \in Reading /\ Past(r.conn, r) /\ initial \in BOOLEAN /\ at \in Nat
    BY <1>1 DEF TypeOK, ReadingsPast
  <2>2. CASE r.conn \in lan
    <3>1. /\ Credit(r, initial, at) /\ phase = "apply" /\ phase' = phase
          /\ polled' = polled /\ initial' = initial /\ UNCHANGED kernel
          /\ rows' = rows \ {r}
      BY <1>6, <2>2 DEF ApplyRow
    <3> QED
      BY <2>1, <3>1, LedgerCredited
  <2>3. CASE r.conn \notin lan
    <3>1. /\ UNCHANGED <<active, counted, mark, phase, polled, initial>>
          /\ rows' \subseteq rows
      BY <1>6, <2>3 DEF ApplyRow, Ignore
    <3> QED
      BY <3>1, LedgerKept
  <2> QED
    BY <2>2, <2>3
<1>7. CASE EndPoll
  BY <1>7, LedgerForgotten
<1>8. CASE Start
  BY <1>8, LedgerLoaded
<1>9. CASE Crash
  BY <1>9, LedgerLost
<1> QED
  BY <1>2, <1>3, <1>4, <1>5, <1>6, <1>7, <1>8, <1>9
     DEF Next, Kernel, Listener, Collector, Lifecycle, Open, Transfer, Close,
         Tick, ListenDestroy, ListenerFails, BeginPoll, OpenFails, Save, vars

LEMMA IInvNext ==
    ASSUME IInv, DistinctKeyAssumption, [Next]_vars
    PROVE  IInv'
<1>1. TypeOK /\ Opened /\ ReadingsPast /\ LockInv
  BY DEF IInv
<1>2. TypeOK' /\ Opened' /\ ReadingsPast' /\ LockInv'
  BY <1>1, TypeNext, OpenedNext, ReadingsPastNext, LockNext
<1>3. ASSUME NEW c \in Conns \ suspect' PROVE Honest(c)'
  <2>1. c \notin suspect
    BY SuspectGrows
  <2>2. disk'.counted[c] <= Carried(c)' /\ Covered(c, disk.counted, disk.active)'
    BY <2>1, DiskNext
  <2>3. /\ counted'[c] <= Carried(c)'
        /\ Covered(c, counted, active)'
        /\ Uncredited(c)'
    BY LedgerNext
  <2> QED
    BY <2>2, <2>3 DEF Honest
<1>4. BaselinesPast(active)' /\ BaselinesPast(disk.active)'
  BY LedgerNext, DiskNext
<1> QED
  BY <1>2, <1>3, <1>4 DEF IInv

LEMMA IInvInit ==
    ASSUME Init, DistinctKeyAssumption
    PROVE  IInv
<1>1. TypeOK /\ Opened
  BY TypeInit
<1>2. /\ gen = [c \in Conns |-> IF c \in live THEN 1 ELSE 0]
      /\ base = [c \in Conns |->
                   [g \in 1..MaxGen |-> IF g = 1 THEN -bytes[c] ELSE 0]]
      /\ counted = [c \in Conns |-> 0] /\ rows = {} /\ queue = <<>>
      /\ active = [k \in Keys |-> NoBaseline]
      /\ phase = "down" /\ initial = FALSE
  BY DEF Init
<1>3. PICK migrated \in SUBSET live :
        disk = [active |->
                 [k \in Keys |->
                    IF \E c \in migrated : LegacyOf[c] = k
                    THEN LET c == CHOOSE c \in migrated : LegacyOf[c] = k
                         IN BaselineOf(RowOf(c), 0)
                    ELSE NoBaseline],
                counted |-> counted]
  BY DEF Init
<1>4. ASSUME NEW c \in Conns
      PROVE  Carried(c) = 0 /\ (c \in live => Past(c, RowOf(c)) /\ Upto(c, RowOf(c)) = 0)
  <2>1. bytes[c] \in Nat
    BY <1>1 DEF TypeOK
  <2>2. base[c][1] = -bytes[c]
    BY <1>2, BoundTypes
  <2>3. CASE c \in live
    <3>1. gen[c] = 1 /\ gen[c] # 0
      BY <1>2, <2>3
    <3>2. Carried(c) = 0
      BY <2>1, <2>2, <3>1 DEF Carried
    <3>3. Past(c, RowOf(c)) /\ Upto(c, RowOf(c)) = Carried(c)
      BY <1>1, <3>1, PresentPast
    <3> QED
      BY <3>2, <3>3
  <2>4. CASE c \notin live
    BY <1>2, <2>4 DEF Carried
  <2> QED
    BY <2>3, <2>4
<1>5. ASSUME NEW c \in Conns
      PROVE  /\ disk.active[KeyOf[c]].gen = 0
             /\ \/ disk.active[LegacyOf[c]].gen = 0
                \/ /\ c \in live
                   /\ disk.active[LegacyOf[c]] = BaselineOf(RowOf(c), 0)
  <2>1. KeyOf[c] \in Keys /\ LegacyOf[c] \in Keys
    BY KeyFacts
  <2>2. ~ \E d \in migrated : LegacyOf[d] = KeyOf[c]
    BY <1>1, KeyAssumption DEF TypeOK
  <2>3. disk.active[KeyOf[c]] = NoBaseline
    BY <1>3, <2>1, <2>2
  <2>4. CASE c \in migrated
    <3> DEFINE e == CHOOSE d \in migrated : LegacyOf[d] = LegacyOf[c]
    <3>1. e = c
      <4>1. \A d \in migrated : LegacyOf[d] = LegacyOf[c] => d = c
        BY <1>1 DEF DistinctKeyAssumption, TypeOK
      <4> QED
        BY <2>4, <4>1
    <3>2. disk.active[LegacyOf[c]] = BaselineOf(RowOf(e), 0)
      BY <1>3, <2>1, <2>4
    <3>3. disk.active[KeyOf[c]].gen = 0
      BY <2>3 DEF NoBaseline
    <3> HIDE DEF e
    <3> QED
      BY <2>4, <3>1, <3>2, <3>3
  <2>5. CASE c \notin migrated
    <3>1. ~ \E d \in migrated : LegacyOf[d] = LegacyOf[c]
      BY <1>1, <2>5 DEF DistinctKeyAssumption, TypeOK
    <3>2. disk.active[LegacyOf[c]] = NoBaseline
      BY <1>3, <2>1, <3>1
    <3> QED
      BY <2>3, <3>2 DEF NoBaseline
  <2> QED
    BY <2>4, <2>5
<1>6. BaselinesPast(disk.active)
  <2>1. ASSUME NEW c \in Conns, disk.active[LegacyOf[c]].gen # 0
        PROVE  Past(c, disk.active[LegacyOf[c]])
    <3>1. c \in live /\ disk.active[LegacyOf[c]] = BaselineOf(RowOf(c), 0)
      BY <1>5, <2>1
    <3>2. Past(c, RowOf(c))
      BY <1>4, <3>1
    <3>3. /\ BaselineOf(RowOf(c), 0).gen = RowOf(c).gen
          /\ BaselineOf(RowOf(c), 0).bytes = RowOf(c).bytes
      BY DEF BaselineOf
    <3> QED
      BY <3>1, <3>2, <3>3 DEF Past
  <2> QED
    BY <1>5, <2>1 DEF BaselinesPast
<1>7. BaselinesPast(active)
  BY <1>2, KeyFacts DEF BaselinesPast, NoBaseline
<1>8. ReadingsPast /\ LockInv
  BY <1>2 DEF ReadingsPast, LockInv
<1>9. ASSUME NEW c \in Conns PROVE Honest(c)
  <2>1. counted[c] = 0 /\ disk.counted[c] = 0 /\ Carried(c) = 0
    BY <1>2, <1>3, <1>4
  <2>2. Covered(c, counted, active)
    BY <1>2, KeyFacts DEF Covered, NoBaseline
  <2>3. Covered(c, disk.counted, disk.active)
    <3>1. ASSUME disk.active[LegacyOf[c]].gen # 0
          PROVE  disk.counted[c] <= base[c][disk.active[LegacyOf[c]].gen]
                                      + disk.active[LegacyOf[c]].bytes
      <4>1. c \in live /\ disk.active[LegacyOf[c]] = BaselineOf(RowOf(c), 0)
        BY <1>5, <3>1
      <4>2. base[c][RowOf(c).gen] + RowOf(c).bytes = 0
        BY <1>4, <4>1 DEF Upto
      <4>3. /\ BaselineOf(RowOf(c), 0).gen = RowOf(c).gen
            /\ BaselineOf(RowOf(c), 0).bytes = RowOf(c).bytes
        BY DEF BaselineOf
      <4> QED
        BY <2>1, <4>1, <4>2, <4>3
    <3> QED
      BY <1>5, <3>1 DEF Covered
  <2>4. Uncredited(c)
    BY <1>2 DEF Uncredited
  <2> QED
    BY <2>1, <2>2, <2>3, <2>4 DEF Honest
<1> QED
  BY <1>1, <1>6, <1>7, <1>8, <1>9 DEF IInv

-----------------------------------------------------------------------------
(* The theorem *)

\* If no two tuples share a key, a host is never credited with more than its
\* connections carried, whatever the order of scans, destroy events, tuple
\* reuse, retention, saves and restarts, except through a reading that was
\* older than its baseline or had lost it (Poll, ApplyDestroy).
THEOREM NoRecount ==
    ASSUME DistinctKeyAssumption
    PROVE  Spec => []NoRecountUnlessSuspect
<1>1. Init => IInv
  BY IInvInit
<1>2. IInv /\ [Next]_vars => IInv'
  BY IInvNext
<1>3. IInv => NoRecountUnlessSuspect
  BY DEF IInv, Honest, NoRecountUnlessSuspect
<1> QED
  BY <1>1, <1>2, <1>3, PTL DEF Spec

-----------------------------------------------------------------------------
(* The state file only grows *)

GrowInv == phase # "down" => \A c \in Conns : disk.counted[c] <= counted[c]

\* Nothing is ever subtracted from a counter while the daemon runs.
LEMMA CountedGrows ==
    ASSUME TypeOK, NEW r \in Reading, NEW skip \in BOOLEAN, NEW now \in Nat,
           Credit(r, skip, now) \/ Ignore(r)
    PROVE  \A c \in Conns : counted[c] <= counted'[c]
<1>1. \A c \in Conns : counted[c] \in Nat
  BY DEF TypeOK
<1>2. CASE Ignore(r)
  BY <1>1, <1>2 DEF Ignore, ledger
<1>3. CASE Credit(r, skip, now)
  <2>1. Delta(r, skip) \in Nat
    BY DeltaType
  <2>2. counted' = [counted EXCEPT ![r.conn] = @ + Delta(r, skip)]
    BY <1>3 DEF Credit
  <2>3. counted \in [Conns -> Nat]
    BY DEF TypeOK
  <2> QED
    BY <1>1, <2>1, <2>2, <2>3
<1> QED
  BY <1>2, <1>3

LEMMA GrowNext ==
    ASSUME TypeOK, TypeOK', GrowInv, [Next]_vars
    PROVE  GrowInv' /\ \A c \in Conns : disk.counted[c] <= disk'.counted[c]
<1> USE DEF kernel, scan, ledger, bounds, history
<1>1. \A c \in Conns : disk.counted[c] \in Nat /\ counted[c] \in Nat
                        /\ counted'[c] \in Nat
  BY DEF TypeOK
<1>2. CASE disk' = disk /\ phase # "down" /\ \A c \in Conns : counted[c] <= counted'[c]
  BY <1>1, <1>2 DEF GrowInv
<1>3. CASE UNCHANGED <<disk, phase, counted>>
  BY <1>1, <1>3 DEF GrowInv
<1>4. ASSUME NEW again \in BOOLEAN, ApplyDestroy(again)
      PROVE  disk' = disk /\ phase # "down" /\ \A c \in Conns : counted[c] <= counted'[c]
  <2>1. Head(queue) \in Reading /\ clock \in Nat
    BY <1>4, HeadTail DEF ApplyDestroy, TypeOK
  <2>2. Credit(Head(queue), FALSE, clock) \/ Ignore(Head(queue))
    BY <1>4 DEF ApplyDestroy
  <2>3. disk' = disk /\ phase # "down"
    BY <1>4 DEF ApplyDestroy
  <2> QED
    BY <2>1, <2>2, <2>3, CountedGrows
<1>5. ASSUME NEW r \in rows, ApplyRow(r)
      PROVE  disk' = disk /\ phase # "down" /\ \A c \in Conns : counted[c] <= counted'[c]
  <2>1. r \in Reading /\ initial \in BOOLEAN /\ at \in Nat
    BY DEF TypeOK
  <2>2. Credit(r, initial, at) \/ Ignore(r)
    BY <1>5 DEF ApplyRow
  <2>3. disk' = disk /\ phase # "down"
    BY <1>5 DEF ApplyRow
  <2> QED
    BY <2>1, <2>2, <2>3, CountedGrows
<1>6. CASE Save
  BY <1>1, <1>6 DEF Save, GrowInv
<1>7. CASE Start
  BY <1>1, <1>7 DEF Start, Loaded, GrowInv
<1>8. CASE Crash
  BY <1>1, <1>8 DEF Crash, GrowInv
<1>9. CASE BeginPoll \/ OpenFails \/ LockPoll \/ EndPoll
  <2>1. UNCHANGED <<disk, counted>> /\ phase # "down" /\ phase' # "down"
    BY <1>9 DEF BeginPoll, OpenFails, LockPoll, EndPoll
  <2> QED
    BY <1>1, <2>1 DEF GrowInv
<1> QED
  BY <1>2, <1>3, <1>4, <1>5, <1>6, <1>7, <1>8, <1>9
     DEF Next, Kernel, Listener, Collector, Lifecycle, Open, Transfer, Close,
         Tick, ListenDestroy, ListenerFails, ReadRow, vars

\* The counters in the state file never shrink, whatever is saved, loaded,
\* credited or lost in a crash, also when tuples share keys (New, Save).
THEOREM SavedGrows == Spec => SavedOnlyGrows
<1>1. Init => TypeOK /\ Opened /\ GrowInv
  BY TypeInit DEF Init, GrowInv
<1>2. TypeOK /\ Opened /\ GrowInv /\ [Next]_vars => (TypeOK /\ Opened /\ GrowInv)'
  BY TypeNext, OpenedNext, GrowNext
<1>3. TypeOK /\ Opened /\ GrowInv /\ [Next]_vars
        => [\A c \in Conns : disk.counted[c] <= disk'.counted[c]]_vars
  BY TypeNext, GrowNext
<1> QED
  BY <1>1, <1>2, <1>3, PTL DEF Spec, SavedOnlyGrows
-----------------------------------------------------------------------------
(* Nothing is lost.                                                        *)
(*                                                                         *)
(* While the tracker runs, a tuple is accounted for up to an incarnation,  *)
(* Front: that of its baseline, or mark when it has none.  Each later      *)
(* incarnation that has ended still has a destroy event in the queue.  If  *)
(* an event of an earlier one is in the queue (Late), the counter may be   *)
(* short, but then the event is stale when it is applied, and the tuple    *)
(* becomes suspect, or it is discarded, and the tuple becomes lossy.       *)

\* Incarnation g of c is over.
Ended(c, g) == g < gen[c] \/ c \notin live

\* What c has carried at the end of g, or up to now.
EndOf(c, g) == IF g = gen[c] THEN Carried(c) ELSE base[c][g + 1]

\* A destroy event of incarnation g of c has not been applied, or will be again.
Awaits(c, g) == \E i \in 1..Len(queue) : queue[i].conn = c /\ queue[i].gen = g

Late(c, g) == \E h \in 1..MaxGen : h < g /\ Awaits(c, h)

Front(c) == IF Seen(c) THEN Previous(c).gen ELSE mark[c]

\* Previous, as it is in the state file.
Saved(c) ==
    IF disk.active[KeyOf[c]].gen # 0
    THEN disk.active[KeyOf[c]] ELSE disk.active[LegacyOf[c]]

\* An event holds the final counter of its incarnation.
Final(r) == Ended(r.conn, r.gen) /\ Upto(r.conn, r) = EndOf(r.conn, r.gen)

QueueInv ==
    /\ \A i \in 1..Len(queue) : Final(queue[i])
    /\ phase = "down" => queue = <<>> /\ listener = "off"
    /\ \A c \in Conns : mark[c] <= gen[c]

SeenInv(c) ==
    /\ Late(c, Previous(c).gen) \/ counted[c] = Upto(c, Previous(c))
    /\ mark[c] <= Previous(c).gen
    /\ Ended(c, Previous(c).gen) =>
         \/ Awaits(c, Previous(c).gen)
         \/ Upto(c, Previous(c)) = EndOf(c, Previous(c).gen)

\* Without a baseline: what is open since before this run, or before its
\* baseline was forgotten, will be a recount.
UnseenInv(c) ==
    \/ Late(c, mark[c] + 1)
    \/ mark[c] = gen[c] /\ c \in live
    \/ Ended(c, mark[c]) /\ counted[c] = EndOf(c, mark[c])

TrackInv(c) ==
    /\ Seen(c) => SeenInv(c)
    /\ ~Seen(c) => UnseenInv(c)
    /\ \A g \in 1..gen[c] : Front(c) < g /\ Ended(c, g) => Awaits(c, g)
    /\ Saved(c).gen <= Front(c)

DiskInv(c) ==
    Saved(c).gen # 0 =>
        Late(c, Saved(c).gen) \/ disk.counted[c] = Upto(c, Saved(c))

\* While the daemon is down, the incarnation in the state file is open, or
\* nothing was ever saved.
DownInv(c) ==
    \/ c \in live /\ Saved(c).gen = gen[c]
    \/ /\ Saved(c).gen = 0 /\ disk.counted[c] = 0
       /\ c \in live \/ gen[c] = 0

Complete(c) ==
    /\ DiskInv(c)
    /\ phase # "down" => TrackInv(c)
    /\ phase = "down" => DownInv(c)

-----------------------------------------------------------------------------
(* The kernel's part *)

\* What a step may do to one tuple.
LEMMA TupleStep ==
    ASSUME TypeOK, [Next]_vars, NEW c \in Conns
    PROVE  \/ /\ gen'[c] = gen[c] /\ bytes'[c] = bytes[c] /\ base'[c] = base[c]
              /\ c \in live' <=> c \in live
           \/ Open(c) \/ Transfer(c) \/ Close(c)
<1> USE DEF kernel, scan, ledger, bounds, history
<1>1. ASSUME NEW d \in Conns, d # c, Open(d) \/ Transfer(d) \/ Close(d)
      PROVE  /\ gen'[c] = gen[c] /\ bytes'[c] = bytes[c] /\ base'[c] = base[c]
             /\ c \in live' <=> c \in live
  BY <1>1 DEF Open, Transfer, Close, TypeOK
<1>2. \/ \E d \in Conns : Open(d) \/ Transfer(d) \/ Close(d)
      \/ UNCHANGED <<gen, bytes, base, live>>
  BY DEF Next, Kernel, Listener, Collector, Lifecycle, Tick, ListenDestroy,
         ListenerFails, ApplyDestroy, Credit, Ignore, BeginPoll, OpenFails,
         ReadRow, LockPoll, ApplyRow, EndPoll, Save, Start, Crash, vars
<1> QED
  BY <1>1, <1>2

\* An incarnation that is over stays as it was.
LEMMA EndStable ==
    ASSUME TypeOK, [Next]_vars, NEW c \in Conns, NEW g \in 0..gen[c], Ended(c, g)
    PROVE  /\ g \in 0..gen'[c]
           /\ Ended(c, g)'
           /\ EndOf(c, g)' = EndOf(c, g)
<1> USE DEF kernel, scan, ledger, bounds, history
<1>1. gen[c] \in 0..MaxGen /\ base[c] \in [1..MaxGen -> Int] /\ g \in Nat
      /\ gen[c] \in Nat
  BY BoundTypes DEF TypeOK
<1>2. CASE /\ gen'[c] = gen[c] /\ bytes'[c] = bytes[c] /\ base'[c] = base[c]
           /\ c \in live' <=> c \in live
  BY <1>2 DEF Ended, EndOf, Carried
<1>3. CASE Open(c)
  <2>1. gen' = [gen EXCEPT ![c] = @ + 1] /\ gen[c] < MaxGen
        /\ base' = [base EXCEPT ![c][gen[c] + 1] = Carried(c)]
    BY <1>3 DEF Open
  <2>2. gen'[c] = gen[c] + 1 /\ gen[c] + 1 \in 1..MaxGen
    BY <1>1, <2>1, BoundTypes DEF TypeOK
  <2>3. base'[c] = [base[c] EXCEPT ![gen[c] + 1] = Carried(c)]
    BY <2>1 DEF TypeOK
  <2>4. g \in 0..gen'[c] /\ g < gen'[c] /\ g # gen'[c]
    BY <1>1, <2>2
  <2>5. base'[c][g + 1] = EndOf(c, g)
    <3>1. CASE g = gen[c]
      BY <1>1, <2>2, <2>3, <3>1 DEF EndOf
    <3>2. CASE g < gen[c]
      <4>1. g + 1 \in 1..MaxGen /\ g + 1 # gen[c] + 1 /\ g # gen[c]
        BY <1>1, <3>2, BoundTypes
      <4> QED
        BY <1>1, <2>3, <4>1 DEF EndOf
    <3> QED
      BY <1>1, <3>1, <3>2
  <2> QED
    BY <2>4, <2>5 DEF Ended, EndOf
<1>4. CASE Transfer(c)
  <2>1. g < gen[c] /\ gen' = gen /\ base' = base /\ live' = live
    BY <1>4 DEF Transfer, Ended
  <2> QED
    BY <1>1, <2>1 DEF Ended, EndOf
<1>5. CASE Close(c)
  BY <1>5 DEF Close, Ended, EndOf, Carried
<1> QED
  BY <1>2, <1>3, <1>4, <1>5, TupleStep

\* Only Close ends an incarnation.
LEMMA EndedBefore ==
    ASSUME TypeOK, [Next]_vars, NEW c \in Conns, NEW g \in 0..gen'[c],
           Ended(c, g)'
    PROVE  /\ g \in 0..gen[c]
           /\ Ended(c, g) \/ (Close(c) /\ g = gen[c])
<1> USE DEF kernel, scan, ledger, bounds, history
<1>1. gen[c] \in Nat
  BY BoundTypes DEF TypeOK
<1>2. CASE /\ gen'[c] = gen[c] /\ bytes'[c] = bytes[c] /\ base'[c] = base[c]
           /\ c \in live' <=> c \in live
  BY <1>2 DEF Ended
<1>3. CASE Open(c)
  <2>1. gen'[c] = gen[c] + 1 /\ c \in live' /\ c \notin live
    BY <1>1, <1>3 DEF Open, TypeOK
  <2> QED
    BY <1>1, <2>1 DEF Ended
<1>4. CASE Transfer(c)
  BY <1>4 DEF Transfer, Ended
<1>5. CASE Close(c)
  BY <1>1, <1>5 DEF Close, Ended
<1> QED
  BY <1>2, <1>3, <1>4, <1>5, TupleStep

\* What has been carried up to a past position does not change.
LEMMA UptoStable ==
    ASSUME TypeOK, Opened, [Next]_vars, NEW c \in Conns, NEW p \in Baseline,
           Past(c, p)
    PROVE  base'[c][p.gen] = base[c][p.gen]
<1> DEFINE q == [gen |-> p.gen, bytes |-> p.bytes]
<1>1. q \in [gen : Nat, bytes : Nat] /\ q.gen = p.gen /\ q.bytes = p.bytes
  BY BoundTypes DEF Baseline
<1>2. Past(c, q)
  BY <1>1 DEF Past
<1>3. PICK x \in [gen : Nat, bytes : Nat] :
        x.gen = p.gen /\ x.bytes = p.bytes /\ Past(c, x)
  BY <1>1, <1>2
<1>4. base'[c][x.gen] = base[c][x.gen]
  BY <1>3, PastStable
<1> QED
  BY <1>3, <1>4

-----------------------------------------------------------------------------
(* The queue's part *)

LEMMA AwaitsAppend ==
    ASSUME TypeOK, NEW e \in Reading, queue' = Append(queue, e),
           NEW c, NEW g
    PROVE  /\ Awaits(c, g) => Awaits(c, g)'
           /\ e.conn = c /\ e.gen = g => Awaits(c, g)'
<1>1. /\ queue \in Seq(Reading)
      /\ Len(queue') = Len(queue) + 1
      /\ \A i \in 1..Len(queue) : queue'[i] = queue[i]
      /\ queue'[Len(queue) + 1] = e
      /\ Len(queue) \in Nat
  BY AppendType DEF TypeOK
<1>2. Len(queue) + 1 \in 1..Len(queue') /\ 1..Len(queue) \subseteq 1..Len(queue')
  BY <1>1
<1> QED
  BY <1>1, <1>2 DEF Awaits

LEMMA AwaitsTail ==
    ASSUME TypeOK, queue # <<>>, queue' = Tail(queue), NEW c, NEW g,
           Awaits(c, g), Head(queue).conn # c \/ Head(queue).gen # g
    PROVE  Awaits(c, g)'
<1>1. PICK i \in 1..Len(queue) : queue[i].conn = c /\ queue[i].gen = g
  BY DEF Awaits
<1>2. i # 1
  <2>1. Head(queue) = queue[1]
    BY HeadTail DEF TypeOK
  <2> QED
    BY <1>1, <2>1
<1>3. /\ i - 1 \in 1..Len(queue') /\ queue'[i - 1] = queue[i]
  <2>1. Len(queue) \in Nat /\ Len(queue') = Len(queue) - 1
    BY DEF TypeOK
  <2>2. i - 1 \in 1..Len(queue')
    BY <1>2, <2>1
  <2>3. queue'[i - 1] = queue[(i - 1) + 1]
    BY <2>2, HeadTail DEF TypeOK
  <2> QED
    BY <2>1, <2>2, <2>3
<1> QED
  BY <1>1, <1>3 DEF Awaits

\* The events of c are awaited or not as a whole.
LEMMA AwaitedAwaits ==
    ASSUME NEW c
    PROVE  c \in Awaited <=> \E g : Awaits(c, g)
BY DEF Awaited, Awaits

LEMMA QueueInvNext ==
    ASSUME TypeOK, TypeOK', Opened, ReadingsPast, BaselinesPast(active), QueueInv,
           [Next]_vars
    PROVE  QueueInv'
<1> USE DEF kernel, scan, ledger, bounds, history
<1>1. ASSUME NEW r \in Reading, Past(r.conn, r), Final(r)
      PROVE  Final(r)'
  <2>1. r.conn \in Conns /\ r.gen \in 0..gen[r.conn]
    <3>1. r.conn \in Conns /\ r.gen \in 1..gen[r.conn]
      BY <1>1 DEF Past, Reading
    <3>2. gen[r.conn] \in Nat
      BY <3>1, BoundTypes DEF TypeOK
    <3> QED
      BY <3>1, <3>2
  <2>2. Ended(r.conn, r.gen)' /\ EndOf(r.conn, r.gen)' = EndOf(r.conn, r.gen)
    BY <1>1, <2>1, EndStable DEF Final
  <2>3. Upto(r.conn, r)' = Upto(r.conn, r)
    BY <1>1, ReadingStable DEF Upto
  <2> QED
    BY <1>1, <2>2, <2>3 DEF Final
<1>2. ASSUME NEW i \in 1..Len(queue) PROVE Final(queue[i])' \/ queue' # queue
  <2>1. PICK r \in Reading : r = queue[i]
    BY QueueReading
  <2>2. Final(r)'
    BY <1>1, <2>1 DEF ReadingsPast, QueueInv
  <2> QED
    BY <2>1, <2>2
<1>3. \A i \in 1..Len(queue') : Final(queue[i])'
  <2>1. CASE queue' = queue
    BY <1>2, <2>1
  <2>2. CASE queue' = <<>>
    BY <2>2
  <2>3. ASSUME queue # <<>>, queue' = Tail(queue), NEW i \in 1..Len(queue')
        PROVE  Final(queue[i])'
    <3>1. i + 1 \in 1..Len(queue) /\ queue'[i] = queue[i + 1]
      BY <2>3, HeadTail DEF TypeOK
    <3>2. PICK r \in Reading : r = queue[i + 1]
      BY <3>1, QueueReading
    <3>3. Final(r)'
      BY <1>1, <3>1, <3>2 DEF ReadingsPast, QueueInv
    <3> QED
      BY <3>1, <3>2, <3>3
  <2>4. ASSUME NEW c \in Conns, Close(c), queue' # queue,
               NEW i \in 1..Len(queue')
        PROVE  Final(queue[i])'
    <3>1. RowOf(c) \in Reading /\ gen[c] # 0 /\ queue' = Append(queue, RowOf(c))
      BY <2>4, RowType DEF Close, Opened
    <3>2. PICK r \in Reading : r = RowOf(c)
      BY <3>1
    <3>3. /\ Len(queue') = Len(queue) + 1
          /\ \A j \in 1..Len(queue) : queue'[j] = queue[j]
          /\ queue'[Len(queue) + 1] = r
          /\ Len(queue) \in Nat
      <4>1. queue \in Seq(Reading)
        BY DEF TypeOK
      <4> QED
        BY <3>1, <3>2, <4>1, AppendType
    <3>4. CASE i = Len(queue) + 1
      <4>1. r.conn = c /\ r.gen = gen[c] /\ Upto(c, r) = Carried(c)
        BY <3>1, <3>2, PresentPast DEF RowOf
      <4>2. gen' = gen /\ bytes' = bytes /\ base' = base /\ c \notin live'
        BY <2>4 DEF Close
      <4>3. Upto(c, r)' = EndOf(c, gen[c])'
        BY <4>1, <4>2 DEF Upto, EndOf, Carried
      <4>4. Final(r)'
        BY <4>1, <4>2, <4>3 DEF Final, Ended
      <4> QED
        BY <3>3, <3>4, <4>4
    <3>5. CASE i # Len(queue) + 1
      <4>1. i \in 1..Len(queue)
        BY <3>3, <3>5
      <4>2. PICK x \in Reading : x = queue[i]
        BY <4>1, QueueReading
      <4>3. Final(x)'
        BY <1>1, <4>1, <4>2 DEF ReadingsPast, QueueInv
      <4> QED
        BY <3>3, <4>1, <4>2, <4>3
    <3> QED
      BY <3>4, <3>5
  <2>5. \/ queue' = queue \/ queue' = <<>>
        \/ queue # <<>> /\ queue' = Tail(queue)
        \/ \E c \in Conns : Close(c)
    BY DEF Next, Kernel, Listener, Collector, Lifecycle, Open, Transfer,
           Tick, ListenDestroy, ListenerFails, ApplyDestroy, BeginPoll,
           OpenFails, ReadRow, LockPoll, ApplyRow, EndPoll, Save, Start,
           Crash, vars
  <2> QED
    BY <2>1, <2>2, <2>3, <2>4, <2>5
<1>4. phase' = "down" => queue' = <<>> /\ listener' = "off"
  <2>1. CASE Crash
    BY <2>1 DEF Crash
  <2>2. CASE phase' # "down"
    BY <2>2
  <2>3. CASE phase = "down" /\ UNCHANGED <<queue, listener>>
    BY <2>3 DEF QueueInv
  <2> QED
    BY <2>1, <2>2, <2>3
       DEF QueueInv, Next, Kernel, Listener, Collector, Lifecycle, Open,
           Transfer, Close, Tick, ListenDestroy, ListenerFails, ApplyDestroy,
           BeginPoll, OpenFails, ReadRow, LockPoll, ApplyRow, EndPoll, Save,
           Start, vars
<1>5. ASSUME NEW c \in Conns PROVE mark'[c] <= gen'[c]
  <2>1. gen[c] \in Nat /\ gen'[c] \in Nat /\ mark[c] \in Nat /\ mark[c] <= gen[c]
    BY BoundTypes DEF TypeOK, QueueInv
  <2>2. gen[c] <= gen'[c]
    <3>1. CASE Open(c)
      BY <2>1, <3>1 DEF Open, TypeOK
    <3>2. CASE gen'[c] = gen[c]
      BY <2>1, <3>2
    <3> QED
      BY <3>1, <3>2, TupleStep DEF Transfer, Close
  <2>3. CASE mark' = mark
    BY <2>1, <2>2, <2>3
  <2>4. CASE Start
    BY <2>1, <2>4 DEF Start
  <2>5. CASE EndPoll
    <3>1. Seen(c) => Previous(c).gen \in 1..gen[c]
      BY DEF Seen, Previous, BaselinesPast, Past
    <3>2. mark'[c] = IF Outlived(c) /\ mark[c] < Previous(c).gen
                     THEN Previous(c).gen ELSE mark[c]
      BY <2>5 DEF EndPoll
    <3>3. gen'[c] = gen[c]
      BY <2>5 DEF EndPoll
    <3> QED
      BY <2>1, <3>1, <3>2, <3>3 DEF Outlived
  <2> QED
    BY <2>3, <2>4, <2>5
       DEF Next, Kernel, Listener, Collector, Lifecycle, Open, Transfer, Close,
           Tick, ListenDestroy, ListenerFails, ApplyDestroy, Credit, Ignore,
           BeginPoll, OpenFails, ReadRow, LockPoll, ApplyRow, Save, Crash, vars
<1> QED
  BY <1>3, <1>4, <1>5 DEF QueueInv

-----------------------------------------------------------------------------
(* Steps that leave the tracker's view of a tuple alone *)

LEMMA PreviousPast ==
    ASSUME TypeOK, BaselinesPast(active), NEW c \in Conns, Seen(c)
    PROVE  /\ Past(c, Previous(c)) /\ Previous(c) \in Baseline
           /\ Previous(c).gen \in 1..gen[c]
BY PreviousType DEF Seen, Previous, BaselinesPast, Past

LEMMA SavedType ==
    ASSUME TypeOK, NEW c \in Conns
    PROVE  Saved(c) \in Baseline /\ disk.counted[c] \in Nat
BY KeyFacts DEF TypeOK, Saved

LEMMA SavedPast ==
    ASSUME TypeOK, BaselinesPast(disk.active), NEW c \in Conns, Saved(c).gen # 0
    PROVE  /\ Past(c, Saved(c)) /\ Saved(c).gen \in 1..gen[c]
BY DEF Saved, BaselinesPast, Past

LEMMA LateStable ==
    ASSUME NEW c, \A g \in 1..MaxGen : Awaits(c, g) => Awaits(c, g)',
           NEW h, Late(c, h)
    PROVE  \E g \in 1..MaxGen : g < h /\ Awaits(c, g)'
BY DEF Late

LEMMA DiskInvKept ==
    ASSUME IInv, [Next]_vars, NEW c \in Conns, DiskInv(c), disk' = disk,
           \A g \in 1..MaxGen : Awaits(c, g) => Awaits(c, g)'
    PROVE  DiskInv(c)'
<1>1. TypeOK /\ Opened /\ BaselinesPast(disk.active)
  BY DEF IInv
<1>2. Saved(c)' = Saved(c) /\ disk'.counted[c] = disk.counted[c]
  BY DEF Saved
<1>3. PICK b \in Baseline : b = Saved(c)
  BY <1>1, SavedType
<1>4. CASE b.gen # 0 /\ Late(c, b.gen)
  BY <1>2, <1>3, <1>4, LateStable DEF DiskInv, Late
<1>5. CASE b.gen # 0 /\ disk.counted[c] = Upto(c, b)
  <2>1. Past(c, b)
    BY <1>1, <1>3, <1>5, SavedPast
  <2>2. base'[c][b.gen] = base[c][b.gen]
    BY <1>1, <2>1, UptoStable
  <2>3. disk'.counted[c] = base'[c][b.gen] + b.bytes
    BY <1>2, <1>5, <2>2 DEF Upto
  <2> QED
    BY <1>2, <1>3, <2>3 DEF DiskInv, Upto
<1>6. CASE b.gen = 0
  BY <1>2, <1>3, <1>6 DEF DiskInv
<1> QED
  BY <1>3, <1>4, <1>5, <1>6 DEF DiskInv

LEMMA TrackInvKept ==
    ASSUME IInv, QueueInv, [Next]_vars, NEW c \in Conns, TrackInv(c),
           Previous(c)' = Previous(c), counted'[c] = counted[c],
           mark'[c] = mark[c],
           Saved(c)' \in {Saved(c), Previous(c)},
           \A g \in 1..MaxGen : Awaits(c, g) => Awaits(c, g)',
           \A g \in 1..MaxGen : Close(c) /\ g = gen[c] => Awaits(c, g)'
    PROVE  TrackInv(c)'
<1>1. TypeOK /\ Opened /\ BaselinesPast(active)
  BY DEF IInv
<1>2. /\ gen[c] \in 0..MaxGen /\ mark[c] \in 0..MaxGen /\ mark[c] \in 0..gen[c]
      /\ gen[c] \in Nat /\ mark[c] \in Nat
  BY <1>1, BoundTypes DEF TypeOK, QueueInv
<1>3. Seen(c)' <=> Seen(c)
  BY DEF Seen
<1>4. Front(c)' = Front(c)
  BY <1>3 DEF Front
<1>5. ASSUME Seen(c) PROVE SeenInv(c)'
  <2>1. PICK b \in Baseline : b = Previous(c) /\ Past(c, b) /\ b.gen \in 1..gen[c]
    BY <1>1, <1>5, PreviousPast
  <2>2. SeenInv(c)
    BY <1>5 DEF TrackInv
  <2>3. Upto(c, b)' = Upto(c, b)
    BY <1>1, <2>1, UptoStable DEF Upto
  <2>4. Late(c, b.gen)' \/ counted'[c] = Upto(c, b)'
    BY <2>1, <2>2, <2>3, LateStable DEF SeenInv, Late
  <2>5. b.gen \in 0..gen[c] /\ b.gen \in 1..MaxGen
    BY <1>2, <2>1, BoundTypes
  <2>6. ASSUME Ended(c, b.gen)'
        PROVE  Awaits(c, b.gen)' \/ Upto(c, b)' = EndOf(c, b.gen)'
    <3>1. CASE Ended(c, b.gen)
      <4>1. EndOf(c, b.gen)' = EndOf(c, b.gen)
        BY <1>1, <2>5, <3>1, EndStable
      <4> QED
        BY <2>1, <2>2, <2>3, <2>5, <3>1, <4>1 DEF SeenInv
    <3>2. CASE ~Ended(c, b.gen)
      <4>1. ~(b.gen < gen[c])
        BY <3>2 DEF Ended
      <4>2. b.gen = gen[c]
        BY <1>2, <2>5, <4>1, BoundTypes
      <4>3. b.gen \in 0..gen'[c]
        <5>1. Past(c, b)'
          <6> DEFINE q == [gen |-> b.gen, bytes |-> b.bytes]
          <6>1. PICK x \in [gen : Nat, bytes : Nat] :
                  x.gen = b.gen /\ x.bytes = b.bytes
            <7>1. q \in [gen : Nat, bytes : Nat] /\ q.gen = b.gen /\ q.bytes = b.bytes
              BY BoundTypes DEF Baseline
            <7> QED
              BY <7>1
          <6>2. Past(c, x)'
            BY <1>1, <2>1, <6>1, PastStable DEF Past
          <6> QED
            BY <6>1, <6>2 DEF Past
        <5> QED
          BY <5>1 DEF Past
      <4>4. Close(c)
        BY <1>1, <2>6, <3>2, <4>3, EndedBefore
      <4> QED
        BY <2>5, <4>2, <4>4
    <3> QED
      BY <3>1, <3>2
  <2> QED
    BY <2>1, <2>2, <2>4, <2>6 DEF SeenInv
<1>6. ASSUME ~Seen(c) PROVE UnseenInv(c)'
  <2>1. UnseenInv(c)
    BY <1>6 DEF TrackInv
  <2>2. CASE Late(c, mark[c] + 1)
    BY <2>2, LateStable DEF UnseenInv, Late
  <2>3. CASE mark[c] = gen[c] /\ c \in live
    <3>1. CASE Close(c)
      <4>1. gen[c] \in 1..MaxGen /\ gen[c] < mark[c] + 1
        BY <1>1, <1>2, <2>3, BoundTypes DEF Opened
      <4>2. Late(c, mark[c] + 1)'
        BY <3>1, <4>1 DEF Late
      <4> QED
        BY <4>2 DEF UnseenInv
    <3>2. CASE ~Close(c)
      <4>1. gen'[c] = gen[c] /\ c \in live'
        BY <1>1, <2>3, <3>2, TupleStep DEF Open, Transfer
      <4> QED
        BY <2>3, <4>1 DEF UnseenInv
    <3> QED
      BY <3>1, <3>2
  <2>4. CASE Ended(c, mark[c]) /\ counted[c] = EndOf(c, mark[c])
    <3>1. Ended(c, mark[c])' /\ EndOf(c, mark[c])' = EndOf(c, mark[c])
      <4>1. PICK g \in 0..gen[c] : g = mark[c]
        BY <1>2
      <4>2. Ended(c, g)' /\ EndOf(c, g)' = EndOf(c, g)
        BY <1>1, <2>4, <4>1, EndStable
      <4> QED
        BY <4>1, <4>2 DEF Ended, EndOf, Carried
    <3> QED
      BY <2>4, <3>1 DEF UnseenInv
  <2> QED
    BY <2>1, <2>2, <2>3, <2>4 DEF UnseenInv
<1>7. ASSUME NEW g \in 1..gen'[c], Front(c)' < g, Ended(c, g)'
      PROVE  Awaits(c, g)'
  <2>1. g \in 0..gen'[c]
    <3>1. TypeOK'
      BY <1>1, TypeNext
    <3>2. gen'[c] \in 0..MaxGen
      BY <3>1 DEF TypeOK
    <3>3. gen'[c] \in Nat
      BY <3>2, BoundTypes
    <3> QED
      BY <3>3
  <2>2. g \in 0..gen[c] /\ (Ended(c, g) \/ (Close(c) /\ g = gen[c]))
    BY <1>1, <1>7, <2>1, EndedBefore
  <2>3. g \in 1..gen[c] /\ g \in 1..MaxGen
    BY <1>2, <2>2, BoundTypes
  <2>4. CASE Ended(c, g)
    BY <1>4, <1>7, <2>3, <2>4 DEF TrackInv
  <2> QED
    BY <2>2, <2>3, <2>4
<1>8. Saved(c)'.gen <= Front(c)'
  <2>1. Previous(c).gen <= Front(c)
    <3>1. CASE Seen(c)
      <4>1. Previous(c).gen \in Nat
        BY <1>1, <3>1, PreviousPast, BoundTypes DEF Baseline
      <4> QED
        BY <3>1, <4>1 DEF Front
    <3>2. CASE ~Seen(c)
      BY <1>2, <3>2 DEF Front, Seen
    <3> QED
      BY <3>1, <3>2
  <2> QED
    BY <1>4, <2>1 DEF TrackInv
<1> QED
  BY <1>3, <1>5, <1>6, <1>7, <1>8 DEF TrackInv

-----------------------------------------------------------------------------
(* Crediting a reading *)

\* The reading is not older than what the tuple is accounted for.
LEMMA CreditAhead ==
    ASSUME TypeOK, NEW r \in Reading, NEW skip \in BOOLEAN, NEW now \in Nat,
           Credit(r, skip, now), r.conn \notin suspect' \cup lossy',
           TrackInv(r.conn)
    PROVE  /\ Front(r.conn) <= r.gen /\ mark[r.conn] <= r.gen
           /\ Seen(r.conn) /\ Previous(r.conn).gen = r.gen =>
                /\ Previous(r.conn).bytes <= r.bytes
                /\ Delta(r, skip) = r.bytes - Previous(r.conn).bytes
           /\ Seen(r.conn) /\ Previous(r.conn).gen # r.gen =>
                Delta(r, skip) = r.bytes
           /\ ~Seen(r.conn) => mark[r.conn] < r.gen /\ Delta(r, skip) = r.bytes
<1> DEFINE c == r.conn
           b == Previous(c)
<1>1. /\ c \in Conns /\ b.bytes \in Nat /\ b.gen \in Nat
      /\ r.bytes \in Nat /\ r.gen \in Nat /\ mark[c] \in Nat
  <2>1. b \in Baseline /\ c \in Conns
    BY PreviousType DEF Reading
  <2>2. mark[c] \in 0..MaxGen
    BY <2>1 DEF TypeOK
  <2> QED
    BY <2>1, <2>2, BoundTypes DEF Reading, Baseline
<1>2. ~Stale(r) /\ ~Recount(r, skip) /\ ~Truncated(r, skip)
  BY DEF Credit
<1>3. CASE Seen(c)
  <2>1. Delta(r, skip) = IF r.bytes >= b.bytes THEN r.bytes - b.bytes ELSE r.bytes
    BY <1>3 DEF Delta, counterDelta
  <2>2. ~(r.gen < b.gen) /\ ~(r.gen = b.gen /\ r.bytes < b.bytes)
    BY <1>2, <1>3 DEF Stale
  <2>3. b.gen # r.gen => ~(r.bytes >= b.bytes /\ b.bytes > 0)
    BY <1>2, <1>3 DEF Truncated
  <2>4. Front(c) = b.gen /\ mark[c] <= b.gen
    BY <1>3 DEF Front, TrackInv, SeenInv
  <2> HIDE DEF b, c
  <2>5. /\ b.gen <= r.gen /\ mark[c] <= r.gen
        /\ b.gen = r.gen => b.bytes <= r.bytes /\ Delta(r, skip) = r.bytes - b.bytes
    BY <1>1, <2>1, <2>2, <2>4
  <2>6. b.gen # r.gen => Delta(r, skip) = r.bytes
    BY <1>1, <2>1, <2>3
  <2> QED
    BY <1>3, <2>4, <2>5, <2>6 DEF b, c
<1>4. CASE ~Seen(c)
  <2>1. ~skip
    BY <1>2, <1>4 DEF Truncated
  <2>2. Delta(r, skip) = r.bytes
    BY <1>4, <2>1 DEF Delta, counterDelta
  <2>3. ~(r.gen <= mark[c])
    BY <1>2, <1>4, <2>1 DEF Recount
  <2>4. Front(c) = mark[c]
    BY <1>4 DEF Front
  <2> HIDE DEF b, c
  <2>5. mark[c] < r.gen /\ mark[c] <= r.gen
    BY <1>1, <2>3
  <2> QED
    BY <1>4, <2>2, <2>4, <2>5 DEF b, c
<1> QED
  BY <1>3, <1>4

\* Between what the tuple is accounted for and the reading there is no
\* incarnation without an event in the queue, so that without such an event
\* the reading continues where the counter stands.
LEMMA CreditExact ==
    ASSUME IInv, QueueInv,
           NEW r \in Reading, NEW skip \in BOOLEAN, NEW now \in Nat,
           Credit(r, skip, now), r.conn \notin suspect' \cup lossy',
           Past(r.conn, r), TrackInv(r.conn),
           \A h \in 1..MaxGen : h < r.gen => ~Awaits(r.conn, h)
    PROVE  counted'[r.conn] = Upto(r.conn, r)
<1> DEFINE c == r.conn
           b == Previous(c)
<1>1. TypeOK /\ BaselinesPast(active) /\ c \in Conns
  BY DEF IInv, Reading
<1>2. /\ gen[c] \in Nat /\ gen[c] <= MaxGen /\ r.gen \in 1..gen[c]
      /\ r.gen \in 1..MaxGen /\ r.bytes \in Nat /\ counted[c] \in Nat
      /\ base[c] \in [1..MaxGen -> Int] /\ MaxGen \in Nat
      /\ mark[c] \in Nat
  BY <1>1, BoundTypes DEF TypeOK, Past, Reading
<1>n. /\ gen[c] \in Nat /\ MaxGen \in Nat /\ gen[c] <= MaxGen
      /\ r.gen \in Nat /\ r.gen <= gen[c]
  BY <1>2
<1>3. counted'[c] = counted[c] + Delta(r, skip)
  <2>1. Delta(r, skip) \in Nat
    BY <1>1, DeltaType
  <2> QED
    BY <1>1, <2>1 DEF Credit, TypeOK
<1>4. base[c][r.gen] \in Int /\ Upto(c, r) = base[c][r.gen] + r.bytes
  BY <1>2 DEF Upto
\* An incarnation right before that of the reading.
<1>5. ASSUME NEW f \in Nat, f = Front(c), f < r.gen
      PROVE  /\ f + 1 = r.gen
             /\ EndOf(c, f) = base[c][r.gen]
  <2>1. f + 1 = r.gen
    <3>1. SUFFICES ASSUME f + 1 < r.gen PROVE FALSE
      BY <1>n, <1>5
    <3>2. f + 1 \in 1..gen[c] /\ f + 1 \in 1..MaxGen /\ f + 1 < gen[c]
          /\ Front(c) < f + 1
      <4> HIDE DEF c
      <4>1. f < f + 1 /\ f + 1 >= 1 /\ f + 1 <= MaxGen /\ f + 1 < gen[c]
        BY <1>n, <1>5, <3>1
      <4> QED
        BY <1>n, <1>5, <4>1
    <3>3. Awaits(c, f + 1)
      BY <3>2 DEF TrackInv, Ended
    <3> QED
      BY <3>1, <3>2, <3>3
  <2>2. f # gen[c]
    BY <1>2, <1>5
  <2> QED
    BY <2>1, <2>2 DEF EndOf
<1>6. CASE Seen(c) /\ b.gen = r.gen
  <2>1. counted[c] = Upto(c, b)
    <3>1. ~Late(c, b.gen)
      BY <1>6 DEF Late
    <3> QED
      BY <1>6, <3>1 DEF TrackInv, SeenInv
  <2>2. b.bytes \in Nat /\ Delta(r, skip) = r.bytes - b.bytes
    BY <1>1, <1>6, CreditAhead, PreviousType DEF Baseline
  <2>3. counted[c] = base[c][r.gen] + b.bytes
    BY <1>6, <2>1 DEF Upto
  <2>4. base[c][r.gen] \in Int /\ counted[c] \in Nat /\ r.bytes \in Nat
    BY <1>2, <1>4
  <2>5. counted'[c] = base[c][r.gen] + b.bytes + (r.bytes - b.bytes)
    BY <1>3, <2>2, <2>3
  <2>6. Upto(c, r) = base[c][r.gen] + r.bytes
    BY <1>4
  <2> HIDE DEF c, b
  <2>7. base[c][r.gen] + b.bytes + (r.bytes - b.bytes) = base[c][r.gen] + r.bytes
    BY <2>2, <2>4
  <2>8. counted'[c] = Upto(c, r)
    BY <2>5, <2>6, <2>7
  <2> QED
    BY <2>8 DEF c
<1>7. CASE Seen(c) /\ b.gen # r.gen
  <2>1. b.gen \in 1..gen[c] /\ b.bytes \in Nat /\ Front(c) = b.gen
    BY <1>1, <1>7, PreviousPast, PreviousType DEF Front, Baseline
  <2>2. b.gen <= r.gen
    BY <1>1, <2>1, CreditAhead
  <2>3. b.gen < r.gen /\ b.gen \in Nat /\ b.gen \in 1..MaxGen /\ b.gen < gen[c]
    <3> HIDE DEF c, b
    <3> QED
      BY <1>n, <1>7, <2>1, <2>2
  <2>4. SeenInv(c) /\ Ended(c, b.gen)
    BY <1>7, <2>3 DEF TrackInv, Ended
  <2>5. counted[c] = Upto(c, b)
    <3>1. ~Late(c, b.gen)
      <4>1. ASSUME NEW h \in 1..MaxGen, h < b.gen PROVE ~Awaits(c, h)
        <5>1. h < r.gen
          <6> HIDE DEF c, b
          <6> QED
            BY <1>2, <2>3, <4>1
        <5> QED
          BY <5>1
      <4> QED
        BY <4>1 DEF Late
    <3> QED
      BY <2>4, <3>1 DEF SeenInv
  <2>6. Upto(c, b) = EndOf(c, b.gen)
    BY <2>3, <2>4 DEF SeenInv
  <2>7. EndOf(c, b.gen) = base[c][r.gen]
    BY <1>5, <2>1, <2>3
  <2>8. Delta(r, skip) = r.bytes
    BY <1>1, <1>7, CreditAhead
  <2> QED
    BY <1>3, <1>4, <2>5, <2>6, <2>7, <2>8
<1>8. CASE ~Seen(c)
  <2>1. mark[c] < r.gen /\ Delta(r, skip) = r.bytes /\ Front(c) = mark[c]
    BY <1>1, <1>8, CreditAhead DEF Front
  <2>2. UnseenInv(c)
    BY <1>8 DEF TrackInv
  <2>3. ~Late(c, mark[c] + 1)
    <3>1. ASSUME NEW h \in 1..MaxGen, h < mark[c] + 1 PROVE ~Awaits(c, h)
      <4>1. h < r.gen
        BY <1>2, <2>1, <3>1
      <4> QED
        BY <4>1
    <3> QED
      BY <3>1 DEF Late
  <2>4. mark[c] # gen[c]
    BY <1>2, <2>1
  <2>5. counted[c] = EndOf(c, mark[c])
    BY <2>2, <2>3, <2>4 DEF UnseenInv
  <2>6. EndOf(c, mark[c]) = base[c][r.gen]
    BY <1>2, <1>5, <2>1
  <2> QED
    BY <1>3, <1>4, <2>1, <2>5, <2>6
<1> QED
  BY <1>6, <1>7, <1>8

\* A reading that reached the end of its incarnation, or one that another
\* reading of it will.
LEMMA CreditEnd ==
    ASSUME IInv, QueueInv,
           NEW r \in Reading, NEW skip \in BOOLEAN, NEW now \in Nat,
           Credit(r, skip, now), r.conn \notin suspect' \cup lossy',
           Past(r.conn, r), TrackInv(r.conn), Ended(r.conn, r.gen)
    PROVE  Awaits(r.conn, r.gen) \/ Upto(r.conn, r) = EndOf(r.conn, r.gen)
<1> DEFINE c == r.conn
           b == Previous(c)
<1>1. TypeOK /\ BaselinesPast(active) /\ c \in Conns
  BY DEF IInv, Reading
<1>2. /\ gen[c] \in Nat /\ gen[c] <= MaxGen /\ r.gen \in 1..gen[c]
      /\ r.bytes \in Nat /\ bytes[c] \in Nat
      /\ base[c] \in [1..MaxGen -> Int] /\ MaxGen \in Nat
  BY <1>1, BoundTypes DEF TypeOK, Past, Reading
<1>n. /\ gen[c] \in Nat /\ r.gen \in Nat /\ r.gen <= gen[c] /\ r.gen >= 1
      /\ gen[c] \in 1..MaxGen /\ r.gen \in 1..MaxGen
  <2> HIDE DEF c
  <2> QED
    BY <1>2
<1>3. CASE Front(c) < r.gen
  BY <1>2, <1>3 DEF TrackInv
<1>4. CASE Front(c) = r.gen
  <2>1. Seen(c) /\ b.gen = r.gen
    <3>1. Seen(c)
      <4>1. mark[c] \in Nat
        BY <1>1, BoundTypes DEF TypeOK
      <4> QED
        BY <1>1, <1>2, <1>4, <4>1, CreditAhead DEF Front
    <3> QED
      BY <1>4, <3>1 DEF Front
  <2>2. b.bytes <= r.bytes /\ b.bytes \in Nat
    BY <1>1, <2>1, CreditAhead, PreviousType DEF Baseline
  <2>3. Awaits(c, r.gen) \/ Upto(c, b) = EndOf(c, r.gen)
    BY <2>1 DEF TrackInv, SeenInv
  <2>4. base[c][r.gen] + r.bytes <= EndOf(c, r.gen)
    <3>1. CASE r.gen = gen[c]
      <4>1. EndOf(c, r.gen) = base[c][gen[c]] + bytes[c]
        BY <1>2, <3>1 DEF EndOf, Carried
      <4>2. r.bytes <= bytes[c]
        BY <3>1 DEF Past
      <4>3. base[c][gen[c]] \in Int
        BY <1>2, <1>n
      <4> HIDE DEF c
      <4> QED
        BY <1>2, <3>1, <4>1, <4>2, <4>3
    <3>2. CASE r.gen < gen[c]
      <4>1. r.gen + 1 \in 1..gen[c] /\ r.gen < r.gen + 1 /\ r.gen # gen[c]
        <5> HIDE DEF c
        <5> QED
          BY <1>n, <3>2
      <4> QED
        BY <4>1 DEF EndOf, Past
    <3>3. r.gen = gen[c] \/ r.gen < gen[c]
      BY <1>n
    <3> QED
      BY <3>1, <3>2, <3>3
  <2>5. base[c][r.gen] \in Int /\ r.bytes \in Nat
    BY <1>2, <1>n
  <2>6. Upto(c, b) = base[c][r.gen] + b.bytes /\ Upto(c, r) = base[c][r.gen] + r.bytes
    BY <2>1 DEF Upto
  <2> HIDE DEF c, b
  <2>7. Upto(c, b) = EndOf(c, r.gen) => Upto(c, r) = EndOf(c, r.gen)
    BY <2>2, <2>4, <2>5, <2>6
  <2> QED
    BY <2>3, <2>7 DEF c, b
<1>5. Front(c) <= r.gen /\ Front(c) \in Nat
  <2>1. mark[c] \in Nat /\ b.gen \in Nat
    <3>1. b \in Baseline /\ mark[c] \in 0..MaxGen
      BY <1>1, PreviousType DEF TypeOK
    <3> QED
      BY <3>1, BoundTypes DEF Baseline
  <2> QED
    BY <1>1, <2>1, CreditAhead DEF Front
<1> QED
  <2> HIDE DEF c
  <2>1. Front(c) < r.gen \/ Front(c) = r.gen
    BY <1>2, <1>5
  <2> QED
    BY <1>3, <1>4, <2>1 DEF c

\* Crediting a reading accounts for its tuple up to the reading.
LEMMA CreditTracked ==
    ASSUME IInv, QueueInv, DistinctKeyAssumption,
           NEW r \in Reading, NEW skip \in BOOLEAN, NEW now \in Nat,
           Credit(r, skip, now), r.conn \notin suspect' \cup lossy',
           Past(r.conn, r), TrackInv(r.conn), DiskInv(r.conn),
           gen' = gen, bytes' = bytes, live' = live, disk' = disk,
           \A g \in 1..MaxGen :
               Awaits(r.conn, g) /\ g # r.gen => Awaits(r.conn, g)',
           (Awaits(r.conn, r.gen) => Awaits(r.conn, r.gen)') \/ Final(r)
    PROVE  TrackInv(r.conn)' /\ DiskInv(r.conn)'
<1> DEFINE c == r.conn
<1>1. /\ TypeOK /\ BaselinesPast(active) /\ BaselinesPast(disk.active)
      /\ c \in Conns /\ r.gen \in 1..MaxGen /\ base' = base /\ mark' = mark
  BY DEF IInv, Reading, Credit
<1>2. /\ gen[c] \in Nat /\ gen[c] <= MaxGen /\ MaxGen \in Nat
      /\ r.gen \in Nat /\ r.gen # 0 /\ r.gen <= gen[c]
  <2>1. gen[c] \in 0..MaxGen /\ r.gen \in 1..gen[c]
    BY <1>1 DEF TypeOK, Past
  <2> HIDE DEF c
  <2> QED
    BY <2>1, BoundTypes
<1>3. Previous(c)' = BaselineOf(r, now) /\ Seen(c)' /\ Front(c)' = r.gen
  <2>1. BaselineOf(r, now) \in Baseline /\ active' = Rebase(c, BaselineOf(r, now))
    BY BaselineOfType DEF Credit
  <2>2. active'[KeyOf[c]] = BaselineOf(r, now)
    BY <1>1, <2>1, RebaseFacts
  <2>3. BaselineOf(r, now).gen = r.gen
    BY DEF BaselineOf
  <2> QED
    BY <1>2, <2>2, <2>3 DEF Previous, Seen, Front
<1>4. Upto(c, BaselineOf(r, now))' = Upto(c, r)
  BY <1>1 DEF Upto, BaselineOf
<1>5. \A g \in Nat : /\ Ended(c, g)' <=> Ended(c, g)
                     /\ EndOf(c, g)' = EndOf(c, g)
  BY <1>1 DEF Ended, EndOf, Carried
<1>6. /\ Front(c) <= r.gen /\ mark[c] <= r.gen
      /\ Front(c) \in Nat /\ Previous(c).gen \in Nat /\ mark[c] \in Nat
  <2>1. Previous(c).gen \in Nat /\ mark[c] \in Nat
    <3>1. Previous(c) \in Baseline /\ mark[c] \in 0..MaxGen
      BY <1>1, PreviousType DEF TypeOK
    <3> QED
      BY <3>1, BoundTypes DEF Baseline
  <2> QED
    BY <1>1, <2>1, CreditAhead DEF Front
<1>7. SeenInv(c)'
  <2>1. Late(c, r.gen)' \/ counted'[c] = Upto(c, r)
    <3>1. SUFFICES ASSUME ~Late(c, r.gen)' PROVE counted'[c] = Upto(c, r)
      OBVIOUS
    <3>2. ASSUME NEW h \in 1..MaxGen, h < r.gen PROVE ~Awaits(c, h)
      <4>1. h # r.gen /\ ~Awaits(c, h)'
        BY <1>2, <3>1, <3>2 DEF Late
      <4> QED
        BY <4>1
    <3> QED
      BY <3>2, CreditExact
  <2>2. Ended(c, r.gen) => Awaits(c, r.gen)' \/ Upto(c, r) = EndOf(c, r.gen)
    BY CreditEnd DEF Final
  <2>3. BaselineOf(r, now).gen = r.gen
    BY DEF BaselineOf
  <2> QED
    BY <1>1, <1>2, <1>3, <1>4, <1>5, <1>6, <2>1, <2>2, <2>3 DEF SeenInv
<1>8. ASSUME NEW g \in 1..gen'[c], Front(c)' < g, Ended(c, g)'
      PROVE  Awaits(c, g)'
  <2>1. g \in 1..gen[c] /\ g \in 1..MaxGen /\ g \in Nat /\ g # r.gen /\ Front(c) < g
    <3>1. g \in 1..gen[c] /\ r.gen < g
      BY <1>3, <1>8
    <3> HIDE DEF c
    <3> QED
      BY <1>2, <1>6, <3>1
  <2> QED
    BY <1>5, <1>8, <2>1 DEF TrackInv
<1>9. Saved(c)' = Saved(c) /\ Saved(c).gen \in Nat /\ Saved(c).gen <= Front(c)
      /\ disk'.counted[c] = disk.counted[c]
  BY <1>1, SavedType, BoundTypes DEF Saved, TrackInv, Baseline
<1>10. Saved(c).gen <= r.gen
  <2> HIDE DEF c
  <2> QED
    BY <1>2, <1>6, <1>9
<1>11. DiskInv(c)'
  <2>1. SUFFICES ASSUME Saved(c).gen # 0
                 PROVE  \/ Late(c, Saved(c).gen)'
                        \/ disk'.counted[c] = Upto(c, Saved(c))'
    BY <1>9 DEF DiskInv
  <2>2. CASE Late(c, Saved(c).gen)
    <3>1. PICK h \in 1..MaxGen : h < Saved(c).gen /\ Awaits(c, h)
      BY <2>2 DEF Late
    <3>2. h # r.gen
      <4> HIDE DEF c
      <4> QED
        BY <1>2, <1>9, <1>10, <3>1
    <3> QED
      BY <1>9, <3>1, <3>2 DEF Late
  <2>3. CASE disk.counted[c] = Upto(c, Saved(c))
    BY <1>1, <1>9, <2>3 DEF Upto
  <2> QED
    BY <2>1, <2>2, <2>3 DEF DiskInv
<1> QED
  BY <1>3, <1>7, <1>8, <1>9, <1>10, <1>11 DEF TrackInv

-----------------------------------------------------------------------------
(* Each step keeps Complete *)

\* An event of a connection that the listener sees end is queued.
LEMMA CloseAwaited ==
    ASSUME TypeOK, Opened, NEW c \in Conns, Close(c), c \notin lossy'
    PROVE  listener = "on" /\ \A g : g = gen[c] => Awaits(c, g)'
<1>1. listener = "on" /\ queue' = Append(queue, RowOf(c)) /\ gen' = gen
  BY DEF Close
<1>2. RowOf(c) \in Reading /\ RowOf(c).conn = c /\ RowOf(c).gen = gen[c]
  <2>1. RowOf(c) \in Reading
    BY RowType DEF Close
  <2> QED
    BY <2>1 DEF RowOf
<1>3. \A g : RowOf(c).gen = g => Awaits(c, g)'
  BY <1>1, <1>2, AwaitsAppend
<1> QED
  BY <1>1, <1>2, <1>3, Zenon

\* What is true of the state file while the daemon is down stays so.
LEMMA DownKept ==
    ASSUME TypeOK, Opened, QueueInv, [Next]_vars, NEW c \in Conns, c \notin lossy',
           phase = "down", disk' = disk, DownInv(c)
    PROVE  DownInv(c)'
<1>1. Saved(c)' = Saved(c)
  BY DEF Saved
<1>2. ~Close(c)
  BY CloseAwaited DEF QueueInv
<1>3. CASE gen'[c] = gen[c] /\ (c \in live' <=> c \in live)
  BY <1>1, <1>3 DEF DownInv
<1>4. CASE Open(c)
  BY <1>1, <1>4 DEF Open, DownInv
<1>5. CASE Transfer(c)
  BY <1>1, <1>5 DEF Transfer, DownInv
<1> QED
  BY <1>2, <1>3, <1>4, <1>5, TupleStep

\* A step that neither credits c nor forgets a baseline or an event of it.
LEMMA CompleteKept ==
    ASSUME IInv, QueueInv, [Next]_vars, NEW c \in Conns, c \notin lossy',
           Complete(c),
           active'[KeyOf[c]] = active[KeyOf[c]],
           active'[LegacyOf[c]] = active[LegacyOf[c]],
           counted'[c] = counted[c], mark'[c] = mark[c], disk' = disk,
           phase' = "down" <=> phase = "down",
           \A g \in 1..MaxGen : Awaits(c, g) => Awaits(c, g)'
    PROVE  Complete(c)'
<1>1. TypeOK /\ Opened
  BY DEF IInv
<1>2. Previous(c)' = Previous(c) /\ Saved(c)' = Saved(c)
  BY DEF Previous, Saved
<1>3. DiskInv(c)'
  BY DiskInvKept DEF Complete
<1>4. \A g \in 1..MaxGen : Close(c) /\ g = gen[c] => Awaits(c, g)'
  BY <1>1, CloseAwaited
<1>5. phase # "down" => TrackInv(c)'
  BY <1>2, <1>4, TrackInvKept DEF Complete
<1>6. phase = "down" => DownInv(c)'
  BY <1>1, DownKept DEF Complete
<1> QED
  BY <1>3, <1>5, <1>6 DEF Complete

\* What the kernel does, a scan, and a listener that starts.
LEMMA CompleteFrame ==
    ASSUME IInv, QueueInv, NEW c \in Conns, c \notin lossy', Complete(c),
           [Next]_vars,
           \/ Kernel \/ ListenDestroy \/ BeginPoll \/ OpenFails \/ LockPoll
           \/ \E d \in Conns : ReadRow(d)
           \/ UNCHANGED vars
    PROVE  Complete(c)'
<1> USE DEF kernel, scan, ledger, bounds, history
<1>1. TypeOK /\ Opened
  BY DEF IInv
<1>2. /\ active' = active /\ counted' = counted /\ mark' = mark /\ disk' = disk
      /\ phase' = "down" <=> phase = "down"
  BY DEF Kernel, Open, Transfer, Close, Tick, ListenDestroy, BeginPoll,
         OpenFails, LockPoll, ReadRow, vars
<1>3. \A g \in 1..MaxGen : Awaits(c, g) => Awaits(c, g)'
  <2>1. CASE queue' = queue
    BY <2>1 DEF Awaits
  <2>2. ASSUME NEW d \in Conns, Close(d), listener = "on"
        PROVE  \A g \in 1..MaxGen : Awaits(c, g) => Awaits(c, g)'
    <3>1. RowOf(d) \in Reading /\ queue' = Append(queue, RowOf(d))
      BY <1>1, <2>2, RowType DEF Close
    <3> QED
      BY <1>1, <3>1, AwaitsAppend
  <2>3. queue' = queue \/ \E d \in Conns : Close(d) /\ listener = "on"
    BY DEF Kernel, Open, Transfer, Close, Tick, ListenDestroy, BeginPoll,
           OpenFails, LockPoll, ReadRow, vars
  <2> QED
    BY <2>1, <2>2, <2>3
<1> QED
  BY <1>2, <1>3, CompleteKept

\* What the listener discards is lost.
LEMMA CompleteListenerFails ==
    ASSUME IInv, QueueInv, NEW c \in Conns, c \notin lossy', Complete(c),
           [Next]_vars, ListenerFails
    PROVE  Complete(c)'
<1>1. \A g \in 1..MaxGen : ~Awaits(c, g)
  BY AwaitedAwaits DEF ListenerFails
<1> QED
  BY <1>1, CompleteKept DEF ListenerFails, ledger, history

\* A reading of another tuple, credited or not.
LEMMA LedgerOther ==
    ASSUME TypeOK, BaselinesPast(active), DistinctKeyAssumption,
           NEW r \in Reading, NEW skip \in BOOLEAN, NEW now \in Nat,
           Credit(r, skip, now) \/ Ignore(r), NEW c \in Conns, c # r.conn
    PROVE  /\ active'[KeyOf[c]] = active[KeyOf[c]]
           /\ active'[LegacyOf[c]] = active[LegacyOf[c]]
           /\ counted'[c] = counted[c] /\ mark'[c] = mark[c]
<1>1. CASE Credit(r, skip, now)
  <2>1. r.conn \in Conns /\ BaselineOf(r, now) \in Baseline
    BY BaselineOfType DEF Reading
  <2>2. /\ active'[KeyOf[c]] = active[KeyOf[c]]
        /\ active'[LegacyOf[c]] = active[LegacyOf[c]]
    <3>1. active' = Rebase(r.conn, BaselineOf(r, now))
      BY <1>1 DEF Credit
    <3> QED
      BY <2>1, <3>1, RebaseFacts
  <2>3. counted'[c] = counted[c] /\ mark'[c] = mark[c]
    BY <1>1 DEF Credit, TypeOK
  <2> QED
    BY <2>2, <2>3
<1>2. CASE Ignore(r)
  BY <1>2 DEF Ignore, ledger
<1> QED
  BY <1>1, <1>2

\* The tracker takes a reading of some tuple: an event or a row.
LEMMA CompleteReading ==
    ASSUME IInv, QueueInv, DistinctKeyAssumption, [Next]_vars,
           NEW r \in Reading, NEW skip \in BOOLEAN, NEW now \in Nat,
           Credit(r, skip, now) \/ Ignore(r), Past(r.conn, r),
           NEW c \in Conns, c \notin suspect' \cup lossy', Complete(c),
           gen' = gen, bytes' = bytes, live' = live, disk' = disk, phase' = phase,
           phase # "down",
           \A d, g : Awaits(d, g) /\ ~(d = r.conn /\ g = r.gen) => Awaits(d, g)',
           (Awaits(r.conn, r.gen) => Awaits(r.conn, r.gen)') \/ Final(r)
    PROVE  Complete(c)'
<1>1. TypeOK /\ BaselinesPast(active)
  BY DEF IInv
<1>2. CASE c # r.conn
  <2>1. /\ active'[KeyOf[c]] = active[KeyOf[c]]
        /\ active'[LegacyOf[c]] = active[LegacyOf[c]]
        /\ counted'[c] = counted[c] /\ mark'[c] = mark[c]
    BY <1>1, <1>2, LedgerOther
  <2>2. \A g \in 1..MaxGen : Awaits(c, g) => Awaits(c, g)'
    BY <1>2
  <2> QED
    BY <2>1, <2>2, CompleteKept
<1>3. CASE c = r.conn
  <2>1. Credit(r, skip, now)
    BY <1>3 DEF Ignore
  <2>2. TrackInv(r.conn) /\ DiskInv(r.conn)
    BY <1>3 DEF Complete
  <2>3. \A g \in 1..MaxGen :
            Awaits(r.conn, g) /\ g # r.gen => Awaits(r.conn, g)'
    OBVIOUS
  <2>4. TrackInv(r.conn)' /\ DiskInv(r.conn)'
    BY <1>3, <2>1, <2>2, <2>3, CreditTracked
  <2> QED
    BY <1>3, <2>4 DEF Complete
<1> QED
  BY <1>2, <1>3

LEMMA CompleteDestroy ==
    ASSUME IInv, QueueInv, DistinctKeyAssumption, [Next]_vars,
           NEW again \in BOOLEAN, ApplyDestroy(again),
           NEW c \in Conns, c \notin suspect' \cup lossy', Complete(c)
    PROVE  Complete(c)'
<1> DEFINE r == Head(queue)
<1>1. /\ TypeOK /\ ReadingsPast /\ queue # <<>> /\ phase # "down" /\ phase' = phase
      /\ gen' = gen /\ bytes' = bytes /\ live' = live /\ disk' = disk
      /\ queue' = queue \/ queue' = Tail(queue)
      /\ Credit(r, FALSE, clock) \/ Ignore(r)
  BY DEF ApplyDestroy, IInv, kernel
<1>2. /\ r \in Reading /\ Past(r.conn, r) /\ Final(r) /\ clock \in Nat
  <2>1. queue \in Seq(Reading) /\ clock \in Nat
    BY <1>1 DEF TypeOK
  <2>2. r \in Reading /\ r = queue[1] /\ 1 \in 1..Len(queue)
    BY <1>1, <2>1, HeadTail
  <2> QED
    BY <1>1, <2>1, <2>2 DEF ReadingsPast, QueueInv
<1>3. ASSUME NEW d, NEW g, Awaits(d, g), ~(d = r.conn /\ g = r.gen)
      PROVE  Awaits(d, g)'
  <2>1. CASE queue' = queue
    BY <1>3, <2>1 DEF Awaits
  <2>2. CASE queue' = Tail(queue)
    BY <1>1, <1>3, <2>2, AwaitsTail
  <2> QED
    BY <1>1, <2>1, <2>2
<1> HIDE DEF r
<1> QED
  BY <1>1, <1>2, <1>3, CompleteReading

LEMMA CompleteRow ==
    ASSUME IInv, QueueInv, DistinctKeyAssumption, [Next]_vars,
           NEW r \in rows, ApplyRow(r),
           NEW c \in Conns, c \notin suspect' \cup lossy', Complete(c)
    PROVE  Complete(c)'
<1>1. /\ TypeOK /\ ReadingsPast /\ phase # "down" /\ phase' = phase
      /\ gen' = gen /\ bytes' = bytes /\ live' = live /\ disk' = disk
      /\ queue' = queue
      /\ Credit(r, initial, at) \/ Ignore(r)
  BY DEF ApplyRow, IInv, kernel
<1>2. r \in Reading /\ Past(r.conn, r) /\ initial \in BOOLEAN /\ at \in Nat
  BY <1>1 DEF TypeOK, ReadingsPast
<1>3. \A d, g : Awaits(d, g) => Awaits(d, g)'
  BY <1>1 DEF Awaits
<1>4. Awaits(r.conn, r.gen) => Awaits(r.conn, r.gen)'
  BY <1>3
<1>5. \A d, g : Awaits(d, g) /\ ~(d = r.conn /\ g = r.gen) => Awaits(d, g)'
  BY <1>3
<1> QED
  BY <1>1, <1>2, <1>4, <1>5, CompleteReading

\* A save writes what the tracker accounts for.
LEMMA CompleteSave ==
    ASSUME IInv, QueueInv, NEW c \in Conns, Complete(c), [Next]_vars, Save
    PROVE  Complete(c)'
<1> USE DEF kernel, scan, ledger, bounds, history
<1>1. /\ phase # "down" /\ phase' = phase /\ queue' = queue
      /\ active' = active /\ counted' = counted /\ mark' = mark
      /\ gen' = gen /\ bytes' = bytes /\ live' = live /\ base' = base
      /\ disk' = [active |-> active, counted |-> counted]
  BY DEF Save
<1>2. Previous(c)' = Previous(c) /\ Saved(c)' = Previous(c)
  BY <1>1 DEF Previous, Saved
<1>3. \A g : Awaits(c, g) => Awaits(c, g)'
  BY <1>1 DEF Awaits
<1>4. ~Close(c)
  BY <1>1 DEF Close
<1>5. TrackInv(c) /\ TrackInv(c)'
  BY <1>1, <1>2, <1>3, <1>4, TrackInvKept DEF Complete
<1>6. DiskInv(c)'
  <2>1. SUFFICES ASSUME Previous(c).gen # 0
                 PROVE  \/ Late(c, Previous(c).gen)'
                        \/ disk'.counted[c] = Upto(c, Previous(c))'
    BY <1>2 DEF DiskInv
  <2>2. Late(c, Previous(c).gen) \/ counted[c] = Upto(c, Previous(c))
    BY <1>5, <2>1 DEF TrackInv, SeenInv, Seen
  <2>3. CASE Late(c, Previous(c).gen)
    BY <1>2, <1>3, <2>3 DEF Late
  <2>4. CASE counted[c] = Upto(c, Previous(c))
    BY <1>1, <1>2, <2>4 DEF Upto
  <2> QED
    BY <2>2, <2>3, <2>4
<1> QED
  BY <1>1, <1>5, <1>6 DEF Complete

\* A crash keeps the tuples whose incarnation is open and in the state file.
LEMMA CompleteCrash ==
    ASSUME IInv, QueueInv, NEW c \in Conns, c \notin lossy', Complete(c),
           [Next]_vars, Crash
    PROVE  Complete(c)'
<1>1. /\ TypeOK /\ Opened /\ BaselinesPast(disk.active) /\ disk' = disk
      /\ phase' = "down" /\ live' = live /\ gen' = gen
  BY DEF IInv, Crash, kernel
<1>2. c \notin Awaited /\ c \in live /\ SavedCurrent(c)
  BY DEF Crash
<1>3. DiskInv(c)'
  <2>1. \A g \in 1..MaxGen : Awaits(c, g) => Awaits(c, g)'
    BY <1>2, AwaitedAwaits
  <2> QED
    BY <1>1, <2>1, DiskInvKept DEF Complete
<1>4. Saved(c).gen = gen[c]
  BY <1>1, <1>2 DEF SavedCurrent, Saved, Opened, BaselinesPast
<1>5. Saved(c)' = Saved(c)
  BY <1>1 DEF Saved
<1> QED
  BY <1>1, <1>2, <1>3, <1>4, <1>5 DEF Complete, DownInv

\* A start accounts for the incarnations of the state file, which are open.
LEMMA CompleteStart ==
    ASSUME IInv, QueueInv, NEW c \in Conns, Complete(c), [Next]_vars, Start
    PROVE  Complete(c)'
<1> USE DEF kernel, scan, ledger, bounds, history
<1>1. /\ TypeOK /\ phase = "down" /\ phase' = "idle" /\ queue' = queue
      /\ active' = disk.active /\ counted' = disk.counted /\ mark' = gen
      /\ gen' = gen /\ bytes' = bytes /\ live' = live /\ base' = base
      /\ disk' = disk
  BY DEF Start, Loaded, IInv
<1>2. \A g : ~Awaits(c, g) /\ ~Awaits(c, g)'
  BY <1>1 DEF QueueInv, Awaits
<1>3. Previous(c)' = Saved(c) /\ Saved(c)' = Saved(c) /\ mark'[c] = gen[c]
  BY <1>1 DEF Previous, Saved
<1>4. DiskInv(c)' /\ DiskInv(c) /\ DownInv(c)
  BY <1>1, <1>2, DiskInvKept DEF Complete
<1>5. gen[c] \in Nat
  BY <1>1, BoundTypes DEF TypeOK
<1>6. CASE Saved(c).gen # 0
  <2>1. c \in live /\ Saved(c).gen = gen[c] /\ Seen(c)' /\ Front(c)' = gen[c]
    BY <1>3, <1>4, <1>6 DEF DownInv, Seen, Front
  <2>2. disk.counted[c] = Upto(c, Saved(c))
    BY <1>2, <1>4, <1>6 DEF DiskInv, Late
  <2>3. SeenInv(c)'
    BY <1>1, <1>3, <1>5, <2>1, <2>2 DEF SeenInv, Upto, Ended
  <2> QED
    BY <1>1, <1>3, <1>4, <1>5, <2>1, <2>3 DEF Complete, TrackInv
<1>7. CASE Saved(c).gen = 0
  <2>1. /\ disk.counted[c] = 0 /\ (c \in live \/ gen[c] = 0)
        /\ ~Seen(c)' /\ Front(c)' = gen[c]
    <3>1. disk.counted[c] = 0 /\ (c \in live \/ gen[c] = 0)
      <4>1. Saved(c).gen = gen[c] => gen[c] = 0
        BY <1>7
      <4>2. CASE c \in live /\ Saved(c).gen = gen[c]
        BY <1>1, <1>7, <4>2 DEF IInv, Opened
      <4> QED
        BY <1>4, <4>2 DEF DownInv
    <3> QED
      BY <1>3, <1>7, <3>1 DEF Seen, Front
  <2>2. UnseenInv(c)'
    <3>1. CASE c \in live
      BY <1>1, <1>3, <3>1 DEF UnseenInv
    <3>2. CASE c \notin live /\ gen[c] = 0
      BY <1>1, <1>3, <2>1, <3>2 DEF UnseenInv, Ended, EndOf, Carried
    <3> QED
      BY <2>1, <3>1, <3>2
  <2> QED
    BY <1>1, <1>3, <1>4, <1>5, <1>7, <2>1, <2>2 DEF Complete, TrackInv
<1> QED
  BY <1>6, <1>7

\* What the end of a poll does to the baseline of a tuple: it stays, or it is
\* forgotten and the tuple is marked up to it.
LEMMA EndPollCases ==
    ASSUME TypeOK, BaselinesPast(active), EndPoll, NEW c \in Conns,
           Seen(c) => mark[c] <= Previous(c).gen
    PROVE  \/ /\ Seen(c) /\ Seen(c)' /\ Previous(c)' = Previous(c)
              /\ mark'[c] \in {mark[c], Previous(c).gen}
           \/ /\ Seen(c) /\ ~Seen(c)' /\ mark'[c] = Previous(c).gen
           \/ ~Seen(c) /\ ~Seen(c)' /\ mark'[c] = mark[c]
<1>1. \A k \in {KeyOf[c], LegacyOf[c]} :
          active'[k] = IF Forgotten(k) THEN NoBaseline ELSE active[k]
  BY KeyFacts DEF EndPoll
<1>2. mark'[c] = IF Outlived(c) /\ mark[c] < Previous(c).gen
                 THEN Previous(c).gen ELSE mark[c]
  BY DEF EndPoll
<1>3. CASE ~Seen(c)
  <2>1. active[KeyOf[c]].gen = 0 /\ active[LegacyOf[c]].gen = 0
    BY <1>3 DEF Seen, Previous
  <2>2. active'[KeyOf[c]].gen = 0 /\ active'[LegacyOf[c]].gen = 0
    BY <1>1, <2>1 DEF NoBaseline
  <2> QED
    BY <1>2, <1>3, <2>2 DEF Seen, Previous, Outlived
<1>4. ASSUME Seen(c), NEW k \in {KeyOf[c], LegacyOf[c]}, active[k].gen # 0,
             NEW other \in {KeyOf[c], LegacyOf[c]} \ {k}
      PROVE  /\ Previous(c) = active[k]
             /\ active'[other].gen = 0
  <2>1. active[other].gen = 0
    BY <1>4 DEF BaselinesPast
  <2> QED
    BY <1>1, <1>4, <2>1 DEF Previous, NoBaseline
<1>5. ASSUME Seen(c), NEW k \in {KeyOf[c], LegacyOf[c]}, active[k].gen # 0,
             ~Forgotten(k)
      PROVE  Seen(c)' /\ Previous(c)' = Previous(c)
  <2>1. active'[k] = active[k]
    BY <1>1, <1>5
  <2>2. Previous(c) = active[k] /\ \A o \in {KeyOf[c], LegacyOf[c]} \ {k} :
                                       active'[o].gen = 0
    BY <1>4, <1>5, KeyFacts
  <2>3. Previous(c)' = active'[k]
    BY <1>5, <2>1, <2>2 DEF Previous
  <2> QED
    BY <1>5, <2>1, <2>2, <2>3 DEF Seen
<1>6. ASSUME Seen(c), NEW k \in {KeyOf[c], LegacyOf[c]}, active[k].gen # 0,
             Forgotten(k)
      PROVE  ~Seen(c)' /\ mark'[c] = Previous(c).gen
  <2>1. active'[k].gen = 0
    BY <1>1, <1>6 DEF NoBaseline
  <2>2. Previous(c) = active[k] /\ \A o \in {KeyOf[c], LegacyOf[c]} \ {k} :
                                       active'[o].gen = 0
    BY <1>4, <1>6, KeyFacts
  <2>3. ~Seen(c)'
    BY <2>1, <2>2 DEF Seen, Previous
  <2>4. Outlived(c)
    <3>1. Previous(c).seen < at - Retention
      BY <1>6, <2>2 DEF Forgotten
    <3>2. Previous(c) \in Baseline /\ at \in Int /\ Retention \in Int
      <4>1. at \in Nat
        BY DEF TypeOK
      <4> QED
        BY <4>1, PreviousType, BoundTypes
    <3>3. Previous(c).seen \in Int
      BY <3>2 DEF Baseline
    <3>4. at - Previous(c).seen > Retention
      BY <3>1, <3>2, <3>3
    <3> QED
      BY <1>6, <3>4 DEF Outlived
  <2>5. mark[c] < Previous(c).gen \/ mark[c] = Previous(c).gen
    <3>1. Previous(c) \in Baseline /\ mark[c] \in 0..MaxGen
      BY PreviousType DEF TypeOK
    <3>2. Previous(c).gen \in Int /\ mark[c] \in Int
      BY <3>1, BoundTypes DEF Baseline
    <3> QED
      BY <1>6, <3>2
  <2> QED
    BY <1>2, <2>3, <2>4, <2>5
<1>7. Seen(c) => \E k \in {KeyOf[c], LegacyOf[c]} : active[k].gen # 0
  BY DEF Seen, Previous
<1> QED
  BY <1>2, <1>3, <1>5, <1>6, <1>7

LEMMA CompleteEndPoll ==
    ASSUME IInv, QueueInv, NEW c \in Conns, Complete(c), [Next]_vars, EndPoll
    PROVE  Complete(c)'
<1> USE DEF kernel, scan, ledger, bounds, history
<1>1. /\ TypeOK /\ BaselinesPast(active) /\ phase # "down" /\ phase' = "idle"
      /\ queue' = queue /\ counted' = counted /\ disk' = disk
      /\ gen' = gen /\ bytes' = bytes /\ live' = live /\ base' = base
  BY DEF EndPoll, IInv
<1>2. \A d, g : Awaits(d, g)' <=> Awaits(d, g)
  BY <1>1 DEF Awaits
<1>3. DiskInv(c)' /\ TrackInv(c) /\ Saved(c)' = Saved(c)
  BY <1>1, <1>2, DiskInvKept DEF Complete, Saved
<1>4. /\ Seen(c) => Previous(c).gen \in 1..gen[c] /\ Previous(c).gen \in 1..MaxGen
      /\ gen[c] \in Nat /\ mark[c] \in 0..gen[c] /\ gen[c] <= MaxGen
      /\ MaxGen \in Nat
  <2>1. gen[c] \in 0..MaxGen /\ mark[c] \in 0..MaxGen /\ mark[c] <= gen[c]
    BY <1>1 DEF TypeOK, QueueInv
  <2>2. gen[c] \in Nat /\ mark[c] \in 0..gen[c] /\ gen[c] <= MaxGen /\ MaxGen \in Nat
    BY <2>1, BoundTypes
  <2>3. Seen(c) => Previous(c).gen \in 1..gen[c]
    BY <1>1, PreviousPast
  <2> QED
    BY <2>2, <2>3
<1>5. \/ /\ Seen(c) /\ Seen(c)' /\ Previous(c)' = Previous(c)
         /\ mark'[c] \in {mark[c], Previous(c).gen}
      \/ /\ Seen(c) /\ ~Seen(c)' /\ mark'[c] = Previous(c).gen
      \/ ~Seen(c) /\ ~Seen(c)' /\ mark'[c] = mark[c]
  BY <1>1, <1>3, EndPollCases DEF TrackInv, SeenInv
<1>6. Front(c)' = Front(c)
  BY <1>5 DEF Front
<1>7. /\ \A g \in 1..gen'[c] : Front(c)' < g /\ Ended(c, g)' => Awaits(c, g)'
      /\ Saved(c)'.gen <= Front(c)'
  BY <1>1, <1>2, <1>3, <1>6 DEF TrackInv, Ended
<1>8. CASE Seen(c) /\ Seen(c)'
  <2>1. Previous(c)' = Previous(c) /\ mark'[c] \in {mark[c], Previous(c).gen}
        /\ SeenInv(c)
    BY <1>3, <1>5, <1>8 DEF TrackInv
  <2>2. mark'[c] <= Previous(c).gen
    <3>1. Previous(c).gen \in Nat
      BY <1>4, <1>8
    <3> QED
      BY <2>1, <3>1 DEF SeenInv
  <2>3. SeenInv(c)'
    BY <1>1, <1>2, <2>1, <2>2 DEF SeenInv, Late, Upto, Ended, EndOf, Carried
  <2> QED
    BY <1>1, <1>3, <1>7, <1>8, <2>3 DEF Complete, TrackInv
<1>9. CASE Seen(c) /\ ~Seen(c)'
  <2>1. PICK p \in Baseline : p = Previous(c)
    BY <1>1, PreviousType
  <2>2. /\ mark'[c] = p.gen /\ SeenInv(c)
        /\ p.gen \in 1..gen[c] /\ p.gen \in 1..MaxGen /\ p.gen \in Nat
    BY <1>3, <1>4, <1>5, <1>9, <2>1 DEF TrackInv
  <2>3. ASSUME NEW h \in 1..MaxGen, h < p.gen + 1, Awaits(c, h)
        PROVE  UnseenInv(c)'
    <3>1. Late(c, mark[c] + 1)'
      BY <1>2, <2>2, <2>3 DEF Late
    <3> QED
      BY <3>1 DEF UnseenInv
  <2>4. ASSUME ~\E h \in 1..MaxGen : h < p.gen + 1 /\ Awaits(c, h)
        PROVE  UnseenInv(c)'
    <3>1. ~Awaits(c, p.gen) /\ ~Late(c, p.gen)
      <4>1. p.gen < p.gen + 1 /\ \A h \in 1..MaxGen : h < p.gen => h < p.gen + 1
        BY <2>2, BoundTypes
      <4> QED
        BY <2>2, <2>4, <4>1 DEF Late
    <3>2. counted[c] = Upto(c, p) /\ (Ended(c, p.gen) => Upto(c, p) = EndOf(c, p.gen))
      BY <2>1, <2>2, <3>1 DEF SeenInv
    <3>3. ~Ended(c, p.gen) => p.gen = gen[c] /\ c \in live
      <4>1. p.gen < gen[c] \/ p.gen = gen[c]
        BY <1>4, <2>2
      <4> QED
        BY <4>1 DEF Ended
    <3> QED
      BY <1>1, <2>2, <3>2, <3>3 DEF UnseenInv, Ended, EndOf, Carried
  <2>5. UnseenInv(c)'
    BY <2>3, <2>4
  <2> QED
    BY <1>1, <1>3, <1>7, <1>9, <2>5 DEF Complete, TrackInv
<1>10. CASE ~Seen(c)
  <2>1. ~Seen(c)' /\ mark'[c] = mark[c] /\ UnseenInv(c)
    BY <1>3, <1>5, <1>10 DEF TrackInv
  <2>2. UnseenInv(c)'
    BY <1>1, <1>2, <2>1 DEF UnseenInv, Late, Ended, EndOf, Carried
  <2> QED
    BY <1>1, <1>3, <1>7, <2>1, <2>2 DEF Complete, TrackInv
<1> QED
  BY <1>5, <1>8, <1>9, <1>10

LEMMA CompleteNext ==
    ASSUME IInv, QueueInv, DistinctKeyAssumption, [Next]_vars,
           NEW c \in Conns, c \notin suspect' \cup lossy', Complete(c)
    PROVE  Complete(c)'
<1>1. CASE \/ Kernel \/ ListenDestroy \/ BeginPoll \/ OpenFails \/ LockPoll
           \/ \E d \in Conns : ReadRow(d)
           \/ UNCHANGED vars
  BY <1>1, CompleteFrame
<1>2. CASE ListenerFails
  BY <1>2, CompleteListenerFails
<1>3. CASE ApplyDestroy(FALSE) \/ ApplyDestroy(TRUE)
  BY <1>3, CompleteDestroy
<1>4. CASE \E r \in rows : ApplyRow(r)
  BY <1>4, CompleteRow
<1>5. CASE EndPoll
  BY <1>5, CompleteEndPoll
<1>6. CASE Save
  BY <1>6, CompleteSave
<1>7. CASE Start
  BY <1>7, CompleteStart
<1>8. CASE Crash
  BY <1>8, CompleteCrash
<1> QED
  BY <1>1, <1>2, <1>3, <1>4, <1>5, <1>6, <1>7, <1>8
     DEF Next, Listener, Collector, Lifecycle

LEMMA LossyGrows ==
    ASSUME [Next]_vars
    PROVE  lossy \subseteq lossy'
BY DEF Next, Kernel, Listener, Collector, Lifecycle, Open, Transfer, Close,
       Tick, ListenDestroy, ListenerFails, ApplyDestroy, Credit, Ignore,
       BeginPoll, OpenFails, ReadRow, LockPoll, ApplyRow, EndPoll, Save, Start,
       Crash, vars, kernel, scan, ledger, bounds, history

\* A state file of release r10 holds the counters of connections still open.
LEMMA CompleteInit ==
    ASSUME DistinctKeyAssumption, Init
    PROVE  QueueInv /\ \A c \in Conns : Complete(c)
<1>1. /\ TypeOK /\ queue = <<>> /\ listener = "off" /\ phase = "down" /\ mark = gen
      /\ counted = [c \in Conns |-> 0]
      /\ gen = [c \in Conns |-> IF c \in live THEN 1 ELSE 0]
      /\ base = [c \in Conns |-> [g \in 1..MaxGen |-> IF g = 1 THEN -bytes[c] ELSE 0]]
  BY TypeInit DEF Init
<1>2. QueueInv
  BY <1>1, BoundTypes DEF QueueInv, TypeOK
<1>3. PICK migrated \in SUBSET live :
        disk = [active |->
                 [k \in Keys |->
                    IF \E c \in migrated : LegacyOf[c] = k
                    THEN LET c == CHOOSE c \in migrated : LegacyOf[c] = k
                         IN BaselineOf(RowOf(c), 0)
                    ELSE NoBaseline],
                counted |-> counted]
  BY DEF Init
<1> DEFINE legacy(k) == CHOOSE c \in migrated : LegacyOf[c] = k
<1>4. ASSUME NEW c \in Conns PROVE Complete(c)
  <2>1. /\ disk.counted[c] = 0
        /\ \A k \in Keys : disk.active[k] = IF \E d \in migrated : LegacyOf[d] = k
                                            THEN BaselineOf(RowOf(legacy(k)), 0)
                                            ELSE NoBaseline
    BY <1>1, <1>3
  <2>2. disk.active[KeyOf[c]] = NoBaseline
    BY <1>1, <2>1, KeyFacts, KeyAssumption DEF TypeOK
  <2>3. Saved(c) = disk.active[LegacyOf[c]]
    BY <2>2 DEF Saved, NoBaseline
  <2>4. CASE c \in migrated
    <3>1. legacy(LegacyOf[c]) = c
      <4>1. \A d \in migrated : LegacyOf[d] = LegacyOf[c] => d = c
        BY <1>1 DEF DistinctKeyAssumption, TypeOK
      <4> QED
        BY <2>4, <4>1
    <3>2. Saved(c) = BaselineOf(RowOf(c), 0)
      BY <2>1, <2>3, <2>4, <3>1, KeyFacts
    <3>3. c \in live /\ gen[c] = 1 /\ Saved(c).gen = 1 /\ Saved(c).bytes = bytes[c]
      BY <1>1, <2>4, <3>2 DEF BaselineOf, RowOf
    <3>4. Upto(c, Saved(c)) = 0
      <4>1. base[c][1] = -bytes[c] /\ bytes[c] \in Nat
        BY <1>1, BoundTypes DEF TypeOK
      <4> QED
        BY <3>3, <4>1 DEF Upto
    <3> QED
      BY <1>1, <2>1, <3>3, <3>4 DEF Complete, DiskInv, DownInv
  <2>5. CASE c \notin migrated
    <3>1. Saved(c) = NoBaseline
      BY <1>1, <2>1, <2>3, <2>5, KeyFacts DEF DistinctKeyAssumption, TypeOK
    <3> QED
      BY <1>1, <2>1, <3>1 DEF Complete, DiskInv, DownInv, NoBaseline
  <2> QED
    BY <2>4, <2>5
<1> QED
  BY <1>2, <1>4

\* A tuple that has ended, and none of whose events is in the queue, is counted
\* to the end.
LEMMA CompleteSettled ==
    ASSUME IInv, NEW c \in Conns, QueueInv, Complete(c), Settled(c)
    PROVE  counted[c] = Carried(c)
<1>1. TypeOK /\ BaselinesPast(active) /\ TrackInv(c) /\ c \notin live
  BY DEF IInv, Complete, Settled
<1>2. \A g : ~Awaits(c, g)
  BY AwaitedAwaits DEF Settled
<1>3. gen[c] \in 0..MaxGen /\ mark[c] \in 0..MaxGen /\ mark[c] <= gen[c]
  BY <1>1 DEF TypeOK, QueueInv
<1>4. ASSUME NEW f \in Nat, f = Front(c), f <= gen[c] PROVE f = gen[c]
  <2>1. SUFFICES ASSUME f < gen[c] PROVE FALSE
    BY <1>3, <1>4, BoundTypes
  <2>2. gen[c] \in 1..gen[c]
    BY <1>3, <1>4, <2>1, BoundTypes
  <2> QED
    BY <1>1, <1>2, <1>4, <2>1, <2>2 DEF TrackInv, Ended
<1>5. CASE Seen(c)
  <2>1. Previous(c).gen \in 1..gen[c] /\ SeenInv(c) /\ Front(c) = Previous(c).gen
    BY <1>1, <1>5, PreviousPast DEF TrackInv, Front
  <2>2. Previous(c).gen = gen[c]
    <3>1. Previous(c).gen \in Nat /\ Previous(c).gen <= gen[c]
      BY <1>3, <2>1, BoundTypes
    <3> QED
      BY <1>4, <2>1, <3>1
  <2> QED
    BY <1>1, <1>2, <2>1, <2>2 DEF SeenInv, Late, Ended, EndOf
<1>6. CASE ~Seen(c)
  <2>1. mark[c] = gen[c] /\ UnseenInv(c)
    <3>1. mark[c] \in Nat /\ Front(c) = mark[c]
      BY <1>3, <1>6, BoundTypes DEF Front
    <3> QED
      BY <1>1, <1>3, <1>4, <1>6, <3>1 DEF TrackInv
  <2> QED
    BY <1>1, <1>2, <2>1 DEF UnseenInv, Late, EndOf
<1> QED
  BY <1>5, <1>6

\* A connection that has ended and whose destroy event has been applied is
\* counted to the last byte, unless a reading of it was stale or a recount or it
\* is one of the named losses, through polls, tuple reuse, retention, saves,
\* crashes and restarts (Poll, ApplyDestroy, New, Save).
THEOREM SettledCounted ==
    ASSUME DistinctKeyAssumption
    PROVE  Spec => []SettledExact
<1> DEFINE Inv == /\ IInv /\ QueueInv
                  /\ \A c \in Conns \ (suspect \cup lossy) : Complete(c)
<1>1. Init => Inv
  BY IInvInit, CompleteInit
<1>2. Inv /\ [Next]_vars => Inv'
  <2> SUFFICES ASSUME Inv, [Next]_vars PROVE Inv'
    OBVIOUS
  <2>1. IInv'
    BY IInvNext
  <2>2. QueueInv'
    BY <2>1, QueueInvNext DEF IInv
  <2>3. ASSUME NEW c \in Conns \ (suspect' \cup lossy') PROVE Complete(c)'
    <3>1. Complete(c)
      BY SuspectGrows, LossyGrows
    <3> QED
      BY <3>1, CompleteNext
  <2> QED
    BY <2>1, <2>2, <2>3
<1>3. Inv => SettledExact
  BY CompleteSettled DEF SettledExact
<1> QED
  BY <1>1, <1>2, <1>3, PTL DEF Spec

=============================================================================
