------------------------ MODULE HostIdentity_proofs -------------------------
(***************************************************************************)
(* Proofs about HostIdentity, for all sets of addresses, devices, leases,  *)
(* static names and neighbor tables: names are current, the live list has  *)
(* only what was seen, no connection is hidden, and the history shows      *)
(* every byte once, those of a device under the device.                    *)
(***************************************************************************)
EXTENDS HostIdentity, FiniteSetTheorems, WellFoundedInduction, TLAPS

MacOrNone == Macs \cup {NoMac}
NameOrNone == Names \cup {NoName}

-----------------------------------------------------------------------------
(* Leases *)

LEMMA LeaseTypes ==
    ASSUME NEW file \in LeaseFiles, NEW a \in Addrs
    PROVE  /\ file[a] \in Leases /\ file[a].mac \in MacOrNone
           /\ file[a].name \in NameOrNone /\ file[a].expires \in Nat
           /\ a \in Nat
           /\ file[a].mac = NoMac => file[a] = NoLease
<1>1. file \in [Addrs -> Leases] /\ Addrs \subseteq Nat
  BY IdentityAssumption
<1>2. file[a] \in Leases
  BY <1>1
<1> QED
  BY <1>1, <1>2, IdentityAssumption DEF Leases, MacOrNone, NameOrNone

\* The preference is a strict total order on the leases of a file, so that the
\* lease kept for a MAC depends on no order of iteration (preferLease).
THEOREM PreferLeaseTotal ==
    ASSUME NEW file \in LeaseFiles, NEW a \in Addrs, NEW b \in Addrs, a # b
    PROVE  /\ preferLease(file, a, b) <=> ~preferLease(file, b, a)
           /\ \A c \in Addrs :
                 preferLease(file, a, b) /\ preferLease(file, b, c)
                     => preferLease(file, a, c)
<1>1. \A c \in Addrs : file[c].expires \in Nat /\ c \in Nat
  BY LeaseTypes
<1>2. preferLease(file, a, b) <=> ~preferLease(file, b, a)
  BY <1>1 DEF preferLease
<1>3. ASSUME NEW c \in Addrs, preferLease(file, a, b), preferLease(file, b, c)
      PROVE  preferLease(file, a, c)
  BY <1>1, <1>3 DEF preferLease
<1> QED
  BY <1>2, <1>3

\* A device with a lease has a best one.
LEMMA BestLeaseExists ==
    ASSUME NEW file \in LeaseFiles, NEW m \in Macs, LeasedTo(file, m) # {}
    PROVE  leaseByMAC(file, m) \in LeasedTo(file, m)
<1> DEFINE T == LeasedTo(file, m)
           Worse(a) == {b \in T \ {a} : preferLease(file, a, b)}
<1>1. T \subseteq Addrs /\ IsFiniteSet(T)
  BY IdentityAssumption, FS_Subset DEF LeasedTo
<1>2. \A a \in T : IsFiniteSet(Worse(a)) /\ Cardinality(Worse(a)) \in Nat
                   /\ Cardinality(Worse(a)) <= Cardinality(T)
  <2> TAKE a \in T
  <2>1. Worse(a) \subseteq T
    OBVIOUS
  <2> QED
    BY <1>1, <2>1, FS_Subset, FS_CardinalityType
<1>3. Cardinality(T) \in Nat
  BY <1>1, FS_CardinalityType
<1> DEFINE Left(a) == Cardinality(T) - Cardinality(Worse(a))
           Lefts == {Left(a) : a \in T}
<1>4. \A a \in T : Left(a) \in Nat
  <2> TAKE a \in T
  <2> HIDE DEF Worse, T
  <2> QED
    BY <1>2, <1>3
<1>5. Lefts \subseteq Nat /\ Lefts # {}
  <2>1. \A k \in Lefts : k \in Nat
    <3> HIDE DEF Left
    <3> QED
      BY <1>4
  <2>2. Lefts # {}
    OBVIOUS
  <2> QED
    BY <2>1, <2>2
<1>6. PICK l \in Lefts : \A k \in Lefts : ~(<<k, l>> \in OpToRel(<, Nat))
  BY <1>5, NatLessThanWellFounded, WFMin
<1>7. \A k \in Lefts : ~(k < l)
  BY <1>5, <1>6 DEF OpToRel
<1>8. PICK a \in T : l = Left(a)
  OBVIOUS
<1>9. ASSUME NEW b \in T \ {a}
      PROVE  preferLease(file, a, b)
  <2> SUFFICES ASSUME ~preferLease(file, a, b) PROVE FALSE
    OBVIOUS
  <2>1. preferLease(file, b, a)
    BY <1>1, PreferLeaseTotal
  <2>2. Worse(a) \cup {a} \subseteq Worse(b)
    <3>1. \A c \in Worse(a) : preferLease(file, b, c)
      BY <1>1, <2>1, PreferLeaseTotal
    <3>2. b \notin Worse(a)
      OBVIOUS
    <3> QED
      BY <2>1, <3>1, <3>2
  <2>3. Cardinality(Worse(a)) < Cardinality(Worse(b))
    <3>1. a \notin Worse(a) /\ a \in Worse(b) /\ Worse(a) \subseteq Worse(b)
      BY <2>2
    <3>2. Worse(a) # Worse(b)
      BY <3>1
    <3> HIDE DEF Worse
    <3> QED
      BY <1>2, <3>1, <3>2, FS_Subset
  <2>4. Left(b) < Left(a)
    <3> HIDE DEF Worse
    <3> QED
      BY <1>2, <1>3, <2>3
  <2> QED
    BY <1>7, <1>8, <2>4
<1>10. IsBestLease(file, m, a)
  BY <1>9 DEF IsBestLease
<1>11. IsBestLease(file, m, leaseByMAC(file, m))
  BY <1>1, <1>10 DEF leaseByMAC
<1> QED
  BY <1>11 DEF IsBestLease

LEMMA HostnameTypes ==
    ASSUME NEW file \in LeaseFiles, NEW static \in StaticNames
    PROVE  HostnamesByMAC(file, static) \in [Macs -> NameOrNone]
<1> SUFFICES ASSUME NEW m \in Macs
             PROVE  OrElse(static[m], LeaseName(file, m)) \in NameOrNone
  BY DEF HostnamesByMAC
<1>1. static[m] \in NameOrNone
  BY IdentityAssumption DEF NameOrNone
<1>2. LeaseName(file, m) \in NameOrNone
  <2>1. CASE LeasedTo(file, m) = {}
    BY <2>1 DEF LeaseName, NameOrNone
  <2>2. CASE LeasedTo(file, m) # {}
    <3>1. leaseByMAC(file, m) \in Addrs
      BY <2>2, BestLeaseExists DEF LeasedTo
    <3> QED
      BY <2>2, <3>1, LeaseTypes DEF LeaseName
  <2> QED
    BY <2>1, <2>2
<1> QED
  BY <1>1, <1>2 DEF OrElse

-----------------------------------------------------------------------------
(* Sums over finite sets.  Induction over subsets is by a smallest          *)
(* counterexample.                                                          *)

Sum(f, S) == FoldFunctionOnSet(+, 0, f, S)

First(s) == CHOOSE x \in s : TRUE

\* What the sum function g gives for s, from smaller sets.
SumStep(f, g, s) == IF s = {} THEN 0 ELSE f[First(s)] + g[s \ {First(s)}]

SumsOver(f, g, S) == g = [s \in SUBSET S |-> SumStep(f, g, s)]

SumOver(f, S) == CHOOSE g : SumsOver(f, g, S)

LEMMA SumIsFold ==
    ASSUME NEW f, NEW S
    PROVE  Sum(f, S) = SumOver(f, S)[S]
BY DEF Sum, SumOver, SumsOver, SumStep, First, FoldFunctionOnSet, MapThenFoldSet

LEMMA FirstIn == ASSUME NEW s, s # {} PROVE First(s) \in s
BY DEF First

LEMMA SmallestNat ==
    ASSUME NEW T, T \subseteq Nat, T # {}
    PROVE  \E n \in T : \A m \in T : n <= m
<1>1. PICK n \in T : \A m \in T : ~(<<m, n>> \in OpToRel(<, Nat))
  BY NatLessThanWellFounded, WFMin
<1>2. \A m \in T : ~(m < n)
  BY <1>1 DEF OpToRel
<1>3. \A m \in T : n <= m
  BY <1>2
<1> QED
  BY <1>3

\* A set of subsets of a finite set has a minimal member.
LEMMA SmallestSubset ==
    ASSUME NEW U, IsFiniteSet(U), NEW B, B \subseteq SUBSET U, B # {}
    PROVE  \E s \in B : \A t \in B : t \subseteq s => t = s
<1> DEFINE Sizes == {Cardinality(s) : s \in B}
<1>1. \A s \in B : IsFiniteSet(s) /\ Cardinality(s) \in Nat
  BY FS_Subset, FS_CardinalityType
<1>2. Sizes \subseteq Nat /\ Sizes # {}
  BY <1>1
<1>3. PICK n \in Sizes : \A m \in Sizes : n <= m
  <2> HIDE DEF Sizes
  <2> QED
    BY <1>2, SmallestNat
<1>4. PICK s \in B : n = Cardinality(s)
  OBVIOUS
<1>5. ASSUME NEW t \in B, t \subseteq s PROVE t = s
  <2>1. Cardinality(s) <= Cardinality(t)
    BY <1>3, <1>4
  <2>2. t # s => Cardinality(t) < Cardinality(s)
    BY <1>1, <1>5, FS_Subset
  <2> QED
    BY <1>1, <2>1, <2>2
<1> QED
  BY <1>5

\* The recursion of the fold is well defined on finite sets.
LEMMA SumsExist ==
    ASSUME NEW f, NEW S, IsFiniteSet(S)
    PROVE  SumsOver(f, SumOver(f, S), S)
<1> DEFINE Upto(g, n) == \A s \in SUBSET S :
                            Cardinality(s) <= n => g[s] = SumStep(f, g, s)
           Missing == {n \in Nat : ~ \E g : Upto(g, n)}
<1>1. \A s \in SUBSET S : IsFiniteSet(s) /\ Cardinality(s) \in Nat
  BY FS_Subset, FS_CardinalityType
<1>2. \A s \in SUBSET S : s # {} =>
          /\ s \ {First(s)} \in SUBSET S
          /\ Cardinality(s \ {First(s)}) = Cardinality(s) - 1
  BY <1>1, FirstIn, FS_RemoveElement
<1>3. Missing = {}
  <2> SUFFICES ASSUME Missing # {} PROVE FALSE
    OBVIOUS
  <2>1. PICK n \in Missing : \A m \in Missing : n <= m
    BY SmallestNat
  <2>2. n \in Nat /\ \A g : ~Upto(g, n)
    BY <2>1
  <2>3. CASE n = 0
    <3> DEFINE z == [s \in SUBSET S |-> 0]
    <3>1. \A s \in SUBSET S : Cardinality(s) <= 0 => s = {}
      BY <1>1, FS_EmptySet
    <3>2. \A s \in SUBSET S : Cardinality(s) <= 0 => z[s] = SumStep(f, z, s)
      BY <3>1 DEF SumStep
    <3> HIDE DEF z
    <3> QED
      BY <2>2, <2>3, <3>2
  <2>4. CASE n # 0
    <3>1. n - 1 \in Nat /\ n - 1 < n
      BY <2>2, <2>4
    <3>2. n - 1 \notin Missing
      <4> HIDE DEF Missing
      <4> QED
        BY <2>1, <2>2, <3>1
    <3>3. PICK g : Upto(g, n - 1)
      BY <3>1, <3>2
    <3> DEFINE h == [s \in SUBSET S |-> IF Cardinality(s) <= n - 1
                                        THEN g[s] ELSE SumStep(f, g, s)]
    <3>4. ASSUME NEW s \in SUBSET S, Cardinality(s) <= n
          PROVE  h[s] = SumStep(f, h, s)
      <4>1. h[s] = SumStep(f, g, s)
        BY <3>3
      <4>2. s # {} => h[s \ {First(s)}] = g[s \ {First(s)}]
        <5>1. s # {} => Cardinality(s) - 1 <= n - 1
          BY <1>1, <2>2, <3>4
        <5> QED
          BY <1>2, <5>1
      <4> HIDE DEF h
      <4> QED
        BY <4>1, <4>2 DEF SumStep
    <3> HIDE DEF h
    <3> QED
      BY <2>2, <3>4
  <2> QED
    BY <2>3, <2>4
<1>4. PICK g : Upto(g, Cardinality(S))
  <2>1. Cardinality(S) \in Nat
    BY <1>1
  <2> QED
    BY <1>3, <2>1
<1>5. \A s \in SUBSET S : g[s] = SumStep(f, g, s)
  BY <1>1, <1>4, FS_Subset
<1> DEFINE h == [s \in SUBSET S |-> g[s]]
<1>6. \A s \in SUBSET S : SumStep(f, h, s) = SumStep(f, g, s)
  BY <1>2 DEF SumStep
<1>7. SumsOver(f, h, S)
  BY <1>5, <1>6 DEF SumsOver
<1> HIDE DEF h
<1> QED
  BY <1>7 DEF SumOver

LEMMA SumsDo ==
    ASSUME NEW f, NEW U, IsFiniteSet(U), NEW s \in SUBSET U
    PROVE  /\ SumOver(f, U)[s] = SumStep(f, SumOver(f, U), s)
           /\ SumOver(f, U)[s] = Sum(f, s)
<1> DEFINE G(S) == SumOver(f, S)
           Bad == {t \in SUBSET s : G(s)[t] # G(U)[t]}
<1>1. IsFiniteSet(s)
  BY FS_Subset
<1>2. \A t \in SUBSET s : G(s)[t] = SumStep(f, G(s), t)
  <2>1. SumsOver(f, G(s), s)
    BY <1>1, SumsExist
  <2> HIDE DEF G
  <2> QED
    BY <2>1 DEF SumsOver
<1>3. \A t \in SUBSET U : G(U)[t] = SumStep(f, G(U), t)
  <2>1. SumsOver(f, G(U), U)
    BY SumsExist
  <2> HIDE DEF G
  <2> QED
    BY <2>1 DEF SumsOver
<1>4. Bad = {}
  <2> SUFFICES ASSUME Bad # {} PROVE FALSE
    OBVIOUS
  <2>0. Bad \subseteq SUBSET s /\ IsFiniteSet(s)
    BY <1>1
  <2>1. PICK t \in Bad : \A u \in Bad : u \subseteq t => u = t
    <3> HIDE DEF Bad
    <3> QED
      BY <2>0, SmallestSubset
  <2>2. t \in SUBSET s /\ t \in SUBSET U /\ G(s)[t] # G(U)[t]
    BY <2>1
  <2>3. G(s)[t] = SumStep(f, G(s), t) /\ G(U)[t] = SumStep(f, G(U), t)
    BY <1>2, <1>3, <2>2
  <2>4. t # {}
    BY <2>2, <2>3 DEF SumStep
  <2>5. G(s)[t \ {First(t)}] = G(U)[t \ {First(t)}]
    <3>1. First(t) \in t
      BY <2>4, FirstIn
    <3>2. PICK u : u = t \ {First(t)}
      OBVIOUS
    <3>3. u \subseteq t /\ u # t /\ u \in SUBSET s
      BY <2>2, <3>1, <3>2
    <3>4. u \notin Bad
      <4> HIDE DEF Bad
      <4> QED
        BY <2>1, <3>3
    <3> QED
      BY <3>2, <3>3, <3>4
  <2> HIDE DEF G
  <2> QED
    BY <2>2, <2>3, <2>4, <2>5 DEF SumStep
<1>5. G(s)[s] = G(U)[s]
  BY <1>4
<1> QED
  BY <1>3, <1>5, SumIsFold

\* An element may be added last, whatever order the fold takes.
LEMMA SumSplits ==
    ASSUME NEW U, IsFiniteSet(U), NEW f \in [U -> Nat]
    PROVE  /\ Sum(f, {}) = 0
           /\ \A s \in SUBSET U :
                 /\ Sum(f, s) \in Nat
                 /\ \A x \in s : Sum(f, s) = f[x] + Sum(f, s \ {x})
<1>1. \A s \in SUBSET U : Sum(f, s) =
          IF s = {} THEN 0 ELSE f[First(s)] + Sum(f, s \ {First(s)})
  <2> TAKE s \in SUBSET U
  <2>1. Sum(f, s) = SumStep(f, SumOver(f, U), s)
    BY SumsDo
  <2>2. SumOver(f, U)[s \ {First(s)}] = Sum(f, s \ {First(s)})
    <3>1. s \ {First(s)} \in SUBSET U
      OBVIOUS
    <3> QED
      BY <3>1, SumsDo
  <2> QED
    BY <2>1, <2>2 DEF SumStep
<1>0. Sum(f, {}) = 0
  BY <1>1
<1> DEFINE Untyped == {s \in SUBSET U : Sum(f, s) \notin Nat}
           Unsplit == {s \in SUBSET U :
                         \E x \in s : Sum(f, s) # f[x] + Sum(f, s \ {x})}
<1>2. Untyped = {}
  <2> SUFFICES ASSUME Untyped # {} PROVE FALSE
    OBVIOUS
  <2>0. Untyped \subseteq SUBSET U
    OBVIOUS
  <2>1. PICK s \in Untyped : \A t \in Untyped : t \subseteq s => t = s
    <3> HIDE DEF Untyped
    <3> QED
      BY <2>0, SmallestSubset
  <2>2. s # {}
    <3>1. s \in SUBSET U /\ Sum(f, s) \notin Nat
      BY <2>1
    <3> QED
      BY <1>0, <3>1
  <2>3. First(s) \in s /\ s \in SUBSET U
    BY <2>1, <2>2, FirstIn
  <2>4. Sum(f, s \ {First(s)}) \in Nat /\ f[First(s)] \in Nat
    <3>1. PICK t : t = s \ {First(s)}
      OBVIOUS
    <3>2. t \subseteq s /\ t # s /\ t \in SUBSET U
      BY <2>3, <3>1
    <3>3. t \notin Untyped
      <4> HIDE DEF Untyped
      <4> QED
        BY <2>1, <3>2
    <3> QED
      BY <2>3, <3>1, <3>2, <3>3
  <2>5. Sum(f, s) = f[First(s)] + Sum(f, s \ {First(s)})
    BY <1>1, <2>2, <2>3
  <2>6. Sum(f, s) \in Nat
    BY <2>4, <2>5
  <2> QED
    BY <2>1, <2>6
<1>3. \A s \in SUBSET U : Sum(f, s) \in Nat
  BY <1>2
<1>4. Unsplit = {}
  <2> SUFFICES ASSUME Unsplit # {} PROVE FALSE
    OBVIOUS
  <2>0. Unsplit \subseteq SUBSET U
    OBVIOUS
  <2>1. PICK s \in Unsplit : \A t \in Unsplit : t \subseteq s => t = s
    <3> HIDE DEF Unsplit
    <3> QED
      BY <2>0, SmallestSubset
  <2>2. PICK x \in s : Sum(f, s) # f[x] + Sum(f, s \ {x})
    BY <2>1
  <2>3. s \in SUBSET U /\ First(s) \in s
    BY <2>1, <2>2, FirstIn
  <2>4. PICK p \in s : p = First(s)
    BY <2>3
  <2>5. Sum(f, s) = f[p] + Sum(f, s \ {p})
    BY <1>1, <2>3, <2>4
  <2>6. p # x
    BY <2>2, <2>5
  <2>7. s \ {p} \notin Unsplit /\ s \ {x} \notin Unsplit
    BY <2>1, <2>2, <2>3
  <2>8. Sum(f, s \ {p}) = f[x] + Sum(f, (s \ {p}) \ {x})
    BY <2>3, <2>6, <2>7
  <2>9. Sum(f, s \ {x}) = f[p] + Sum(f, (s \ {x}) \ {p})
    BY <2>3, <2>6, <2>7
  <2>10. (s \ {p}) \ {x} = (s \ {x}) \ {p}
    OBVIOUS
  <2>11. f[x] \in Nat /\ f[p] \in Nat
    BY <2>3
  <2>12. Sum(f, (s \ {x}) \ {p}) \in Nat
    BY <1>3, <2>3
  <2> QED
    BY <2>2, <2>5, <2>8, <2>9, <2>10, <2>11, <2>12
<1>5. \A s \in SUBSET U : \A x \in s : Sum(f, s) = f[x] + Sum(f, s \ {x})
  BY <1>4
<1> QED
  BY <1>0, <1>3, <1>5

LEMMA SumSplit ==
    ASSUME NEW U, IsFiniteSet(U), NEW f \in [U -> Nat], NEW s \in SUBSET U,
           NEW x \in s
    PROVE  Sum(f, s) = f[x] + Sum(f, s \ {x})
BY SumSplits

\* h is f with n added to the term at e.
Added(h, f, e, n, U) ==
    \A x \in U : h[x] = IF x = e THEN f[x] + n ELSE f[x]

LEMMA SumAdds ==
    ASSUME NEW U, IsFiniteSet(U), NEW f \in [U -> Nat], NEW e \in U,
           NEW n \in Nat, NEW h \in [U -> Nat],
           Added(h, f, e, n, U)
    PROVE  Sum(h, U) = Sum(f, U) + n
<1> DEFINE More(s) == IF e \in s THEN n ELSE 0
           Bad == {s \in SUBSET U : Sum(h, s) # Sum(f, s) + More(s)}
<1>1. Sum(h, {}) = 0 /\ Sum(f, {}) = 0
  BY SumSplits
<1>2. \A s \in SUBSET U : Sum(h, s) \in Nat /\ Sum(f, s) \in Nat
  BY SumSplits
<1>3. ASSUME NEW s \in SUBSET U, NEW x \in s
      PROVE  /\ Sum(h, s) = h[x] + Sum(h, s \ {x})
             /\ Sum(f, s) = f[x] + Sum(f, s \ {x})
  BY SumSplit
<1>4. Bad = {}
  <2> SUFFICES ASSUME Bad # {} PROVE FALSE
    OBVIOUS
  <2>1. Bad \subseteq SUBSET U
    OBVIOUS
  <2>2. PICK s \in Bad : \A t \in Bad : t \subseteq s => t = s
    <3> HIDE DEF Bad
    <3> QED
      BY <2>1, SmallestSubset
  <2>3. s \in SUBSET U /\ Sum(h, s) # Sum(f, s) + More(s)
    BY <2>2
  <2>4. s # {}
    <3>1. More({}) = 0
      OBVIOUS
    <3> HIDE DEF More
    <3> QED
      BY <1>1, <2>3, <3>1
  <2>5. PICK x \in s : TRUE
    BY <2>4
  <2>6. PICK t : t = s \ {x}
    OBVIOUS
  <2>7. t \in SUBSET U /\ t \subseteq s /\ t # s
    BY <2>3, <2>5, <2>6
  <2>8. t \notin Bad
    <3> HIDE DEF Bad
    <3> QED
      BY <2>2, <2>7
  <2>9. Sum(h, t) = Sum(f, t) + More(t)
    BY <2>7, <2>8
  <2>10. Sum(h, s) = h[x] + Sum(h, t) /\ Sum(f, s) = f[x] + Sum(f, t)
    BY <1>3, <2>3, <2>6
  <2>11. /\ x \in U /\ f[x] \in Nat /\ Sum(f, t) \in Nat
         /\ h[x] = IF x = e THEN f[x] + n ELSE f[x]
    BY <1>2, <2>3, <2>7 DEF Added
  <2>12. h[x] + More(t) = f[x] + More(s)
    BY <2>6, <2>11
  <2>13. More(t) \in Nat /\ More(s) \in Nat
    OBVIOUS
  <2> HIDE DEF More
  <2> QED
    BY <2>3, <2>9, <2>10, <2>11, <2>12, <2>13
<1>5. Sum(h, U) = Sum(f, U) + n
  BY <1>4
<1> QED
  BY <1>5

LEMMA SumOfZeros ==
    ASSUME NEW U, IsFiniteSet(U), NEW f \in [U -> Nat], \A x \in U : f[x] = 0
    PROVE  Sum(f, U) = 0
<1> DEFINE Bad == {s \in SUBSET U : Sum(f, s) # 0}
<1>1. Sum(f, {}) = 0
  BY SumSplits
<1>2. \A s \in SUBSET U : /\ Sum(f, s) \in Nat
                          /\ \A x \in s : Sum(f, s) = f[x] + Sum(f, s \ {x})
  BY SumSplits
<1>3. Bad = {}
  <2> SUFFICES ASSUME Bad # {} PROVE FALSE
    OBVIOUS
  <2>1. Bad \subseteq SUBSET U
    OBVIOUS
  <2>2. PICK s \in Bad : \A t \in Bad : t \subseteq s => t = s
    <3> HIDE DEF Bad
    <3> QED
      BY <2>1, SmallestSubset
  <2>3. s \in SUBSET U /\ Sum(f, s) # 0
    BY <2>2
  <2>4. PICK x \in s : TRUE
    BY <1>1, <2>3
  <2>5. PICK t : t = s \ {x}
    OBVIOUS
  <2>6. t \in SUBSET U /\ t \subseteq s /\ t # s
    BY <2>3, <2>4, <2>5
  <2>7. t \notin Bad
    <3> HIDE DEF Bad
    <3> QED
      BY <2>2, <2>6
  <2>8. Sum(f, s) = f[x] + Sum(f, t) /\ f[x] = 0
    BY <1>2, <2>3, <2>5
  <2> QED
    BY <2>3, <2>6, <2>7, <2>8
<1> QED
  BY <1>3

\* Summing group by group: c says which group a term belongs to.
LEMMA SumByGroup ==
    ASSUME NEW U, IsFiniteSet(U), NEW f \in [U -> Nat], NEW c \in [U -> U]
    PROVE  Sum([g \in U |-> Sum(f, {x \in U : c[x] = g})], U) = Sum(f, U)
<1> DEFINE In(s, g) == {x \in s : c[x] = g}
           Grouped(s) == [g \in U |-> Sum(f, In(s, g))]
           Bad == {s \in SUBSET U : Sum(Grouped(s), U) # Sum(f, s)}
<1>1. /\ Sum(f, {}) = 0
      /\ \A s \in SUBSET U : Sum(f, s) \in Nat
      /\ \A s \in SUBSET U : \A x \in s : Sum(f, s) = f[x] + Sum(f, s \ {x})
  BY SumSplits
<1>2. \A s \in SUBSET U : Grouped(s) \in [U -> Nat]
  <2>1. ASSUME NEW s \in SUBSET U, NEW g \in U PROVE Sum(f, In(s, g)) \in Nat
    <3>1. In(s, g) \in SUBSET U
      OBVIOUS
    <3> HIDE DEF In
    <3> QED
      BY <1>1, <3>1
  <2> HIDE DEF In
  <2> QED
    BY <2>1
<1>3. Bad = {}
  <2> SUFFICES ASSUME Bad # {} PROVE FALSE
    OBVIOUS
  <2>1. Bad \subseteq SUBSET U
    OBVIOUS
  <2>2. PICK s \in Bad : \A t \in Bad : t \subseteq s => t = s
    <3> HIDE DEF Bad
    <3> QED
      BY <2>1, SmallestSubset
  <2>3. s \in SUBSET U /\ Sum(Grouped(s), U) # Sum(f, s)
    BY <2>2
  <2>4. s # {}
    <3>1. \A g \in U : In({}, g) = {}
      OBVIOUS
    <3>2. \A g \in U : Grouped({})[g] = 0
      <4> HIDE DEF In
      <4> QED
        BY <1>1, <3>1
    <3>3. Grouped({}) \in [U -> Nat]
      BY <1>2
    <3> HIDE DEF Grouped
    <3>4. Sum(Grouped({}), U) = 0
      BY <3>2, <3>3, SumOfZeros
    <3> QED
      BY <1>1, <2>3, <3>4
  <2>5. PICK x \in s : TRUE
    BY <2>4
  <2>6. PICK t : t = s \ {x}
    OBVIOUS
  <2>7. t \in SUBSET U /\ t \subseteq s /\ t # s
    BY <2>3, <2>5, <2>6
  <2>8. t \notin Bad
    <3> HIDE DEF Bad
    <3> QED
      BY <2>2, <2>7
  <2>9. Sum(Grouped(t), U) = Sum(f, t)
    BY <2>7, <2>8
  <2>10. Grouped(s) = [Grouped(t) EXCEPT ![c[x]] = @ + f[x]]
    <3>1. c[x] \in U /\ f[x] \in Nat
      BY <2>3, <2>5
    <3>2. ASSUME NEW g \in U, g # c[x] PROVE In(s, g) = In(t, g)
      BY <2>6, <3>2
    <3>3. In(s, c[x]) \in SUBSET U /\ x \in In(s, c[x])
          /\ In(t, c[x]) = In(s, c[x]) \ {x} /\ In(t, c[x]) \in SUBSET U
      BY <2>3, <2>5, <2>6
    <3>4. Sum(f, In(s, c[x])) = Sum(f, In(t, c[x])) + f[x]
      <4> HIDE DEF In
      <4>1. Sum(f, In(s, c[x])) = f[x] + Sum(f, In(t, c[x]))
        BY <1>1, <3>3
      <4>2. Sum(f, In(t, c[x])) \in Nat
        BY <1>1, <3>3
      <4> QED
        BY <3>1, <4>1, <4>2
    <3> HIDE DEF In
    <3> QED
      BY <3>1, <3>2, <3>4
  <2>11. Sum(Grouped(s), U) = Sum(Grouped(t), U) + f[x]
    <3>1. Grouped(t) \in [U -> Nat] /\ c[x] \in U /\ f[x] \in Nat
      BY <1>2, <2>3, <2>5, <2>7
    <3>2. Grouped(s) \in [U -> Nat]
      BY <1>2, <2>3
    <3> HIDE DEF Grouped
    <3>3. \A g \in U : Grouped(s)[g] =
             IF g = c[x] THEN Grouped(t)[g] + f[x] ELSE Grouped(t)[g]
      BY <2>10, <3>1
    <3>4. PICK h, k : h = Grouped(t) /\ k = Grouped(s)
      OBVIOUS
    <3>5. h \in [U -> Nat] /\ k \in [U -> Nat]
          /\ Added(k, h, c[x], f[x], U)
      BY <3>1, <3>2, <3>3, <3>4 DEF Added
    <3>6. Sum(k, U) = Sum(h, U) + f[x]
      BY <3>1, <3>5, SumAdds
    <3> QED
      BY <3>4, <3>6
  <2>12. Sum(f, s) = f[x] + Sum(f, t) /\ Sum(f, t) \in Nat /\ f[x] \in Nat
    BY <1>1, <2>3, <2>5, <2>6, <2>7
  <2> HIDE DEF Grouped
  <2> QED
    BY <2>3, <2>9, <2>11, <2>12
<1>4. Sum(Grouped(U), U) = Sum(f, U)
  BY <1>3
<1> QED
  BY <1>4

-----------------------------------------------------------------------------
(* The inductive invariant *)

HostRecords == [seen : BOOLEAN, mac : MacOrNone, name : NameOrNone,
                active : BOOLEAN]
Profiles == [mac : MacOrNone, name : NameOrNone]

\* A line without a MAC is no line; a profile without a MAC has no name.
LeasesWhole == \A a \in Addrs : leases[a].mac = NoMac => leases[a] = NoLease
ProfilesWhole ==
    \A id \in Identities : profiles[id].mac = NoMac => profiles[id].name = NoName

\* What a host record is given a name and a MAC from agrees.
Agreeing == TypeOK /\ NamesCurrent /\ LeasesWhole /\ ProfilesWhole

\* The active hosts are those of the rows done, and between two polls those of
\* the flow list; after a start the saved ones stay active until a poll.
RowsActive == scanning => \A a \in Addrs : hosts[a].active <=> a \in rows
FlowsActive == ~scanning => \A a \in flows : hosts[a].active
ActiveListed ==
    ~scanning /\ polled => \A a \in Addrs : hosts[a].active => a \in flows
Listing == RowsActive /\ FlowsActive /\ ActiveListed

IInv == Agreeing /\ Listing

LEMMA TypeFacts ==
    ASSUME TypeOK
    PROVE  /\ leases \in [Addrs -> Leases]
           /\ names \in [Macs -> NameOrNone]
           /\ neighbors \in [Addrs -> Neighbors \cup {NoNeighbor}]
           /\ hosts \in [Addrs -> HostRecords]
           /\ aliases \in [Addrs -> MacOrNone]
           /\ profiles \in [Identities -> Profiles]
           /\ daily \in [Identities -> Nat]
           /\ NoMac \notin Macs /\ NoName \notin Names /\ NoMac \notin Addrs
           /\ Addrs \cap Macs = {}
           /\ Identities = Addrs \cup Macs
BY IdentityAssumption
   DEF TypeOK, MacOrNone, NameOrNone, HostRecords, Profiles, Identities

\* What the three sources say of an address.
LEMMA SourceTypes ==
    ASSUME NEW neighbor \in Neighbors \cup {NoNeighbor}, NEW lease \in Leases,
           NEW host \in HostRecords, NEW byMac \in [Macs -> NameOrNone]
    PROVE  /\ MacFrom(neighbor, lease, host) \in MacOrNone
           /\ NameFrom(neighbor, lease, host, byMac) \in NameOrNone
<1>1. neighbor.mac \in MacOrNone /\ lease.mac \in MacOrNone
      /\ host.mac \in MacOrNone
  BY DEF Neighbors, NoNeighbor, Leases, HostRecords, MacOrNone
<1>2. lease.name \in NameOrNone /\ host.name \in NameOrNone
  BY DEF Leases, HostRecords, NameOrNone
<1>3. MacFrom(neighbor, lease, host) \in MacOrNone
  BY <1>1 DEF MacFrom
<1>4. ASSUME MacFrom(neighbor, lease, host) # NoMac
      PROVE  byMac[MacFrom(neighbor, lease, host)] \in NameOrNone
  BY <1>3, <1>4 DEF MacOrNone
<1> QED
  BY <1>2, <1>3, <1>4 DEF NameFrom, OrElse

\* What resolveIdentity returns: a MAC is the identity, a name comes with a
\* MAC, and the name known for the MAC is the name.
LEMMA ResolvedFacts ==
    ASSUME Agreeing, NEW a \in Addrs, NEW r, r = Resolved(a)
    PROVE  /\ r.id \in Identities /\ r.mac \in MacOrNone
           /\ r.name \in NameOrNone /\ r.aliases \in [Addrs -> MacOrNone]
           /\ r.mac # NoMac => r.id = r.mac
           /\ r.mac = NoMac => hosts[a].mac = NoMac /\ r.name = NoName
           /\ hosts[a].mac = NoMac => hosts[a].name = NoName
           /\ r.id \in Macs /\ names[r.id] # NoName => r.name = names[r.id]
           /\ r.id = aliases[a] => r.mac = aliases[a]
           /\ \A b \in Addrs : \/ r.aliases[b] = aliases[b]
                               \/ r.aliases[b] = r.mac
<1> DEFINE mac == MacOf(a)
           al == IF mac # NoMac THEN [aliases EXCEPT ![a] = mac] ELSE aliases
           id == CanonicalIn(al, identity(mac, a))
           name == NameFrom(neighbors[a], leases[a], hosts[a], names)
<1>1. TypeOK /\ NamesCurrent /\ LeasesWhole /\ ProfilesWhole
  BY DEF Agreeing
<1>2. /\ r.id = id /\ r.aliases = al
      /\ r.name = OrElse(name, profiles[id].name)
      /\ r.mac = OrElseMac(mac, profiles[id].mac)
  BY DEF Resolved
<1>3. mac \in MacOrNone /\ name \in NameOrNone
  <2>1. /\ leases[a] \in Leases /\ neighbors[a] \in Neighbors \cup {NoNeighbor}
        /\ hosts[a] \in HostRecords /\ names \in [Macs -> NameOrNone]
    BY <1>1, TypeFacts
  <2> QED
    BY <2>1, SourceTypes DEF MacOf
<1>4. hosts[a].mac = NoMac => hosts[a].name = NoName
  BY <1>1 DEF TypeOK
<1>5. CASE mac # NoMac
  <2>1. mac \in Macs /\ mac \notin Addrs
    BY <1>1, <1>3, <1>5, TypeFacts DEF MacOrNone
  <2>2. id = mac /\ al = [aliases EXCEPT ![a] = mac]
    BY <1>5, <2>1 DEF identity, CanonicalIn
  <2>3. profiles[mac] \in Profiles /\ profiles[mac].name \in NameOrNone
    BY <1>1, <2>1, TypeFacts DEF Profiles
  <2>4. r.id = mac /\ r.mac = mac /\ r.aliases = al
    BY <1>2, <1>5, <2>2 DEF OrElseMac
  <2>5. names[mac] # NoName => name = names[mac]
    BY <1>5 DEF NameFrom, MacOf, OrElse
  <2>6. names[mac] # NoName => r.name = names[mac]
    BY <1>2, <2>5 DEF OrElse
  <2>7. r.name \in NameOrNone
    BY <1>2, <1>3, <2>2, <2>3 DEF OrElse
  <2>8. al \in [Addrs -> MacOrNone] /\ \A b \in Addrs : al[b] = aliases[b] \/ al[b] = mac
    BY <1>1, <1>3, <2>2, TypeFacts
  <2>9. r.id \in Identities
    BY <2>1, <2>4 DEF Identities
  <2> HIDE DEF mac, al, id, name
  <2> QED
    BY <1>3, <1>4, <1>5, <2>4, <2>6, <2>7, <2>8, <2>9
<1>6. CASE mac = NoMac
  <2>1. hosts[a].mac = NoMac /\ leases[a].mac = NoMac
    BY <1>6 DEF MacOf, MacFrom
  <2>2. leases[a].name = NoName
    BY <1>1, <2>1 DEF LeasesWhole, NoLease
  <2>3. name = NoName
    BY <1>4, <1>6, <2>1, <2>2 DEF NameFrom, MacOf, OrElse
  <2>4. al = aliases /\ id = CanonicalIn(aliases, a)
    BY <1>6 DEF identity
  <2>5. id = a \/ (id = aliases[a] /\ aliases[a] # NoMac)
    BY <2>4 DEF CanonicalIn
  <2>6. aliases[a] # NoMac => id = aliases[a]
    BY <2>4 DEF CanonicalIn
  <2>7. id \in Identities
    BY <1>1, <2>5, TypeFacts DEF MacOrNone
  <2>8. r.name = profiles[id].name /\ r.mac = profiles[id].mac
    BY <1>2, <1>6, <2>3 DEF OrElse, OrElseMac
  <2>9. r.name \in NameOrNone /\ r.mac \in MacOrNone
    BY <1>1, <2>7, <2>8, TypeFacts DEF Profiles
  <2>10. r.mac # NoMac => r.id = r.mac
    BY <1>1, <1>2, <2>7, <2>8 DEF TypeOK
  <2>11. r.mac = NoMac => r.name = NoName
    BY <1>1, <2>7, <2>8 DEF ProfilesWhole
  <2>12. id \in Macs /\ names[id] # NoName => r.name = names[id]
    BY <1>1, <2>8 DEF NamesCurrent
  <2>13. id = aliases[a] => r.mac = aliases[a]
    <3>1. aliases[a] # NoMac => profiles[aliases[a]].mac = aliases[a]
      BY <1>1 DEF TypeOK
    <3>2. id # NoMac
      BY <1>1, <2>5, TypeFacts
    <3> QED
      BY <2>8, <3>1, <3>2
  <2>14. al \in [Addrs -> MacOrNone]
    BY <1>1, <2>4, TypeFacts
  <2> HIDE DEF mac, al, id, name
  <2> QED
    BY <1>2, <1>4, <2>1, <2>4, <2>7, <2>9, <2>10, <2>11, <2>12, <2>13, <2>14
<1> QED
  BY <1>5, <1>6

-----------------------------------------------------------------------------
(* A row or a destroy event *)

\* The maps that are kept, what the sources said, and the rest of the state.
Maps ==
    /\ hosts \in [Addrs -> HostRecords]
    /\ \A a \in Addrs : hosts[a].mac = NoMac => hosts[a].name = NoName
    /\ aliases \in [Addrs -> MacOrNone]
    /\ \A a \in Addrs :
          aliases[a] # NoMac => profiles[aliases[a]].mac = aliases[a]
    /\ profiles \in [Identities -> Profiles]
    /\ \A id \in Identities :
          profiles[id].mac # NoMac => profiles[id].mac = id
    /\ NamesCurrent /\ ProfilesWhole

Sources ==
    /\ leases \in [Addrs -> Leases]
    /\ names \in [Macs -> NameOrNone]
    /\ neighbors \in [Addrs -> Neighbors \cup {NoNeighbor}]
    /\ LeasesWhole

Counts == daily \in [Identities -> Nat] /\ credited \in Nat
          /\ known \in [Macs -> Nat]

Rest ==
    /\ flows \subseteq Addrs /\ rows \subseteq Addrs
    /\ scanning \in BOOLEAN /\ polled \in BOOLEAN
    /\ reads \in Nat /\ starts \in Nat

LEMMA Parts == Agreeing <=> Maps /\ Sources /\ Counts /\ Rest
BY DEF Agreeing, TypeOK, Maps, Sources, Counts, Rest, MacOrNone, NameOrNone,
       HostRecords, Profiles

LEMMA PartsNext == Agreeing' <=> Maps' /\ Sources' /\ Counts' /\ Rest'
BY DEF Agreeing, TypeOK, Maps, Sources, Counts, Rest, MacOrNone, NameOrNone,
       HostRecords, Profiles

LEMMA AddedType ==
    ASSUME NEW S, NEW f \in [S -> Nat], NEW e \in S, NEW n \in Nat
    PROVE  [f EXCEPT ![e] = @ + n] \in [S -> Nat]
<1>1. f[e] + n \in Nat
  OBVIOUS
<1> QED
  BY <1>1

LEMMA CreditKeeps ==
    ASSUME Agreeing, NEW a \in Addrs, NEW n \in 0..1, NEW active \in BOOLEAN,
           Credit(a, n, active), UNCHANGED <<leases, names, neighbors>>
    PROVE  /\ Maps' /\ Sources' /\ Counts'
           /\ \A b \in Addrs :
                 hosts'[b].active = IF b = a THEN active ELSE hosts[b].active
<1> DEFINE host(r) == [seen |-> TRUE, active |-> active,
                       name |-> OrElse(r.name, hosts[a].name),
                       mac |-> OrElseMac(r.mac, hosts[a].mac)]
<1>1. PICK r : r = Resolved(a)
  OBVIOUS
<1>2. /\ r.id \in Identities /\ r.mac \in MacOrNone
      /\ r.name \in NameOrNone /\ r.aliases \in [Addrs -> MacOrNone]
      /\ r.mac # NoMac => r.id = r.mac
      /\ r.mac = NoMac => hosts[a].mac = NoMac /\ r.name = NoName
      /\ hosts[a].mac = NoMac => hosts[a].name = NoName
      /\ r.id \in Macs /\ names[r.id] # NoName => r.name = names[r.id]
      /\ r.id = aliases[a] => r.mac = aliases[a]
      /\ \A b \in Addrs : r.aliases[b] = aliases[b] \/ r.aliases[b] = r.mac
  BY <1>1, ResolvedFacts
<1>3. /\ hosts' = [hosts EXCEPT ![a] = host(r)]
      /\ aliases' = r.aliases
      /\ profiles' = [profiles EXCEPT ![r.id] = Remembered(@, host(r))]
      /\ daily' = [daily EXCEPT ![r.id] = @ + n]
      /\ credited' = credited + n
      /\ known' = IF r.mac = NoMac THEN known
                  ELSE [known EXCEPT ![r.mac] = @ + n]
  BY <1>1 DEF Credit, recordUsage
<1>4. Maps /\ Sources /\ Counts
  BY Parts
<1>5. PICK h : h = host(r)
  OBVIOUS
<1>6. /\ h.mac = r.mac
      /\ h.mac = NoMac => h.name = NoName
      /\ r.name # NoName => h.name = r.name
      /\ h.active = active
      /\ h \in HostRecords
  <2>1. hosts[a] \in HostRecords /\ hosts[a].name \in NameOrNone
        /\ hosts[a].mac \in MacOrNone
    BY <1>4 DEF Maps, HostRecords
  <2>2. h.mac = OrElseMac(r.mac, hosts[a].mac)
        /\ h.name = OrElse(r.name, hosts[a].name) /\ h.active = active
    BY <1>5
  <2>3. h.mac = r.mac
    BY <1>2, <2>2 DEF OrElseMac
  <2>4. h.name \in NameOrNone
    BY <1>2, <2>1, <2>2 DEF OrElse
  <2>5. h.mac = NoMac => h.name = NoName
    BY <1>2, <2>2, <2>3 DEF OrElse
  <2>6. h \in HostRecords
    BY <1>2, <1>5, <2>2, <2>3, <2>4 DEF HostRecords
  <2>7. r.name # NoName => h.name = r.name
    BY <2>2 DEF OrElse
  <2> QED
    BY <2>2, <2>3, <2>5, <2>6, <2>7
<1>7. hosts' = [hosts EXCEPT ![a] = h]
      /\ profiles' = [profiles EXCEPT ![r.id] = Remembered(@, h)]
  BY <1>3, <1>5
<1>8. PICK p : p = Remembered(profiles[r.id], h)
  OBVIOUS
<1>9. /\ p \in Profiles
      /\ p.mac = OrElseMac(h.mac, profiles[r.id].mac)
      /\ p.name = OrElse(h.name, profiles[r.id].name)
  <2>1. p.mac = OrElseMac(h.mac, profiles[r.id].mac)
        /\ p.name = OrElse(h.name, profiles[r.id].name)
    BY <1>8 DEF Remembered
  <2>2. profiles[r.id].mac \in MacOrNone /\ profiles[r.id].name \in NameOrNone
        /\ h.mac \in MacOrNone /\ h.name \in NameOrNone
    BY <1>2, <1>4, <1>6 DEF Maps, Profiles, HostRecords
  <2>3. p.mac \in MacOrNone
    BY <2>1, <2>2 DEF OrElseMac
  <2>4. p.name \in NameOrNone
    BY <2>1, <2>2 DEF OrElse
  <2> QED
    BY <1>8, <2>3, <2>4 DEF Profiles, Remembered
<1>10. /\ profiles' \in [Identities -> Profiles]
       /\ profiles'[r.id] = p
       /\ \A id \in Identities : id # r.id => profiles'[id] = profiles[id]
  BY <1>2, <1>4, <1>7, <1>8, <1>9 DEF Maps
<1>11. /\ hosts' \in [Addrs -> HostRecords]
       /\ hosts'[a] = h
       /\ \A b \in Addrs : b # a => hosts'[b] = hosts[b]
  BY <1>4, <1>6, <1>7 DEF Maps
<1>12. \A b \in Addrs : hosts'[b].mac = NoMac => hosts'[b].name = NoName
  BY <1>4, <1>6, <1>11 DEF Maps
<1>13. aliases' \in [Addrs -> MacOrNone]
  BY <1>2, <1>3
<1>14. ASSUME NEW b \in Addrs, aliases'[b] # NoMac
       PROVE  profiles'[aliases'[b]].mac = aliases'[b]
  <2>1. aliases'[b] = aliases[b] \/ (aliases'[b] = r.mac /\ r.id = r.mac)
    BY <1>2, <1>3, <1>14
  <2>2. CASE aliases'[b] = r.mac /\ r.id = r.mac
    <3>1. p.mac = r.mac
      BY <1>6, <1>9, <1>14, <2>2 DEF OrElseMac
    <3> QED
      BY <1>10, <2>2, <3>1
  <2>3. CASE aliases'[b] = aliases[b]
    <3>1. aliases[b] \in Identities /\ profiles[aliases[b]].mac = aliases[b]
      BY <1>4, <1>14, <2>3 DEF Maps, MacOrNone, Identities
    <3>2. CASE aliases[b] = r.id
      <4>1. p.mac = r.mac \/ p.mac = aliases[b]
        BY <1>6, <1>9, <3>1, <3>2 DEF OrElseMac
      <4>2. p.mac # NoMac
        BY <1>6, <1>9, <1>14, <2>3, <3>1, <3>2 DEF OrElseMac
      <4> QED
        BY <1>2, <1>10, <2>3, <3>2, <4>1, <4>2
    <3>3. CASE aliases[b] # r.id
      BY <1>10, <2>3, <3>1, <3>3
    <3> QED
      BY <3>2, <3>3
  <2> QED
    BY <2>1, <2>2, <2>3
<1>15. p.mac # NoMac => p.mac = r.id
  BY <1>2, <1>4, <1>6, <1>9 DEF Maps, OrElseMac
<1>16. \A id \in Identities : profiles'[id].mac # NoMac => profiles'[id].mac = id
  BY <1>4, <1>10, <1>15 DEF Maps
<1>17. NamesCurrent'
  <2> SUFFICES ASSUME NEW m \in Macs, names[m] # NoName
               PROVE  profiles'[m].name = names[m]
    BY DEF NamesCurrent
  <2>1. m \in Identities /\ profiles[m].name = names[m]
    BY <1>4 DEF Maps, NamesCurrent, Identities
  <2>2. CASE m = r.id
    <3>1. p.name = names[m]
      BY <1>2, <1>6, <1>9, <2>2 DEF OrElse
    <3> QED
      BY <1>10, <2>2, <3>1
  <2> QED
    BY <1>10, <2>1, <2>2
<1>18. ProfilesWhole'
  <2>1. p.mac = NoMac => p.name = NoName
    BY <1>2, <1>4, <1>6, <1>9 DEF Maps, ProfilesWhole, OrElse, OrElseMac
  <2> QED
    BY <1>4, <1>10, <2>1 DEF Maps, ProfilesWhole
<1>19. Maps'
  BY <1>10, <1>11, <1>12, <1>13, <1>14, <1>16, <1>17, <1>18 DEF Maps
<1>20. Sources'
  BY <1>4 DEF Sources, LeasesWhole
<1>21. Counts'
  <2>1. n \in Nat
    OBVIOUS
  <2>2. daily' \in [Identities -> Nat]
    BY <1>2, <1>3, <1>4, <2>1, AddedType DEF Counts
  <2>3. known' \in [Macs -> Nat]
    <3>1. CASE r.mac = NoMac
      BY <1>3, <1>4, <3>1 DEF Counts
    <3>2. CASE r.mac # NoMac
      <4>1. r.mac \in Macs /\ known \in [Macs -> Nat]
        BY <1>2, <1>4, <3>2 DEF Counts, MacOrNone
      <4> QED
        BY <1>3, <2>1, <3>2, <4>1, AddedType
    <3> QED
      BY <3>1, <3>2
  <2>4. credited' \in Nat
    BY <1>3, <1>4, <2>1 DEF Counts
  <2> QED
    BY <2>2, <2>3, <2>4 DEF Counts
<1>22. \A b \in Addrs :
          hosts'[b].active = IF b = a THEN active ELSE hosts[b].active
  BY <1>6, <1>11
<1> QED
  BY <1>19, <1>20, <1>21, <1>22

-----------------------------------------------------------------------------
(* The other steps *)

\* A read of the neighbor table keeps what the maps say of each other.
LEMMA RefreshKeeps ==
    ASSUME Agreeing, RefreshNeighbors
    PROVE  Agreeing'
<1>1. Maps /\ Sources /\ Counts /\ Rest
  BY Parts
<1> DEFINE At(m) == {b \in Addrs : neighbors'[b].mac = m}
           Found(m) == {NameFrom(neighbors'[a], leases[a], hosts[a], names) :
                        a \in At(m)} \ {NoName}
<1>2. PICK last \in [Macs -> Names \cup {NoName}] :
          /\ \A m \in Macs : IF Found(m) = {} THEN last[m] = NoName
                                             ELSE last[m] \in Found(m)
          /\ profiles' = [id \in Identities |->
                IF id \in Macs /\ \E a \in Addrs : neighbors'[a].mac = id
                THEN Remembered(profiles[id], [mac |-> id, name |-> last[id]])
                ELSE profiles[id]]
  BY DEF RefreshNeighbors
<1>3. /\ neighbors' \in [Addrs -> Neighbors \cup {NoNeighbor}]
      /\ aliases' = [a \in Addrs |-> OrElseMac(neighbors'[a].mac, aliases[a])]
      /\ reads' \in Nat
      /\ UNCHANGED <<leases, names, hosts, daily, flows, scanning, rows, polled,
                     starts, credited, known>>
  BY <1>1, IdentityAssumption DEF RefreshNeighbors, Rest
<1>4. \A a \in Addrs : neighbors'[a].mac \in MacOrNone
  BY <1>3 DEF Neighbors, NoNeighbor, MacOrNone
<1> DEFINE Known(id) == id \in Macs /\ \E a \in Addrs : neighbors'[a].mac = id
<1>5. \A id \in Identities : Known(id) =>
          /\ profiles'[id].mac = id
          /\ profiles'[id].name = OrElse(last[id], profiles[id].name)
          /\ profiles'[id] \in Profiles
  <2> SUFFICES ASSUME NEW id \in Identities, Known(id)
               PROVE  /\ profiles'[id].mac = id
                      /\ profiles'[id].name = OrElse(last[id], profiles[id].name)
                      /\ profiles'[id] \in Profiles
    OBVIOUS
  <2>1. profiles'[id]
            = Remembered(profiles[id], [mac |-> id, name |-> last[id]])
    BY <1>2
  <2>2. id # NoMac /\ id \in MacOrNone /\ last[id] \in NameOrNone
        /\ profiles[id].name \in NameOrNone
    BY <1>1, <1>2, IdentityAssumption
       DEF Maps, Profiles, MacOrNone, NameOrNone
  <2>3. profiles'[id] = [mac |-> id,
                         name |-> OrElse(last[id], profiles[id].name)]
    BY <2>1, <2>2 DEF Remembered, OrElseMac
  <2> QED
    BY <2>2, <2>3 DEF OrElse, Profiles
<1>6. \A id \in Identities : ~Known(id) => profiles'[id] = profiles[id]
  BY <1>2
<1>7. profiles' \in [Identities -> Profiles]
  <2>1. \A id \in Identities : profiles'[id] \in Profiles
    BY <1>1, <1>5, <1>6 DEF Maps
  <2> QED
    BY <1>2, <2>1
<1>8. aliases' \in [Addrs -> MacOrNone]
  <2>1. \A a \in Addrs : aliases'[a] \in MacOrNone
    BY <1>1, <1>3, <1>4 DEF OrElseMac, Maps
  <2> QED
    BY <1>3, <2>1
<1>9. ASSUME NEW a \in Addrs, aliases'[a] # NoMac
      PROVE  profiles'[aliases'[a]].mac = aliases'[a]
  <2>1. aliases'[a] \in Identities /\ aliases'[a] \in Macs
    BY <1>8, <1>9 DEF MacOrNone, Identities
  <2>2. CASE Known(aliases'[a])
    BY <1>5, <2>1, <2>2
  <2>3. CASE ~Known(aliases'[a])
    <3>1. aliases'[a] = aliases[a]
      BY <1>3, <2>1, <2>3 DEF OrElseMac
    <3> QED
      BY <1>1, <1>6, <1>9, <2>1, <2>3, <3>1 DEF Maps
  <2> QED
    BY <2>2, <2>3
<1>10. \A id \in Identities : profiles'[id].mac # NoMac => profiles'[id].mac = id
  BY <1>1, <1>5, <1>6 DEF Maps
<1>11. ProfilesWhole'
  BY <1>1, <1>5, <1>6, IdentityAssumption DEF Maps, ProfilesWhole
<1>12. NamesCurrent'
  <2> SUFFICES ASSUME NEW m \in Macs, names[m] # NoName
               PROVE  profiles'[m].name = names[m]
    BY <1>3 DEF NamesCurrent
  <2>1. m \in Identities /\ profiles[m].name = names[m] /\ m # NoMac
    BY <1>1, IdentityAssumption DEF Maps, NamesCurrent, Identities
  <2>2. CASE Known(m)
    <3>1. \A a \in At(m) :
             NameFrom(neighbors'[a], leases[a], hosts[a], names) = names[m]
      BY <2>1 DEF NameFrom, MacFrom, OrElse
    <3>2. Found(m) = {} \/ last[m] = names[m]
      BY <1>2, <3>1
    <3>3. last[m] = names[m] \/ last[m] = NoName
      BY <1>2, <3>2
    <3> QED
      BY <1>5, <2>1, <2>2, <3>3 DEF OrElse
  <2>3. CASE ~Known(m)
    BY <1>6, <2>1, <2>3
  <2> QED
    BY <2>2, <2>3
<1>13. Maps'
  BY <1>1, <1>3, <1>7, <1>8, <1>9, <1>10, <1>11, <1>12 DEF Maps
<1>14. Sources'
  BY <1>1, <1>3 DEF Sources, LeasesWhole
<1>15. Counts' /\ Rest'
  BY <1>1, <1>3 DEF Counts, Rest
<1> QED
  BY <1>13, <1>14, <1>15, PartsNext

\* A poll that begins changes the live values only; with a read of the leases
\* also the names and MACs they say.
LEMMA BeginKeeps ==
    ASSUME Agreeing, PollBegin
    PROVE  Agreeing' /\ \A a \in Addrs : hosts'[a].active = FALSE
<1>1. Maps /\ Sources /\ Counts /\ Rest
  BY Parts
<1>2. /\ hosts' = [a \in Addrs |-> Quiet(hosts[a])]
      /\ scanning' = TRUE /\ rows' = {}
      /\ UNCHANGED <<leases, names, neighbors, aliases, profiles, daily, flows,
                     polled, reads, starts, credited, known>>
  BY DEF PollBegin
<1>3. \A a \in Addrs : /\ hosts'[a] \in HostRecords
                       /\ hosts'[a].mac = hosts[a].mac
                       /\ hosts'[a].name = hosts[a].name
                       /\ hosts'[a].active = FALSE
  BY <1>1, <1>2 DEF Quiet, Maps, HostRecords
<1>4. hosts' \in [Addrs -> HostRecords]
  BY <1>2, <1>3
<1>5. Maps'
  BY <1>1, <1>2, <1>3, <1>4 DEF Maps, NamesCurrent, ProfilesWhole
<1>6. Sources'
  BY <1>1, <1>2 DEF Sources, LeasesWhole
<1>7. Counts' /\ Rest'
  BY <1>1, <1>2 DEF Counts, Rest
<1> QED
  BY <1>3, <1>5, <1>6, <1>7, PartsNext

LEMMA BeginWithLeasesKeeps ==
    ASSUME Agreeing, PollBeginWithLeases
    PROVE  Agreeing' /\ \A a \in Addrs : hosts'[a].active = FALSE
<1>1. Maps /\ Sources /\ Counts /\ Rest
  BY Parts
<1> DEFINE Said(id) == /\ id \in Macs
                       /\ LeasedTo(leases', id) # {} \/ names'[id] # NoName
           Of(a) == CanonicalIn(aliases',
                       identity(MacFrom(neighbors[a], leases'[a], hosts[a]), a))
           Named(a) == IF hosts[a].seen /\ Of(a) \in Macs
                          /\ names'[Of(a)] # NoName
                       THEN [hosts[a] EXCEPT !.name = names'[Of(a)],
                                             !.mac = Of(a)]
                       ELSE hosts[a]
<1>2. /\ leases' \in LeaseFiles
      /\ \E static \in StaticNames : names' = HostnamesByMAC(leases', static)
      /\ aliases' = [a \in Addrs |-> OrElseMac(leases'[a].mac, aliases[a])]
      /\ reads' \in Nat /\ scanning' = TRUE /\ rows' = {}
      /\ UNCHANGED <<neighbors, daily, flows, polled, starts, credited, known>>
  <2>1. reads' \in Nat
    <3>1. reads' = reads + 1
      BY DEF PollBeginWithLeases
    <3> QED
      BY <1>1, <3>1 DEF Rest
  <2>2. leases' \in LeaseFiles
        /\ \E static \in StaticNames : names' = HostnamesByMAC(leases', static)
    BY DEF PollBeginWithLeases
  <2>3. aliases' = [a \in Addrs |-> OrElseMac(leases'[a].mac, aliases[a])]
    BY DEF PollBeginWithLeases
  <2>4. /\ scanning' = TRUE /\ rows' = {}
        /\ UNCHANGED <<neighbors, daily, flows, polled, starts, credited, known>>
    BY DEF PollBeginWithLeases
  <2> QED
    BY <2>1, <2>2, <2>3, <2>4
<1>3. profiles' = [id \in Identities |->
          IF Said(id)
          THEN [mac |-> id, name |-> OrElse(names'[id], profiles[id].name)]
          ELSE profiles[id]]
  BY DEF PollBeginWithLeases
<1>4. hosts' = [a \in Addrs |-> Quiet(Named(a))]
  BY DEF PollBeginWithLeases
<1>5. leases' \in [Addrs -> Leases] /\ LeasesWhole'
      /\ \A a \in Addrs : leases'[a].mac \in MacOrNone
  BY <1>2, IdentityAssumption, LeaseTypes DEF LeasesWhole
<1>6. names' \in [Macs -> NameOrNone]
  BY <1>2, HostnameTypes
<1>7. \A id \in Identities : Said(id) =>
          /\ profiles'[id].mac = id
          /\ profiles'[id].name = OrElse(names'[id], profiles[id].name)
          /\ profiles'[id] \in Profiles
  <2> SUFFICES ASSUME NEW id \in Identities, Said(id)
               PROVE  /\ profiles'[id].mac = id
                      /\ profiles'[id].name = OrElse(names'[id], profiles[id].name)
                      /\ profiles'[id] \in Profiles
    OBVIOUS
  <2>1. profiles'[id] = [mac |-> id,
                         name |-> OrElse(names'[id], profiles[id].name)]
    BY <1>3
  <2>2. id \in MacOrNone /\ names'[id] \in NameOrNone
        /\ profiles[id].name \in NameOrNone
    BY <1>1, <1>6 DEF Maps, Profiles, MacOrNone
  <2> HIDE DEF Said
  <2> QED
    BY <2>1, <2>2 DEF OrElse, Profiles
<1>8. \A id \in Identities : ~Said(id) => profiles'[id] = profiles[id]
  BY <1>3
<1>9. profiles' \in [Identities -> Profiles]
  <2>1. \A id \in Identities : profiles'[id] \in Profiles
    BY <1>1, <1>7, <1>8 DEF Maps
  <2> QED
    BY <1>3, <2>1
<1>10. aliases' \in [Addrs -> MacOrNone]
  <2>1. \A a \in Addrs : aliases'[a] \in MacOrNone
    BY <1>1, <1>2, <1>5 DEF OrElseMac, Maps
  <2> QED
    BY <1>2, <2>1
<1>11. ASSUME NEW a \in Addrs, aliases'[a] # NoMac
       PROVE  profiles'[aliases'[a]].mac = aliases'[a]
  <2>1. aliases'[a] \in Identities /\ aliases'[a] \in Macs
    BY <1>10, <1>11 DEF MacOrNone, Identities
  <2>2. CASE Said(aliases'[a])
    BY <1>7, <2>1, <2>2
  <2>3. CASE ~Said(aliases'[a])
    <3>1. leases'[a].mac # aliases'[a]
      BY <2>1, <2>3 DEF LeasedTo
    <3>2. aliases'[a] = aliases[a]
      BY <1>2, <3>1 DEF OrElseMac
    <3> QED
      BY <1>1, <1>8, <1>11, <2>1, <2>3, <3>2 DEF Maps
  <2> QED
    BY <2>2, <2>3
<1>12. \A id \in Identities : profiles'[id].mac # NoMac => profiles'[id].mac = id
  BY <1>1, <1>7, <1>8 DEF Maps
<1>13. ProfilesWhole'
  BY <1>1, <1>7, <1>8, IdentityAssumption DEF Maps, ProfilesWhole
<1>14. NamesCurrent'
  <2> SUFFICES ASSUME NEW m \in Macs, names'[m] # NoName
               PROVE  profiles'[m].name = names'[m]
    BY DEF NamesCurrent
  <2> QED
    BY <1>7 DEF OrElse, Identities
<1>15. ASSUME NEW a \in Addrs
       PROVE  /\ hosts'[a] \in HostRecords
              /\ hosts'[a].mac = NoMac => hosts'[a].name = NoName
              /\ hosts'[a].active = FALSE
  <2>1. hosts[a] \in HostRecords
        /\ (hosts[a].mac = NoMac => hosts[a].name = NoName)
    BY <1>1 DEF Maps
  <2>2. /\ Named(a) \in HostRecords
        /\ Named(a).mac = NoMac => Named(a).name = NoName
    <3>1. CASE /\ hosts[a].seen /\ Of(a) \in Macs
               /\ names'[Of(a)] # NoName
      <4>1. Named(a) = [hosts[a] EXCEPT !.name = names'[Of(a)], !.mac = Of(a)]
        BY <3>1
      <4>2. Of(a) \in MacOrNone /\ Of(a) # NoMac /\ names'[Of(a)] \in NameOrNone
        BY <1>6, <3>1, IdentityAssumption DEF MacOrNone
      <4> HIDE DEF Of, Named
      <4> QED
        BY <2>1, <4>1, <4>2 DEF HostRecords
    <3>2. CASE ~ (/\ hosts[a].seen /\ Of(a) \in Macs
                  /\ names'[Of(a)] # NoName)
      <4>1. Named(a) = hosts[a]
        BY <3>2
      <4> QED
        BY <2>1, <4>1
    <3> QED
      BY <3>1, <3>2
  <2>3. hosts'[a] = Quiet(Named(a))
    BY <1>4
  <2> HIDE DEF Named
  <2> QED
    BY <2>2, <2>3 DEF Quiet, HostRecords
<1>16. hosts' \in [Addrs -> HostRecords]
  BY <1>4, <1>15
<1>17. Maps'
  BY <1>9, <1>10, <1>11, <1>12, <1>13, <1>14, <1>15, <1>16 DEF Maps
<1>18. Sources'
  BY <1>1, <1>2, <1>5, <1>6 DEF Sources
<1>19. Counts' /\ Rest'
  BY <1>1, <1>2 DEF Counts, Rest
<1> QED
  BY <1>15, <1>17, <1>18, <1>19, PartsNext

-----------------------------------------------------------------------------
(* The theorems *)

THEOREM Inductive == Spec => []IInv
<1>1. Init => IInv
  <2> SUFFICES ASSUME Init PROVE IInv
    OBVIOUS
  <2>1. \A a \in Addrs : leases[a] = NoLease /\ aliases[a] = NoMac
                         /\ hosts[a] = NoHost
    BY DEF Init
  <2>2. \A id \in Identities : profiles[id] = NoProfile
    BY DEF Init
  <2>3. Maps
    <3>1. hosts \in [Addrs -> HostRecords]
      BY DEF Init, NoHost, HostRecords, MacOrNone, NameOrNone
    <3>2. aliases \in [Addrs -> MacOrNone]
      BY DEF Init, MacOrNone
    <3>3. profiles \in [Identities -> Profiles]
      BY DEF Init, NoProfile, Profiles, MacOrNone, NameOrNone
    <3>4. NamesCurrent /\ ProfilesWhole
      BY <2>2 DEF Init, NamesCurrent, ProfilesWhole, NoProfile
    <3> QED
      BY <2>1, <2>2, <3>1, <3>2, <3>3, <3>4 DEF Maps, NoHost, NoProfile
  <2>4. Sources
    <3>1. leases \in [Addrs -> Leases]
      BY DEF Init, NoLease, Leases
    <3>2. names \in [Macs -> NameOrNone]
      BY DEF Init, NameOrNone
    <3>3. neighbors \in [Addrs -> Neighbors \cup {NoNeighbor}]
      BY DEF Init
    <3> QED
      BY <2>1, <3>1, <3>2, <3>3 DEF Sources, LeasesWhole
  <2>5. Counts /\ Rest
    BY DEF Init, Counts, Rest
  <2>6. Listing
    BY <2>1 DEF Init, Listing, RowsActive, FlowsActive, ActiveListed
  <2> QED
    BY <2>3, <2>4, <2>5, <2>6, Parts DEF IInv
<1>2. IInv /\ [Next]_vars => IInv'
  <2> SUFFICES ASSUME IInv, [Next]_vars PROVE IInv'
    OBVIOUS
  <2>1. Agreeing /\ Listing /\ Maps /\ Sources /\ Counts /\ Rest
    BY Parts DEF IInv
  <2>2. CASE RefreshNeighbors
    <3>1. Agreeing'
      BY <2>1, <2>2, RefreshKeeps
    <3>2. Listing'
      BY <2>1, <2>2
         DEF RefreshNeighbors, Listing, RowsActive, FlowsActive, ActiveListed
    <3> QED
      BY <3>1, <3>2 DEF IInv
  <2>3. CASE PollBegin
    <3>1. Agreeing' /\ \A a \in Addrs : hosts'[a].active = FALSE
      BY <2>1, <2>3, BeginKeeps
    <3>2. Listing'
      BY <3>1, <2>3
         DEF PollBegin, Listing, RowsActive, FlowsActive, ActiveListed
    <3> QED
      BY <3>1, <3>2 DEF IInv
  <2>4. CASE PollBeginWithLeases
    <3>1. Agreeing' /\ \A a \in Addrs : hosts'[a].active = FALSE
      BY <2>1, <2>4, BeginWithLeasesKeeps
    <3>2. scanning' = TRUE /\ rows' = {}
      BY <2>4 DEF PollBeginWithLeases
    <3>3. Listing'
      BY <3>1, <3>2 DEF Listing, RowsActive, FlowsActive, ActiveListed
    <3> QED
      BY <3>1, <3>3 DEF IInv
  <2>5. ASSUME NEW a \in Addrs, NEW n \in 0..1, PollRow(a, n)
        PROVE  IInv'
    <3>1. /\ scanning /\ Credit(a, n, TRUE) /\ rows' = rows \cup {a}
          /\ UNCHANGED <<leases, names, neighbors, flows, scanning, polled,
                         reads, starts>>
      BY <2>5 DEF PollRow
    <3>2. /\ Maps' /\ Sources' /\ Counts'
          /\ \A b \in Addrs :
                hosts'[b].active = IF b = a THEN TRUE ELSE hosts[b].active
      BY <2>1, <3>1, CreditKeeps
    <3>3. Rest'
      BY <2>1, <3>1 DEF Rest
    <3>4. Listing'
      BY <2>1, <3>1, <3>2 DEF Listing, RowsActive, FlowsActive, ActiveListed
    <3> QED
      BY <3>2, <3>3, <3>4, PartsNext DEF IInv
  <2>6. ASSUME NEW a \in Addrs, NEW n \in 0..1, ApplyDestroy(a, n)
        PROVE  IInv'
    <3>1. /\ ~scanning /\ Credit(a, n, hosts[a].active)
          /\ UNCHANGED <<leases, names, neighbors, flows, scanning, rows, polled,
                         reads, starts>>
      BY <2>6 DEF ApplyDestroy
    <3>2. hosts[a].active \in BOOLEAN
      BY <2>1 DEF Maps, HostRecords
    <3>3. /\ Maps' /\ Sources' /\ Counts'
          /\ \A b \in Addrs : hosts'[b].active = hosts[b].active
      BY <2>1, <3>1, <3>2, CreditKeeps
    <3>4. Rest'
      BY <2>1, <3>1 DEF Rest
    <3>5. Listing'
      BY <2>1, <3>1, <3>3 DEF Listing, RowsActive, FlowsActive, ActiveListed, Rest
    <3> QED
      BY <3>3, <3>4, <3>5, PartsNext DEF IInv
  <2>7. CASE PollEnd
    <3>1. Maps' /\ Sources' /\ Counts' /\ Rest'
      BY <2>1, <2>7 DEF PollEnd, disk, Maps, Sources, Counts, Rest, LeasesWhole,
                        NamesCurrent, ProfilesWhole
    <3>2. Listing'
      BY <2>1, <2>7 DEF PollEnd, disk, Listing, RowsActive, FlowsActive,
                        ActiveListed, Rest
    <3> QED
      BY <3>1, <3>2, PartsNext DEF IInv
  <2>8. CASE Restart
    <3>1. leases' \in [Addrs -> Leases] /\ LeasesWhole'
      BY <2>8 DEF Restart, NoLease, Leases, LeasesWhole
    <3>2. names' \in [Macs -> NameOrNone]
      BY <2>8 DEF Restart, NameOrNone
    <3>3. Sources'
      BY <2>8, <3>1, <3>2 DEF Restart, Sources
    <3>4. Maps'
      BY <2>1, <2>8 DEF Restart, disk, Maps, NamesCurrent, ProfilesWhole
    <3>5. Counts' /\ Rest'
      <4>1. /\ starts' = starts + 1 /\ flows' = {} /\ polled' = FALSE
            /\ UNCHANGED <<disk, scanning, rows, reads, credited, known>>
        BY <2>8 DEF Restart
      <4>2. Counts'
        BY <2>1, <4>1 DEF disk, Counts
      <4>3. starts' \in Nat /\ polled' \in BOOLEAN
        <5>1. starts \in Nat
          BY <2>1 DEF Rest
        <5>2. starts' \in Nat
          BY <4>1, <5>1
        <5> QED
          BY <4>1, <5>2
      <4>4. Rest'
        BY <2>1, <4>1, <4>3 DEF Rest
      <4> QED
        BY <4>2, <4>4
    <3>6. Listing'
      BY <2>8 DEF Restart, Listing, RowsActive, FlowsActive, ActiveListed
    <3> QED
      BY <3>3, <3>4, <3>5, <3>6, PartsNext DEF IInv
  <2>9. CASE UNCHANGED vars
    <3>1. Maps' /\ Sources' /\ Counts' /\ Rest'
      BY <2>1, <2>9 DEF vars, disk, Maps, Sources, Counts, Rest, LeasesWhole,
                        NamesCurrent, ProfilesWhole
    <3>2. Listing'
      BY <2>1, <2>9 DEF vars, disk, Listing, RowsActive, FlowsActive,
                        ActiveListed
    <3> QED
      BY <3>1, <3>2, PartsNext DEF IInv
  <2> QED
    BY <2>2, <2>3, <2>4, <2>5, <2>6, <2>7, <2>8, <2>9 DEF Next
<1> QED
  BY <1>1, <1>2, PTL DEF Spec

\* The maps hold what their keys and sources allow.
THEOREM TypeCorrect == Spec => []TypeOK
<1>1. IInv => TypeOK
  BY DEF IInv, Agreeing
<1> QED
  BY <1>1, Inductive, PTL

\* Names are those of the leases and static names read last (NamesCurrent).
THEOREM NamesAreCurrent == Spec => []NamesCurrent
<1>1. IInv => NamesCurrent
  BY DEF IInv, Agreeing
<1> QED
  BY <1>1, Inductive, PTL

\* No connection is hidden, whatever happened to its address since the poll
\* (FlowsUnderTheirHost).
THEOREM NoFlowHidden == Spec => []FlowsUnderTheirHost
<1>1. ASSUME IInv, ~scanning, NEW a \in flows
      PROVE  /\ identityForIP(a) \in OnlineIdentities
             /\ \A mac \in RowMacs(identityForIP(a)) :
                   a \in currentAddresses(identityForIP(a), mac)
  <2>1. a \in Addrs /\ hosts[a].active
    BY <1>1, Parts DEF IInv, Listing, FlowsActive, Rest
  <2>2. identityForIP(a) \in OnlineIdentities
    BY <2>1 DEF OnlineIdentities
  <2>3. \A mac : Rank(identityForIP(a), mac, a) = 3
    BY <2>1 DEF Rank
  <2> QED
    BY <2>1, <2>2, <2>3 DEF currentAddresses
<1>2. IInv => FlowsUnderTheirHost
  BY <1>1 DEF FlowsUnderTheirHost, snapshotFlows
<1> QED
  BY <1>2, Inductive, PTL

\* The live list has only what the last poll or the neighbor table saw
\* (OnlineWasSeen).
THEOREM LiveListWasSeen == Spec => []OnlineWasSeen
<1>1. IInv => OnlineWasSeen
  BY DEF IInv, Listing, ActiveListed, OnlineWasSeen, OnlineIdentities
<1> QED
  BY <1>1, Inductive, PTL
-----------------------------------------------------------------------------
(* The history *)

\* The buckets have every byte that was credited, and those of a MAC have what
\* was credited while it was known.
Ledger ==
    /\ credited = Sum(daily, Identities)
    /\ \A m \in Macs : known[m] <= daily[m]

LEMMA IdentitiesFinite == IsFiniteSet(Identities)
BY IdentityAssumption, FS_Union DEF Identities

LEMMA CreditLedger ==
    ASSUME Agreeing, Ledger, NEW a \in Addrs, NEW n \in 0..1, NEW active,
           Credit(a, n, active)
    PROVE  Ledger'
<1>1. PICK r : r = Resolved(a)
  OBVIOUS
<1>2. r.id \in Identities /\ r.mac \in MacOrNone /\ (r.mac # NoMac => r.id = r.mac)
  BY <1>1, ResolvedFacts
<1>3. /\ daily' = [daily EXCEPT ![r.id] = @ + n]
      /\ credited' = credited + n
      /\ known' = IF r.mac = NoMac THEN known
                  ELSE [known EXCEPT ![r.mac] = @ + n]
  BY <1>1 DEF Credit, recordUsage
<1>4. daily \in [Identities -> Nat] /\ known \in [Macs -> Nat] /\ n \in Nat
  BY Parts DEF Counts
<1>5. daily' \in [Identities -> Nat]
  BY <1>2, <1>3, <1>4, AddedType
<1>6. credited' = Sum(daily', Identities)
  <2>1. Added(daily', daily, r.id, n, Identities)
    BY <1>2, <1>3, <1>4 DEF Added
  <2>2. Sum(daily', Identities) = Sum(daily, Identities) + n
    BY <1>2, <1>4, <1>5, <2>1, IdentitiesFinite, SumAdds
  <2> QED
    BY <1>3, <2>2 DEF Ledger
<1>7. ASSUME NEW m \in Macs PROVE known'[m] <= daily'[m]
  <2>1. m \in Identities /\ known[m] \in Nat /\ daily[m] \in Nat
        /\ known[m] <= daily[m]
    BY <1>4 DEF Ledger, Identities
  <2>2. CASE r.mac = m
    <3>1. m # NoMac
      BY IdentityAssumption
    <3>2. r.id = m
      BY <1>2, <2>2, <3>1
    <3>3. daily'[m] = daily[m] + n
      BY <1>3, <1>4, <2>1, <3>2
    <3>4. known'[m] = known[m] + n
      BY <1>3, <1>4, <2>2, <3>1
    <3> QED
      BY <1>4, <2>1, <3>3, <3>4
  <2>3. CASE r.mac # m
    <3>1. known'[m] = known[m]
      BY <1>3, <1>4, <2>3
    <3>2. daily'[m] = daily[m] \/ daily'[m] = daily[m] + n
      BY <1>3, <1>4, <2>1
    <3> QED
      BY <1>4, <2>1, <3>1, <3>2
  <2> QED
    BY <2>2, <2>3
<1> QED
  BY <1>6, <1>7 DEF Ledger

LEMMA LedgerAlways == Spec => []Ledger
<1>1. Init => Ledger
  <2> SUFFICES ASSUME Init PROVE Ledger
    OBVIOUS
  <2>1. /\ daily \in [Identities -> Nat] /\ credited = 0
        /\ \A id \in Identities : daily[id] = 0
        /\ \A m \in Macs : known[m] = 0
    BY DEF Init
  <2>2. Sum(daily, Identities) = 0
    BY <2>1, IdentitiesFinite, SumOfZeros
  <2> QED
    BY <2>1, <2>2 DEF Ledger, Identities
<1>2. IInv /\ Ledger /\ [Next]_vars => Ledger'
  <2> SUFFICES ASSUME IInv, Ledger, [Next]_vars PROVE Ledger'
    OBVIOUS
  <2>1. Agreeing
    BY DEF IInv
  <2>2. ASSUME NEW a \in Addrs, NEW n \in 0..1,
               PollRow(a, n) \/ ApplyDestroy(a, n)
        PROVE  Ledger'
    <3>1. Credit(a, n, TRUE) \/ Credit(a, n, hosts[a].active)
      BY <2>2 DEF PollRow, ApplyDestroy
    <3> QED
      BY <2>1, <3>1, CreditLedger
  <2>3. ASSUME UNCHANGED <<daily, credited, known>> PROVE Ledger'
    BY <2>3 DEF Ledger
  <2>4. \/ RefreshNeighbors \/ PollBegin \/ PollBeginWithLeases \/ PollEnd
        \/ Restart \/ UNCHANGED vars
        => UNCHANGED <<daily, credited, known>>
    BY DEF RefreshNeighbors, PollBegin, PollBeginWithLeases, PollEnd, Restart,
           vars, disk
  <2> QED
    BY <2>2, <2>3, <2>4 DEF Next
<1> QED
  BY <1>1, <1>2, Inductive, PTL DEF Spec

\* Every byte is shown once, whatever addresses are merged into devices, and
\* however often they change hands (usageHistory, recordUsageLocked).
THEOREM NothingIsHidden == Spec => []HistoryComplete
<1>1. IInv /\ Ledger => HistoryComplete
  <2> SUFFICES ASSUME IInv, Ledger PROVE HistoryComplete
    OBVIOUS
  <2> DEFINE c == [i \in Identities |-> Canonical(i)]
             shown == [id \in Identities |-> usageHistory(id)]
             grouped == [g \in Identities |->
                            Sum(daily, {i \in Identities : c[i] = g})]
  <2>1. daily \in [Identities -> Nat] /\ aliases \in [Addrs -> MacOrNone]
    BY Parts DEF IInv, Maps, Counts
  <2>2. c \in [Identities -> Identities]
    BY <2>1 DEF Canonical, CanonicalIn, MacOrNone, Identities
  <2>3. \A id \in Identities : usageHistory(id) =
           Sum(daily, {i \in Identities : c[i] = id})
    <3> TAKE id \in Identities
    <3>1. {i \in Identities : c[i] = id} = {i \in Identities : Canonical(i) = id}
      OBVIOUS
    <3>2. usageHistory(id) =
             Sum(daily, {i \in Identities : Canonical(i) = id})
      BY DEF usageHistory, Sum
    <3> QED
      BY <3>1, <3>2
  <2>4. shown = grouped
    <3> HIDE DEF c
    <3> QED
      BY <2>3
  <2>5. Sum(grouped, Identities) = Sum(daily, Identities)
    <3> HIDE DEF c
    <3> QED
      BY <2>1, <2>2, IdentitiesFinite, SumByGroup
  <2>6. credited = Sum(shown, Identities)
    <3> HIDE DEF shown, grouped
    <3> QED
      BY <2>4, <2>5 DEF Ledger
  <2> QED
    BY <2>6 DEF HistoryComplete, Sum
<1> QED
  BY <1>1, Inductive, LedgerAlways, PTL

\* What was credited to a device stays with it, whoever has its addresses now,
\* and over restarts (recordUsageLocked, usageHistory).
THEOREM HistoryStays == Spec => []DevicesKeepHistory
<1>1. IInv /\ Ledger => DevicesKeepHistory
  <2> SUFFICES ASSUME IInv, Ledger, NEW m \in Macs
               PROVE  usageHistory(m) >= known[m]
    BY DEF DevicesKeepHistory
  <2>1. daily \in [Identities -> Nat] /\ known \in [Macs -> Nat]
    BY Parts DEF IInv, Counts
  <2>2. PICK s : s = {i \in Identities : Canonical(i) = m}
    OBVIOUS
  <2>3. s \in SUBSET Identities /\ m \in s
    BY <2>2, IdentityAssumption DEF Canonical, CanonicalIn, Identities
  <2>4. usageHistory(m) = Sum(daily, s)
    BY <2>2 DEF usageHistory, Sum
  <2>5. Sum(daily, s) = daily[m] + Sum(daily, s \ {m})
    BY <2>1, <2>3, IdentitiesFinite, SumSplit
  <2>6. Sum(daily, s \ {m}) \in Nat
    <3>1. s \ {m} \in SUBSET Identities
      BY <2>3
    <3> QED
      BY <2>1, <3>1, IdentitiesFinite, SumSplits
  <2>7. daily[m] \in Nat /\ known[m] \in Nat /\ known[m] <= daily[m]
    BY <2>1, <2>3 DEF Ledger
  <2> QED
    BY <2>4, <2>5, <2>6, <2>7
<1> QED
  BY <1>1, Inductive, LedgerAlways, PTL
=============================================================================
