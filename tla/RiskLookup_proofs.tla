------------------------- MODULE RiskLookup_proofs --------------------------
(***************************************************************************)
(* Proofs about RiskLookup, for every size of the address space and all    *)
(* contents of the files: merging in place keeps the addresses of a list,  *)
(* bisection finds exactly those, the country and the hits of an address   *)
(* are those of its row and line, and more evidence never lowers a score.  *)
(***************************************************************************)
EXTENDS RiskLookup, FiniteSetTheorems, WellFoundedInduction, TLAPS

AddressRange == [start : Nat, end : Nat]

\* Ranges as bisection needs them: in order and apart.
Apart(array) ==
    /\ array \in Seq(AddressRange)
    /\ \A k \in 1..Len(array) : array[k].start <= array[k].end
    /\ \A j, k \in 1..Len(array) : j < k => array[j].end < array[k].start

-----------------------------------------------------------------------------
(* Blocks *)

LEMMA MaskedStart ==
    ASSUME NEW a \in Nat, NEW b \in Nat \ {0}
    PROVE  a - (a % b) \in Nat
OBVIOUS

LEMMA PrefixRange ==
    ASSUME NEW prefix \in Prefix
    PROVE  /\ prefixRange(prefix) \in AddressRange
           /\ prefixRange(prefix).start <= prefixRange(prefix).end
<1>1. prefix.addr \in Nat
  <2>1. MaxAddr \in Nat
    BY LookupAssumption
  <2> QED
    BY <2>1 DEF Prefix, Addresses
<1>3. prefix.size \in Nat \ {0}
  <2>1. BlockSizes \subseteq Nat \ {0}
    BY LookupAssumption
  <2> QED
    BY <2>1 DEF Prefix
<1>2. prefix.addr - (prefix.addr % prefix.size) \in Nat
  BY <1>1, <1>3, MaskedStart
<1> QED
  BY <1>1, <1>2, <1>3 DEF prefixRange, AddressRange

LEMMA RangesOfFile ==
    ASSUME NEW file \in Seq(Prefix)
    PROVE  /\ Ranges(file) \in Seq(AddressRange)
           /\ Len(Ranges(file)) = Len(file)
           /\ \A k \in 1..Len(file) : Ranges(file)[k].start <= Ranges(file)[k].end
<1>1. \A k \in 1..Len(file) : file[k] \in Prefix
  OBVIOUS
<1>2. Ranges(file) \in [1..Len(file) -> AddressRange]
  BY <1>1, PrefixRange DEF Ranges
<1> QED
  BY <1>1, <1>2, PrefixRange DEF Ranges

\* Sorting keeps the elements.
LEMMA PermutedFacts ==
    ASSUME NEW S, NEW array \in Seq(S), NEW a \in Permuted(array)
    PROVE  /\ a \in Seq(S) /\ Len(a) = Len(array)
           /\ DOMAIN array = 1..Len(array)
           /\ \A k \in 1..Len(a) : \E j \in 1..Len(array) : a[k] = array[j]
           /\ \A j \in 1..Len(array) : \E k \in 1..Len(a) : a[k] = array[j]
<1>1. DOMAIN array = 1..Len(array) /\ Len(array) \in Nat
  OBVIOUS
<1>2. PICK p \in Bijection(1..Len(array), 1..Len(array)) :
          a = [k \in 1..Len(array) |-> array[p[k]]]
  BY <1>1 DEF Permuted
<1>3. /\ p \in [1..Len(array) -> 1..Len(array)]
      /\ \A j \in 1..Len(array) : \E k \in 1..Len(array) : p[k] = j
  BY <1>2 DEF Bijection, Injection, Surjection
<1>4. a \in [1..Len(array) -> S]
  BY <1>1, <1>2, <1>3
<1>5. a \in Seq(S) /\ Len(a) = Len(array)
  BY <1>1, <1>4
<1> QED
  BY <1>1, <1>2, <1>3, <1>5

-----------------------------------------------------------------------------
(* Bisection *)

LEMMA ElementFacts ==
    ASSUME NEW array \in Seq(AddressRange)
    PROVE  /\ Len(array) \in Nat
           /\ \A k \in 1..Len(array) :
                 array[k] \in AddressRange
                 /\ array[k].start \in Nat /\ array[k].end \in Nat
<1>1. Len(array) \in Nat /\ \A k \in 1..Len(array) : array[k] \in AddressRange
  OBVIOUS
<1> QED
  BY <1>1 DEF AddressRange

\* There is a first range that starts after v, or none does.
LEMMA FirstAfterFacts ==
    ASSUME NEW S, NEW array \in Seq(S), NEW v \in Nat,
           \A k \in 1..Len(array) : array[k].start \in Nat
    PROVE  /\ FirstAfter(array, v) \in 1..Len(array) + 1
           /\ FirstAfter(array, v) <= Len(array) =>
                 array[FirstAfter(array, v)].start > v
           /\ \A j \in 1..FirstAfter(array, v) - 1 : array[j].start <= v
<1> DEFINE After == {k \in 1..Len(array) + 1 :
                        k <= Len(array) => array[k].start > v}
<1>1. Len(array) \in Nat
      /\ \A k \in 1..Len(array) : array[k].start \in Nat
  OBVIOUS
<1>2. After \subseteq Nat /\ After # {}
  BY <1>1
<1>3. PICK k \in After : \A j \in After : ~(<<j, k>> \in OpToRel(<, Nat))
  BY <1>2, NatLessThanWellFounded, WFMin
<1>4. \A j \in After : ~(j < k)
  BY <1>2, <1>3 DEF OpToRel
<1>5. \A j \in 1..k - 1 : array[j].start <= v
  BY <1>1, <1>4
<1>6. \E i \in 1..Len(array) + 1 :
          /\ i <= Len(array) => array[i].start > v
          /\ \A j \in 1..i - 1 : array[j].start <= v
  BY <1>5
<1> QED
  BY <1>6 DEF FirstAfter

\* Bisection finds what a search of the whole array would.
LEMMA ContainsExact ==
    ASSUME NEW array, Apart(array), NEW v \in Nat
    PROVE  contains(array, v) <=> Covers(array, 1, Len(array), v)
<1> DEFINE n == Len(array)
<1>1. array \in Seq(AddressRange)
  BY DEF Apart
<1>2. n \in Nat
  BY <1>1
<1>3. \A j \in 1..n : array[j].start \in Nat /\ array[j].end \in Nat
                      /\ array[j].start <= array[j].end
  BY <1>1, ElementFacts DEF Apart
<1>4. \A i, j \in 1..n : i < j => array[i].end < array[j].start
  BY DEF Apart
<1>5. PICK f \in 1..n + 1 :
          /\ f = FirstAfter(array, v)
          /\ f <= n => array[f].start > v
          /\ \A j \in 1..f - 1 : array[j].start <= v
  BY <1>1, <1>3, FirstAfterFacts
<1>6. contains(array, v) <=> f - 1 > 0 /\ v <= array[f - 1].end
  BY <1>5 DEF contains, Find
<1>7. ASSUME f - 1 > 0, v <= array[f - 1].end
      PROVE  Covers(array, 1, n, v)
  <2>1. f - 1 \in 1..n
    BY <1>2, <1>5, <1>7
  <2>2. In(v, array[f - 1])
    BY <1>5, <1>7, <2>1 DEF In
  <2> QED
    BY <2>1, <2>2 DEF Covers
<1>8. ASSUME NEW m \in 1..n, In(v, array[m])
      PROVE  f - 1 > 0 /\ v <= array[f - 1].end
  <2>1. array[m].start <= v /\ v <= array[m].end
    BY <1>8 DEF In
  <2>2. m < f
    <3> SUFFICES ASSUME m >= f PROVE FALSE
      BY <1>2, <1>5
    <3>1. f \in 1..n /\ array[f].start > v
      BY <1>2, <1>5
    <3>2. CASE m = f
      BY <1>3, <2>1, <3>1, <3>2
    <3>3. CASE m > f
      BY <1>3, <1>4, <2>1, <3>1, <3>3
    <3> QED
      BY <1>2, <1>5, <3>2, <3>3
  <2>3. f - 1 \in 1..n
    BY <1>2, <1>5, <2>2
  <2>4. CASE m = f - 1
    BY <2>1, <2>3, <2>4
  <2>5. CASE m < f - 1
    <3>1. array[m].end < array[f - 1].start /\ array[f - 1].start <= v
      BY <1>4, <1>5, <2>3, <2>5
    <3> QED
      BY <1>3, <2>1, <2>3, <3>1
  <2> QED
    BY <1>5, <2>2, <2>4, <2>5
<1> QED
  BY <1>6, <1>7, <1>8 DEF Covers

-----------------------------------------------------------------------------
(* The inductive invariant *)

Database == [country : Seq(Row), ipsum : Seq(ScoreLine),
             risk : [Specs -> Seq(AddressRange)]]
Listing == [country : SUBSET Row, ipsum : SUBSET ScoreLine,
            risk : [Specs -> SUBSET Addresses]]
Sources == Specs \cup {Country, IPsum}

TypeInv ==
    /\ family \in {"ipv4", "ipv6"}
    /\ pc \in {"idle", "country", "ipsum", "risk", "merge"}
    /\ db \in Database /\ building \in Database
    /\ read \in Listing /\ listed \in Listing
    /\ sources \subseteq Sources /\ failed \subseteq Sources
    /\ status \subseteq Sources
    /\ spec \in 1..NumSpecs + 1 /\ load \in Nat
    /\ out \in 0..Len(items) /\ next \in Nat
    /\ pc # "idle" => load \in Loads
    /\ pc = "merge" => spec \in Specs

\* What has been tried so far.
ProgressInv ==
    /\ sources \cap failed = {}
    /\ pc = "country" => sources = {} /\ failed = {}
    /\ pc = "ipsum" => sources \subseteq {Country} /\ failed \subseteq {Country}
    /\ \A s \in (sources \cup failed) \cap Specs : s < spec

\* The loaded lists of database are exact, the others empty.
RiskExact(database, names, lists) ==
    \A s \in Specs :
        IF s \in names
        THEN /\ Apart(database.risk[s])
             /\ \A v \in Addresses :
                   Covers(database.risk[s], 1, Len(database.risk[s]), v)
                       <=> v \in lists.risk[s]
        ELSE database.risk[s] = <<>>

\* The loop of merge4 and merge6: the merged part is apart, the items to come
\* are sorted and none of them starts before its last range.
MergeInv ==
    pc = "merge" =>
        /\ items \in Seq(AddressRange)
        /\ out < next
        /\ out = 0 => Len(items) = 0
        /\ \A k \in 1..Len(items) : items[k].start <= items[k].end
        /\ \A j, k \in 1..out : j < k => items[j].end < items[k].start
        /\ \A j, k \in next..Len(items) :
              j < k => items[j].start <= items[k].start
        /\ \A k \in next..Len(items) : items[out].start <= items[k].start
        /\ \A v \in Addresses :
              v \in read.risk[spec] <=>
                  \/ Covers(items, 1, out, v)
                  \/ Covers(items, next, Len(items), v)

IInv ==
    /\ TypeInv /\ ProgressInv /\ MergeInv
    /\ RiskExact(building, sources, read)
    /\ RiskExact(db, status, listed)

-----------------------------------------------------------------------------
(* The merge loop *)

\* One iteration.
LEMMA MergeStepExact ==
    ASSUME TypeInv, MergeInv, pc = "merge", MergeStep
    PROVE  MergeInv'
<1> DEFINE n == Len(items)
<1>1. /\ items \in Seq(AddressRange) /\ n \in Nat
      /\ next \in Nat /\ out \in 0..n /\ next <= n /\ out < next
  BY DEF TypeInv, MergeInv, MergeStep
<1>2. out \in 1..n /\ next \in 1..n
  BY <1>1 DEF MergeInv
<1>3. \A k \in 1..n : /\ items[k] \in AddressRange
                      /\ items[k].start \in Nat /\ items[k].end \in Nat
                      /\ items[k].start <= items[k].end
  BY <1>1, ElementFacts DEF MergeInv
<1>4. /\ \A j, k \in 1..out : j < k => items[j].end < items[k].start
      /\ \A j, k \in next..n : j < k => items[j].start <= items[k].start
      /\ \A k \in next..n : items[out].start <= items[k].start
      /\ \A v \in Addresses :
            v \in read.risk[spec] <=>
                Covers(items, 1, out, v) \/ Covers(items, next, n, v)
  BY DEF MergeInv
<1>5. next' = next + 1 /\ pc' = "merge" /\ read' = read /\ spec' = spec
  BY DEF MergeStep
<1>6. \A v \in Addresses : v \in Nat
  <2>1. MaxAddr \in Nat
    BY LookupAssumption
  <2> QED
    BY <2>1 DEF Addresses
<1>7. CASE Joins(items[out], items[next])
  <2> DEFINE last == Extended(items[out], items[next])
  <2>1. items' = [items EXCEPT ![out] = last] /\ out' = out
    BY <1>7 DEF MergeStep
  <2>2. /\ last.start = items[out].start /\ last.end \in Nat
        /\ last.end = Larger(items[out].end, items[next].end)
        /\ last \in AddressRange
    BY <1>2, <1>3 DEF Extended, Larger, AddressRange
  <2>3. /\ last.end >= items[out].end /\ last.end >= items[next].end
        /\ last.end \in {items[out].end, items[next].end}
    BY <1>2, <1>3, <2>2 DEF Larger
  <2> HIDE DEF last
  <2>4. /\ items' \in Seq(AddressRange) /\ Len(items') = n
        /\ items'[out] = last
        /\ \A k \in 1..n : k # out => items'[k] = items[k]
    BY <1>1, <1>2, <2>1, <2>2
  <2>5. \A v \in Nat :
            In(v, last) <=> In(v, items[out]) \/ In(v, items[next])
    <3>1. items[next].start <= items[out].end + 1
      BY <1>2, <1>3, <1>7 DEF Joins
    <3>2. items[out].start <= items[next].start
      BY <1>1, <1>2, <1>4
    <3> QED
      BY <1>2, <1>3, <2>2, <2>3, <3>1, <3>2 DEF In
  <2>6. ASSUME NEW v \in Addresses
        PROVE  v \in read.risk[spec] <=>
                   Covers(items', 1, out, v) \/ Covers(items', next + 1, n, v)
    <3>1. v \in Nat
      BY <1>6
    <3>2. Covers(items', 1, out, v) <=>
              Covers(items, 1, out, v) \/ In(v, items[next])
      BY <1>1, <1>2, <2>4, <2>5, <3>1 DEF Covers
    <3>3. Covers(items, next, n, v) <=>
              In(v, items[next]) \/ Covers(items', next + 1, n, v)
      BY <1>1, <1>2, <2>4 DEF Covers
    <3> QED
      BY <1>4, <3>2, <3>3
  <2>7. \A j, k \in 1..out : j < k => items'[j].end < items'[k].start
    BY <1>1, <1>2, <1>4, <2>2, <2>4
  <2>8. /\ \A j, k \in next + 1..n : j < k => items'[j].start <= items'[k].start
        /\ \A k \in next + 1..n : items'[out].start <= items'[k].start
    <3>1. \A k \in next + 1..n : k \in next..n /\ items'[k] = items[k]
      BY <1>1, <1>2, <2>4
    <3>2. \A j, k \in next + 1..n :
              j < k => items'[j].start <= items'[k].start
      BY <1>4, <3>1
    <3> QED
      BY <1>4, <2>2, <2>4, <3>1, <3>2
  <2>9. \A k \in 1..n : items'[k].start <= items'[k].end
    BY <1>2, <1>3, <2>2, <2>3, <2>4
  <2>10. /\ out' < next' /\ out' # 0
         /\ next' = next + 1 /\ out' = out /\ Len(items') = n
    BY <1>1, <1>2, <1>5, <2>1, <2>4
  <2>11. \A v \in Addresses :
            v \in read'.risk[spec'] <=>
                \/ Covers(items', 1, out', v)
                \/ Covers(items', next', Len(items'), v)
    BY <1>5, <2>6, <2>10
  <2> QED
    BY <2>4, <2>7, <2>8, <2>9, <2>10, <2>11 DEF MergeInv
<1>8. CASE ~Joins(items[out], items[next])
  <2>1. items' = [items EXCEPT ![out + 1] = items[next]] /\ out' = out + 1
    BY <1>8 DEF MergeStep
  <2>2. out + 1 \in 1..n
    BY <1>1, <1>2
  <2>3. /\ items' \in Seq(AddressRange) /\ Len(items') = n
        /\ items'[out + 1] = items[next]
        /\ \A k \in 1..n : k # out + 1 => items'[k] = items[k]
    BY <1>1, <1>2, <1>3, <2>1, <2>2
  <2>4. items[out].end < items[next].start
    BY <1>2, <1>3, <1>8 DEF Joins
  <2>5. ASSUME NEW v \in Addresses
        PROVE  v \in read.risk[spec] <=>
                   \/ Covers(items', 1, out + 1, v)
                   \/ Covers(items', next + 1, n, v)
    <3>1. Covers(items', 1, out + 1, v) <=>
              Covers(items, 1, out, v) \/ In(v, items[next])
      <4>1. \A k \in 1..out : k \in 1..n /\ items'[k] = items[k]
        BY <1>1, <1>2, <2>3
      <4>2. Covers(items', 1, out + 1, v) <=>
                (\E k \in 1..out : In(v, items'[k])) \/ In(v, items'[out + 1])
        BY <1>1, <1>2 DEF Covers
      <4> QED
        BY <2>3, <4>1, <4>2 DEF Covers
    <3>2. Covers(items, next, n, v) <=>
              In(v, items[next]) \/ Covers(items', next + 1, n, v)
      BY <1>1, <1>2, <2>3 DEF Covers
    <3> QED
      BY <1>4, <3>1, <3>2
  <2>6. ASSUME NEW j \in 1..out + 1, NEW k \in 1..out + 1, j < k
        PROVE  items'[j].end < items'[k].start
    <3>1. j \in 1..out /\ items'[j] = items[j]
      BY <1>1, <1>2, <2>2, <2>3, <2>6
    <3>2. CASE k # out + 1
      BY <1>1, <1>4, <2>2, <2>3, <2>6, <3>1, <3>2
    <3>3. CASE k = out + 1
      <4>1. items[j].end <= items[out].end
        <5>1. CASE j = out
          BY <1>2, <1>3, <5>1
        <5>2. CASE j < out
          <6>1. out \in 1..out /\ j \in 1..n
            BY <1>1, <1>2, <3>1
          <6>2. items[j].end < items[out].start
            BY <1>4, <3>1, <5>2, <6>1
          <6> QED
            BY <1>2, <1>3, <6>1, <6>2
        <5> QED
          BY <1>1, <3>1, <5>1, <5>2
      <4> QED
        BY <1>2, <1>3, <2>3, <2>4, <3>1, <3>3, <4>1
    <3> QED
      BY <3>2, <3>3
  <2>7. /\ \A j, k \in next + 1..n : j < k => items'[j].start <= items'[k].start
        /\ \A k \in next + 1..n : items'[out + 1].start <= items'[k].start
    <3>1. \A k \in next + 1..n : k \in next..n /\ items'[k] = items[k]
      BY <1>1, <1>2, <2>3
    <3>2. \A j, k \in next + 1..n :
              j < k => items'[j].start <= items'[k].start
      BY <1>4, <3>1
    <3>3. next \in next..n /\ \A k \in next + 1..n : next < k
      BY <1>1, <1>2
    <3>4. \A k \in next + 1..n : items[next].start <= items[k].start
      BY <1>4, <3>1, <3>3
    <3> QED
      BY <2>3, <3>1, <3>2, <3>4
  <2>8. \A k \in 1..n : items'[k].start <= items'[k].end
    BY <1>2, <1>3, <2>3
  <2>10. /\ out' < next' /\ out' # 0
         /\ next' = next + 1 /\ out' = out + 1 /\ Len(items') = n
    BY <1>1, <1>2, <1>5, <2>1, <2>3
  <2>11. \A v \in Addresses :
            v \in read'.risk[spec'] <=>
                \/ Covers(items', 1, out', v)
                \/ Covers(items', next', Len(items'), v)
    BY <1>5, <2>5, <2>10
  <2> QED
    BY <2>3, <2>6, <2>7, <2>8, <2>10, <2>11 DEF MergeInv
<1> QED
  BY <1>7, <1>8

-----------------------------------------------------------------------------
(* A risk list is read, merged and appended *)

\* The scan establishes the invariant of the loop.
LEMMA ScanExact ==
    ASSUME TypeInv, ScanRiskFile
    PROVE  MergeInv' /\ TypeInv'
<1>1. load \in Loads /\ spec \in Specs
  BY DEF ScanRiskFile, TypeInv
<1>2. PICK file \in RiskFiles[load][spec] :
          /\ items' \in Sorted(Ranges(file))
          /\ out' = IF file = <<>> THEN 0 ELSE 1
          /\ read' = [read EXCEPT !.risk[spec] = Listed(Ranges(file))]
  BY DEF ScanRiskFile
<1>3. file \in Seq(Prefix)
  <2>1. RiskFiles[load] \in [Specs -> SUBSET Seq(Prefix)]
    BY <1>1, LookupAssumption
  <2> QED
    BY <1>1, <2>1
<1> DEFINE R == Ranges(file)
           n == Len(items')
<1>4. /\ R \in Seq(AddressRange) /\ Len(R) = Len(file)
      /\ \A k \in 1..Len(file) : R[k].start <= R[k].end
  BY <1>3, RangesOfFile
<1> HIDE DEF R
<1>5. items' \in Permuted(R)
      /\ \A j, k \in DOMAIN R : j < k => Before(items'[j], items'[k])
  BY <1>2 DEF Sorted, R
<1>6. /\ items' \in Seq(AddressRange) /\ n = Len(R)
      /\ DOMAIN R = 1..n
      /\ \A k \in 1..n : \E j \in 1..n : items'[k] = R[j]
      /\ \A j \in 1..n : \E k \in 1..n : items'[k] = R[j]
  BY <1>4, <1>5, PermutedFacts
<1>7. \A k \in 1..n : /\ items'[k].start \in Nat /\ items'[k].end \in Nat
                      /\ items'[k].start <= items'[k].end
  <2> TAKE k \in 1..n
  <2>1. PICK j \in 1..n : items'[k] = R[j]
    BY <1>6
  <2>2. R[j].start \in Nat /\ R[j].end \in Nat
    BY <1>4, <1>6, <2>1, ElementFacts
  <2>3. R[j].start <= R[j].end
    BY <1>4, <1>6, <2>1
  <2> QED
    BY <2>1, <2>2, <2>3
<1>8. ASSUME NEW j \in 1..n, NEW k \in 1..n, j < k
      PROVE  items'[j].start <= items'[k].start
  <2>1. Before(items'[j], items'[k])
    BY <1>5, <1>6, <1>8
  <2> QED
    BY <1>7, <2>1 DEF Before
<1>9. n \in Nat /\ next' = 2 /\ pc' = "merge" /\ spec' = spec
  BY <1>6 DEF ScanRiskFile
<1>10. out' = (IF n = 0 THEN 0 ELSE 1)
  <2>1. file = <<>> <=> Len(file) = 0
    BY <1>3
  <2> QED
    BY <1>2, <1>4, <1>6, <2>1
<1>11. /\ read' \in Listing
       /\ read'.risk[spec] = {v \in Addresses : Covers(R, 1, n, v)}
  <2>1. Listed(R) \subseteq Addresses
    BY DEF Listed
  <2>2. read \in Listing /\ read' = [read EXCEPT !.risk[spec] = Listed(R)]
    BY <1>2 DEF TypeInv, R
  <2> QED
    BY <1>1, <1>6, <2>1, <2>2 DEF Listing, Listed
<1>12. ASSUME NEW v \in Addresses
       PROVE  v \in read'.risk[spec'] <=>
                  Covers(items', 1, out', v) \/ Covers(items', next', n, v)
  <2>1. v \in read'.risk[spec'] <=> Covers(R, 1, n, v)
    BY <1>9, <1>11
  <2>2. Covers(R, 1, n, v) <=> Covers(items', 1, n, v)
    BY <1>6 DEF Covers
  <2>3. CASE n = 0
    BY <1>9, <1>10, <2>1, <2>2, <2>3 DEF Covers
  <2>4. CASE n # 0
    <3>1. Covers(items', 1, n, v) <=>
              Covers(items', 1, 1, v) \/ Covers(items', 2, n, v)
      <4>1. \A k : k \in 1..n <=> k \in 1..1 \/ k \in 2..n
        BY <1>9, <2>4
      <4> QED
        BY <4>1 DEF Covers
    <3> QED
      BY <1>9, <1>10, <2>1, <2>2, <2>4, <3>1
  <2> QED
    BY <2>3, <2>4
<1>13. /\ out' < next' /\ out' \in 0..n
       /\ out' = 0 => n = 0
  BY <1>9, <1>10
<1>14. MergeInv'
  <2>1. \A j, k \in 1..out' : j < k => items'[j].end < items'[k].start
    BY <1>10
  <2>2. \A j, k \in next'..n : j < k => items'[j].start <= items'[k].start
    BY <1>8, <1>9
  <2>3. \A k \in next'..n : items'[out'].start <= items'[k].start
    BY <1>8, <1>9, <1>10
  <2> QED
    BY <1>6, <1>7, <1>12, <1>13, <2>1, <2>2, <2>3 DEF MergeInv
<1>15. TypeInv'
  BY <1>1, <1>9, <1>11, <1>13 DEF TypeInv, ScanRiskFile
<1> QED
  BY <1>14, <1>15

\* What the loop leaves is exact.
LEMMA MergedExact ==
    ASSUME TypeInv, MergeInv, pc = "merge", next > Len(items)
    PROVE  LET merged == SubSeq(items, 1, out)
           IN  /\ Apart(merged)
               /\ \A v \in Addresses :
                     Covers(merged, 1, Len(merged), v) <=> v \in read.risk[spec]
<1> DEFINE merged == SubSeq(items, 1, out)
<1>1. /\ items \in Seq(AddressRange) /\ Len(items) \in Nat
      /\ out \in 0..Len(items) /\ next \in Nat
  BY DEF TypeInv, MergeInv
<1>2. /\ merged \in Seq(AddressRange) /\ Len(merged) = out
      /\ \A k \in 1..out : merged[k] = items[k]
  BY <1>1
<1> HIDE DEF merged
<1>3. Apart(merged)
  BY <1>1, <1>2 DEF Apart, MergeInv
<1>4. ASSUME NEW v \in Addresses
      PROVE  Covers(merged, 1, out, v) <=> v \in read.risk[spec]
  <2>1. ~Covers(items, next, Len(items), v)
    BY <1>1 DEF Covers
  <2>2. Covers(merged, 1, out, v) <=> Covers(items, 1, out, v)
    BY <1>2 DEF Covers
  <2> QED
    BY <2>1, <2>2 DEF MergeInv
<1> QED
  BY <1>2, <1>3, <1>4 DEF merged

-----------------------------------------------------------------------------
(* The invariant is inductive *)

LEMMA EmptyFacts ==
    /\ EmptyDatabase \in Database /\ NothingListed \in Listing
    /\ \A s \in Specs : EmptyDatabase.risk[s] = <<>>
BY DEF EmptyDatabase, NothingListed, Database, Listing

LEMMA IInvInit == Init => IInv
<1> SUFFICES ASSUME Init PROVE IInv
  OBVIOUS
<1>1. NumSpecs \in Nat
  BY LookupAssumption
<1>2. items = <<>> /\ Len(items) = 0
  BY DEF Init
<1>3. TypeInv
  BY <1>1, <1>2, EmptyFacts DEF Init, TypeInv
<1>4. ProgressInv /\ MergeInv
  BY DEF Init, ProgressInv, MergeInv
<1>5. RiskExact(building, sources, read) /\ RiskExact(db, status, listed)
  BY EmptyFacts DEF Init, RiskExact
<1> QED
  BY <1>3, <1>4, <1>5 DEF IInv

\* Only the risk lists of a Database and their names count.
LEMMA RiskSame ==
    ASSUME NEW d, NEW n, NEW l, NEW d2, NEW n2, NEW l2,
           RiskExact(d, n, l), d2.risk = d.risk, l2.risk = l.risk,
           n2 \cap Specs = n \cap Specs
    PROVE  RiskExact(d2, n2, l2)
<1>1. \A s \in Specs : s \in n2 <=> s \in n
  OBVIOUS
<1> QED
  BY <1>1 DEF RiskExact

LEMMA LoadBeginStep ==
    ASSUME IInv, LoadBegin
    PROVE  IInv'
<1>1. NumSpecs \in Nat
  BY LookupAssumption
<1>2. TypeInv'
  BY <1>1, EmptyFacts DEF IInv, TypeInv, LoadBegin, loop
<1>3. ProgressInv' /\ MergeInv'
  BY DEF LoadBegin, ProgressInv, MergeInv
<1>4. RiskExact(building', sources', read')
  BY EmptyFacts DEF LoadBegin, RiskExact
<1>5. RiskExact(db', status', listed')
  BY DEF IInv, LoadBegin
<1> QED
  BY <1>2, <1>3, <1>4, <1>5 DEF IInv, RiskExact

LEMMA OtherNames == Country \in Sources \ Specs /\ IPsum \in Sources \ Specs
BY LookupAssumption DEF Sources

LEMMA LoadCountryStep ==
    ASSUME IInv, LoadCountry
    PROVE  IInv'
<1>1. /\ building' \in Database /\ building'.risk = building.risk
      /\ read' \in Listing /\ read'.risk = read.risk
  <2>1. CountryFiles \subseteq Seq(Row)
    BY LookupAssumption
  <2>2. building \in Database /\ read \in Listing
    BY DEF IInv, TypeInv
  <2>3. CASE Missing
    BY <2>2, <2>3 DEF Missing
  <2>4. CASE \E file \in CountryFiles :
                /\ Loaded(Country)
                /\ building' = [building EXCEPT !.country = file]
                /\ read' = [read EXCEPT !.country = Range(file)]
    <3>1. PICK file \in CountryFiles :
                /\ building' = [building EXCEPT !.country = file]
                /\ read' = [read EXCEPT !.country = Range(file)]
      BY <2>4
    <3>2. file \in Seq(Row) /\ Range(file) \subseteq Row
      BY <2>1, <3>1 DEF Range
    <3> QED
      BY <2>2, <3>1, <3>2 DEF Database, Listing
  <2>5. CASE \E file \in CountryFiles \cup {<<>>} :
                /\ Failing(Country)
                /\ building' = [building EXCEPT !.country = file]
                /\ UNCHANGED read
    <3>1. PICK file \in CountryFiles \cup {<<>>} :
                /\ building' = [building EXCEPT !.country = file]
                /\ UNCHANGED read
      BY <2>5
    <3>2. file \in Seq(Row)
      <4>1. <<>> \in Seq(Row)
        OBVIOUS
      <4> QED
        BY <2>1, <3>1, <4>1
    <3> QED
      BY <2>2, <3>1, <3>2 DEF Database
  <2> QED
    BY <2>3, <2>4, <2>5 DEF LoadCountry
<1>2. /\ pc = "country" /\ pc' = "ipsum"
      /\ UNCHANGED <<family, spec, items, out, next, db, status, listed, load>>
  BY DEF LoadCountry, loop
<1>3. sources = {} /\ failed = {}
  BY <1>2 DEF IInv, ProgressInv
<1>4. \/ sources' = {} /\ failed' = {}
      \/ sources' = {Country} /\ failed' = {}
      \/ sources' = {} /\ failed' = {Country}
  BY <1>3 DEF LoadCountry, Missing, Loaded, Failing
<1>5. TypeInv'
  BY <1>1, <1>2, <1>4, OtherNames DEF IInv, TypeInv
<1>6. ProgressInv' /\ MergeInv'
  BY <1>2, <1>4, OtherNames DEF ProgressInv, MergeInv
<1>7. sources' \cap Specs = sources \cap Specs
  BY <1>3, <1>4, OtherNames
<1>8. RiskExact(building', sources', read')
  BY <1>1, <1>7, RiskSame DEF IInv
<1>9. RiskExact(db', status', listed')
  BY <1>2 DEF IInv
<1> QED
  BY <1>5, <1>6, <1>8, <1>9 DEF IInv, RiskExact

LEMMA LoadIPsumStep ==
    ASSUME IInv, LoadIPsum
    PROVE  IInv'
<1>1. /\ building' \in Database /\ building'.risk = building.risk
      /\ read' \in Listing /\ read'.risk = read.risk
  <2>1. IPsumFiles \subseteq Seq(ScoreLine)
    BY LookupAssumption
  <2>2. building \in Database /\ read \in Listing
    BY DEF IInv, TypeInv
  <2>3. CASE Missing
    BY <2>2, <2>3 DEF Missing
  <2>4. CASE \E file \in IPsumFiles :
                /\ Loaded(IPsum)
                /\ building' = [building EXCEPT !.ipsum = file]
                /\ read' = [read EXCEPT !.ipsum = Range(file)]
    <3>1. PICK file \in IPsumFiles :
                /\ building' = [building EXCEPT !.ipsum = file]
                /\ read' = [read EXCEPT !.ipsum = Range(file)]
      BY <2>4
    <3>2. file \in Seq(ScoreLine) /\ Range(file) \subseteq ScoreLine
      BY <2>1, <3>1 DEF Range
    <3> QED
      BY <2>2, <3>1, <3>2 DEF Database, Listing
  <2>5. CASE \E file \in IPsumFiles \cup {<<>>} :
                /\ Failing(IPsum)
                /\ building' = [building EXCEPT !.ipsum = file]
                /\ UNCHANGED read
    <3>1. PICK file \in IPsumFiles \cup {<<>>} :
                /\ building' = [building EXCEPT !.ipsum = file]
                /\ UNCHANGED read
      BY <2>5
    <3>2. file \in Seq(ScoreLine)
      <4>1. <<>> \in Seq(ScoreLine)
        OBVIOUS
      <4> QED
        BY <2>1, <3>1, <4>1
    <3> QED
      BY <2>2, <3>1, <3>2 DEF Database
  <2> QED
    BY <2>3, <2>4, <2>5 DEF LoadIPsum
<1>2. /\ pc = "ipsum" /\ pc' = "risk"
      /\ UNCHANGED <<family, spec, items, out, next, db, status, listed, load>>
  BY DEF LoadIPsum, loop
<1>3. sources \subseteq {Country} /\ failed \subseteq {Country}
      /\ sources \cap failed = {}
  BY <1>2 DEF IInv, ProgressInv
<1>4. \/ sources' = sources /\ failed' = failed
      \/ sources' = sources \cup {IPsum} /\ failed' = failed
      \/ sources' = sources /\ failed' = failed \cup {IPsum}
  BY DEF LoadIPsum, Missing, Loaded, Failing
<1>5. TypeInv'
  BY <1>1, <1>2, <1>4, OtherNames DEF IInv, TypeInv
<1>6. ProgressInv' /\ MergeInv'
  <2>1. Country # IPsum
    BY LookupAssumption
  <2>2. sources' \cap failed' = {}
    BY <1>3, <1>4, <2>1
  <2>3. (sources' \cup failed') \cap Specs = {}
    BY <1>3, <1>4, OtherNames
  <2> QED
    BY <1>2, <2>2, <2>3 DEF ProgressInv, MergeInv
<1>7. sources' \cap Specs = sources \cap Specs
  BY <1>4, OtherNames
<1>8. RiskExact(building', sources', read')
  BY <1>1, <1>7, RiskSame DEF IInv
<1>9. RiskExact(db', status', listed')
  BY <1>2 DEF IInv
<1> QED
  BY <1>5, <1>6, <1>8, <1>9 DEF IInv, RiskExact

\* A list that was not tried yet.
LEMMA SpecNew ==
    ASSUME IInv, spec \in Specs
    PROVE  /\ spec \notin sources /\ spec \notin failed
           /\ spec \in Nat /\ spec + 1 \in 1..NumSpecs + 1
           /\ \A s \in (sources \cup failed) \cap Specs : s \in Nat /\ s < spec
<1>1. NumSpecs \in Nat
  BY LookupAssumption
<1>2. \A s \in (sources \cup failed) \cap Specs : s < spec
  BY DEF IInv, ProgressInv
<1> QED
  BY <1>1, <1>2 DEF Specs

LEMMA SkipRiskFileStep ==
    ASSUME IInv, SkipRiskFile
    PROVE  IInv'
<1>1. /\ pc = "risk" /\ pc' = "risk" /\ spec \in Specs /\ spec' = spec + 1
      /\ UNCHANGED <<family, items, out, next, db, status, listed, load,
                     building, read, sources>>
      /\ failed' = failed \/ failed' = failed \cup {spec}
  BY DEF SkipRiskFile, loop, Missing, Failing
<1>2. TypeInv'
  BY <1>1, SpecNew DEF IInv, TypeInv, Sources
<1>3. ProgressInv' /\ MergeInv'
  <2>1. \A s \in (sources' \cup failed') \cap Specs : s < spec'
    BY <1>1, SpecNew
  <2>2. sources' \cap failed' = {}
    BY <1>1, SpecNew DEF IInv, ProgressInv
  <2> QED
    BY <1>1, <2>1, <2>2 DEF ProgressInv, MergeInv
<1>4. RiskExact(building', sources', read') /\ RiskExact(db', status', listed')
  BY <1>1 DEF IInv
<1> QED
  BY <1>2, <1>3, <1>4 DEF IInv, RiskExact

LEMMA ScanRiskFileStep ==
    ASSUME IInv, ScanRiskFile
    PROVE  IInv'
<1>1. TypeInv' /\ MergeInv'
  BY ScanExact DEF IInv
<1>2. /\ pc' = "merge" /\ spec \in Specs
      /\ UNCHANGED <<building, sources, failed, spec, db, status, listed>>
      /\ \E x : read' = [read EXCEPT !.risk[spec] = x]
  BY DEF ScanRiskFile
<1>3. ProgressInv'
  BY <1>2 DEF IInv, ProgressInv
<1>4. \A s \in Specs \ {spec} : read'.risk[s] = read.risk[s]
  BY <1>2 DEF IInv, TypeInv, Listing
<1>5. RiskExact(building', sources', read')
  BY <1>2, <1>4, SpecNew DEF IInv, RiskExact
<1>6. RiskExact(db', status', listed')
  BY <1>2 DEF IInv
<1> QED
  BY <1>1, <1>3, <1>5, <1>6 DEF IInv, RiskExact

LEMMA MergeStepStep ==
    ASSUME IInv, MergeStep
    PROVE  IInv'
<1>1. /\ pc = "merge" /\ pc' = "merge" /\ next \in 1..Len(items)
      /\ next' = next + 1
      /\ UNCHANGED <<family, building, sources, failed, spec, db, status, read,
                     listed, load>>
  BY DEF MergeStep, IInv, TypeInv, MergeInv
<1>2. MergeInv'
  BY <1>1, MergeStepExact DEF IInv
<1>3. Len(items') = Len(items) /\ out' \in {out, out + 1} /\ out < next
  BY <1>1 DEF MergeStep, IInv, MergeInv
<1>4. TypeInv'
  BY <1>1, <1>3 DEF IInv, TypeInv
<1>5. ProgressInv' /\ RiskExact(building', sources', read')
      /\ RiskExact(db', status', listed')
  BY <1>1 DEF IInv, ProgressInv
<1> QED
  BY <1>2, <1>4, <1>5 DEF IInv, RiskExact

LEMMA AppendRiskSourceStep ==
    ASSUME IInv, AppendRiskSource
    PROVE  IInv'
<1> DEFINE merged == SubSeq(items, 1, out)
<1>1. /\ pc = "merge" /\ pc' = "risk" /\ next > Len(items) /\ spec \in Specs
      /\ spec' = spec + 1
      /\ building' = [building EXCEPT !.risk[spec] = merged]
      /\ sources' = sources \cup {spec} /\ failed' = failed
      /\ items' = <<>> /\ out' = 0 /\ next' = 1
      /\ UNCHANGED <<family, db, status, read, listed, load>>
  BY DEF AppendRiskSource, Loaded, IInv, TypeInv
<1>2. /\ Apart(merged)
      /\ \A v \in Addresses :
            Covers(merged, 1, Len(merged), v) <=> v \in read.risk[spec]
  BY <1>1, MergedExact DEF IInv
<1> HIDE DEF merged
<1>3. /\ building' \in Database
      /\ building'.risk[spec] = merged
      /\ \A s \in Specs \ {spec} : building'.risk[s] = building.risk[s]
  BY <1>1, <1>2 DEF IInv, TypeInv, Database, Apart
<1>4. TypeInv'
  <2>1. Len(items') = 0
    BY <1>1
  <2> QED
    BY <1>1, <1>3, <2>1, SpecNew DEF IInv, TypeInv, Sources
<1>5. ProgressInv' /\ MergeInv'
  <2>1. \A s \in (sources' \cup failed') \cap Specs : s < spec'
    BY <1>1, SpecNew
  <2>2. sources' \cap failed' = {}
    BY <1>1, SpecNew DEF IInv, ProgressInv
  <2> QED
    BY <1>1, <2>1, <2>2 DEF ProgressInv, MergeInv
<1>6. RiskExact(building', sources', read')
  BY <1>1, <1>2, <1>3 DEF IInv, RiskExact
<1>7. RiskExact(db', status', listed')
  BY <1>1 DEF IInv
<1> QED
  BY <1>4, <1>5, <1>6, <1>7 DEF IInv, RiskExact

LEMMA ReloadStep ==
    ASSUME IInv, Reload
    PROVE  IInv'
<1>1. /\ pc' = "idle" /\ load' = load + 1
      /\ building' = EmptyDatabase /\ sources' = {} /\ failed' = {}
      /\ spec' = 1 /\ read' = NothingListed
      /\ UNCHANGED <<family, items, out, next>>
  BY DEF Reload, loop
<1>2. /\ db' \in Database /\ listed' \in Listing /\ status' \subseteq Sources
      /\ RiskExact(db', status', listed')
  <2>1. CASE sources = {} /\ failed # {}
    BY <2>1 DEF Reload, IInv, TypeInv
  <2>2. CASE ~(sources = {} /\ failed # {})
    <3>1. PICK country \in SortedStarts(building.country),
               ipsum \in SortedIPs(building.ipsum) :
            db' = [building EXCEPT !.country = country, !.ipsum = ipsum]
      BY <2>2 DEF Reload
    <3>2. building \in Database
      BY DEF IInv, TypeInv
    <3>3. country \in Permuted(building.country)
          /\ ipsum \in Permuted(building.ipsum)
      BY <3>1 DEF SortedStarts, SortedIPs
    <3>4. country \in Seq(Row) /\ ipsum \in Seq(ScoreLine)
      BY <3>2, <3>3, PermutedFacts DEF Database
    <3>5. db' \in Database /\ db'.risk = building.risk
      BY <3>1, <3>2, <3>4 DEF Database
    <3>6. status' = sources /\ listed' = read
      BY <2>2 DEF Reload
    <3>7. RiskExact(db', status', listed')
      BY <3>5, <3>6, RiskSame DEF IInv
    <3> QED
      BY <3>5, <3>6, <3>7 DEF IInv, TypeInv
  <2> QED
    BY <2>1, <2>2
<1>3. TypeInv'
  <2>1. NumSpecs \in Nat
    BY LookupAssumption
  <2> QED
    BY <1>1, <1>2, <2>1, EmptyFacts DEF IInv, TypeInv
<1>4. ProgressInv' /\ MergeInv'
  BY <1>1 DEF ProgressInv, MergeInv
<1>5. RiskExact(building', sources', read')
  BY <1>1, EmptyFacts DEF RiskExact
<1> QED
  BY <1>2, <1>3, <1>4, <1>5 DEF IInv, RiskExact

LEMMA IInvNext == IInv /\ [Next]_vars => IInv'
<1> SUFFICES ASSUME IInv, [Next]_vars PROVE IInv'
  OBVIOUS
<1>1. CASE Next
  BY <1>1, LoadBeginStep, LoadCountryStep, LoadIPsumStep, SkipRiskFileStep,
     ScanRiskFileStep, MergeStepStep, AppendRiskSourceStep, ReloadStep DEF Next
<1>2. CASE UNCHANGED vars
  BY <1>2 DEF vars, loop, IInv, TypeInv, ProgressInv, MergeInv, RiskExact
<1> QED
  BY <1>1, <1>2

LEMMA Invariance == Spec => []IInv
BY IInvInit, IInvNext, PTL DEF Spec

-----------------------------------------------------------------------------
(* Theorems *)

\* The types; a source that was loaded is not among those that failed.
THEOREM TypeCorrect == Spec => []TypeOK
<1>1. IInv => TypeOK
  <2> SUFFICES ASSUME IInv PROVE TypeOK
    OBVIOUS
  <2>1. db \in Database /\ building \in Database
    BY DEF IInv, TypeInv
  <2>2. \A database \in {db, building} :
          /\ database.country \in Seq(Row)
          /\ database.ipsum \in Seq(ScoreLine)
          /\ \A s \in Specs :
                database.risk[s] \in Seq([start : Nat, end : Nat])
    BY <2>1 DEF Database, AddressRange
  <2> QED
    BY <2>2 DEF IInv, TypeInv, ProgressInv, TypeOK, Sources
<1> QED
  BY <1>1, Invariance, PTL

\* Merging in place: at every iteration the merged part and the items to come
\* together cover what the file lists, and the merged part is in order and
\* without overlaps, for every list and both families (merge4, merge6).
THEOREM MergeIsExact == Spec => []MergeExact
<1>1. IInv => MergeExact
  <2> SUFFICES ASSUME IInv, pc = "merge" PROVE MergeExact
    BY DEF MergeExact
  <2>1. out \in Nat
    BY DEF IInv, TypeInv
  <2>2. \A k \in 1..out - 1 : items[k].end < items[k + 1].start
    <3>1. \A j, k \in 1..out : j < k => items[j].end < items[k].start
      BY DEF IInv, MergeInv
    <3>2. \A k \in 1..out - 1 : k \in 1..out /\ k + 1 \in 1..out /\ k < k + 1
      BY <2>1
    <3> QED
      BY <3>1, <3>2
  <2> QED
    BY <2>2 DEF IInv, MergeInv, MergeExact
<1> QED
  BY <1>1, Invariance, PTL

\* An address is evidence of a risk list exactly if the file behind it lists the
\* address: sorting, merging, the swap of databases and bisection together lose
\* no address and add none (loadRiskFile, contains4, contains6, Reload).
THEOREM ListsAreExact == Spec => []ListsExact
<1>1. IInv => ListsExact
  <2> SUFFICES ASSUME IInv, NEW v \in Addresses
               PROVE  RiskLists(v) = {s \in status \cap Specs :
                                        v \in listed.risk[s]}
    BY DEF ListsExact
  <2>1. v \in Nat
    <3>1. MaxAddr \in Nat
      BY LookupAssumption
    <3> QED
      BY <3>1 DEF Addresses
  <2>2. ASSUME NEW s \in Specs
        PROVE  contains(db.risk[s], v) <=> s \in status /\ v \in listed.risk[s]
    <3>1. CASE s \in status
      <4>1. Apart(db.risk[s])
            /\ (Covers(db.risk[s], 1, Len(db.risk[s]), v) <=> v \in listed.risk[s])
        BY <3>1 DEF IInv, RiskExact
      <4> QED
        BY <2>1, <3>1, <4>1, ContainsExact
    <3>2. CASE s \notin status
      <4>1. db.risk[s] = <<>>
        BY <3>2 DEF IInv, RiskExact
      <4>2. Apart(<<>>)
        BY DEF Apart
      <4>3. ~Covers(<<>>, 1, Len(<<>>), v)
        BY DEF Covers
      <4> QED
        BY <2>1, <3>2, <4>1, <4>2, <4>3, ContainsExact
    <3> QED
      BY <3>1, <3>2
  <2> QED
    BY <2>2 DEF RiskLists
<1> QED
  BY <1>1, Invariance, PTL

-----------------------------------------------------------------------------
(* The tables                                                              *)
(*                                                                         *)
(* The code does not check what the published tables promise: that the     *)
(* rows of the country table do not overlap, and that lines of ipsum.txt   *)
(* with the same address do not disagree on whether it was ever hit.       *)

Separate(array) ==
    /\ \A k \in 1..Len(array) : array[k].start <= array[k].end
    /\ \A j, k \in 1..Len(array) :
          \/ array[j] = array[k]
          \/ array[j].end < array[k].start
          \/ array[k].end < array[j].start

Agreeing(array) ==
    \A j, k \in 1..Len(array) :
        array[j].ip = array[k].ip /\ array[j].hits = 0 => array[k].hits = 0

TablesAssumption ==
    /\ \A file \in CountryFiles : Separate(file)
    /\ \A file \in IPsumFiles : Agreeing(file)

\* The array has the elements of the set.
Holds(array, set) == \A x : x \in set <=> \E k \in 1..Len(array) : array[k] = x

Ordered(array) ==
    \A j, k \in 1..Len(array) : j < k => array[j].start <= array[k].start

TableInv ==
    /\ Country \in sources =>
          Holds(building.country, read.country) /\ Separate(building.country)
    /\ IPsum \in sources =>
          Holds(building.ipsum, read.ipsum) /\ Agreeing(building.ipsum)
    /\ Country \in status =>
          /\ Holds(db.country, listed.country)
          /\ Separate(db.country) /\ Ordered(db.country)
    /\ IPsum \in status =>
          Holds(db.ipsum, listed.ipsum) /\ Agreeing(db.ipsum)

\* A table has the elements of the file it was read from.
LEMMA RangeHolds ==
    ASSUME NEW S, NEW array \in Seq(S)
    PROVE  Holds(array, Range(array))
<1>1. DOMAIN array = 1..Len(array)
  OBVIOUS
<1> QED
  BY <1>1 DEF Holds, Range

\* In an ordered table without overlaps the last row that starts at or before v
\* is the only one that can contain it.
LEMMA FindExact ==
    ASSUME NEW array \in Seq(Row), Separate(array), Ordered(array), NEW v \in Nat,
           NEW rows, Holds(array, rows)
    PROVE  Find(array, v) = {row \in rows : In(v, row)}
<1> DEFINE n == Len(array)
<1>1. n \in Nat /\ \A j \in 1..n : array[j] \in Row
  OBVIOUS
<1>2. \A j \in 1..n : array[j].start \in Nat /\ array[j].end \in Nat
                      /\ array[j].start <= array[j].end
  <2>1. MaxAddr \in Nat
    BY LookupAssumption
  <2>2. ASSUME NEW j \in 1..n PROVE array[j].start \in Nat /\ array[j].end \in Nat
    <3>1. array[j] \in Row
      BY <1>1
    <3> QED
      BY <2>1, <3>1 DEF Row, Addresses
  <2> QED
    BY <2>2 DEF Separate
<1>3. PICK f \in 1..n + 1 :
          /\ f = FirstAfter(array, v)
          /\ f <= n => array[f].start > v
          /\ \A j \in 1..f - 1 : array[j].start <= v
  BY <1>2, FirstAfterFacts
<1>4. ASSUME NEW m \in 1..n, In(v, array[m])
      PROVE  f - 1 \in 1..n /\ array[f - 1] = array[m]
  <2>1. array[m].start <= v /\ v <= array[m].end
    BY <1>4 DEF In
  <2>2. m < f
    <3> SUFFICES ASSUME m >= f PROVE FALSE
      BY <1>1
    <3>1. f \in 1..n /\ array[f].start > v
      BY <1>1, <1>3
    <3>2. array[f].start <= array[m].start
      <4>1. CASE m = f
        BY <1>2, <3>1, <4>1
      <4>2. CASE f < m
        BY <3>1, <4>2 DEF Ordered
      <4> QED
        BY <1>1, <3>1, <4>1, <4>2
    <3> QED
      BY <1>2, <2>1, <3>1, <3>2
  <2>3. f - 1 \in 1..n /\ (m < f - 1 \/ m = f - 1)
    BY <1>1, <2>2
  <2>4. array[m].start <= array[f - 1].start /\ array[f - 1].start <= v
    <3>1. CASE m = f - 1
      BY <1>2, <2>1, <2>3, <3>1
    <3>2. CASE m < f - 1
      <4>1. f - 1 \in 1..f - 1
        BY <1>1, <2>3
      <4> QED
        BY <1>3, <2>3, <3>2, <4>1 DEF Ordered
    <3> QED
      BY <2>3, <3>1, <3>2
  <2>5. ~(array[m].end < array[f - 1].start) /\ ~(array[f - 1].end < array[m].start)
    BY <1>2, <2>1, <2>3, <2>4
  <2> QED
    BY <2>3, <2>5 DEF Separate
<1>5. Find(array, v) = IF f - 1 > 0 /\ v <= array[f - 1].end
                       THEN {array[f - 1]} ELSE {}
  BY <1>3 DEF Find
<1>6. ASSUME NEW row \in Find(array, v) PROVE row \in rows /\ In(v, row)
  <2>1. f - 1 > 0 /\ v <= array[f - 1].end /\ row = array[f - 1]
    BY <1>5, <1>6
  <2>2. f - 1 \in 1..n /\ f - 1 \in 1..f - 1
    BY <1>1, <2>1
  <2> QED
    BY <1>3, <2>1, <2>2 DEF In, Holds
<1>7. ASSUME NEW row \in rows, In(v, row) PROVE row \in Find(array, v)
  <2>1. PICK m \in 1..n : array[m] = row
    BY DEF Holds
  <2>2. f - 1 \in 1..n /\ array[f - 1] = row
    BY <1>4, <1>7, <2>1
  <2> QED
    BY <1>1, <1>5, <1>7, <2>2 DEF In
<1> QED
  BY <1>6, <1>7

\* The hits of an address are those of its first line.
LEMMA FirstLine ==
    ASSUME NEW array \in Seq(ScoreLine), NEW v
    PROVE  \/ /\ findIPsum(array, v) = 0
              /\ \A k \in 1..Len(array) : array[k].ip # v
           \/ \E k \in 1..Len(array) :
                 array[k].ip = v /\ findIPsum(array, v) = array[k].hits
<1> DEFINE at == {k \in 1..Len(array) : array[k].ip = v}
<1>1. CASE at = {}
  BY <1>1 DEF findIPsum
<1>2. CASE at # {}
  <2>1. at \subseteq Nat /\ Len(array) \in Nat
    OBVIOUS
  <2>2. PICK k \in at : \A j \in at : ~(<<j, k>> \in OpToRel(<, Nat))
    BY <1>2, <2>1, NatLessThanWellFounded, WFMin
  <2>3. \A j \in at : k <= j
    <3>1. \A j \in at : ~(j < k)
      BY <2>1, <2>2 DEF OpToRel
    <3> QED
      BY <2>1, <3>1
  <2>4. (CHOOSE i \in at : \A j \in at : i <= j) \in at
    BY <2>3
  <2> QED
    BY <1>2, <2>4 DEF findIPsum
<1> QED
  BY <1>1, <1>2

\* Sorting a table keeps what it says.
LEMMA SortKeeps ==
    ASSUME NEW S, NEW array \in Seq(S), NEW a \in Permuted(array), NEW set,
           Holds(array, set)
    PROVE  /\ a \in Seq(S) /\ Holds(a, set)
           /\ Separate(array) => Separate(a)
           /\ Agreeing(array) => Agreeing(a)
<1>1. /\ a \in Seq(S)
      /\ \A k \in 1..Len(a) : \E j \in 1..Len(array) : a[k] = array[j]
      /\ \A j \in 1..Len(array) : \E k \in 1..Len(a) : a[k] = array[j]
  BY PermutedFacts
<1>2. Holds(a, set)
  BY <1>1 DEF Holds
<1>3. Separate(array) => Separate(a)
  <2> SUFFICES ASSUME Separate(array), NEW j \in 1..Len(a), NEW k \in 1..Len(a)
               PROVE  /\ a[k].start <= a[k].end
                      /\ \/ a[j] = a[k]
                         \/ a[j].end < a[k].start
                         \/ a[k].end < a[j].start
    BY DEF Separate
  <2>1. PICK h \in 1..Len(array), i \in 1..Len(array) :
          a[j] = array[h] /\ a[k] = array[i]
    BY <1>1
  <2> QED
    BY <2>1 DEF Separate
<1>4. Agreeing(array) => Agreeing(a)
  <2> SUFFICES ASSUME Agreeing(array), NEW j \in 1..Len(a), NEW k \in 1..Len(a),
                      a[j].ip = a[k].ip, a[j].hits = 0
               PROVE  a[k].hits = 0
    BY DEF Agreeing
  <2>1. PICK h \in 1..Len(array), i \in 1..Len(array) :
          a[j] = array[h] /\ a[k] = array[i]
    BY <1>1
  <2> QED
    BY <2>1 DEF Agreeing
<1> QED
  BY <1>1, <1>2, <1>3, <1>4

LEMMA TableInvInit == Init => TableInv
BY DEF Init, TableInv

LEMMA TableInvNext ==
    ASSUME IInv, TableInv, TablesAssumption, [Next]_vars
    PROVE  TableInv'
<1>1. /\ CountryFiles \subseteq Seq(Row) /\ IPsumFiles \subseteq Seq(ScoreLine)
      /\ Country \notin Specs /\ IPsum \notin Specs /\ Country # IPsum
      /\ building \in Database /\ read \in Listing
  BY LookupAssumption DEF IInv, TypeInv
<1>2. CASE LoadBegin
  BY <1>2 DEF LoadBegin, TableInv
<1>3. CASE LoadCountry
  <2>1. /\ building'.ipsum = building.ipsum /\ read'.ipsum = read.ipsum
        /\ IPsum \notin sources' /\ db' = db /\ status' = status /\ listed' = listed
    <3>1. building'.ipsum = building.ipsum /\ read'.ipsum = read.ipsum
      BY <1>1, <1>3 DEF LoadCountry, Missing, Database, Listing
    <3>2. IPsum \notin sources'
      BY <1>1, <1>3 DEF LoadCountry, Missing, Loaded, Failing, IInv, ProgressInv
    <3> QED
      BY <1>3, <3>1, <3>2 DEF LoadCountry
  <2>2. Country \in sources' =>
            Holds(building'.country, read'.country) /\ Separate(building'.country)
    <3>1. SUFFICES ASSUME Country \in sources'
                   PROVE  /\ Holds(building'.country, read'.country)
                          /\ Separate(building'.country)
      OBVIOUS
    <3>2. sources = {}
      BY <1>3 DEF LoadCountry, IInv, ProgressInv
    <3>3. PICK file \in CountryFiles :
            /\ building' = [building EXCEPT !.country = file]
            /\ read' = [read EXCEPT !.country = Range(file)]
      BY <1>3, <3>1, <3>2 DEF LoadCountry, Missing, Failing
    <3>4. building'.country = file /\ read'.country = Range(file)
      BY <1>1, <3>3 DEF Database, Listing
    <3> QED
      BY <1>1, <3>4, RangeHolds DEF TablesAssumption
  <2> QED
    BY <2>1, <2>2 DEF TableInv
<1>4. CASE LoadIPsum
  <2>1. /\ building'.country = building.country /\ read'.country = read.country
        /\ Country \in sources' => Country \in sources
        /\ db' = db /\ status' = status /\ listed' = listed
    <3>1. building'.country = building.country /\ read'.country = read.country
      BY <1>1, <1>4 DEF LoadIPsum, Missing, Database, Listing
    <3>2. Country \in sources' => Country \in sources
      BY <1>1, <1>4 DEF LoadIPsum, Missing, Loaded, Failing
    <3> QED
      BY <1>4, <3>1, <3>2 DEF LoadIPsum
  <2>2. IPsum \in sources' =>
            Holds(building'.ipsum, read'.ipsum) /\ Agreeing(building'.ipsum)
    <3>1. SUFFICES ASSUME IPsum \in sources'
                   PROVE  /\ Holds(building'.ipsum, read'.ipsum)
                          /\ Agreeing(building'.ipsum)
      OBVIOUS
    <3>2. IPsum \notin sources
      BY <1>1, <1>4 DEF LoadIPsum, IInv, ProgressInv
    <3>3. PICK file \in IPsumFiles :
            /\ building' = [building EXCEPT !.ipsum = file]
            /\ read' = [read EXCEPT !.ipsum = Range(file)]
      BY <1>4, <3>1, <3>2 DEF LoadIPsum, Missing, Failing
    <3>4. building'.ipsum = file /\ read'.ipsum = Range(file)
      BY <1>1, <3>3 DEF Database, Listing
    <3> QED
      BY <1>1, <3>4, RangeHolds DEF TablesAssumption
  <2> QED
    BY <2>1, <2>2 DEF TableInv
<1>5. CASE SkipRiskFile \/ ScanRiskFile \/ MergeStep \/ AppendRiskSource
  <2>1. /\ building'.country = building.country /\ read'.country = read.country
        /\ building'.ipsum = building.ipsum /\ read'.ipsum = read.ipsum
        /\ db' = db /\ status' = status /\ listed' = listed
    BY <1>1, <1>5 DEF SkipRiskFile, Missing, ScanRiskFile, MergeStep,
                      AppendRiskSource, Database, Listing
  <2>2. /\ Country \in sources' => Country \in sources
        /\ IPsum \in sources' => IPsum \in sources
    <3>1. sources' = sources \/ (sources' = sources \cup {spec} /\ spec \in Specs)
      BY <1>5 DEF SkipRiskFile, Missing, Failing, ScanRiskFile, MergeStep,
                  AppendRiskSource, Loaded, IInv, TypeInv
    <3> QED
      BY <1>1, <3>1
  <2> QED
    BY <2>1, <2>2 DEF TableInv
<1>6. CASE Reload
  <2>1. CASE sources = {} /\ failed # {}
    BY <1>6, <2>1 DEF Reload, TableInv
  <2>2. CASE ~(sources = {} /\ failed # {})
    <3>1. PICK country \in SortedStarts(building.country),
               ipsum \in SortedIPs(building.ipsum) :
            db' = [building EXCEPT !.country = country, !.ipsum = ipsum]
      BY <1>6, <2>2 DEF Reload
    <3>2. /\ db'.country = country /\ db'.ipsum = ipsum
          /\ status' = sources /\ listed' = read /\ sources' = {}
      BY <1>1, <1>6, <2>2, <3>1 DEF Reload, Database
    <3>3. /\ building.country \in Seq(Row) /\ building.ipsum \in Seq(ScoreLine)
          /\ country \in Permuted(building.country)
          /\ ipsum \in Permuted(building.ipsum)
      BY <1>1, <3>1 DEF Database, SortedStarts, SortedIPs
    <3>4. Ordered(country)
      <4>1. DOMAIN building.country = 1..Len(country)
        BY <3>3, PermutedFacts
      <4> QED
        BY <3>1, <4>1 DEF SortedStarts, Ordered
    <3>5. Country \in sources => Holds(country, read.country) /\ Separate(country)
      BY <3>3, SortKeeps DEF TableInv
    <3>6. IPsum \in sources => Holds(ipsum, read.ipsum) /\ Agreeing(ipsum)
      BY <3>3, SortKeeps DEF TableInv
    <3> QED
      BY <3>2, <3>4, <3>5, <3>6 DEF TableInv
  <2> QED
    BY <2>1, <2>2
<1>7. CASE UNCHANGED vars
  BY <1>7 DEF vars, TableInv
<1> QED
  BY <1>2, <1>3, <1>4, <1>5, <1>6, <1>7 DEF Next

\* The country of an address is that of the row that contains it, and its hits
\* are those of a line with the address, if no two rows of the table overlap and
\* no two lines disagree on whether an address was hit (Load, findCountry,
\* findIPsum).
THEOREM TablesAreExact ==
    ASSUME TablesAssumption
    PROVE  Spec => []TablesExact
<1>1. IInv /\ TableInv => TablesExact
  <2> SUFFICES ASSUME IInv, TableInv, NEW v \in Addresses
               PROVE  /\ Country \in status =>
                           Find(db.country, v) = {row \in listed.country : In(v, row)}
                      /\ IPsum \in status =>
                           LET hits == {line.hits : line \in
                                           {l \in listed.ipsum : l.ip = v}} \cup {0}
                           IN  /\ findIPsum(db.ipsum, v) \in hits
                               /\ hits # {0} => findIPsum(db.ipsum, v) \in hits \ {0}
    BY DEF TablesExact
  <2>1. v \in Nat /\ db.country \in Seq(Row) /\ db.ipsum \in Seq(ScoreLine)
    <3>1. MaxAddr \in Nat
      BY LookupAssumption
    <3> QED
      BY <3>1 DEF Addresses, IInv, TypeInv, Database
  <2>2. Country \in status =>
            Find(db.country, v) = {row \in listed.country : In(v, row)}
    BY <2>1, FindExact DEF TableInv
  <2>3. ASSUME IPsum \in status
        PROVE  LET hits == {line.hits : line \in
                               {l \in listed.ipsum : l.ip = v}} \cup {0}
               IN  /\ findIPsum(db.ipsum, v) \in hits
                   /\ hits # {0} => findIPsum(db.ipsum, v) \in hits \ {0}
    <3> DEFINE lines == {l \in listed.ipsum : l.ip = v}
    <3>1. Holds(db.ipsum, listed.ipsum) /\ Agreeing(db.ipsum)
      BY <2>3 DEF TableInv
    <3>2. ASSUME findIPsum(db.ipsum, v) = 0,
                 \A k \in 1..Len(db.ipsum) : db.ipsum[k].ip # v
          PROVE  lines = {}
      BY <3>1, <3>2 DEF Holds
    <3>3. ASSUME NEW k \in 1..Len(db.ipsum), db.ipsum[k].ip = v
          PROVE  /\ db.ipsum[k] \in lines
                 /\ db.ipsum[k].hits = 0 => \A l \in lines : l.hits = 0
      <4>1. db.ipsum[k] \in lines
        BY <3>1, <3>3 DEF Holds
      <4>2. ASSUME db.ipsum[k].hits = 0, NEW l \in lines PROVE l.hits = 0
        <5>1. PICK j \in 1..Len(db.ipsum) : db.ipsum[j] = l
          BY <3>1 DEF Holds
        <5> QED
          BY <3>1, <3>3, <4>2, <5>1 DEF Agreeing
      <4> QED
        BY <4>1, <4>2
    <3>4. \/ findIPsum(db.ipsum, v) = 0 /\ lines = {}
          \/ \E l \in lines : /\ findIPsum(db.ipsum, v) = l.hits
                              /\ l.hits = 0 => \A m \in lines : m.hits = 0
      BY <2>1, <3>2, <3>3, FirstLine
    <3> QED
      BY <3>4
  <2> QED
    BY <2>2, <2>3
<1>2. TableInv /\ IInv /\ [Next]_vars => TableInv'
  BY TableInvNext
<1> QED
  BY <1>1, <1>2, TableInvInit, Invariance, PTL DEF Spec

-----------------------------------------------------------------------------
(* The score *)

\* A set of severities has a largest.
LEMMA LargestExists ==
    ASSUME NEW S, S \subseteq 1..100, S # {}
    PROVE  \E n \in S : \A m \in S : m <= n
<1> DEFINE gaps == {100 - n : n \in S}
<1>1. gaps \subseteq Nat /\ gaps # {}
  <2>1. ASSUME NEW n \in S PROVE 100 - n \in Nat
    <3>1. n \in 1..100
      OBVIOUS
    <3> QED
      BY <3>1
  <2> QED
    BY <2>1
<1>2. PICK g \in gaps : \A h \in gaps : ~(<<h, g>> \in OpToRel(<, Nat))
  BY <1>1, NatLessThanWellFounded, WFMin
<1>3. \A h \in gaps : ~(h < g)
  BY <1>1, <1>2 DEF OpToRel
<1>4. PICK n \in S : g = 100 - n
  OBVIOUS
<1>5. ASSUME NEW m \in S PROVE m <= n
  <2>1. 100 - m \in gaps
    OBVIOUS
  <2>2. ~(100 - m < 100 - n)
    BY <1>3, <1>4, <2>1
  <2>3. m \in Int /\ n \in Int
    OBVIOUS
  <2> QED
    BY <2>2, <2>3
<1> QED
  BY <1>5

\* Every piece of evidence has a severity.
LEMMA SeverityType ==
    ASSUME TypeInv, NEW v, NEW e \in Evidence(v)
    PROVE  SeverityOf(e, v) \in 1..100
<1>1. IPsum \notin Specs /\ Severity \in [Specs -> 1..100]
  BY LookupAssumption
<1>2. CASE e # IPsum
  <2>1. e \in Specs
    BY <1>2 DEF Evidence, RiskLists
  <2> QED
    BY <1>1, <1>2, <2>1 DEF SeverityOf
<1>3. CASE e = IPsum
  <2>1. findIPsum(db.ipsum, v) > 0
    BY <1>1, <1>3 DEF Evidence, RiskLists
  <2>2. findIPsum(db.ipsum, v) \in 0..255
    <3>1. db.ipsum \in Seq(ScoreLine)
      BY DEF TypeInv, Database
    <3>2. ASSUME NEW k \in 1..Len(db.ipsum)
          PROVE  db.ipsum[k].hits \in 0..255
      <4>1. db.ipsum[k] \in ScoreLine
        BY <3>1
      <4> QED
        BY <4>1 DEF ScoreLine
    <3>3. \/ findIPsum(db.ipsum, v) = 0
          \/ \E k \in 1..Len(db.ipsum) : findIPsum(db.ipsum, v) = db.ipsum[k].hits
      BY <3>1, FirstLine
    <3>4. CASE findIPsum(db.ipsum, v) = 0
      BY <3>4
    <3>5. ASSUME NEW k \in 1..Len(db.ipsum), findIPsum(db.ipsum, v) = db.ipsum[k].hits
          PROVE  findIPsum(db.ipsum, v) \in 0..255
      <4>1. db.ipsum[k].hits \in 0..255
        BY <3>2
      <4> QED
        BY <3>5, <4>1
    <3> QED
      BY <3>3, <3>4, <3>5
  <2>3. ASSUME NEW hits \in 1..255 PROVE ipsumSeverity(hits) \in 1..100
    <3>1. CASE hits >= 8
      BY <3>1 DEF ipsumSeverity
    <3>2. CASE hits \in 1..7
      <4>1. hits = 1 \/ hits = 2 \/ hits = 3 \/ hits = 4 \/ hits = 5 \/ hits = 6
            \/ hits = 7
        BY <3>2
      <4>2. ipsumSeverity(hits) = <<20, 35, 50, 62, 72, 80, 86>>[hits]
        BY <3>2 DEF ipsumSeverity
      <4> QED
        BY <4>1, <4>2
    <3> QED
      BY <3>1, <3>2
  <2>4. findIPsum(db.ipsum, v) \in 1..255
    BY <2>1, <2>2
  <2>5. ipsumSeverity(findIPsum(db.ipsum, v)) \in 1..100
    BY <2>3, <2>4
  <2> QED
    BY <1>3, <2>5 DEF SeverityOf
<1> QED
  BY <1>2, <1>3

\* The most severe evidence is evidence, and none is more severe.
LEMMA MostSevereFacts ==
    ASSUME TypeInv, NEW v, Evidence(v) # {}
    PROVE  /\ MostSevere(v) \in 1..100
           /\ \E e \in Evidence(v) : MostSevere(v) = SeverityOf(e, v)
           /\ \A e \in Evidence(v) : SeverityOf(e, v) <= MostSevere(v)
<1> DEFINE S == {SeverityOf(e, v) : e \in Evidence(v)}
<1>1. S \subseteq 1..100 /\ S # {}
  BY SeverityType
<1>2. PICK n \in S : \A m \in S : m <= n
  BY <1>1, LargestExists
<1>3. \E i \in S : \A e \in Evidence(v) : SeverityOf(e, v) <= i
  BY <1>2
<1>4. MostSevere(v) \in S /\ \A e \in Evidence(v) : SeverityOf(e, v) <= MostSevere(v)
  BY <1>3 DEF MostSevere
<1> QED
  BY <1>1, <1>4

\* There are finitely many lists.
LEMMA EvidenceFinite ==
    ASSUME NEW v
    PROVE  /\ IsFiniteSet(Evidence(v)) /\ Cardinality(Evidence(v)) \in Nat
           /\ Evidence(v) # {} => Cardinality(Evidence(v)) >= 1
<1>1. NumSpecs \in Nat
  BY LookupAssumption
<1>2. IsFiniteSet(Specs \cup {IPsum})
  <2>1. IsFiniteSet(Specs)
    BY <1>1, FS_Interval DEF Specs
  <2> QED
    BY <2>1, FS_AddElement
<1>3. Evidence(v) \subseteq Specs \cup {IPsum}
  BY DEF Evidence, RiskLists
<1>4. IsFiniteSet(Evidence(v))
  BY <1>2, <1>3, FS_Subset
<1> QED
  BY <1>4, FS_CardinalityType, FS_EmptySet

\* What the score of an address with evidence is.
LEMMA ScoreFacts ==
    ASSUME TypeInv, NEW v, Evidence(v) # {}
    PROVE  LET sum == MostSevere(v) + 5 * (Cardinality(Evidence(v)) - 1)
           IN  /\ sum \in Nat /\ MostSevere(v) <= sum
               /\ score(v) = IF sum > 100 THEN 100 ELSE sum
<1>1. MostSevere(v) \in 1..100
  BY MostSevereFacts
<1>2. Cardinality(Evidence(v)) \in Nat /\ Cardinality(Evidence(v)) >= 1
  BY EvidenceFinite
<1>3. score(v) = LET sum == MostSevere(v) + 5 * (Cardinality(Evidence(v)) - 1)
                 IN  IF sum > 100 THEN 100 ELSE sum
  BY DEF score
<1> QED
  BY <1>1, <1>2, <1>3

\* An address on more lists never scores less, and no list is below its own
\* severity, whatever the lists and their severities are (lookup, score of
\* database.go).
THEOREM EvidenceAdds == Spec => []MoreListsScoreMore
<1>1. IInv => MoreListsScoreMore
  <2> SUFFICES ASSUME IInv, NEW v \in Addresses, NEW w \in Addresses
               PROVE  /\ \A e \in Evidence(v) : score(v) >= SeverityOf(e, v)
                      /\ /\ Evidence(v) \subseteq Evidence(w)
                         /\ findIPsum(db.ipsum, v) = findIPsum(db.ipsum, w)
                         => score(v) <= score(w)
    BY DEF MoreListsScoreMore
  <2>1. TypeInv
    BY DEF IInv
  <2>2. ASSUME NEW e \in Evidence(v) PROVE score(v) >= SeverityOf(e, v)
    <3>1. SeverityOf(e, v) \in 1..100 /\ SeverityOf(e, v) <= MostSevere(v)
      BY <2>1, SeverityType, MostSevereFacts
    <3>2. MostSevere(v) \in 1..100
      BY <2>1, MostSevereFacts
    <3>3. PICK sum \in Nat : /\ MostSevere(v) <= sum
                             /\ score(v) = IF sum > 100 THEN 100 ELSE sum
      BY <2>1, ScoreFacts
    <3> QED
      BY <3>1, <3>2, <3>3
  <2>3. ASSUME Evidence(v) \subseteq Evidence(w),
               findIPsum(db.ipsum, v) = findIPsum(db.ipsum, w)
        PROVE  score(v) <= score(w)
    <3>1. CASE Evidence(v) = {}
      <4>1. score(v) = 0
        BY <3>1 DEF score
      <4>2. CASE Evidence(w) = {}
        BY <4>1, <4>2 DEF score
      <4>3. CASE Evidence(w) # {}
        <5>1. PICK sum \in Nat : score(w) = IF sum > 100 THEN 100 ELSE sum
          BY <2>1, <4>3, ScoreFacts
        <5> QED
          BY <4>1, <5>1
      <4> QED
        BY <4>2, <4>3
    <3>2. CASE Evidence(v) # {}
      <4>1. Evidence(w) # {}
        BY <2>3, <3>2
      <4>2. MostSevere(v) <= MostSevere(w)
        <5>1. PICK e \in Evidence(v) : MostSevere(v) = SeverityOf(e, v)
          BY <2>1, <3>2, MostSevereFacts
        <5>2. SeverityOf(e, v) = SeverityOf(e, w) /\ e \in Evidence(w)
          BY <2>3 DEF SeverityOf
        <5> QED
          BY <2>1, <4>1, <5>1, <5>2, MostSevereFacts
      <4>3. Cardinality(Evidence(v)) <= Cardinality(Evidence(w))
        BY <2>3, EvidenceFinite, FS_Subset
      <4>4. /\ MostSevere(v) \in Nat /\ MostSevere(w) \in Nat
            /\ Cardinality(Evidence(v)) \in Nat /\ Cardinality(Evidence(w)) \in Nat
        BY <2>1, <3>2, <4>1, MostSevereFacts, EvidenceFinite
      <4>5. MostSevere(v) + 5 * (Cardinality(Evidence(v)) - 1)
              <= MostSevere(w) + 5 * (Cardinality(Evidence(w)) - 1)
        BY <4>2, <4>3, <4>4
      <4> QED
        BY <2>1, <3>2, <4>1, <4>5, ScoreFacts
    <3> QED
      BY <3>1, <3>2
  <2> QED
    BY <2>2, <2>3
<1> QED
  BY <1>1, Invariance, PTL

=============================================================================
