----------------------------- MODULE RiskLookup -----------------------------
(***************************************************************************)
(* Loading the data files and looking remote addresses up in them          *)
(* (internal/dataset/ranges.go, Load, Reload and lookup of database.go).   *)
(*                                                                         *)
(* Load builds a new Database from whatever files can be read while        *)
(* lookups use the old one; Reload swaps them under the manager's lock.    *)
(* The blocks of a risk list are sorted and merged in place, in a loop     *)
(* that reads the array it writes; lookups search the result by bisection  *)
(* and rely on its order.                                                  *)
(*                                                                         *)
(* An address is a number below 2^32 (2^128).  The code is written twice,  *)
(* for IPv4 and IPv6, and differs in one thing: merge4 joins adjacent      *)
(* ranges.  The tables of countries and of networks are loaded and         *)
(* searched alike; the country table stands for both.  What an update does *)
(* to the files is in module DatasetUpdate: here their contents are inputs *)
(* of each load.                                                           *)
(***************************************************************************)
EXTENDS Integers, Sequences, FiniteSets, Functions

CONSTANTS
    MaxAddr,        \* the last address
    BlockSizes,     \* sizes of the blocks a prefix can stand for: 2^hostbits
    NumSpecs,       \* risk lists, riskSpecs of sources.go, in order
    Severity,       \* their severities
    RiskFiles,      \* contents the risk lists may have, by load and list:
                    \* sequences of prefixes
    CountryFiles,   \* contents of the country table: sequences of rows
    IPsumFiles,     \* contents of ipsum.txt: sequences of addresses with hits
    Country, IPsum  \* names of these two sources

Addresses == 0..MaxAddr
Specs == 1..NumSpecs
Loads == DOMAIN RiskFiles
Prefix == [addr : Addresses, size : BlockSizes]
Row == [start : Addresses, end : Addresses, code : STRING]
ScoreLine == [ip : Addresses, hits : 0..255]

ASSUME LookupAssumption ==
    /\ MaxAddr \in Nat /\ NumSpecs \in Nat
    /\ BlockSizes \subseteq Nat \ {0}
    /\ Severity \in [Specs -> 1..100]
    /\ \A l \in Loads : RiskFiles[l] \in [Specs -> SUBSET Seq(Prefix)]
    /\ CountryFiles \subseteq Seq(Row)
    /\ IPsumFiles \subseteq Seq(ScoreLine)
    /\ {Country, IPsum} \cap Specs = {} /\ Country # IPsum

VARIABLES
    family,     \* of the addresses looked at; never changes
    pc,         \* where Load is
    building,   \* the Database of the load in progress
    sources,    \* ... the files it could load
    failed,     \* ... and those it could not
    spec,       \* ... the risk list it is at
    items,      \* merge: the array
    out,        \* ... length of the merged part
    next,       \* ... the item to look at next
    db,         \* m.db
    status,     \* m.status.Sources: the sources db was loaded from
    read,       \* history: what the files read by the load in progress list
    listed,     \* history: what the files behind db list
    load        \* the number of the load in progress, or to come

loop == <<items, out, next>>
vars == <<family, pc, building, sources, failed, spec, loop, db, status,
          read, listed, load>>

-----------------------------------------------------------------------------
(* Ranges *)

\* prefixRange
prefixRange(prefix) ==
    LET start == prefix.addr - (prefix.addr % prefix.size)
    IN  [start |-> start, end |-> start + (prefix.size - 1)]

Ranges(file) == [k \in 1..Len(file) |-> prefixRange(file[k])]

In(v, range) == range.start <= v /\ v <= range.end

\* Position from to position to of the array have a range with v.
Covers(array, from, to, v) == \E k \in from..to : In(v, array[k])

Listed(array) == {v \in Addresses : Covers(array, 1, Len(array), v)}

Permuted(array) ==
    {[k \in DOMAIN array |-> array[p[k]]] :
        p \in Bijection(DOMAIN array, DOMAIN array)}

Before(x, y) == x.start < y.start \/ (x.start = y.start /\ x.end <= y.end)

\* What sort.Slice may leave: equal keys in any order.
Sorted(array) ==
    {a \in Permuted(array) :
        \A j, k \in DOMAIN array : j < k => Before(a[j], a[k])}

\* Mutant: the table is searched as it was read.
AsRead(array) == {array}

SortedStarts(array) ==
    {a \in Permuted(array) :
        \A j, k \in DOMAIN array : j < k => a[j].start <= a[k].start}

SortedIPs(array) ==
    {a \in Permuted(array) :
        \A j, k \in DOMAIN array : j < k => a[j].ip <= a[k].ip}

\* merge4 joins ranges that touch; the last address has no successor.
Joins(last, item) ==
    \/ item.start <= last.end
    \/ /\ family = "ipv4"
       /\ last.end # MaxAddr
       /\ item.start = last.end + 1

Larger(m, n) == IF m > n THEN m ELSE n

\* Mutant: the range ends where the item ends.
TakeEnd(last, item) == [last EXCEPT !.end = item.end]

Extended(last, item) == [last EXCEPT !.end = Larger(@, item.end)]

\* Mutant: a range that starts at v is passed over.
FirstFrom(array, v) ==
    CHOOSE k \in 1..Len(array) + 1 :
        /\ k <= Len(array) => array[k].start >= v
        /\ \A j \in 1..k - 1 : array[j].start < v

\* sort.Search: the first position whose start is greater than v.
FirstAfter(array, v) ==
    CHOOSE k \in 1..Len(array) + 1 :
        /\ k <= Len(array) => array[k].start > v
        /\ \A j \in 1..k - 1 : array[j].start <= v

\* findCountry, findASN: the row that contains v, as a set.
Find(array, v) ==
    LET k == FirstAfter(array, v) - 1
    IN  IF k > 0 /\ v <= array[k].end THEN {array[k]} ELSE {}

contains(array, v) == Find(array, v) # {}

\* findIPsum: 0 if v is not in the array.
findIPsum(array, v) ==
    LET at == {k \in 1..Len(array) : array[k].ip = v}
    IN  IF at = {} THEN 0
        ELSE array[CHOOSE k \in at : \A j \in at : k <= j].hits

-----------------------------------------------------------------------------
(* Scores *)

ipsumSeverity(hits) ==
    LET table == <<20, 35, 50, 62, 72, 80, 86>>
    IN  IF hits >= 8 THEN 90 ELSE table[hits]

\* lookup: the lists that have address v, and the severity of each.
RiskLists(v) == {s \in Specs : contains(db.risk[s], v)}

Evidence(v) ==
    RiskLists(v) \cup (IF findIPsum(db.ipsum, v) > 0 THEN {IPsum} ELSE {})

SeverityOf(evidence, v) ==
    IF evidence = IPsum THEN ipsumSeverity(findIPsum(db.ipsum, v))
    ELSE Severity[evidence]

\* Mutant: the list that was loaded first counts, not the most severe.
FirstSeverity(v) ==
    IF RiskLists(v) = {} THEN ipsumSeverity(findIPsum(db.ipsum, v))
    ELSE Severity[CHOOSE s \in RiskLists(v) : \A r \in RiskLists(v) : s <= r]

MostSevere(v) ==
    CHOOSE n \in {SeverityOf(e, v) : e \in Evidence(v)} :
        \A e \in Evidence(v) : SeverityOf(e, v) <= n

\* The score: the highest severity, five more for each further list.
score(v) ==
    IF Evidence(v) = {} THEN 0
    ELSE LET sum == MostSevere(v) + 5 * (Cardinality(Evidence(v)) - 1)
         IN  IF sum > 100 THEN 100 ELSE sum

-----------------------------------------------------------------------------
(* Load *)

EmptyDatabase == [country |-> <<>>, ipsum |-> <<>>,
                  risk |-> [s \in Specs |-> <<>>]]
NothingListed == [country |-> {}, ipsum |-> {}, risk |-> [s \in Specs |-> {}]]

\* NewManager
Init ==
    /\ family \in {"ipv4", "ipv6"}
    /\ pc = "idle" /\ building = EmptyDatabase
    /\ sources = {} /\ failed = {} /\ spec = 1
    /\ items = <<>> /\ out = 0 /\ next = 1
    /\ db = EmptyDatabase
    /\ status = {}
    /\ read = NothingListed /\ listed = NothingListed
    /\ load = 1

LoadBegin ==
    /\ pc = "idle"
    /\ load \in Loads
    /\ pc' = "country"
    /\ building' = EmptyDatabase
    /\ sources' = {} /\ failed' = {} /\ spec' = 1
    /\ read' = NothingListed
    /\ UNCHANGED <<family, loop, db, status, listed, load>>

\* The file does not exist; for a risk list, any failure of Stat.
Missing == UNCHANGED <<building, sources, failed, read>>

Failing(source) ==
    /\ failed' = failed \cup {source}
    /\ UNCHANGED sources

Loaded(source) ==
    /\ sources' = sources \cup {source}
    /\ UNCHANGED failed

\* loadCountry.  A scan that breaks off has already stored the rows before.
LoadCountry ==
    /\ pc = "country"
    /\ \/ Missing
       \/ \E file \in CountryFiles :
             /\ Loaded(Country)
             /\ building' = [building EXCEPT !.country = file]
             /\ read' = [read EXCEPT !.country = Range(file)]
       \/ \E file \in CountryFiles \cup {<<>>} :
             /\ Failing(Country)
             /\ building' = [building EXCEPT !.country = file]
             /\ UNCHANGED read
    /\ pc' = "ipsum"
    /\ UNCHANGED <<family, spec, loop, db, status, listed, load>>

\* loadIPsum
LoadIPsum ==
    /\ pc = "ipsum"
    /\ \/ Missing
       \/ \E file \in IPsumFiles :
             /\ Loaded(IPsum)
             /\ building' = [building EXCEPT !.ipsum = file]
             /\ read' = [read EXCEPT !.ipsum = Range(file)]
       \/ \E file \in IPsumFiles \cup {<<>>} :
             /\ Failing(IPsum)
             /\ building' = [building EXCEPT !.ipsum = file]
             /\ UNCHANGED read
    /\ pc' = "risk"
    /\ UNCHANGED <<family, spec, loop, db, status, listed, load>>

\* The risk list of spec is missing, or its scan fails: it leaves no trace.
SkipRiskFile ==
    /\ pc = "risk" /\ spec \in Specs
    /\ \/ Missing
       \/ Failing(spec) /\ UNCHANGED <<building, read>>
    /\ spec' = spec + 1
    /\ UNCHANGED <<family, pc, loop, db, status, listed, load>>

\* loadRiskFile: the scan; the blocks are sorted, the first is merged.
ScanRiskFile ==
    /\ pc = "risk" /\ spec \in Specs
    /\ \E file \in RiskFiles[load][spec] :
          /\ items' \in Sorted(Ranges(file))
          /\ out' = IF file = <<>> THEN 0 ELSE 1
          /\ read' = [read EXCEPT !.risk[spec] = Listed(Ranges(file))]
    /\ next' = 2
    /\ pc' = "merge"
    /\ UNCHANGED <<family, building, sources, failed, spec, db, status,
                   listed, load>>

\* merge4, merge6: one iteration of the loop.
MergeStep ==
    /\ pc = "merge"
    /\ next <= Len(items)
    /\ next' = next + 1
    /\ IF Joins(items[out], items[next])
       THEN /\ items' = [items EXCEPT ![out] = Extended(@, items[next])]
            /\ UNCHANGED out
       ELSE /\ items' = [items EXCEPT ![out + 1] = items[next]]
            /\ out' = out + 1
    /\ UNCHANGED <<family, pc, building, sources, failed, spec, db, status, read,
                   listed, load>>

\* The merged list is appended to the Database.
AppendRiskSource ==
    /\ pc = "merge"
    /\ next > Len(items)
    /\ building' = [building EXCEPT !.risk[spec] = SubSeq(items, 1, out)]
    /\ Loaded(spec)
    /\ spec' = spec + 1
    /\ pc' = "risk"
    /\ items' = <<>> /\ out' = 0 /\ next' = 1
    /\ UNCHANGED <<family, db, status, read, listed, load>>

\* Load sorts the tables and returns, Reload takes the lock.  If nothing could
\* be loaded and something failed, the old Database stays.
Reload ==
    /\ pc = "risk" /\ spec > NumSpecs
    /\ IF sources = {} /\ failed # {}
       THEN UNCHANGED <<db, status, listed>>
       ELSE /\ status' = sources
            /\ \E country \in SortedStarts(building.country),
                  ipsum \in SortedIPs(building.ipsum) :
                  db' = [building EXCEPT !.country = country, !.ipsum = ipsum]
            /\ listed' = read
    /\ load' = load + 1
    /\ pc' = "idle"
    /\ building' = EmptyDatabase /\ sources' = {} /\ failed' = {} /\ spec' = 1
    /\ read' = NothingListed
    /\ UNCHANGED <<family, loop>>

Next ==
    \/ LoadBegin \/ LoadCountry \/ LoadIPsum
    \/ SkipRiskFile \/ ScanRiskFile \/ MergeStep \/ AppendRiskSource
    \/ Reload

Spec == Init /\ [][Next]_vars

-----------------------------------------------------------------------------
(* Properties *)

TypeOK ==
    /\ family \in {"ipv4", "ipv6"}
    /\ pc \in {"idle", "country", "ipsum", "risk", "merge"}
    /\ \A database \in {db, building} :
          /\ database.country \in Seq(Row)
          /\ database.ipsum \in Seq(ScoreLine)
          /\ \A s \in Specs :
                database.risk[s] \in Seq([start : Nat, end : Nat])
    /\ \A known \in {sources, failed, status} :
          known \subseteq Specs \cup {Country, IPsum}
    /\ sources \cap failed = {}
    /\ spec \in 1..NumSpecs + 1 /\ load \in Nat
    /\ out \in 0..Len(items) /\ next \in Nat

\* The merge loop writes into the array it reads: at every iteration the
\* merged part and the items to come together cover the addresses of the file,
\* the merged part is strictly increasing without overlaps, and no write
\* reaches an item that was not read (merge4, merge6).
MergeExact ==
    pc = "merge" =>
        /\ \A v \in Addresses :
              v \in read.risk[spec] <=>
                  Covers(items, 1, out, v) \/ Covers(items, next, Len(items), v)
        /\ \A k \in 1..out - 1 : items[k].end < items[k + 1].start
        /\ \A k \in next..Len(items) : items[out].start <= items[k].start
        /\ out < next

\* An address is evidence of a risk list exactly if the file which the status
\* names lists it, whatever other files were missing or broke off, and also
\* while a load is in progress.  A list the status does not name is no evidence.
ListsExact ==
    \A v \in Addresses :
        RiskLists(v) = {s \in status \cap Specs : v \in listed.risk[s]}

\* The country of an address is that of the row which contains it, if the rows
\* of the table do not overlap; and the hits are those of a line with the
\* address.
TablesExact ==
    pc = "idle" => \A v \in Addresses :
        /\ Country \in status =>
              Find(db.country, v) = {row \in listed.country : In(v, row)}
        /\ IPsum \in status =>
              LET hits == {line.hits : line \in
                               {l \in listed.ipsum : l.ip = v}} \cup {0}
              IN  /\ findIPsum(db.ipsum, v) \in hits
                  /\ hits # {0} => findIPsum(db.ipsum, v) \in hits \ {0}

\* An address on more lists never scores less, and no list is below its own
\* severity.
MoreListsScoreMore ==
    pc = "idle" => \A v, w \in Addresses :
        /\ \A e \in Evidence(v) : score(v) >= SeverityOf(e, v)
        /\ /\ Evidence(v) \subseteq Evidence(w)
           /\ findIPsum(db.ipsum, v) = findIPsum(db.ipsum, w)
           => score(v) <= score(w)

=============================================================================
