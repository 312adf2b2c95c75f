---------------------------- MODULE MCRiskLookup ----------------------------
(* Instances of RiskLookup for TLC. *)
EXTENDS RiskLookup

CONSTANT MaxLines   \* bound: lines of the risk list

\* Prefixes are aligned here; prefixRange masks the others to the same blocks.
Aligned == {prefix \in Prefix : prefix.addr % prefix.size = 0}
Files(n) == UNION {[1..k -> Aligned] : k \in 0..n}

\* The first load finds any short list, the second has one block; the lists of
\* the second load are fixed.
LastAddress == [addr |-> MaxAddr, size |-> 1]
TwoLoads ==
    <<<<Files(MaxLines), {<<LastAddress>>}>>,
      <<{<<LastAddress>>}, {<<>>}>>>>

TwoSeverities == <<65, 95>>

\* Rows and lines out of order; an address listed twice.
CountryTables ==
    {<<[start |-> 2, end |-> 3, code |-> "JP"],
       [start |-> 0, end |-> 0, code |-> "CN"]>>}
IPsumTables ==
    {<<[ip |-> 3, hits |-> 8], [ip |-> 1, hits |-> 1], [ip |-> 3, hits |-> 2]>>}
=============================================================================
