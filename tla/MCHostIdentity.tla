--------------------------- MODULE MCHostIdentity ---------------------------
(* Instances of HostIdentity for TLC. *)
EXTENDS HostIdentity, TLC

CONSTANTS router, phone

TwoNames == {router, phone}

\* Any device may have the lease of an address.  The lease of address 1 is
\* static and may carry a name (router), the one of address 2 has neither.
LeaseLine(a) ==
    {NoLease} \cup
    [mac : Macs, name : IF a = 1 THEN {NoName, router} ELSE {NoName},
     expires : {IF a = 1 THEN 0 ELSE 1}]
AnyLeases ==
    {file \in [Addrs -> UNION {LeaseLine(a) : a \in Addrs}] :
        \A a \in Addrs : file[a] \in LeaseLine(a)}

\* At most one device has a static name (phone).
OneStaticName ==
    {static \in [Macs -> {NoName, phone}] :
        Cardinality({m \in Macs : static[m] = phone}) <= 1}

\* Any device may be the neighbor at an address; the entry of address 2 is
\* only ever STALE.
AnyNeighbors ==
    {table \in [Addrs -> Neighbors \cup {NoNeighbor}] :
        \A a \in Addrs : table[a].state \in
            {"NONE", IF a = 1 THEN "REACHABLE" ELSE "STALE"}}

MacSymmetry == Permutations(Macs)
=============================================================================
