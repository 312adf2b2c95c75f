---------------------------- MODULE HostIdentity ----------------------------
(***************************************************************************)
(* Which device the traffic of an address belongs to                       *)
(* (internal/collector/identity.go, dhcp.go, the host part of Poll and     *)
(* ApplyDestroy in collector.go, recordUsage and usageHistory in usage.go).*)
(*                                                                         *)
(* The tracker counts per address and shows per device.  The device of an  *)
(* address is derived again at every use from three sources that change    *)
(* under it at different times: the leases and static names (read by Poll, *)
(* at most every two seconds), the neighbor table (read before Poll, every *)
(* ten seconds) and what the host record remembers of both.  Aliases make  *)
(* the usage recorded under an address follow the MAC learned later.       *)
(*                                                                         *)
(* Poll holds the tracker's lock from PollBegin to PollEnd, one PollRow    *)
(* per row of the table; nobody else acts on these maps in between.  What  *)
(* the files and the neighbor table say at a read is an input: they change *)
(* arbitrarily between two reads.  An entry of the neighbor table without  *)
(* a MAC (FAILED, INCOMPLETE) has no effect anywhere, like no entry.       *)
(* Module Rollover has the months of the counters and of the history,      *)
(* module Accounting the deltas that are an input here.                    *)
(***************************************************************************)
EXTENDS Integers, FiniteSets, Functions

CONSTANTS
    Addrs,      \* addresses of LAN hosts, numbered in the order in which
                \* compareHostAddress sorts them
    IPv4,       \* those of family ipv4
    Macs,       \* normalized MAC addresses
    Names,      \* host names
    NoMac, NoName, \* ""
    LeaseFiles, \* contents the lease file may have
    StaticNames,\* contents the static DHCP host sections may have
    NeighborTables, \* contents the neighbor table may have
    MaxReads,   \* bound: reads of the leases and of the neighbor table
    MaxBytes,   \* bound: bytes credited altogether
    MaxStarts   \* bound: starts of the daemon

Leases == [mac : Macs \cup {NoMac}, name : Names \cup {NoName}, expires : Nat]
NoLease == [mac |-> NoMac, name |-> NoName, expires |-> 0]
Neighbors == [mac : Macs, state : {"REACHABLE", "STALE"}]
NoNeighbor == [mac |-> NoMac, state |-> "NONE"]

\* A line of the lease file always has a MAC; a static section with a name
\* but without a MAC names nobody.
ASSUME IdentityAssumption ==
    /\ Addrs \subseteq Nat /\ IPv4 \subseteq Addrs
    /\ IsFiniteSet(Addrs) /\ IsFiniteSet(Macs)
    /\ Addrs \cap Macs = {} /\ NoMac \notin Macs /\ NoMac \notin Addrs
    /\ NoName \notin Names
    /\ LeaseFiles \subseteq [Addrs -> Leases]
    /\ \A file \in LeaseFiles, a \in Addrs :
          file[a].mac = NoMac => file[a] = NoLease
    /\ StaticNames \subseteq [Macs -> Names \cup {NoName}]
    /\ NeighborTables \subseteq [Addrs -> Neighbors \cup {NoNeighbor}]
    /\ {MaxReads, MaxBytes, MaxStarts} \subseteq Nat

VARIABLES
    leases,     \* t.leases: what the lease file said, by address
    names,      \* t.hostnamesByMAC
    neighbors,  \* t.neighbors: online entries, by address
    hosts,      \* t.hosts: per address; seen: the map has the key
    aliases,    \* t.aliases: the MAC the usage of an address belongs to
    profiles,   \* t.profiles
    daily,      \* t.daily, all days together
    flows,      \* t.flows: addresses of the rows of the last poll
    scanning,   \* a poll holds the lock
    rows,       \* ... and the rows it has done
    polled,     \* a poll was completed since the start
    reads, starts,  \* bounds
    credited,   \* history: bytes credited
    known       \* history: bytes credited while the MAC was known

disk == <<hosts, aliases, profiles, daily>>
vars == <<leases, names, neighbors, disk, flows, scanning, rows, polled,
          reads, starts, credited, known>>

-----------------------------------------------------------------------------
(* Identities *)

Identities == Addrs \cup Macs

identity(mac, a) == IF mac # NoMac THEN mac ELSE a

\* Only addresses are aliased, and only to MACs: a chain has one link.
CanonicalIn(al, id) ==
    IF id \in Addrs /\ al[id] # NoMac THEN al[id] ELSE id
Canonical(id) == CanonicalIn(aliases, id)

\* The neighbor entry goes before the lease, both before the host record.
MacFrom(neighbor, lease, host) ==
    IF neighbor.mac # NoMac THEN neighbor.mac
    ELSE IF lease.mac # NoMac THEN lease.mac ELSE host.mac

MacOf(a) == MacFrom(neighbors[a], leases[a], hosts[a])

identityForIP(a) == Canonical(identity(MacOf(a), a))

OrElse(name, other) == IF name # NoName THEN name ELSE other
OrElseMac(mac, other) == IF mac # NoMac THEN mac ELSE other

\* Mutant: the lease goes before the name configured for the MAC.
LeaseNameFirst(neighbor, lease, host, byMac) ==
    LET mac == MacFrom(neighbor, lease, host)
        own == OrElse(lease.name, host.name)
    IN  IF mac # NoMac THEN OrElse(own, byMac[mac]) ELSE own

\* What resolveIdentity finds for an address, before it asks the profile.
NameFrom(neighbor, lease, host, byMac) ==
    LET mac == MacFrom(neighbor, lease, host)
        own == OrElse(lease.name, host.name)
    IN  IF mac # NoMac THEN OrElse(byMac[mac], own) ELSE own

Resolved(a) ==
    LET mac == MacOf(a)
        al == IF mac # NoMac THEN [aliases EXCEPT ![a] = mac] ELSE aliases
        id == CanonicalIn(al, identity(mac, a))
        name == NameFrom(neighbors[a], leases[a], hosts[a], names)
    IN  [id |-> id, aliases |-> al,
         name |-> OrElse(name, profiles[id].name),
         mac |-> OrElseMac(mac, profiles[id].mac)]

-----------------------------------------------------------------------------
(* Leases *)

\* Whether the lease of c is preferred over the lease of d of the same MAC:
\* a static one, then the later expiry, then the one with a name.
preferLease(file, c, d) ==
    LET x == file[c]
        y == file[d]
    IN  IF x.expires # y.expires
        THEN x.expires = 0 \/ (y.expires # 0 /\ x.expires > y.expires)
        ELSE IF (x.name # NoName) # (y.name # NoName)
        THEN x.name # NoName
        ELSE c > d

LeasedTo(file, m) == {a \in Addrs : file[a].mac = m}

IsBestLease(file, m, a) ==
    /\ a \in LeasedTo(file, m)
    /\ \A b \in LeasedTo(file, m) \ {a} : preferLease(file, a, b)

leaseByMAC(file, m) == CHOOSE a \in Addrs : IsBestLease(file, m, a)

LeaseName(file, m) ==
    IF LeasedTo(file, m) = {} THEN NoName
    ELSE file[leaseByMAC(file, m)].name

\* The static name of a MAC is authoritative.
HostnamesByMAC(file, static) ==
    [m \in Macs |-> OrElse(static[m], LeaseName(file, m))]

-----------------------------------------------------------------------------
(* The collector *)

NoHost == [seen |-> FALSE, mac |-> NoMac, name |-> NoName, active |-> FALSE]
NoProfile == [mac |-> NoMac, name |-> NoName]

Init ==
    /\ leases = [a \in Addrs |-> NoLease]
    /\ names = [m \in Macs |-> NoName]
    /\ neighbors = [a \in Addrs |-> NoNeighbor]
    /\ hosts = [a \in Addrs |-> NoHost]
    /\ aliases = [a \in Addrs |-> NoMac]
    /\ profiles = [id \in Identities |-> NoProfile]
    /\ daily = [id \in Identities |-> 0]
    /\ flows = {} /\ scanning = FALSE /\ rows = {} /\ polled = FALSE
    /\ reads = 0 /\ starts = 1
    /\ credited = 0 /\ known = [m \in Macs |-> 0]

\* rememberProfile
Remembered(profile, host) ==
    [mac |-> OrElseMac(host.mac, profile.mac),
     name |-> OrElse(host.name, profile.name)]

\* refreshNeighbors.  The entries are remembered in the order in which Go
\* iterates over a map, any of the names found for a MAC may be the last.
RefreshNeighbors ==
    /\ ~scanning
    /\ reads < MaxReads
    /\ reads' = reads + 1
    /\ neighbors' \in NeighborTables
    /\ aliases' = [a \in Addrs |->
                      OrElseMac(neighbors'[a].mac, aliases[a])]
    /\ \E last \in [Macs -> Names \cup {NoName}] :
          /\ \A m \in Macs :
                LET found == {NameFrom(neighbors'[a], leases[a], hosts[a],
                                       names) :
                              a \in {b \in Addrs : neighbors'[b].mac = m}}
                             \ {NoName}
                IN  IF found = {} THEN last[m] = NoName
                                  ELSE last[m] \in found
          /\ profiles' = [id \in Identities |->
                IF id \in Macs /\ \E a \in Addrs : neighbors'[a].mac = id
                THEN Remembered(profiles[id], [mac |-> id, name |-> last[id]])
                ELSE profiles[id]]
    /\ UNCHANGED <<leases, names, hosts, daily, flows, scanning, rows, polled,
                   starts, credited, known>>

\* Mutant: the flows of the last poll are not forgotten.
StillActive(host) == host

\* The host record after resetting the live values.
Quiet(host) == [host EXCEPT !.active = FALSE]

\* Poll takes the lock; the leases are not due.
PollBegin ==
    /\ ~scanning
    /\ scanning' = TRUE
    /\ rows' = {}
    /\ hosts' = [a \in Addrs |-> Quiet(hosts[a])]
    /\ UNCHANGED <<leases, names, neighbors, aliases, profiles, daily, flows,
                   polled, reads, starts, credited, known>>

\* Poll takes the lock and reads the leases and the static names:
\* refreshLeases and applyLeaseHostnames.
PollBeginWithLeases ==
    /\ ~scanning
    /\ reads < MaxReads
    /\ reads' = reads + 1
    /\ scanning' = TRUE
    /\ rows' = {}
    /\ leases' \in LeaseFiles
    /\ \E static \in StaticNames : names' = HostnamesByMAC(leases', static)
    /\ aliases' = [a \in Addrs |-> OrElseMac(leases'[a].mac, aliases[a])]
    /\ profiles' = [id \in Identities |->
          IF id \in Macs
             /\ (LeasedTo(leases', id) # {} \/ names'[id] # NoName)
          THEN [mac |-> id, name |-> OrElse(names'[id], profiles[id].name)]
          ELSE profiles[id]]
    /\ hosts' = [a \in Addrs |->
          LET host == hosts[a]
              id == CanonicalIn(aliases',
                       identity(MacFrom(neighbors[a], leases'[a], host), a))
          IN  Quiet(IF host.seen /\ id \in Macs /\ names'[id] # NoName
                    THEN [host EXCEPT !.name = names'[id], !.mac = id]
                    ELSE host)]
    /\ UNCHANGED <<neighbors, daily, flows, polled, starts, credited, known>>

\* Mutant: the usage is recorded under the address.
recordByAddress(r, a, n) == [daily EXCEPT ![a] = @ + n]

\* recordUsage, for the identity r found for address a.
recordUsage(r, a, n) == [daily EXCEPT ![r.id] = @ + n]

\* What Poll and ApplyDestroy do to the host of address a for n bytes.
Credit(a, n, active) ==
    LET r == Resolved(a)
        host == [seen |-> TRUE, active |-> active,
                 name |-> OrElse(r.name, hosts[a].name),
                 mac |-> OrElseMac(r.mac, hosts[a].mac)]
    IN  /\ hosts' = [hosts EXCEPT ![a] = host]
        /\ aliases' = r.aliases
        /\ profiles' = [profiles EXCEPT ![r.id] = Remembered(@, host)]
        /\ daily' = recordUsage(r, a, n)
        /\ credited' = credited + n
        /\ known' = IF r.mac = NoMac THEN known
                    ELSE [known EXCEPT ![r.mac] = @ + n]

\* One row of the table.
PollRow(a, n) ==
    /\ scanning
    /\ credited + n <= MaxBytes
    /\ Credit(a, n, TRUE)
    /\ rows' = rows \cup {a}
    /\ UNCHANGED <<leases, names, neighbors, flows, scanning, polled, reads,
                   starts>>

PollEnd ==
    /\ scanning
    /\ scanning' = FALSE
    /\ flows' = rows
    /\ rows' = {}
    /\ polled' = TRUE
    /\ UNCHANGED <<leases, names, neighbors, disk, reads, starts, credited,
                   known>>

\* Mutant: the connection of a destroy event was the host's last.
ApplyLastDestroy(a, n) ==
    /\ ~scanning
    /\ credited + n <= MaxBytes
    /\ Credit(a, n, FALSE)
    /\ UNCHANGED <<leases, names, neighbors, flows, scanning, rows, polled,
                   reads, starts>>

\* A destroy event gets the lock between two polls; the flow list and the
\* count of active flows stay what the last poll made them.
ApplyDestroy(a, n) ==
    /\ ~scanning
    /\ credited + n <= MaxBytes
    /\ Credit(a, n, hosts[a].active)
    /\ UNCHANGED <<leases, names, neighbors, flows, scanning, rows, polled,
                   reads, starts>>

\* The state is saved and the daemon starts again: New.  A crash goes back to
\* an earlier save of the same maps, taken together under the lock.
Restart ==
    /\ ~scanning
    /\ starts < MaxStarts
    /\ starts' = starts + 1
    /\ leases' = [a \in Addrs |-> NoLease]
    /\ names' = [m \in Macs |-> NoName]
    /\ neighbors' = [a \in Addrs |-> NoNeighbor]
    /\ flows' = {}
    /\ polled' = FALSE
    /\ UNCHANGED <<disk, scanning, rows, reads, credited, known>>

Next ==
    \/ RefreshNeighbors
    \/ PollBegin \/ PollBeginWithLeases \/ PollEnd
    \/ \E a \in Addrs, n \in 0..1 : PollRow(a, n) \/ ApplyDestroy(a, n)
    \/ Restart

Spec == Init /\ [][Next]_vars

-----------------------------------------------------------------------------
(* What the dashboard and the history show *)

Online(a) == neighbors[a].mac # NoMac

\* onlineHosts: the devices of the live list.
OnlineIdentities ==
    {identityForIP(a) : a \in {b \in Addrs : hosts[b].active \/ Online(b)}}

\* The MAC a row may show: the host records of the row are visited in map
\* order and each that has one replaces the profile's.
RowMacs(id) ==
    LET recorded == {hosts[a].mac : a \in
            {b \in Addrs : hosts[b].seen /\ identityForIP(b) = id}} \ {NoMac}
        seen == {neighbors[a].mac : a \in
            {b \in Addrs : Online(b) /\ identityForIP(b) = id}}
    IN  IF recorded # {} THEN recorded
        ELSE IF profiles[id].mac # NoMac THEN {profiles[id].mac}
        ELSE IF seen # {} THEN seen ELSE {NoMac}

\* currentAddresses: the strength of the evidence that device id, shown with
\* mac, uses address a now.
Rank(id, mac, a) ==
    IF hosts[a].active /\ identityForIP(a) = id THEN 3
    ELSE IF \/ /\ neighbors[a].state = "REACHABLE"
               /\ identityForIP(a) = id
            \/ /\ mac \in Macs
               /\ LeasedTo(leases, mac) # {}
               /\ leaseByMAC(leases, mac) = a THEN 2
    ELSE IF Online(a) /\ identityForIP(a) = id THEN 1
    ELSE 0

SameFamily(a, b) == (a \in IPv4) = (b \in IPv4)

currentAddresses(id, mac) ==
    {a \in Addrs :
        \/ Rank(id, mac, a) >= 2
        \/ /\ Rank(id, mac, a) = 1
           /\ \A b \in Addrs :
                 SameFamily(a, b) => Rank(id, mac, b) < 2}

\* snapshotFlows: the identity of a flow is looked up again.
snapshotFlows == {[ip |-> a, host |-> identityForIP(a)] : a \in flows}

\* Mutant: a bucket replaces the one it is merged with.
usageUnmerged(id) ==
    IF Canonical(id) # id THEN 0
    ELSE IF daily[id] # 0 THEN daily[id]
    ELSE FoldFunctionOnSet(+, 0, daily, {i \in Identities : Canonical(i) = id})

\* usageHistory: the buckets are grouped by the identity of today.
usageHistory(id) ==
    FoldFunctionOnSet(+, 0, daily, {i \in Identities : Canonical(i) = id})

-----------------------------------------------------------------------------
(* Properties *)

\* The maps hold what their keys and sources allow; an alias leads to a device
\* whose profile has its MAC, a host without a MAC has no name either.
TypeOK ==
    /\ leases \in [Addrs -> Leases]
    /\ names \in [Macs -> Names \cup {NoName}]
    /\ neighbors \in [Addrs -> Neighbors \cup {NoNeighbor}]
    /\ hosts \in [Addrs -> [seen : BOOLEAN, mac : Macs \cup {NoMac},
                            name : Names \cup {NoName}, active : BOOLEAN]]
    /\ \A a \in Addrs : hosts[a].mac = NoMac => hosts[a].name = NoName
    /\ aliases \in [Addrs -> Macs \cup {NoMac}]
    /\ \A a \in Addrs :
          aliases[a] # NoMac => profiles[aliases[a]].mac = aliases[a]
    /\ profiles \in [Identities -> [mac : Macs \cup {NoMac},
                                    name : Names \cup {NoName}]]
    /\ \A id \in Identities :
          profiles[id].mac # NoMac => profiles[id].mac = id
    /\ daily \in [Identities -> Nat]
    /\ flows \subseteq Addrs /\ rows \subseteq Addrs
    /\ scanning \in BOOLEAN /\ polled \in BOOLEAN
    /\ reads \in Nat /\ starts \in Nat /\ credited \in Nat
    /\ known \in [Macs -> Nat]

\* r9 and r13: once the leases and the static names were read, the profile of
\* every device they name has that name, and with it the history and the
\* export.  It is not written over by a name that a lease of another device, a
\* host record or the order of map iteration kept from earlier
\* (resolveIdentity, rememberProfile, applyLeaseHostnames).
NamesCurrent ==
    \A m \in Macs : names[m] # NoName => profiles[m].name = names[m]

\* r10: an address with a connection is never hidden.  Every listed connection
\* is listed under an online device, by the identity the device has in the same
\* answer, although addresses change hands between the poll and the answer; and
\* the device's row lists the address.
FlowsUnderTheirHost ==
    ~scanning => \A f \in snapshotFlows :
        /\ f.host \in OnlineIdentities
        /\ \A mac \in RowMacs(f.host) : f.ip \in currentAddresses(f.host, mac)

\* r8: the live list has only devices with active traffic in the last poll or
\* an online neighbor entry, whatever destroy events did to the host records
\* since; true from the first completed poll on.
OnlineWasSeen ==
    ~scanning /\ polled => \A id \in OnlineIdentities :
        \E a \in Addrs : (a \in flows \/ Online(a)) /\ identityForIP(a) = id

\* The history shows every byte that was credited exactly once, also those
\* credited under an address before its MAC was known, and after the address
\* was given to another device.
HistoryComplete ==
    credited = FoldFunctionOnSet(+, 0,
        [id \in Identities |-> usageHistory(id)], Identities)

\* r8: a device keeps its history.  Bytes credited while its MAC was known stay
\* with it when its address is given to another device, when leases and
\* neighbor entries disappear, and over restarts.
DevicesKeepHistory == \A m \in Macs : usageHistory(m) >= known[m]

=============================================================================
