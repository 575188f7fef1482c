------------------------------ MODULE DnsCache ------------------------------
(***************************************************************************)
(* The DNS cache of the HTTP client: agent/pkg/httpclient/dnscache.go.     *)
(*                                                                         *)
(* A lookup takes the current map under the mutex, and then loads from and *)
(* stores into the map it has taken; the refresh goroutine puts an empty   *)
(* map in its place every now and then.  One host is enough: the entries   *)
(* of different hosts do not touch each other.                             *)
(***************************************************************************)
EXTENDS Naturals

CONSTANTS
    Lookup,      \* lookups that may be under way at once
    Addr,        \* addresses the host may have
    NoAddr,      \* no entry
    MaxRefresh   \* bound on the refreshes

ASSUME DnsAssumption == NoAddr \notin Addr /\ MaxRefresh \in Nat

VARIABLES
    addr,    \* the address the host has
    since,   \* history: the addresses it has had since the last refresh
    gen,     \* the number of the current map
    maps,    \* per map, the replaced ones too: the entry of the host
    look     \* per lookup: what it does, the map it has taken, what it has found

dnsVars == <<addr, since, gen, maps, look>>

Idle == [at |-> "idle", map |-> 0, ips |-> NoAddr]

DnsTypeOK ==
    /\ addr \in Addr /\ since \in SUBSET Addr
    /\ gen \in 0..MaxRefresh
    /\ maps \in [0..MaxRefresh -> Addr \cup {NoAddr}]
    /\ look \in [Lookup -> [at: {"idle", "load", "resolve", "store", "found", "failed"},
                            map: 0..MaxRefresh, ips: Addr \cup {NoAddr}]]

DnsInit ==
    /\ addr \in Addr /\ since = {addr}
    /\ gen = 0
    /\ maps = [g \in 0..MaxRefresh |-> NoAddr]
    /\ look = [l \in Lookup |-> Idle]

-----------------------------------------------------------------------------

\* m := d.m under the mutex
Take(l) ==
    /\ look[l].at = "idle"
    /\ look' = [look EXCEPT ![l] = [at |-> "load", map |-> gen, ips |-> NoAddr]]
    /\ UNCHANGED <<addr, since, gen, maps>>

\* m.Load(host)
Load(l) ==
    /\ look[l].at = "load"
    /\ LET ips == maps[look[l].map]
       IN  look' = [look EXCEPT ![l].at = IF ips = NoAddr THEN "resolve" ELSE "found", ![l].ips = ips]
    /\ UNCHANGED <<addr, since, gen, maps>>

\* net.LookupIP answers with what the host has now, or fails.
Resolve(l) ==
    /\ look[l].at = "resolve"
    /\ \/ look' = [look EXCEPT ![l].at = "store", ![l].ips = addr]
       \/ look' = [look EXCEPT ![l].at = "failed"]
    /\ UNCHANGED <<addr, since, gen, maps>>

\* Mutant of Store: into the map that is current by now.
StoreCurrent(l) ==
    /\ look[l].at = "store"
    /\ maps' = [maps EXCEPT ![gen] = look[l].ips]
    /\ look' = [look EXCEPT ![l].at = "found"]
    /\ UNCHANGED <<addr, since, gen>>

\* m.Store(host, ips), into the map that was taken
Store(l) ==
    /\ look[l].at = "store"
    /\ maps' = [maps EXCEPT ![look[l].map] = look[l].ips]
    /\ look' = [look EXCEPT ![l].at = "found"]
    /\ UNCHANGED <<addr, since, gen>>

\* lookup returns to a caller that nobody waits for any more.
Return(l) ==
    /\ look[l].at \in {"found", "failed"}
    /\ look' = [look EXCEPT ![l] = Idle]
    /\ UNCHANGED <<addr, since, gen, maps>>

Refresh ==
    /\ gen < MaxRefresh
    /\ gen' = gen + 1
    /\ since' = {addr}
    /\ UNCHANGED <<addr, maps, look>>

\* The host gets another address (external).
Move(a) ==
    /\ a # addr
    /\ addr' = a
    /\ since' = since \cup {a}
    /\ UNCHANGED <<gen, maps, look>>

LookupSteps(l) == Load(l) \/ Resolve(l) \/ Store(l)

-----------------------------------------------------------------------------

\* The map in use holds an address that the host has had since the last refresh,
\* however long a lookup of an earlier time takes: a slow lookup stores its
\* old answer where nobody looks any more.
DnsFresh == maps[gen] \in since \cup {NoAddr}
=============================================================================
