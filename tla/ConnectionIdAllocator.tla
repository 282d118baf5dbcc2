----------------------- MODULE ConnectionIdAllocator -----------------------
(***************************************************************************)
(* Leases of a session id and a tunnel port for each mirrored device       *)
(* (farm/devices/connectionidallocator.cpp).  Every operation holds        *)
(* m_mutex from end to end, so each is one step.  An acquire that fails,   *)
(* or finds the owner's lease, changes nothing and is no step.             *)
(*                                                                         *)
(* An operator called a faulty variant is the definition below it with a   *)
(* bug a programmer could plausibly have written; nothing uses it.         *)
(***************************************************************************)
EXTENDS Integers

CONSTANTS
  Owner,    \* device ids
  Scid,     \* the non-zero session ids the random draws can give
  NoLease,
  Firsts,   \* the first ports and
  Counts    \* the numbers of ports the program may be set to use

\* A port range is <<first, count>>.
Ranges == Firsts \X Counts

\* Ports are quint16: a range that stays within 1 .. 65535 never wraps.
ASSUME RangeAssumption ==
  \A r \in Ranges : /\ r \in (Nat \ {0}) \X (Nat \ {0})
                    /\ r[1] + r[2] <= 65536
ASSUME LeaseAssumption == NoLease \notin Scid \X Nat

VARIABLES
  leases,  \* m_leases
  scids,   \* m_scids
  ports,   \* m_ports
  range,   \* <<m_firstPort, m_portCount>>
  hint,    \* m_nextPortHint
  taken,   \* the ports other programs hold (portFree)
  since    \* history: the ports granted since a port was last granted or not free

leaseVars == <<leases, scids, ports, range, hint, taken, since>>

PoolOf(r) == r[1] .. r[1] + r[2] - 1
Pool      == PoolOf(range)
AllPorts  == UNION {PoolOf(r) : r \in Ranges}

PortFree(p) == p \notin ports /\ p \notin taken

\* Faulty variant: the search begins at the first port of the pool.
PortFromStart(i) == range[1] + (i % range[2])

\* The i-th port the search of acquire() looks at.
Port(i) == range[1] + (((hint - range[1]) + i) % range[2])

\* The search ends at its i-th port.
Found(i) == PortFree(Port(i)) /\ \A j \in 0 .. i - 1 : ~PortFree(Port(j))

\* Faulty variant: the hint is not brought back into the pool.
HintAfterUnwrapped(p) == p + 1

HintAfter(p) == range[1] + ((p - range[1] + 1) % range[2])

Acquire(o) ==
  /\ leases[o] = NoLease
  /\ \E s \in Scid \ scids, i \in 0 .. range[2] - 1 :
       /\ Found(i)
       /\ leases' = [leases EXCEPT ![o] = <<s, Port(i)>>]
       /\ scids' = scids \cup {s}
       /\ ports' = ports \cup {Port(i)}
       /\ hint' = HintAfter(Port(i))
       /\ since' = [q \in AllPorts |-> IF q # Port(i) /\ PortFree(q) THEN since[q] \cup {Port(i)}
                                                              ELSE {}]
  /\ UNCHANGED <<range, taken>>

\* Faulty variant: the session id is not given back.
ReleaseKeepingScid(o) ==
  /\ leases[o] # NoLease
  /\ leases' = [leases EXCEPT ![o] = NoLease]
  /\ ports' = ports \ {leases[o][2]}
  /\ UNCHANGED <<scids, range, hint, taken, since>>

Release(o) ==
  /\ leases[o] # NoLease
  /\ leases' = [leases EXCEPT ![o] = NoLease]
  /\ scids' = scids \ {leases[o][1]}
  /\ ports' = ports \ {leases[o][2]}
  /\ UNCHANGED <<range, hint, taken, since>>

\* The leases of the old range stay.
SetPortRange(r) ==
  /\ range' = r /\ hint' = r[1]
  /\ since' = [q \in AllPorts |-> {}]
  /\ UNCHANGED <<leases, scids, ports, taken>>

\* Another program binds a port, or lets it go.
Rebind(p) ==
  /\ taken' = IF p \in taken THEN taken \ {p} ELSE taken \cup {p}
  /\ since' = [since EXCEPT ![p] = {}]
  /\ UNCHANGED <<leases, scids, ports, range, hint>>

LeaseInit ==
  /\ leases = [o \in Owner |-> NoLease] /\ scids = {} /\ ports = {}
  /\ range \in Ranges /\ hint = range[1]
  /\ taken = {} /\ since = [q \in AllPorts |-> {}]

LeaseNext == \/ \E o \in Owner : Acquire(o) \/ Release(o)
        \/ \E r \in Ranges : SetPortRange(r)
        \/ \E p \in AllPorts : Rebind(p)

LeaseSpec == LeaseInit /\ [][LeaseNext]_leaseVars

-----------------------------------------------------------------------------
(* Properties.                                                             *)

LeasesTypeOK ==
  /\ leases \in [Owner -> (Scid \X AllPorts) \cup {NoLease}]
  /\ scids \subseteq Scid /\ ports \subseteq AllPorts
  /\ range \in Ranges /\ hint \in Pool
  /\ taken \subseteq AllPorts /\ since \in [AllPorts -> SUBSET AllPorts]

Leased == {o \in Owner : leases[o] # NoLease}

\* connectionidallocator.h:18-19: an id or a port is never handed out twice while in use,
\* and it is in use exactly as long as somebody's lease names it, however acquire, release
\* and changes of the range follow one another.
LeasesUnique ==
  /\ \A o, u \in Leased : o # u => leases[o][1] # leases[u][1] /\ leases[o][2] # leases[u][2]
  /\ scids = {leases[o][1] : o \in Leased}
  /\ ports = {leases[o][2] : o \in Leased}

\* The rotation keeps a just-released port out of use (TIME_WAIT): no port is granted twice
\* while another one of the pool could have been granted all along.
PortsTakeTurns ==
  [][\A p \in ports' \ ports, q \in Pool : q # p /\ PortFree(q) => p \notin since[q]]_leaseVars
=============================================================================
