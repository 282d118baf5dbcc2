-------------------- MODULE ConnectionIdAllocatorProofs --------------------
(***************************************************************************)
(* Proofs about ConnectionIdAllocator: types, the uniqueness of leases and *)
(* the rotation of the ports, for any number of devices and any set of     *)
(* ranges.                                                                 *)
(***************************************************************************)
EXTENDS ConnectionIdAllocator, TLAPS

\* Positions modulo the size of the pool stay in the pool.
LEMMA InPool ==
  ASSUME NEW r \in Ranges, NEW n \in Nat
  PROVE  /\ r[1] \in Nat \ {0} /\ r[2] \in Nat \ {0}
         /\ r[1] + (n % r[2]) \in PoolOf(r)
  <1>1. r[1] \in Nat \ {0} /\ r[2] \in Nat \ {0} BY RangeAssumption
  <1>2. n % r[2] \in 0 .. r[2] - 1 BY <1>1
  <1>3. \A k \in 0 .. r[2] - 1 : r[1] + k \in PoolOf(r) BY <1>1 DEF PoolOf
  <1> QED BY <1>1, <1>2, <1>3

LEMMA PortInPool ==
  ASSUME LeasesTypeOK, NEW i \in 0 .. range[2] - 1
  PROVE  Port(i) \in Pool /\ HintAfter(Port(i)) \in Pool
  <1>1. range \in Ranges /\ range[1] \in Nat \ {0} /\ range[2] \in Nat \ {0}
    BY RangeAssumption DEF LeasesTypeOK
  <1>2. \A q \in Pool : q - range[1] \in Nat BY <1>1 DEF Pool, PoolOf
  <1>3. hint \in Pool BY DEF LeasesTypeOK
  <1>4. (hint - range[1]) + i \in Nat BY <1>1, <1>2, <1>3
  <1>5. Port(i) \in Pool BY <1>1, <1>4, InPool DEF Port, Pool
  <1>6. Port(i) - range[1] + 1 \in Nat BY <1>2, <1>5
  <1>7. HintAfter(Port(i)) \in Pool BY <1>1, <1>6, InPool DEF HintAfter, Pool
  <1> QED BY <1>5, <1>7

LEMMA PoolsAreKnown ==
  ASSUME NEW r \in Ranges
  PROVE  PoolOf(r) \subseteq AllPorts /\ r[1] \in PoolOf(r)
  <1>1. r[1] \in Nat \ {0} /\ r[2] \in Nat \ {0} BY RangeAssumption
  <1> QED BY <1>1 DEF AllPorts, PoolOf

LEMMA InitSound == LeaseInit => LeasesTypeOK /\ LeasesUnique
  <1> SUFFICES ASSUME LeaseInit PROVE LeasesTypeOK /\ LeasesUnique OBVIOUS
  <1>1. hint \in Pool BY PoolsAreKnown DEF LeaseInit, Pool
  <1>2. Leased = {} BY DEF LeaseInit, Leased
  <1> QED BY <1>1, <1>2 DEF LeaseInit, LeasesTypeOK, LeasesUnique

LEMMA NoLeaseIsNone == NoLease \notin Scid \X AllPorts
  <1>1. ASSUME NEW p \in AllPorts PROVE p \in Nat
    <2>1. PICK r \in Ranges : p \in PoolOf(r) BY DEF AllPorts
    <2> DEFINE a == r[1]
               b == r[2]
    <2>2. a \in Nat /\ b \in Nat BY RangeAssumption
    <2>3. p \in a .. a + b - 1 BY <2>1 DEF PoolOf
    <2> HIDE DEF a, b
    <2> QED BY <2>2, <2>3
  <1>2. ASSUME NoLease \in Scid \X AllPorts PROVE FALSE
    <2>1. PICK s \in Scid, p \in AllPorts : NoLease = <<s, p>> BY <1>2
    <2>2. <<s, p>> \in Scid \X Nat BY <2>1, <1>1
    <2> QED BY <2>1, <2>2, LeaseAssumption
  <1> QED BY <1>2

LEMMA AcquireSound ==
  ASSUME LeasesTypeOK, LeasesUnique, NEW o \in Owner, Acquire(o)
  PROVE  LeasesTypeOK' /\ LeasesUnique'
  <1>1. PICK s \in Scid \ scids, i \in 0 .. range[2] - 1 :
          /\ Found(i)
          /\ leases' = [leases EXCEPT ![o] = <<s, Port(i)>>]
          /\ scids' = scids \cup {s}
          /\ ports' = ports \cup {Port(i)}
          /\ hint' = HintAfter(Port(i))
          /\ since' = [q \in AllPorts |-> IF q # Port(i) /\ PortFree(q) THEN since[q] \cup {Port(i)}
                                                                 ELSE {}]
    BY DEF Acquire
  <1> DEFINE p == Port(i)
  <1>2. p \in Pool /\ HintAfter(p) \in Pool BY PortInPool
  <1>3. p \in AllPorts BY <1>2, PoolsAreKnown DEF Pool, LeasesTypeOK
  <1>4. p \notin ports BY <1>1 DEF Found, PortFree
  <1>5. UNCHANGED <<range, taken>> /\ leases[o] = NoLease BY DEF Acquire
  <1>6. leases \in [Owner -> (Scid \X AllPorts) \cup {NoLease}] BY DEF LeasesTypeOK
  <1> HIDE DEF p
  <1>7. LeasesTypeOK'
    <2>1. leases' \in [Owner -> (Scid \X AllPorts) \cup {NoLease}]
      BY <1>1, <1>3, <1>6 DEF p
    <2>2. hint' \in Pool' BY <1>1, <1>2, <1>5 DEF Pool, p
    <2>3. since' \in [AllPorts -> SUBSET AllPorts] BY <1>1, <1>3 DEF LeasesTypeOK, p
    <2> QED BY <1>1, <1>3, <1>5, <2>1, <2>2, <2>3 DEF LeasesTypeOK, p
  <1>8. \A u \in Owner : leases'[u] = IF u = o THEN <<s, p>> ELSE leases[u]
    BY <1>1, <1>6 DEF p
  <1>9. Leased' = Leased \cup {o} /\ o \notin Leased
    BY <1>3, <1>5, <1>8, NoLeaseIsNone DEF Leased
  <1>10. \A u \in Leased : leases[u][1] # s /\ leases[u][2] # p
    BY <1>1, <1>4 DEF LeasesUnique
  <1>11. scids' = {leases'[u][1] : u \in Leased'}
    BY <1>1, <1>8, <1>9 DEF LeasesUnique, Leased
  <1>12. ports' = {leases'[u][2] : u \in Leased'}
    <2>1. ports' = ports \cup {p} BY <1>1 DEF p
    <2> QED BY <2>1, <1>8, <1>9 DEF LeasesUnique, Leased
  <1>13. \A u, v \in Leased' : u # v => /\ leases'[u][1] # leases'[v][1]
                                        /\ leases'[u][2] # leases'[v][2]
    BY <1>8, <1>9, <1>10 DEF LeasesUnique, Leased
  <1> QED BY <1>7, <1>11, <1>12, <1>13 DEF LeasesUnique

LEMMA ReleaseSound ==
  ASSUME LeasesTypeOK, LeasesUnique, NEW o \in Owner, Release(o)
  PROVE  LeasesTypeOK' /\ LeasesUnique'
  <1>1. leases \in [Owner -> (Scid \X AllPorts) \cup {NoLease}] BY DEF LeasesTypeOK
  <1>2. \A u \in Owner : leases'[u] = IF u = o THEN NoLease ELSE leases[u]
    BY <1>1 DEF Release
  <1>3. LeasesTypeOK' BY <1>1 DEF Release, LeasesTypeOK, Pool
  <1>4. Leased' = Leased \ {o} /\ o \in Leased BY <1>2 DEF Leased, Release
  <1>5. scids' = {leases'[u][1] : u \in Leased'}
    BY <1>2, <1>4 DEF Release, LeasesUnique
  <1>6. ports' = {leases'[u][2] : u \in Leased'}
    BY <1>2, <1>4 DEF Release, LeasesUnique
  <1>7. \A u, v \in Leased' : u # v => /\ leases'[u][1] # leases'[v][1]
                                       /\ leases'[u][2] # leases'[v][2]
    BY <1>2, <1>4 DEF LeasesUnique, Leased
  <1> QED BY <1>3, <1>5, <1>6, <1>7 DEF LeasesUnique

LEMMA StepSound == LeasesTypeOK /\ LeasesUnique /\ [LeaseNext]_leaseVars => LeasesTypeOK' /\ LeasesUnique'
  <1> SUFFICES ASSUME LeasesTypeOK, LeasesUnique, [LeaseNext]_leaseVars PROVE LeasesTypeOK' /\ LeasesUnique'
    OBVIOUS
  <1>g. leases' = leases /\ scids' = scids /\ ports' = ports => LeasesUnique'
    BY DEF LeasesUnique, Leased
  <1>1. ASSUME NEW o \in Owner, Acquire(o) PROVE LeasesTypeOK' /\ LeasesUnique'
    BY <1>1, AcquireSound
  <1>2. ASSUME NEW o \in Owner, Release(o) PROVE LeasesTypeOK' /\ LeasesUnique'
    BY <1>2, ReleaseSound
  <1>3. ASSUME NEW r \in Ranges, SetPortRange(r) PROVE LeasesTypeOK' /\ LeasesUnique'
    <2>1. hint' \in Pool' BY <1>3, PoolsAreKnown DEF SetPortRange, Pool
    <2> QED BY <1>3, <1>g, <2>1 DEF SetPortRange, LeasesTypeOK
  <1>4. ASSUME NEW p \in AllPorts, Rebind(p) PROVE LeasesTypeOK' /\ LeasesUnique'
    BY <1>4, <1>g DEF Rebind, LeasesTypeOK, Pool
  <1>5. CASE UNCHANGED leaseVars BY <1>5, <1>g DEF leaseVars, LeasesTypeOK, Pool
  <1> QED BY <1>1, <1>2, <1>3, <1>4, <1>5 DEF LeaseNext

\* LeaseSpec => []LeasesTypeOK: in particular the hint of acquire() never leaves the pool.
THEOREM LeasesAreTyped == LeaseSpec => []LeasesTypeOK
  BY InitSound, StepSound, PTL DEF LeaseSpec

\* LeaseSpec => []LeasesUnique: no id and no port is in two leases, and m_scids and m_ports hold
\* exactly what the leases name (acquire, release, setPortRange).
THEOREM LeasesStayUnique == LeaseSpec => []LeasesUnique
  <1>1. LeasesTypeOK /\ LeasesUnique /\ [LeaseNext]_leaseVars => (LeasesTypeOK /\ LeasesUnique)' BY StepSound
  <1> QED BY <1>1, InitSound, PTL DEF LeaseSpec
-----------------------------------------------------------------------------
(* The rotation.  Seen from the hint, going round the pool, whatever was     *)
(* granted since a port was passed by lies behind that port.                *)

\* How many ports the search of acquire() looks at before x.
Ahead(x) == IF x >= hint THEN x - hint ELSE (x - hint) + range[2]

Turns ==
  /\ \A q \in AllPorts : ~PortFree(q) => since[q] = {}
  /\ \A q \in Pool : \A p \in since[q] : p \in Pool /\ Ahead(q) < Ahead(p)

LEMMA ModOnce ==
  ASSUME NEW k \in Nat, NEW n \in Nat \ {0}, k < n + n
  PROVE  k % n = IF k < n THEN k ELSE k - n
  <1>1. CASE k < n BY <1>1, SMT
  <1>2. CASE k >= n BY <1>2, SMT
  <1> QED BY <1>1, <1>2

\* The place of a port in the search, and the port at a place of it, are each other's
\* inverse.
LEMMA SearchOrder ==
  ASSUME LeasesTypeOK
  PROVE  /\ \A i \in 0 .. range[2] - 1 : Port(i) \in Pool /\ Ahead(Port(i)) = i
         /\ \A x \in Pool : Ahead(x) \in 0 .. range[2] - 1 /\ Port(Ahead(x)) = x
  <1> DEFINE f == range[1]
             n == range[2]
  <1>1. f \in Nat \ {0} /\ n \in Nat \ {0} BY RangeAssumption DEF LeasesTypeOK
  <1>2. hint \in f .. f + n - 1 BY DEF LeasesTypeOK, Pool, PoolOf
  <1>3. Pool = f .. f + n - 1 BY DEF Pool, PoolOf
  <1>4. \A i \in 0 .. n - 1 : Port(i) = f + (((hint - f) + i) % n) BY DEF Port
  <1>5. \A x : Ahead(x) = IF x >= hint THEN x - hint ELSE (x - hint) + n BY DEF Ahead
  <1> HIDE DEF f, n
  <1>6. \A i \in 0 .. n - 1 :
          Port(i) = IF (hint - f) + i < n THEN hint + i ELSE (hint + i) - n
    <2> TAKE i \in 0 .. n - 1
    <2>1. (hint - f) + i \in Nat /\ (hint - f) + i < n + n BY <1>1, <1>2
    <2>2. ((hint - f) + i) % n
            = IF (hint - f) + i < n THEN (hint - f) + i ELSE ((hint - f) + i) - n
      BY <1>1, <2>1, ModOnce
    <2> QED BY <1>1, <1>2, <1>4, <2>2
  <1>7. \A i \in 0 .. n - 1 : Port(i) \in Pool /\ Ahead(Port(i)) = i
    BY <1>1, <1>2, <1>3, <1>5, <1>6
  <1>8. \A x \in Pool : Ahead(x) \in 0 .. n - 1 BY <1>1, <1>2, <1>3, <1>5
  <1>9. ASSUME NEW x \in Pool PROVE Port(Ahead(x)) = x
    <2>1. Port(Ahead(x)) = IF (hint - f) + Ahead(x) < n THEN hint + Ahead(x)
                           ELSE (hint + Ahead(x)) - n
      BY <1>6, <1>8
    <2>2. CASE x >= hint
      <3>1. Ahead(x) = x - hint BY <1>5, <2>2
      <3> QED BY <1>1, <1>2, <1>3, <2>1, <3>1
    <2>3. CASE x < hint
      <3>1. Ahead(x) = (x - hint) + n BY <1>1, <1>2, <1>3, <1>5, <2>3
      <3> QED BY <1>1, <1>2, <1>3, <2>1, <2>3, <3>1
    <2> QED BY <1>1, <1>2, <1>3, <2>2, <2>3
  <1> QED BY <1>7, <1>8, <1>9 DEF n

\* A port that acquire() passes by is not free: what is free and not granted lies behind
\* what is.
LEMMA FreeLiesBehind ==
  ASSUME LeasesTypeOK, NEW i \in 0 .. range[2] - 1, Found(i),
         NEW q \in Pool, PortFree(q), q # Port(i)
  PROVE  Ahead(q) > Ahead(Port(i))
  <1>1. Ahead(Port(i)) = i BY SearchOrder
  <1>2. Ahead(q) \in 0 .. range[2] - 1 /\ Port(Ahead(q)) = q BY SearchOrder
  <1>3. Ahead(q) # i BY <1>2
  <1>4. ~(Ahead(q) \in 0 .. i - 1) BY <1>2 DEF Found
  <1> QED BY <1>1, <1>2, <1>3, <1>4

\* The new hint turns the order so that the granted port is the last.
LEMMA HintTurns ==
  ASSUME LeasesTypeOK, NEW p \in Pool, hint' = HintAfter(p), UNCHANGED range
  PROVE  /\ Pool' = Pool
         /\ \A x \in Pool : Ahead(x)' = IF Ahead(x) > Ahead(p) THEN (Ahead(x) - Ahead(p)) - 1
                                      ELSE ((Ahead(x) - Ahead(p)) - 1) + range[2]
  <1> DEFINE f == range[1]
             n == range[2]
  <1>1. f \in Nat \ {0} /\ n \in Nat \ {0} BY RangeAssumption DEF LeasesTypeOK
  <1>2. hint \in f .. f + n - 1 BY DEF LeasesTypeOK, Pool, PoolOf
  <1>3. Pool = f .. f + n - 1 /\ Pool' = Pool BY DEF Pool, PoolOf
  <1>4. hint' = f + (((p - f) + 1) % n) BY DEF HintAfter
  <1>5. \A x : /\ Ahead(x) = IF x >= hint THEN x - hint ELSE (x - hint) + n
              /\ Ahead(x)' = IF x >= hint' THEN x - hint' ELSE (x - hint') + n
    BY DEF Ahead
  <1> HIDE DEF f, n
  <1>6. hint' = IF (p - f) + 1 < n THEN p + 1 ELSE f
    <2>1. (p - f) + 1 \in Nat /\ (p - f) + 1 < n + n BY <1>1, <1>3
    <2>2. ((p - f) + 1) % n = IF (p - f) + 1 < n THEN (p - f) + 1 ELSE ((p - f) + 1) - n
      BY <1>1, <2>1, ModOnce
    <2> QED BY <1>1, <1>3, <1>4, <2>2
  <1>7. ASSUME NEW x \in Pool
        PROVE  Ahead(x)' = IF Ahead(x) > Ahead(p) THEN (Ahead(x) - Ahead(p)) - 1
                           ELSE ((Ahead(x) - Ahead(p)) - 1) + n
    <2> DEFINE a == Ahead(x)
               b == Ahead(p)
               c == Ahead(x)'
    <2>1. /\ a = IF x >= hint THEN x - hint ELSE (x - hint) + n
          /\ b = IF p >= hint THEN p - hint ELSE (p - hint) + n
          /\ c = IF x >= hint' THEN x - hint' ELSE (x - hint') + n
      BY <1>5
    <2>2. x \in f .. f + n - 1 /\ p \in f .. f + n - 1 BY <1>3
    <2> HIDE DEF a, b, c
    <2>3. CASE p = f + n - 1
      <3>1. hint' = f BY <1>1, <1>6, <2>3
      <3> QED BY <1>1, <1>2, <2>1, <2>2, <2>3, <3>1 DEF a, b, c
    <2>4. CASE p # f + n - 1
      <3>1. hint' = p + 1 BY <1>1, <1>6, <2>2, <2>4
      <3> QED BY <1>1, <1>2, <2>1, <2>2, <2>4, <3>1 DEF a, b, c
    <2> QED BY <2>3, <2>4
  <1> QED BY <1>3, <1>7 DEF n

LEMMA AcquireTurns ==
  ASSUME LeasesTypeOK, Turns, NEW o \in Owner, Acquire(o)
  PROVE  /\ Turns'
         /\ \A p \in ports' \ ports, q \in Pool : q # p /\ PortFree(q) => p \notin since[q]
  <1>1. PICK s \in Scid \ scids, i \in 0 .. range[2] - 1 :
          /\ Found(i)
          /\ ports' = ports \cup {Port(i)}
          /\ hint' = HintAfter(Port(i))
          /\ since' = [q \in AllPorts |-> IF q # Port(i) /\ PortFree(q) THEN since[q] \cup {Port(i)}
                                                                 ELSE {}]
    BY DEF Acquire
  <1> DEFINE g == Port(i)
  <1>2. g \in Pool /\ UNCHANGED <<range, taken>> BY <1>1, SearchOrder DEF Acquire
  <1>3. Pool \subseteq AllPorts BY PoolsAreKnown DEF LeasesTypeOK, Pool
  <1>4. \A q \in Pool : PortFree(q) /\ q # g => Ahead(q) > Ahead(g) BY <1>1, FreeLiesBehind
  <1>5. \A x \in Pool : Ahead(x) \in 0 .. range[2] - 1 BY SearchOrder
  <1>6. range[2] \in Nat \ {0} BY RangeAssumption DEF LeasesTypeOK
  <1>7. hint' = HintAfter(g) /\ ports' = ports \cup {g} BY <1>1
  <1>8. \A q \in AllPorts : since'[q] = IF q # g /\ PortFree(q) THEN since[q] \cup {g} ELSE {}
    BY <1>1
  <1> HIDE DEF g
  <1>9. /\ Pool' = Pool
        /\ \A x \in Pool : Ahead(x)' = IF Ahead(x) > Ahead(g) THEN (Ahead(x) - Ahead(g)) - 1
                                     ELSE ((Ahead(x) - Ahead(g)) - 1) + range[2]
    BY <1>2, <1>7, HintTurns
  <1>10. \A q \in AllPorts : ~PortFree(q)' => since'[q] = {}
    BY <1>2, <1>7, <1>8 DEF PortFree
  <1>11. ASSUME NEW q \in Pool, NEW p \in since'[q]
         PROVE  p \in Pool /\ Ahead(q)' < Ahead(p)'
    <2>1. q # g /\ PortFree(q) /\ p \in since[q] \cup {g} BY <1>3, <1>8, <1>11
    <2>2. Ahead(q) > Ahead(g) BY <1>4, <2>1
    <2>3. CASE p = g BY <1>2, <1>5, <1>6, <1>9, <2>2, <2>3
    <2>4. CASE p \in since[q]
      <3>1. p \in Pool /\ Ahead(q) < Ahead(p) BY <2>4 DEF Turns
      <3> QED BY <1>2, <1>5, <1>6, <1>9, <2>2, <3>1
    <2> QED BY <2>1, <2>3, <2>4
  <1>12. Turns' BY <1>9, <1>10, <1>11 DEF Turns
  <1>13. ASSUME NEW q \in Pool, q # g, PortFree(q) PROVE g \notin since[q]
    <2>1. Ahead(q) > Ahead(g) BY <1>4, <1>13
    <2>2. g \in since[q] => Ahead(q) < Ahead(g) BY DEF Turns
    <2> QED BY <1>2, <1>5, <2>1, <2>2
  <1> QED BY <1>7, <1>12, <1>13

LEMMA StepTurns ==
  ASSUME LeasesTypeOK, Turns, [LeaseNext]_leaseVars
  PROVE  /\ Turns'
         /\ \A p \in ports' \ ports, q \in Pool : q # p /\ PortFree(q) => p \notin since[q]
  <1>1. ASSUME NEW o \in Owner, Release(o) PROVE Turns' /\ ports' \subseteq ports
    <2>1. /\ Pool' = Pool /\ since' = since /\ \A x : Ahead(x)' = Ahead(x)
          /\ ports' \subseteq ports /\ taken' = taken
      BY <1>1 DEF Release, Pool, Ahead
    <2> QED BY <2>1 DEF Turns, PortFree
  <1>2. ASSUME NEW r \in Ranges, SetPortRange(r) PROVE Turns' /\ ports' \subseteq ports
    <2>1. \A q \in AllPorts : since'[q] = {} BY <1>2 DEF SetPortRange
    <2>2. Pool' \subseteq AllPorts BY <1>2, PoolsAreKnown DEF SetPortRange, Pool
    <2> QED BY <1>2, <2>1, <2>2 DEF SetPortRange, Turns
  <1>3. ASSUME NEW b \in AllPorts, Rebind(b) PROVE Turns' /\ ports' \subseteq ports
    <2>1. /\ Pool' = Pool /\ ports' = ports /\ \A x : Ahead(x)' = Ahead(x)
          /\ taken' = IF b \in taken THEN taken \ {b} ELSE taken \cup {b}
      BY <1>3 DEF Rebind, Pool, Ahead
    <2>2. \A q \in AllPorts : since'[q] = IF q = b THEN {} ELSE since[q]
      BY <1>3 DEF Rebind, LeasesTypeOK
    <2>3. Pool \subseteq AllPorts BY PoolsAreKnown DEF LeasesTypeOK, Pool
    <2>4. \A q \in AllPorts : q # b => (PortFree(q)' <=> PortFree(q)) BY <2>1 DEF PortFree
    <2> QED BY <2>1, <2>2, <2>3, <2>4 DEF Turns
  <1>4. CASE UNCHANGED leaseVars
    <2>1. /\ Pool' = Pool /\ since' = since /\ \A x : Ahead(x)' = Ahead(x)
          /\ ports' = ports /\ taken' = taken
      BY <1>4 DEF leaseVars, Pool, Ahead
    <2> QED BY <2>1 DEF Turns, PortFree
  <1> QED BY <1>1, <1>2, <1>3, <1>4, AcquireTurns DEF LeaseNext

\* No port is granted twice while another one of the pool could have been granted all
\* along, whatever is acquired, released and bound by other programs in between.
THEOREM PortsAlwaysTakeTurns == LeaseSpec => PortsTakeTurns
  <1>1. LeaseInit => Turns
    <2> SUFFICES ASSUME LeaseInit PROVE Turns OBVIOUS
    <2>1. Pool \subseteq AllPorts BY PoolsAreKnown DEF LeaseInit, Pool
    <2> QED BY <2>1 DEF LeaseInit, Turns
  <1>2. LeasesTypeOK /\ Turns /\ [LeaseNext]_leaseVars =>
          /\ Turns'
          /\ [\A p \in ports' \ ports, q \in Pool : q # p /\ PortFree(q) => p \notin since[q]]_leaseVars
    BY StepTurns
  <1> QED BY <1>1, <1>2, LeasesAreTyped, PTL DEF LeaseSpec, PortsTakeTurns
=============================================================================
