------------------------- MODULE DeviceRegistryProofs -------------------------
(***************************************************************************)
(* Proofs about DeviceRegistry: the numbers given out are free, nothing an  *)
(* operator set is forgotten, and no device is in a group that is not there, *)
(* for any set of devices and of names.                                     *)
(***************************************************************************)
EXTENDS DeviceRegistry, FiniteSetTheorems, WellFoundedInduction, TLAPS

(* Automatic numbers *)

\* The numbers have a least one in every set of them.
LEMMA LeastNat ==
  ASSUME NEW T \in SUBSET Nat, T # {}
  PROVE  \E n \in T : \A m \in T : n <= m
  <1> DEFINE U == {1 .. n : n \in T}
             R == StrictSubsetOrdering(Nat)
  <1>1. U \subseteq FiniteSubsetsOf(Nat)
    <2>1. \A n \in T : IsFiniteSet(1 .. n) /\ 1 .. n \subseteq Nat BY FS_Interval
    <2> QED BY <2>1 DEF FiniteSubsetsOf
  <1>2. U # {} OBVIOUS
  <1>3. IsWellFoundedOn(R, FiniteSubsetsOf(Nat)) BY FS_StrictSubsetOrderingWellFounded
  <1> HIDE DEF U, R
  <1>4. PICK x \in U : \A y \in U : <<y, x>> \notin R BY <1>1, <1>2, <1>3, WFMin
  <1>5. PICK n \in T : x = 1 .. n BY DEF U
  <1>6. ASSUME NEW m \in T, m < n PROVE FALSE
    <2>1. 1 .. m \in U /\ <<1 .. m, 1 .. n>> \notin R BY <1>4, <1>5 DEF U
    <2>2. n \in 1 .. n /\ n \notin 1 .. m /\ 1 .. m \subseteq 1 .. n BY <1>6
    <2>3. 1 .. m \in SUBSET Nat /\ 1 .. n \in SUBSET Nat OBVIOUS
    <2> QED BY <2>1, <2>2, <2>3 DEF R, StrictSubsetOrdering
  <1> QED BY <1>6

\* How many of the first n numbers are free.
FreeUpTo(used, n) == Cardinality((1 .. n) \ used)

LEMMA FreeUpToCounts ==
  ASSUME NEW used \in SUBSET Nat, IsFiniteSet(used), NEW n \in Nat
  PROVE  /\ FreeUpTo(used, n) \in Nat
         /\ FreeUpTo(used, 0) = 0
         /\ n # 0 => FreeUpTo(used, n) =
                        IF n \in used THEN FreeUpTo(used, n - 1) ELSE FreeUpTo(used, n - 1) + 1
         /\ FreeUpTo(used, n) >= n - Cardinality(used)
  <1>1. \A k \in Nat : IsFiniteSet(1 .. k) /\ Cardinality(1 .. k) = k BY FS_Interval
  <1>2. \A k \in Nat : IsFiniteSet((1 .. k) \ used) BY <1>1, FS_Difference
  <1>3. FreeUpTo(used, n) \in Nat BY <1>2, FS_CardinalityType DEF FreeUpTo
  <1>4. FreeUpTo(used, 0) = 0
    <2>1. (1 .. 0) \ used = {} OBVIOUS
    <2> QED BY <2>1, FS_EmptySet DEF FreeUpTo
  <1>5. ASSUME n # 0
        PROVE  FreeUpTo(used, n) =
                 IF n \in used THEN FreeUpTo(used, n - 1) ELSE FreeUpTo(used, n - 1) + 1
    <2> DEFINE before == (1 .. n - 1) \ used
    <2>1. IsFiniteSet(before) /\ n \notin before BY <1>2, <1>5
    <2>2. 1 .. n = (1 .. n - 1) \cup {n} BY <1>5
    <2>3. (1 .. n) \ used = IF n \in used THEN before ELSE before \cup {n} BY <2>2
    <2> HIDE DEF before
    <2>4. Cardinality(before \cup {n}) = Cardinality(before) + 1 BY <2>1, FS_AddElement
    <2> QED BY <2>3, <2>4 DEF FreeUpTo, before
  <1>6. FreeUpTo(used, n) >= n - Cardinality(used)
    <2>1. FreeUpTo(used, n) = n - Cardinality((1 .. n) \cap used) BY <1>1, FS_Difference DEF FreeUpTo
    <2>2. Cardinality((1 .. n) \cap used) <= Cardinality(used) BY FS_Intersection
    <2>3. Cardinality((1 .. n) \cap used) \in Nat /\ Cardinality(used) \in Nat
      BY FS_Intersection, FS_CardinalityType
    <2> QED BY <2>1, <2>2, <2>3
  <1> QED BY <1>3, <1>4, <1>5, <1>6

\* The k-th free number exists: it is positive, nobody has it, and k - 1 free ones are below.
LEMMA FreeIsFree ==
  ASSUME NEW used \in SUBSET Nat, IsFiniteSet(used), NEW k \in Nat \ {0}
  PROVE  /\ Free(used, k) \in Nat \ {0}
         /\ Free(used, k) \notin used
         /\ FreeUpTo(used, Free(used, k)) = k
  <1> DEFINE top == k + Cardinality(used)
             T == {n \in 0 .. top : FreeUpTo(used, n) >= k}
  <1>1. top \in Nat /\ Cardinality(used) \in Nat BY FS_CardinalityType
  <1>2. top \in T
    <2>1. FreeUpTo(used, top) \in Nat /\ FreeUpTo(used, top) >= top - Cardinality(used)
      BY <1>1, FreeUpToCounts
    <2> QED BY <1>1, <2>1
  <1>3. PICK n \in T : \A m \in T : n <= m
    <2>1. T \in SUBSET Nat /\ T # {} BY <1>1, <1>2
    <2> HIDE DEF T
    <2> QED BY <2>1, LeastNat
  <1>4. n \in Nat /\ n <= top /\ FreeUpTo(used, n) >= k BY <1>1
  <1>5. n # 0 BY <1>4, FreeUpToCounts
  <1>6. n - 1 \in 0 .. top /\ n - 1 \notin T BY <1>1, <1>3, <1>4, <1>5
  <1>7. FreeUpTo(used, n - 1) < k /\ FreeUpTo(used, n - 1) \in Nat
    BY <1>6, FreeUpToCounts
  <1>8. n \notin used /\ FreeUpTo(used, n) = k BY <1>4, <1>5, <1>7, FreeUpToCounts
  <1>9. n \in 1 .. top BY <1>1, <1>4, <1>5
  <1> DEFINE f == CHOOSE m \in 1 .. top : m \notin used /\ FreeUpTo(used, m) = k
  <1>10. f \in 1 .. top /\ f \notin used /\ FreeUpTo(used, f) = k BY <1>8, <1>9
  <1>11. f = Free(used, k) BY DEF Free, FreeUpTo
  <1> HIDE DEF f
  <1> QED BY <1>1, <1>10, <1>11

Table == [Devices -> Record]

\* The place of d among the devices without a number, in the order of addresses.
Rank(devs, d) == Cardinality({e \in Unnumbered(devs) : e <= d})

LEMMA RanksAreDistinct ==
  ASSUME NEW devs \in Table, NEW d \in Unnumbered(devs)
  PROVE  /\ Rank(devs, d) \in Nat \ {0}
         /\ \A e \in Unnumbered(devs) : e < d => Rank(devs, e) < Rank(devs, d)
  <1> DEFINE U == Unnumbered(devs)
             Upto(e) == {x \in U : x <= e}
  <1>1. U \subseteq Devices /\ IsFiniteSet(Devices) /\ Devices \subseteq Nat
    BY DevicesAreOrdered DEF Unnumbered, Known
  <1>2. IsFiniteSet(U) BY <1>1, FS_Subset
  <1> HIDE DEF U
  <1>3. \A e \in U : IsFiniteSet(Upto(e)) /\ Cardinality(Upto(e)) \in Nat /\ e \in Upto(e)
    <2> SUFFICES ASSUME NEW e \in U PROVE IsFiniteSet(Upto(e)) /\ Cardinality(Upto(e)) \in Nat /\ e \in Upto(e)
      OBVIOUS
    <2>1. Upto(e) \in SUBSET U OBVIOUS
    <2>2. IsFiniteSet(Upto(e)) BY <1>2, <2>1, FS_Subset
    <2> QED BY <1>1, <2>2, FS_CardinalityType
  <1>4. d \in U BY DEF U
  <1>5. Cardinality(Upto(d)) # 0 BY <1>3, <1>4, FS_EmptySet
  <1>6. ASSUME NEW e \in U, e < d PROVE Cardinality(Upto(e)) < Cardinality(Upto(d))
    <2>0. d \in Nat /\ e \in Nat /\ (\A x \in U : x \in Nat) BY <1>1, <1>4
    <2>3. \A x \in U : x <= e => x <= d BY <1>6, <2>0
    <2>4. ~(d <= e) BY <1>6, <2>0
    <2>1. Upto(e) \subseteq Upto(d) /\ d \notin Upto(e) BY <2>3, <2>4
    <2> HIDE DEF Upto
    <2>2. Cardinality(Upto(e)) <= Cardinality(Upto(d)) /\ Cardinality(Upto(e)) # Cardinality(Upto(d))
      BY <1>3, <1>4, <2>1, FS_Subset
    <2> QED BY <1>3, <1>4, <2>2
  <1>7. \A e \in U : Rank(devs, e) = Cardinality(Upto(e)) BY DEF Rank, U
  <1> HIDE DEF Upto
  <1> QED BY <1>3, <1>4, <1>5, <1>6, <1>7 DEF U

LEMMA UsedIsFinite ==
  ASSUME NEW devs \in Table
  PROVE  Used(devs) \in SUBSET Nat /\ IsFiniteSet(Used(devs))
  <1> DEFINE S == Known(devs)
             P == S \ Unnumbered(devs)
             f == [d \in P |-> devs[d].number]
  <1>1. S \subseteq Devices /\ IsFiniteSet(S)
    <2>1. S \in SUBSET Devices BY DEF Known
    <2> QED BY <2>1, DevicesAreOrdered, FS_Subset
  <1>2. IsFiniteSet(P) BY <1>1, FS_Difference
  <1>3. f \in Surjection(P, Used(devs)) BY DEF Surjection, Used
  <1>4. IsFiniteSet(Used(devs))
    <2> HIDE DEF P, f
    <2> QED BY <1>2, <1>3, FS_Surjection
  <1>5. \A d \in P : devs[d].number \in Int /\ ~(devs[d].number <= 0)
    BY <1>1 DEF Table, Record, Unnumbered
  <1>6. \A d \in P : devs[d].number \in Nat BY <1>5
  <1>7. Used(devs) = {devs[d].number : d \in P} BY DEF Used
  <1> HIDE DEF P
  <1> QED BY <1>4, <1>6, <1>7

\* autoNumber, for any table: a device that has a positive number keeps it, and each of the
\* others is given one that is positive, that no device had, and that no other is given.
THEOREM NumbersAreFree ==
  ASSUME NEW devs \in Table
  PROVE  /\ AutoNumbered(devs) \in Table
         /\ \A d \in Devices :
               /\ AutoNumbered(devs)[d].known = devs[d].known
               /\ AutoNumbered(devs)[d].group = devs[d].group
               /\ d \notin Unnumbered(devs) => AutoNumbered(devs)[d] = devs[d]
         /\ \A d \in Unnumbered(devs) :
               /\ AutoNumbered(devs)[d].number \in Nat \ {0}
               /\ \A e \in Known(devs) \ {d} :
                     AutoNumbered(devs)[e].number # AutoNumbered(devs)[d].number
  <1> DEFINE U == Unnumbered(devs)
             new(d) == Free(Used(devs), Rank(devs, d))
  <1>1. \A d \in Devices : AutoNumbered(devs)[d] = IF d \in U THEN [devs[d] EXCEPT !.number = new(d)]
                                                   ELSE devs[d]
    BY DEF AutoNumbered, Rank
  <1>2. \A d \in U : /\ new(d) \in Nat \ {0} /\ new(d) \notin Used(devs)
                     /\ FreeUpTo(Used(devs), new(d)) = Rank(devs, d)
    BY UsedIsFinite, RanksAreDistinct, FreeIsFree
  <1>3. U \subseteq Known(devs) /\ Known(devs) \subseteq Devices /\ Devices \subseteq Nat
    BY DevicesAreOrdered DEF Unnumbered, Known
  <1>4. AutoNumbered(devs) = [d \in Devices |-> AutoNumbered(devs)[d]] BY DEF AutoNumbered
  <1> HIDE DEF new
  <1>5. \A d \in Devices : devs[d] \in Record BY DEF Table
  <1>6. \A d \in Devices : AutoNumbered(devs)[d] \in Record
    <2> SUFFICES ASSUME NEW d \in Devices PROVE AutoNumbered(devs)[d] \in Record OBVIOUS
    <2>1. CASE d \in U
      <3>1. new(d) \in Int BY <1>2, <2>1
      <3>2. [devs[d] EXCEPT !.number = new(d)] \in Record BY <1>5, <3>1 DEF Record
      <3> QED BY <1>1, <2>1, <3>2
    <2>2. CASE d \notin U BY <1>1, <1>5, <2>2
    <2> QED BY <2>1, <2>2
  <1>7. AutoNumbered(devs) \in Table BY <1>4, <1>6 DEF Table
  <1>8. ASSUME NEW d \in Devices
        PROVE  /\ AutoNumbered(devs)[d].known = devs[d].known
               /\ AutoNumbered(devs)[d].group = devs[d].group
               /\ d \notin U => AutoNumbered(devs)[d] = devs[d]
               /\ d \in U => AutoNumbered(devs)[d].number = new(d)
    BY <1>1, <1>5 DEF Record
  <1>9. ASSUME NEW d \in U, NEW e \in Known(devs) \ {d}
        PROVE  AutoNumbered(devs)[e].number # new(d)
    <2>1. CASE e \in U
      <3>1. Rank(devs, e) # Rank(devs, d)
        <4>1. d \in Nat /\ e \in Nat BY <1>3
        <4>3. e < d \/ d < e BY <4>1
        <4>2. Rank(devs, e) \in Nat /\ Rank(devs, d) \in Nat BY <2>1, RanksAreDistinct
        <4> QED BY <4>3, <4>2, <2>1, RanksAreDistinct
      <3> QED BY <1>2, <1>3, <1>8, <2>1, <3>1
    <2>2. CASE e \notin U
      <3>1. AutoNumbered(devs)[e].number = devs[e].number BY <1>3, <1>8, <2>2
      <3>2. devs[e].number \in Used(devs) BY <2>2 DEF Used
      <3> QED BY <1>2, <3>1, <3>2
    <2> QED BY <2>1, <2>2
  <1>10. ASSUME NEW d \in U
         PROVE  /\ AutoNumbered(devs)[d].number \in Nat \ {0}
                /\ \A e \in Known(devs) \ {d} :
                      AutoNumbered(devs)[e].number # AutoNumbered(devs)[d].number
    <2>1. d \in Devices BY <1>3
    <2> QED BY <1>2, <1>8, <1>9, <2>1
  <1> QED BY <1>7, <1>8, <1>10
-----------------------------------------------------------------------------
(* The inductive invariant *)

TypeOK ==
  /\ m_devices \in Table
  /\ rows \in Table
  /\ m_groups \in SUBSET Groups
  /\ groupRows \in SUBSET Groups
  /\ m_dirty \in SUBSET Devices
  /\ flushTimer \in BOOLEAN
  /\ failed \in BOOLEAN

\* A device that is not in the table has no group there.
StrangersHaveNoGroup(table) == \A d \in Devices : ~table[d].known => table[d].group = NoGroup

\* Only a device of the registry waits to be written, and while every write was taken
\* the groups of the registry are those of the table.
TablesAgree ==
  /\ \A d \in m_dirty : m_devices[d].known
  /\ ~failed => m_groups = groupRows

IInv ==
  /\ TypeOK
  /\ RegistryIsSaved
  /\ MembersHaveTheirGroup
  /\ TablesAgree
  /\ StrangersHaveNoGroup(m_devices)
  /\ StrangersHaveNoGroup(rows)

\* A handler that gives the table new records, marks at least those that changed, and
\* puts nobody into a group that is not there.
LEMMA ChangedSound ==
  ASSUME IInv, NEW devs \in Table, NEW ds \in SUBSET Devices,
         Changed(devs, ds), NoWrite, UNCHANGED m_groups,
         \A d \in Devices :
            /\ m_devices[d].known => devs[d].known
            /\ d \in ds => devs[d].known
            /\ d \notin ds => devs[d] = m_devices[d]
            /\ ~devs[d].known => devs[d].group = NoGroup
            /\ ~failed => devs[d].group \in m_groups \cup {NoGroup}
  PROVE  IInv'
  <1>1. TypeOK' BY DEF IInv, TypeOK, Changed, NoWrite
  <1>2. RegistryIsSaved' BY DEF IInv, TypeOK, RegistryIsSaved, Changed, NoWrite
  <1>3. MembersHaveTheirGroup' BY DEF IInv, TypeOK, MembersHaveTheirGroup, Changed, NoWrite
  <1>4. TablesAgree' BY DEF IInv, TypeOK, TablesAgree, Changed, NoWrite
  <1>5. StrangersHaveNoGroup(m_devices)' /\ StrangersHaveNoGroup(rows)'
    BY DEF IInv, StrangersHaveNoGroup, Changed, NoWrite
  <1> QED BY <1>1, <1>2, <1>3, <1>4, <1>5 DEF IInv

LEMMA AddedKeeps ==
  ASSUME NEW devs \in Table, NEW ds \in SUBSET Devices
  PROVE  /\ Added(devs, ds) \in Table
         /\ \A d \in Devices :
               /\ Added(devs, ds)[d].group = devs[d].group
               /\ Added(devs, ds)[d].known <=> devs[d].known \/ d \in ds
               /\ d \notin ds => Added(devs, ds)[d] = devs[d]
  BY DEF Added, Table, Record

LEMMA ListingSound ==
  ASSUME IInv, NEW listed \in SUBSET Devices, Listing(listed)
  PROVE  IInv'
  <1> DEFINE up == Added(m_devices, listed)
             ds == listed \cup Unnumbered(up)
             devs == AutoNumbered(up)
  <1>1. m_devices \in Table BY DEF IInv, TypeOK
  <1>2. up \in Table BY <1>1, AddedKeeps
  <1>3. \A d \in Devices : /\ up[d].group = m_devices[d].group
                           /\ up[d].known <=> m_devices[d].known \/ d \in listed
                           /\ d \notin listed => up[d] = m_devices[d]
    BY <1>1, AddedKeeps
  <1>4. devs \in Table /\ \A d \in Devices : /\ devs[d].known = up[d].known
                                             /\ devs[d].group = up[d].group
                                             /\ d \notin Unnumbered(up) => devs[d] = up[d]
    BY <1>2, NumbersAreFree
  <1>5. Changed(devs, ds) /\ NoWrite /\ UNCHANGED m_groups BY DEF Listing
  <1>6. ds \in SUBSET Devices /\ \A d \in Unnumbered(up) : up[d].known BY DEF Unnumbered, Known
  <1> HIDE DEF up, devs
  <1>7. \A d \in Devices : /\ ~m_devices[d].known => m_devices[d].group = NoGroup
                           /\ ~failed => m_devices[d].group \in m_groups \cup {NoGroup}
    BY DEF IInv, StrangersHaveNoGroup, MembersHaveTheirGroup
  <1>8. \A d \in Devices :
            /\ m_devices[d].known => devs[d].known
            /\ d \in ds => devs[d].known
            /\ d \notin ds => devs[d] = m_devices[d]
            /\ ~devs[d].known => devs[d].group = NoGroup
            /\ ~failed => devs[d].group \in m_groups \cup {NoGroup}
    BY <1>3, <1>4, <1>6, <1>7
  <1> HIDE DEF ds
  <1> QED BY <1>4, <1>5, <1>6, <1>8, ChangedSound

LEMMA MarkDiscoveredSound ==
  ASSUME IInv, NEW d \in Devices, MarkDiscovered(d)
  PROVE  IInv'
  <1> DEFINE ds == {d}
             devs == Added(m_devices, ds)
  <1>1. m_devices \in Table /\ ds \in SUBSET Devices BY DEF IInv, TypeOK
  <1>2. devs \in Table /\ \A e \in Devices : /\ devs[e].group = m_devices[e].group
                                             /\ devs[e].known <=> m_devices[e].known \/ e \in ds
                                             /\ e \notin ds => devs[e] = m_devices[e]
    BY <1>1, AddedKeeps
  <1>3. Changed(devs, ds) /\ NoWrite /\ UNCHANGED m_groups BY DEF MarkDiscovered
  <1>4. \A e \in Devices : /\ ~m_devices[e].known => m_devices[e].group = NoGroup
                           /\ ~failed => m_devices[e].group \in m_groups \cup {NoGroup}
    BY DEF IInv, StrangersHaveNoGroup, MembersHaveTheirGroup
  <1> HIDE DEF devs, ds
  <1> QED BY <1>1, <1>2, <1>3, <1>4, ChangedSound

LEMMA AutoNumberSound ==
  ASSUME IInv, AutoNumber
  PROVE  IInv'
  <1> DEFINE devs == AutoNumbered(m_devices)
             ds == Unnumbered(m_devices)
  <1>1. m_devices \in Table BY DEF IInv, TypeOK
  <1>2. devs \in Table /\ \A d \in Devices : /\ devs[d].known = m_devices[d].known
                                             /\ devs[d].group = m_devices[d].group
                                             /\ d \notin ds => devs[d] = m_devices[d]
    BY <1>1, NumbersAreFree
  <1>3. Changed(devs, ds) /\ NoWrite /\ UNCHANGED m_groups BY DEF AutoNumber
  <1>4. ds \in SUBSET Devices /\ \A d \in ds : m_devices[d].known BY DEF Unnumbered, Known
  <1>5. \A d \in Devices : /\ ~m_devices[d].known => m_devices[d].group = NoGroup
                           /\ ~failed => m_devices[d].group \in m_groups \cup {NoGroup}
    BY DEF IInv, StrangersHaveNoGroup, MembersHaveTheirGroup
  <1> HIDE DEF devs, ds
  <1> QED BY <1>2, <1>3, <1>4, <1>5, ChangedSound

LEMMA LinkIdentitiesSound ==
  ASSUME IInv, NEW usb \in Devices, NEW endpoint \in Devices, LinkIdentities(usb, endpoint)
  PROVE  IInv'
  <1> DEFINE lent == IF m_devices[endpoint].group = NoGroup
                     THEN m_devices[usb].group ELSE m_devices[endpoint].group
             devs == [m_devices EXCEPT ![endpoint].group = lent]
  <1>1. m_devices \in Table BY DEF IInv, TypeOK
  <1>2. Changed(devs, {endpoint}) /\ NoWrite /\ UNCHANGED m_groups BY DEF LinkIdentities
  <1>3. lent \in Groups \cup {NoGroup} BY <1>1 DEF Table, Record
  <1>4. \A d \in Devices : /\ ~m_devices[d].known => m_devices[d].group = NoGroup
                           /\ ~failed => m_devices[d].group \in m_groups \cup {NoGroup}
    BY DEF IInv, StrangersHaveNoGroup, MembersHaveTheirGroup
  <1>5. ~failed => lent \in m_groups \cup {NoGroup} BY <1>4
  <1> HIDE DEF lent
  <1>6. devs \in Table BY <1>1, <1>3 DEF Table, Record
  <1>7. m_devices[endpoint].known BY DEF LinkIdentities
  <1>8. \A d \in Devices : /\ devs[d].known = m_devices[d].known
                           /\ devs[d].group = IF d = endpoint THEN lent ELSE m_devices[d].group
                           /\ d # endpoint => devs[d] = m_devices[d]
    BY <1>1 DEF Table, Record
  <1> HIDE DEF devs
  <1> QED BY <1>2, <1>4, <1>5, <1>6, <1>7, <1>8, ChangedSound

LEMMA SetNumberSound ==
  ASSUME IInv, NEW d \in Devices, NEW n \in -1 .. MaxNumber, SetNumber(d, n)
  PROVE  IInv'
  <1> DEFINE devs == [m_devices EXCEPT ![d].number = n]
  <1>1. m_devices \in Table BY DEF IInv, TypeOK
  <1>2. Changed(devs, {d}) /\ NoWrite /\ UNCHANGED m_groups /\ m_devices[d].known BY DEF SetNumber
  <1>3. n \in Int BY MaxNumberIsNat
  <1>4. devs \in Table BY <1>1, <1>3 DEF Table, Record
  <1>5. \A e \in Devices : /\ devs[e].known = m_devices[e].known
                           /\ devs[e].group = m_devices[e].group
                           /\ e # d => devs[e] = m_devices[e]
    BY <1>1 DEF Table, Record
  <1>6. \A e \in Devices : /\ ~m_devices[e].known => m_devices[e].group = NoGroup
                           /\ ~failed => m_devices[e].group \in m_groups \cup {NoGroup}
    BY DEF IInv, StrangersHaveNoGroup, MembersHaveTheirGroup
  <1> HIDE DEF devs
  <1> QED BY <1>2, <1>4, <1>5, <1>6, ChangedSound

LEMMA RenumberSound ==
  ASSUME IInv, NEW ds \in SUBSET Devices, NEW start \in 1 .. MaxNumber, Renumber(ds, start)
  PROVE  IInv'
  <1> DEFINE named == ds \cap Known(m_devices)
             below(d) == Cardinality({e \in named : e < d})
             devs == [d \in Devices |-> IF d \in named
                                        THEN [m_devices[d] EXCEPT !.number = start + below(d)]
                                        ELSE m_devices[d]]
  <1>1. m_devices \in Table BY DEF IInv, TypeOK
  <1>2. Changed(devs, named) /\ NoWrite /\ UNCHANGED m_groups BY DEF Renumber
  <1>3. named \in SUBSET Devices /\ IsFiniteSet(Devices) /\ \A d \in named : m_devices[d].known
    BY DevicesAreOrdered DEF Known
  <1>4. \A d \in Devices : start + below(d) \in Nat
    <2> SUFFICES ASSUME NEW d \in Devices PROVE start + below(d) \in Nat OBVIOUS
    <2> HIDE DEF named
    <2>1. {e \in named : e < d} \in SUBSET Devices BY <1>3
    <2>2. below(d) \in Nat BY <1>3, <2>1, FS_Subset, FS_CardinalityType
    <2>3. start \in Nat BY MaxNumberIsNat
    <2> QED BY <2>2, <2>3
  <1> HIDE DEF below, named
  <1>5. devs \in Table BY <1>1, <1>4 DEF Table, Record
  <1>6. \A e \in Devices : /\ devs[e].known = m_devices[e].known
                           /\ devs[e].group = m_devices[e].group
                           /\ e \notin named => devs[e] = m_devices[e]
    BY <1>1 DEF Table, Record
  <1>7. \A e \in Devices : /\ ~m_devices[e].known => m_devices[e].group = NoGroup
                           /\ ~failed => m_devices[e].group \in m_groups \cup {NoGroup}
    BY DEF IInv, StrangersHaveNoGroup, MembersHaveTheirGroup
  <1> HIDE DEF devs
  <1> QED BY <1>2, <1>3, <1>5, <1>6, <1>7, ChangedSound

LEMMA RemoveSound ==
  ASSUME IInv, NEW d \in Devices, NEW written \in BOOLEAN, Remove(d, written)
  PROVE  IInv'
  <1>1. Unknown \in Record /\ ~Unknown.known /\ Unknown.group = NoGroup BY DEF Unknown, Record
  <1>2. m_devices \in Table /\ rows \in Table BY DEF IInv, TypeOK
  <1>3. /\ m_devices' = [m_devices EXCEPT ![d] = Unknown] /\ m_dirty' = m_dirty \ {d}
        /\ rows' = IF written THEN [rows EXCEPT ![d] = Unknown] ELSE rows
        /\ groupRows' = groupRows /\ failed' = (failed \/ ~written)
        /\ UNCHANGED <<m_groups, flushTimer>>
    BY DEF Remove, Write
  <1> USE <1>2, <1>3 DEF IInv
  <1>4. TypeOK' BY <1>1 DEF TypeOK, Table
  <1>5. \A e \in Devices : /\ m_devices'[e] = IF e = d THEN Unknown ELSE m_devices[e]
                           /\ rows'[e] = IF e = d /\ written THEN Unknown ELSE rows[e]
    BY DEF Table
  <1>6. RegistryIsSaved' BY <1>5 DEF RegistryIsSaved
  <1>7. MembersHaveTheirGroup' BY <1>1, <1>5 DEF MembersHaveTheirGroup
  <1>8. TablesAgree' BY <1>5 DEF TablesAgree, TypeOK
  <1>9. StrangersHaveNoGroup(m_devices)' /\ StrangersHaveNoGroup(rows)'
    BY <1>1, <1>5 DEF StrangersHaveNoGroup
  <1> QED BY <1>4, <1>6, <1>7, <1>8, <1>9

LEMMA CreateGroupSound ==
  ASSUME IInv, NEW g \in Groups, NEW written \in BOOLEAN, CreateGroup(g, written)
  PROVE  IInv'
  <1> USE DEF IInv, CreateGroup, Write
  <1>1. TypeOK' BY DEF TypeOK
  <1>2. RegistryIsSaved' BY DEF RegistryIsSaved
  <1>3. MembersHaveTheirGroup' BY DEF MembersHaveTheirGroup
  <1>4. TablesAgree' BY DEF TablesAgree
  <1>5. StrangersHaveNoGroup(m_devices)' /\ StrangersHaveNoGroup(rows)' BY DEF StrangersHaveNoGroup
  <1> QED BY <1>1, <1>2, <1>3, <1>4, <1>5

LEMMA AssignGroupSound ==
  ASSUME IInv, NEW ds \in SUBSET Devices, NEW g \in Groups \cup {NoGroup}, NEW written \in BOOLEAN,
         AssignGroup(ds, g, written)
  PROVE  IInv'
  <1> DEFINE moved == {d \in ds \cap Known(m_devices) : m_devices[d].group # g}
             new == g # NoGroup /\ g \notin m_groups
             devs == [d \in Devices |-> IF d \in moved THEN [m_devices[d] EXCEPT !.group = g]
                                        ELSE m_devices[d]]
  <1>1. m_devices \in Table BY DEF IInv, TypeOK
  <1>2. /\ m_devices' = devs /\ m_dirty' = m_dirty \cup moved
        /\ flushTimer' = (flushTimer \/ moved # {})
        /\ m_groups' = IF new THEN m_groups \cup {g} ELSE m_groups
        /\ rows' = rows
        /\ groupRows' = IF new /\ written THEN groupRows \cup {g} ELSE groupRows
        /\ failed' = (failed \/ (new /\ ~written))
    <2> HIDE DEF moved, devs
    <2> QED BY DEF AssignGroup, Changed, Write, NoWrite, moved, devs, IInv, TypeOK
  <1>3. moved \in SUBSET Devices /\ \A d \in moved : m_devices[d].known BY DEF Known
  <1> HIDE DEF moved
  <1>4. \A d \in Devices : /\ devs[d] \in Record
                           /\ devs[d].known = m_devices[d].known
                           /\ devs[d].group = IF d \in moved THEN g ELSE m_devices[d].group
                           /\ d \notin moved => devs[d] = m_devices[d]
    BY <1>1 DEF Table, Record
  <1>5. devs \in Table BY <1>4 DEF Table
  <1> HIDE DEF devs
  <1> USE <1>2, <1>3, <1>4 DEF IInv
  <1>6. TypeOK' BY <1>5 DEF TypeOK
  <1>7. RegistryIsSaved' BY DEF RegistryIsSaved
  <1>8. MembersHaveTheirGroup' BY DEF MembersHaveTheirGroup, TablesAgree
  <1>9. TablesAgree' BY DEF TablesAgree, TypeOK
  <1>10. StrangersHaveNoGroup(m_devices)' /\ StrangersHaveNoGroup(rows)' BY DEF StrangersHaveNoGroup
  <1> QED BY <1>6, <1>7, <1>8, <1>9, <1>10

\* A group's new name reaches exactly its members.
LEMMA RegroupedMembers ==
  ASSUME NEW table \in Table, StrangersHaveNoGroup(table), NEW old \in Groups,
         NEW new \in Groups \cup {NoGroup}
  PROVE  /\ Regrouped(table, old, new) \in Table
         /\ StrangersHaveNoGroup(Regrouped(table, old, new))
         /\ \A d \in Devices :
               /\ Regrouped(table, old, new)[d].known = table[d].known
               /\ Regrouped(table, old, new)[d].group =
                     IF table[d].group = old THEN new ELSE table[d].group
               /\ Regrouped(table, old, new)[d] =
                     IF table[d].group = old THEN [table[d] EXCEPT !.group = new] ELSE table[d]
  <1>1. \A d \in Devices : table[d].group = old => table[d].known
    BY NoGroupIsNone DEF StrangersHaveNoGroup
  <1>2. \A d \in Devices : Regrouped(table, old, new)[d] =
            IF table[d].group = old THEN [table[d] EXCEPT !.group = new] ELSE table[d]
    BY <1>1 DEF Regrouped
  <1>3. \A d \in Devices : /\ Regrouped(table, old, new)[d] \in Record
                           /\ Regrouped(table, old, new)[d].known = table[d].known
                           /\ Regrouped(table, old, new)[d].group =
                                 IF table[d].group = old THEN new ELSE table[d].group
    BY <1>2 DEF Table, Record
  <1>4. Regrouped(table, old, new) \in Table BY <1>3 DEF Regrouped, Table
  <1>5. StrangersHaveNoGroup(Regrouped(table, old, new))
    BY <1>1, <1>3 DEF StrangersHaveNoGroup
  <1> QED BY <1>2, <1>3, <1>4, <1>5

\* The two handlers that move all members of a group at once, in memory and, if the
\* database takes it, in both tables.
LEMMA RegroupSound ==
  ASSUME IInv, NEW old \in Groups, NEW new \in Groups \cup {NoGroup}, NEW taken \in BOOLEAN,
         NEW newGroups \in SUBSET Groups, NEW newRows \in SUBSET Groups,
         m_devices' = Regrouped(m_devices, old, new),
         m_groups' = newGroups,
         Write(taken, Regrouped(rows, old, new), newRows),
         UNCHANGED <<m_dirty, flushTimer>>,
         (m_groups \ {old}) \cup ({new} \ {NoGroup}) \subseteq newGroups,
         m_groups = groupRows /\ taken => newRows = newGroups
  PROVE  IInv'
  <1> DEFINE devs == Regrouped(m_devices, old, new)
             saved == Regrouped(rows, old, new)
  <1>1. /\ devs \in Table /\ StrangersHaveNoGroup(devs)
        /\ \A d \in Devices : /\ devs[d].known = m_devices[d].known
                              /\ devs[d].group = IF m_devices[d].group = old THEN new ELSE m_devices[d].group
                              /\ devs[d] = IF m_devices[d].group = old
                                           THEN [m_devices[d] EXCEPT !.group = new] ELSE m_devices[d]
    BY RegroupedMembers DEF IInv, TypeOK
  <1>2. /\ saved \in Table /\ StrangersHaveNoGroup(saved)
        /\ \A d \in Devices : /\ saved[d].group = IF rows[d].group = old THEN new ELSE rows[d].group
                              /\ saved[d] = IF rows[d].group = old
                                            THEN [rows[d] EXCEPT !.group = new] ELSE rows[d]
    BY RegroupedMembers DEF IInv, TypeOK
  <1>3. /\ m_devices' = devs /\ m_groups' = newGroups
        /\ rows' = IF taken THEN saved ELSE rows
        /\ groupRows' = IF taken THEN newRows ELSE groupRows
        /\ failed' = (failed \/ ~taken) /\ UNCHANGED <<m_dirty, flushTimer>>
    BY DEF Write
  <1> HIDE DEF devs, saved
  <1> USE <1>1, <1>2, <1>3 DEF IInv
  <1>4. TypeOK' BY DEF TypeOK
  <1>5. \A d \in Devices : m_devices[d] = rows[d] => devs[d] = saved[d] OBVIOUS
  <1>6. RegistryIsSaved'
    <2>1. m_dirty' # {} => flushTimer' BY DEF RegistryIsSaved
    <2>2. ~failed' => ~failed /\ rows' = saved BY DEF TypeOK
    <2>3. ~failed => \A d \in Devices : m_devices[d] # rows[d] => d \in m_dirty BY DEF RegistryIsSaved
    <2> QED BY <1>5, <2>1, <2>2, <2>3 DEF RegistryIsSaved
  <1>7. TablesAgree' BY DEF TablesAgree, TypeOK
  <1>8. MembersHaveTheirGroup' BY ZenonT(60) DEF MembersHaveTheirGroup, TablesAgree
  <1>9. StrangersHaveNoGroup(m_devices)' /\ StrangersHaveNoGroup(rows)' BY DEF StrangersHaveNoGroup
  <1> QED BY <1>4, <1>6, <1>7, <1>8, <1>9

LEMMA RenameGroupSound ==
  ASSUME IInv, NEW old \in Groups, NEW new \in Groups, NEW written \in BOOLEAN,
         RenameGroup(old, new, written)
  PROVE  IInv'
  <1> DEFINE taken == written /\ ~(old \in groupRows /\ new \in groupRows)
             newGroups == (m_groups \ {old}) \cup {new}
             newRows == IF old \in groupRows THEN (groupRows \ {old}) \cup {new} ELSE groupRows
  <1>1. taken \in BOOLEAN /\ newGroups \in SUBSET Groups /\ newRows \in SUBSET Groups
    BY DEF IInv, TypeOK
  <1>2. m_groups = groupRows /\ taken => newRows = newGroups BY DEF RenameGroup
  <1>3. /\ m_devices' = Regrouped(m_devices, old, new)
        /\ m_groups' = newGroups
        /\ Write(taken, Regrouped(rows, old, new), newRows)
        /\ UNCHANGED <<m_dirty, flushTimer>>
    BY DEF RenameGroup
  <1>4. (m_groups \ {old}) \cup ({new} \ {NoGroup}) \subseteq newGroups OBVIOUS
  <1> HIDE DEF taken, newGroups, newRows
  <1> QED BY <1>1, <1>2, <1>3, <1>4, RegroupSound

LEMMA DeleteGroupSound ==
  ASSUME IInv, NEW g \in Groups, NEW written \in BOOLEAN, DeleteGroup(g, written)
  PROVE  IInv'
  <1> DEFINE newGroups == m_groups \ {g}
             newRows == groupRows \ {g}
  <1>1. newGroups \in SUBSET Groups /\ newRows \in SUBSET Groups BY DEF IInv, TypeOK
  <1>2. /\ m_devices' = Regrouped(m_devices, g, NoGroup)
        /\ m_groups' = newGroups
        /\ Write(written, Regrouped(rows, g, NoGroup), newRows)
        /\ UNCHANGED <<m_dirty, flushTimer>>
    BY DEF DeleteGroup
  <1>3. (m_groups \ {g}) \cup ({NoGroup} \ {NoGroup}) \subseteq newGroups OBVIOUS
  <1>4. m_groups = groupRows /\ written => newRows = newGroups OBVIOUS
  <1> HIDE DEF newGroups, newRows
  <1> QED BY <1>1, <1>2, <1>3, <1>4, RegroupSound

\* flush writes every record that differs, and only records of devices in groups that are there.
LEMMA SavedKeeps ==
  ASSUME IInv
  PROVE  /\ Saved \in Table
         /\ StrangersHaveNoGroup(Saved)
         /\ ~failed => \A d \in Devices : /\ Saved[d] = m_devices[d]
                                         /\ Saved[d].group \in groupRows \cup {NoGroup}
  <1>1. m_devices \in Table /\ rows \in Table /\ m_dirty \in SUBSET Devices BY DEF IInv, TypeOK
  <1>2. \A d \in m_dirty : m_devices[d].known BY DEF IInv, TablesAgree
  <1>3. \A d \in Devices : Saved[d] = IF d \in m_dirty THEN m_devices[d] ELSE rows[d]
    BY <1>1, <1>2 DEF Saved
  <1>4. Saved \in Table
    <2>1. \A d \in Devices : Saved[d] \in Record BY <1>1, <1>3 DEF Table
    <2> QED BY <2>1 DEF Saved, Table
  <1>5. StrangersHaveNoGroup(Saved) BY <1>1, <1>3 DEF StrangersHaveNoGroup, IInv
  <1>6. ASSUME ~failed, NEW d \in Devices
        PROVE  Saved[d] = m_devices[d] /\ Saved[d].group \in groupRows \cup {NoGroup}
    <2>1. m_devices[d] # rows[d] => d \in m_dirty BY <1>6 DEF IInv, RegistryIsSaved
    <2>2. m_devices[d].group \in groupRows \cup {NoGroup}
      BY <1>6 DEF IInv, MembersHaveTheirGroup, TablesAgree
    <2> QED BY <1>3, <2>1, <2>2
  <1> QED BY <1>4, <1>5, <1>6

\* Nothing is written, and nothing has to be: no device is dirty.
LEMMA NothingDirty ==
  ASSUME IInv, m_dirty \cap Known(m_devices) = {}
  PROVE  m_dirty = {}
  <1>1. m_dirty \subseteq Devices BY DEF IInv, TypeOK
  <1> QED BY <1>1 DEF IInv, TablesAgree, Known

LEMMA FlushSound ==
  ASSUME IInv, NEW written \in BOOLEAN, Flush(written)
  PROVE  IInv'
  <1>1. /\ flushTimer' = FALSE /\ m_dirty' = {} /\ UNCHANGED <<m_devices, m_groups>>
    BY DEF Flush
  <1>2. CASE m_dirty \cap Known(m_devices) = {}
    <2>1. UNCHANGED <<rows, groupRows, failed>> /\ m_dirty = {}
      BY <1>2, NothingDirty DEF Flush, NoWrite
    <2> USE <1>1, <2>1 DEF IInv
    <2>2. TypeOK' BY DEF TypeOK
    <2>3. RegistryIsSaved' BY DEF RegistryIsSaved
    <2>4. MembersHaveTheirGroup' /\ TablesAgree' BY DEF MembersHaveTheirGroup, TablesAgree
    <2>5. StrangersHaveNoGroup(m_devices)' /\ StrangersHaveNoGroup(rows)' BY DEF StrangersHaveNoGroup
    <2> QED BY <2>2, <2>3, <2>4, <2>5
  <1>3. CASE m_dirty \cap Known(m_devices) # {}
    <2> DEFINE saved == Saved
    <2>1. /\ rows' = IF written THEN saved ELSE rows
          /\ groupRows' = groupRows
          /\ failed' = (failed \/ ~written)
      BY <1>3 DEF Flush, Write
    <2>2. /\ saved \in Table /\ StrangersHaveNoGroup(saved)
          /\ ~failed => \A d \in Devices : /\ saved[d] = m_devices[d]
                                          /\ saved[d].group \in groupRows \cup {NoGroup}
      BY SavedKeeps
    <2>3. failed \in BOOLEAN BY DEF IInv, TypeOK
    <2>4. ~failed' => ~failed /\ written BY <2>1, <2>3
    <2> HIDE DEF saved
    <2> USE <1>1, <2>1, <2>2, <2>4 DEF IInv
    <2>5. TypeOK' BY DEF TypeOK
    <2>6. RegistryIsSaved' BY DEF RegistryIsSaved
    <2>7. MembersHaveTheirGroup' /\ TablesAgree' BY DEF MembersHaveTheirGroup, TablesAgree
    <2>8. StrangersHaveNoGroup(m_devices)' /\ StrangersHaveNoGroup(rows)' BY DEF StrangersHaveNoGroup
    <2> QED BY <2>5, <2>6, <2>7, <2>8
  <1> QED BY <1>2, <1>3

\* A process that reads sound tables starts with a sound registry.
LEMMA LoadSound ==
  ASSUME NEW fromRows \in Table, NEW fromGroups \in SUBSET Groups, StrangersHaveNoGroup(fromRows),
         Load(fromRows, fromGroups),
         rows' = fromRows, groupRows' = fromGroups, failed' \in BOOLEAN,
         ~failed' => \A d \in Devices : fromRows[d].group \in fromGroups \cup {NoGroup}
  PROVE  IInv'
  <1> USE DEF Load
  <1>1. TypeOK' BY DEF TypeOK
  <1>2. RegistryIsSaved' BY DEF RegistryIsSaved
  <1>3. MembersHaveTheirGroup' /\ TablesAgree' BY DEF MembersHaveTheirGroup, TablesAgree
  <1>4. StrangersHaveNoGroup(m_devices)' /\ StrangersHaveNoGroup(rows)' BY DEF StrangersHaveNoGroup
  <1> QED BY <1>1, <1>2, <1>3, <1>4 DEF IInv

LEMMA CrashSound ==
  ASSUME IInv, Crash
  PROVE  IInv'
  <1>1. /\ rows \in Table /\ groupRows \in SUBSET Groups /\ failed \in BOOLEAN
        /\ StrangersHaveNoGroup(rows)
        /\ ~failed => \A d \in Devices : rows[d].group \in groupRows \cup {NoGroup}
    BY DEF IInv, TypeOK, MembersHaveTheirGroup
  <1>2. Load(rows, groupRows) /\ UNCHANGED <<rows, groupRows, failed>> BY DEF Crash, NoWrite
  <1> QED BY <1>1, <1>2, LoadSound

LEMMA ShutdownSound ==
  ASSUME IInv, NEW written \in BOOLEAN, Shutdown(written)
  PROVE  IInv'
  <1> DEFINE newRows == IF m_dirty \cap Known(m_devices) # {} /\ written THEN Saved ELSE rows
  <1>1. /\ rows' = newRows /\ groupRows' = groupRows
        /\ failed' \in BOOLEAN /\ (~failed' => ~failed)
        /\ Load(newRows, groupRows)
    BY DEF Shutdown, Write, NoWrite, IInv, TypeOK
  <1>2. /\ newRows \in Table /\ StrangersHaveNoGroup(newRows)
        /\ ~failed => \A d \in Devices : newRows[d].group \in groupRows \cup {NoGroup}
    BY SavedKeeps DEF IInv, TypeOK, MembersHaveTheirGroup
  <1>3. groupRows \in SUBSET Groups BY DEF IInv, TypeOK
  <1> HIDE DEF newRows
  <1> QED BY <1>1, <1>2, <1>3, LoadSound
-----------------------------------------------------------------------------
LEMMA InitSound == RegistryInit => IInv
  <1> SUFFICES ASSUME RegistryInit PROVE IInv OBVIOUS
  <1>1. Unknown \in Record /\ ~Unknown.known /\ Unknown.group = NoGroup BY DEF Unknown, Record
  <1>2. m_devices \in Table /\ rows = m_devices /\ \A d \in Devices : m_devices[d] = Unknown
    BY <1>1 DEF RegistryInit, Table
  <1> USE <1>1, <1>2 DEF RegistryInit
  <1>3. TypeOK BY DEF TypeOK
  <1>4. RegistryIsSaved BY DEF RegistryIsSaved
  <1>5. MembersHaveTheirGroup /\ TablesAgree BY DEF MembersHaveTheirGroup, TablesAgree
  <1>6. StrangersHaveNoGroup(m_devices) /\ StrangersHaveNoGroup(rows) BY DEF StrangersHaveNoGroup
  <1> QED BY <1>3, <1>4, <1>5, <1>6 DEF IInv

LEMMA StepSound == IInv /\ [RegistryNext]_registryVars => IInv'
  <1> SUFFICES ASSUME IInv, [RegistryNext]_registryVars PROVE IInv' OBVIOUS
  <1>1. ASSUME NEW listed \in SUBSET Devices, Listing(listed) PROVE IInv' BY <1>1, ListingSound
  <1>2. ASSUME NEW d \in Devices, MarkDiscovered(d) PROVE IInv' BY <1>2, MarkDiscoveredSound
  <1>3. CASE AutoNumber BY <1>3, AutoNumberSound
  <1>4. ASSUME NEW usb \in Devices, NEW endpoint \in Devices, LinkIdentities(usb, endpoint)
        PROVE  IInv'
    BY <1>4, LinkIdentitiesSound
  <1>5. ASSUME NEW d \in Devices, NEW n \in -1 .. MaxNumber, SetNumber(d, n) PROVE IInv'
    BY <1>5, SetNumberSound
  <1>6. ASSUME NEW ds \in SUBSET Devices, NEW start \in 1 .. MaxNumber, Renumber(ds, start)
        PROVE  IInv'
    BY <1>6, RenumberSound
  <1>7. ASSUME NEW d \in Devices, NEW written \in BOOLEAN, Remove(d, written) PROVE IInv'
    BY <1>7, RemoveSound
  <1>8. ASSUME NEW g \in Groups, NEW written \in BOOLEAN, CreateGroup(g, written) PROVE IInv'
    BY <1>8, CreateGroupSound
  <1>9. ASSUME NEW ds \in SUBSET Devices, NEW g \in Groups \cup {NoGroup}, NEW written \in BOOLEAN,
               AssignGroup(ds, g, written)
        PROVE  IInv'
    BY <1>9, AssignGroupSound
  <1>10. ASSUME NEW old \in Groups, NEW new \in Groups, NEW written \in BOOLEAN,
                RenameGroup(old, new, written)
         PROVE  IInv'
    BY <1>10, RenameGroupSound
  <1>11. ASSUME NEW g \in Groups, NEW written \in BOOLEAN, DeleteGroup(g, written) PROVE IInv'
    BY <1>11, DeleteGroupSound
  <1>12. ASSUME NEW written \in BOOLEAN, Flush(written) PROVE IInv' BY <1>12, FlushSound
  <1>13. CASE Crash BY <1>13, CrashSound
  <1>14. ASSUME NEW written \in BOOLEAN, Shutdown(written) PROVE IInv' BY <1>14, ShutdownSound
  <1>15. CASE UNCHANGED registryVars
    <2> USE <1>15 DEF registryVars, IInv
    <2>1. TypeOK' BY DEF TypeOK
    <2>2. RegistryIsSaved' BY DEF RegistryIsSaved
    <2>3. MembersHaveTheirGroup' /\ TablesAgree' BY DEF MembersHaveTheirGroup, TablesAgree
    <2>4. StrangersHaveNoGroup(m_devices)' /\ StrangersHaveNoGroup(rows)' BY DEF StrangersHaveNoGroup
    <2> QED BY <2>1, <2>2, <2>3, <2>4
  <1> QED BY <1>1, <1>2, <1>3, <1>4, <1>5, <1>6, <1>7, <1>8, <1>9, <1>10, <1>11, <1>12, <1>13, <1>14, <1>15
          DEF RegistryNext

LEMMA AlwaysIInv == RegistrySpec => []IInv
  BY InitSound, StepSound, PTL DEF RegistrySpec

\* After a listing every device of the registry has a positive number, whatever the
\* operator had saved for it, and one whose number the listing changed shares it with no
\* other device.
THEOREM ListingsNumberEverybody ==
  RegistrySpec => [][\A listed \in SUBSET Devices : Listing(listed) =>
               \A d \in Devices : m_devices'[d].known =>
                 /\ m_devices'[d].number > 0
                 /\ m_devices'[d].number # m_devices[d].number =>
                      \A e \in Devices \ {d} :
                         m_devices'[e].known => m_devices'[e].number # m_devices'[d].number]_registryVars
  <1> DEFINE Numbered(d) ==
               m_devices'[d].known =>
                 /\ m_devices'[d].number > 0
                 /\ m_devices'[d].number # m_devices[d].number =>
                      \A e \in Devices \ {d} :
                         m_devices'[e].known => m_devices'[e].number # m_devices'[d].number
             Step == \A listed \in SUBSET Devices : Listing(listed) => \A d \in Devices : Numbered(d)
  <1>1. ASSUME IInv, NEW listed \in SUBSET Devices, Listing(listed), NEW d \in Devices
        PROVE  Numbered(d)
    <2>1. PICK devs : devs = Added(m_devices, listed) OBVIOUS
    <2>2. m_devices \in Table BY <1>1 DEF IInv, TypeOK
    <2>3. devs \in Table BY <2>1, <2>2, AddedKeeps
    <2>4. \A e \in Devices : devs[e].number = m_devices[e].number
      BY <2>1, <2>2 DEF Added, Table, Record
    <2>5. m_devices' = AutoNumbered(devs) BY <1>1, <2>1 DEF Listing, Changed
    <2>6. \A e \in Devices : /\ m_devices'[e].known = devs[e].known
                             /\ e \notin Unnumbered(devs) => m_devices'[e] = devs[e]
      BY <2>3, <2>5, NumbersAreFree
    <2>7. \A e \in Unnumbered(devs) :
             /\ m_devices'[e].number \in Nat \ {0}
             /\ \A x \in Known(devs) \ {e} : m_devices'[x].number # m_devices'[e].number
      BY <2>3, <2>5, NumbersAreFree
    <2>8. CASE d \in Unnumbered(devs)
      <3>1. m_devices'[d].number > 0 BY <2>7, <2>8
      <3>2. \A e \in Devices \ {d} : m_devices'[e].known => e \in Known(devs) \ {d}
        BY <2>6 DEF Known
      <3> QED BY <2>7, <2>8, <3>1, <3>2
    <2>9. CASE d \notin Unnumbered(devs)
      <3>1. m_devices'[d].number = m_devices[d].number BY <2>4, <2>6, <2>9
      <3>2. m_devices'[d].known => ~(devs[d].number <= 0)
        BY <2>6, <2>9 DEF Unnumbered, Known
      <3>3. devs[d].number \in Int BY <2>3 DEF Table, Record
      <3>4. m_devices'[d].known => devs[d].number > 0 BY <3>2, <3>3
      <3> QED BY <2>4, <3>1, <3>4
    <2> QED BY <2>8, <2>9
  <1>2. IInv /\ [RegistryNext]_registryVars => [Step]_registryVars BY <1>1
  <1> QED BY <1>2, AlwaysIInv, PTL DEF RegistrySpec

\* What an operator set is not forgotten: the device is in the table as it is in
\* memory, or it is dirty and the timer that saves it runs.
THEOREM RegistryAlwaysSaved == RegistrySpec => []RegistryIsSaved
  <1>1. IInv => RegistryIsSaved BY DEF IInv
  <1> QED BY <1>1, AlwaysIInv, PTL

\* While the database takes every write, each device is in a group of the registry or in
\* none, and each row names a group of the table or none, crashes included.
THEOREM MembersAlwaysHaveTheirGroup == RegistrySpec => []MembersHaveTheirGroup
  <1>1. IInv => MembersHaveTheirGroup BY DEF IInv
  <1> QED BY <1>1, AlwaysIInv, PTL
=============================================================================
