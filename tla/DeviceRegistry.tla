---------------------------- MODULE DeviceRegistry ----------------------------
(***************************************************************************)
(* farm/devices/deviceregistry.cpp with the rows of farm/storage it writes. *)
(*                                                                         *)
(* The registry keeps every known device and every group in memory, on the  *)
(* GUI thread.  A change of a device marks it dirty and arms a timer; the   *)
(* timer writes the dirty devices in one transaction.  Groups are written   *)
(* through at once.  (The copy of the records that worker threads read is    *)
(* not kept here.)                                                          *)
(*                                                                         *)
(* Of a device's record two persisted fields are kept: its group, which the *)
(* group operations change behind the back of the timer, and its number.    *)
(* Every write to the database may fail (a busy or a full disk); the code   *)
(* ignores the outcome.  The program may end between two handlers.          *)
(***************************************************************************)
EXTENDS Integers, FiniteSets

CONSTANTS
    Devices,    \* ids, numbers in the order of ipv4::lessThan
    Groups,     \* names a group can be given
    NoGroup,    \* the empty name
    MaxNumber   \* bound on the numbers an operator assigns by hand
                \* (any toInt() can be saved: -1 stands for the negative ones)

ASSUME DevicesAreOrdered == Devices \subseteq Nat /\ IsFiniteSet(Devices)
ASSUME NoGroupIsNone == NoGroup \notin Groups
ASSUME MaxNumberIsNat == MaxNumber \in Nat

VARIABLES
    m_devices,    \* id |-> record; known is FALSE for an id not in the table
    m_groups,     \* the groups of the registry
    m_dirty,      \* devices to write
    flushTimer,   \* m_flushTimer is active
    rows,         \* the table `devices`
    groupRows,    \* the table `groups`
    failed        \* some write to the database has failed (history)

registryVars == <<m_devices, m_groups, m_dirty, flushTimer, rows, groupRows, failed>>

Record == [known : BOOLEAN, group : Groups \cup {NoGroup}, number : Int]

\* What operator[] of the table gives for an id it does not hold.
Unknown == [known |-> FALSE, group |-> NoGroup, number |-> 0]

Known(table) == {d \in Devices : table[d].known}
-----------------------------------------------------------------------------
(* Helpers of the handlers *)

\* markDirty of each device of ds after the table became devs: the timer is
\* armed unless it runs.
Changed(devs, ds) ==
    /\ m_devices' = devs
    /\ m_dirty' = m_dirty \cup ds
    /\ flushTimer' = (flushTimer \/ ds # {})

\* The table with the devices of ds in it, as upsertFromAdb and markDiscovered
\* insert them.
Added(devs, ds) == [d \in Devices |-> IF d \in ds THEN [devs[d] EXCEPT !.known = TRUE] ELSE devs[d]]

\* autoNumber takes a number that is not positive for none.
Unnumbered(devs) == {d \in Known(devs) : devs[d].number <= 0}
Used(devs) == {devs[d].number : d \in Known(devs) \ Unnumbered(devs)}

\* The k-th number, from 1, nobody uses.
Free(used, k) ==
    CHOOSE n \in 1..(k + Cardinality(used)) :
        n \notin used /\ Cardinality((1..n) \ used) = k

\* autoNumber: the numbers given so far stay; the other devices take the
\* lowest free ones in the order of their addresses.
AutoNumbered(devs) ==
    [d \in Devices |->
        IF d \in Unnumbered(devs)
        THEN [devs[d] EXCEPT !.number =
                Free(Used(devs), Cardinality({e \in Unnumbered(devs) : e <= d}))]
        ELSE devs[d]]

\* A write the database takes, or refuses: `written` says which.
Write(written, newRows, newGroupRows) ==
    /\ rows' = IF written THEN newRows ELSE rows
    /\ groupRows' = IF written THEN newGroupRows ELSE groupRows
    /\ failed' = (failed \/ ~written)

NoWrite == UNCHANGED <<rows, groupRows, failed>>

\* The rows after saveAll of the dirty devices; one removed meanwhile is skipped.
Saved == [d \in Devices |-> IF d \in m_dirty /\ m_devices[d].known THEN m_devices[d] ELSE rows[d]]

\* UPDATE devices SET group_name = new WHERE group_name = old.
Regrouped(table, old, new) ==
    [d \in Devices |-> IF table[d].known /\ table[d].group = old
                       THEN [table[d] EXCEPT !.group = new] ELSE table[d]]
-----------------------------------------------------------------------------
(* Discovery *)

\* `adb devices` lists the devices of `listed`: each is upserted, which marks
\* it dirty even when nothing changed, and the new ones get their numbers.
Listing(listed) ==
    LET upserted == Added(m_devices, listed) IN
    /\ Changed(AutoNumbered(upserted), listed \cup Unnumbered(upserted))
    /\ NoWrite /\ UNCHANGED m_groups

\* A host answered on the adb port: a new one is inserted, without a number.
MarkDiscovered(d) ==
    /\ ~m_devices[d].known
    /\ Changed(Added(m_devices, {d}), {d})
    /\ NoWrite /\ UNCHANGED m_groups

\* The end of a sweep, or a start from the command line: numbers only.
AutoNumber ==
    /\ Changed(AutoNumbered(m_devices), Unnumbered(m_devices))
    /\ NoWrite /\ UNCHANGED m_groups

\* A USB device was moved to WiFi: its record lends its group to the endpoint
\* that has none.
LinkIdentities(usb, endpoint) ==
    /\ usb # endpoint
    /\ m_devices[endpoint].known
    /\ LET lent == IF m_devices[endpoint].group = NoGroup
                   THEN m_devices[usb].group ELSE m_devices[endpoint].group
       IN  Changed([m_devices EXCEPT ![endpoint].group = lent], {endpoint})
    /\ NoWrite /\ UNCHANGED m_groups
-----------------------------------------------------------------------------
(* The operator *)

\* The inspector saves a number, which may be taken, 0 for a text that is none, or negative.
SetNumber(d, n) ==
    /\ m_devices[d].known
    /\ Changed([m_devices EXCEPT ![d].number = n], {d})
    /\ NoWrite /\ UNCHANGED m_groups

\* renumber: the selection is counted through from `start`, in the order of its
\* addresses, whatever numbers the other devices have.
Renumber(ds, start) ==
    LET named == ds \cap Known(m_devices) IN
    /\ Changed([d \in Devices |->
                   IF d \in named
                   THEN [m_devices[d] EXCEPT !.number = start + Cardinality({e \in named : e < d})]
                   ELSE m_devices[d]], named)
    /\ NoWrite /\ UNCHANGED m_groups

\* Forget: the row goes at once.  A failing DELETE leaves it.
Remove(d, written) ==
    /\ m_devices[d].known
    /\ m_devices' = [m_devices EXCEPT ![d] = Unknown]
    /\ m_dirty' = m_dirty \ {d}
    /\ Write(written, [rows EXCEPT ![d] = Unknown], groupRows)
    /\ UNCHANGED <<m_groups, flushTimer>>

CreateGroup(g, written) ==
    /\ g \notin m_groups
    /\ m_groups' = m_groups \cup {g}
    /\ Write(written, rows, groupRows \cup {g})
    /\ UNCHANGED <<m_devices, m_dirty, flushTimer>>

\* Faulty: the group is taken to exist.
AssignGroupAnyway(ds, g, written) ==
    LET moved == {d \in ds \cap Known(m_devices) : m_devices[d].group # g} IN
    /\ written
    /\ Changed([d \in Devices |-> IF d \in moved THEN [m_devices[d] EXCEPT !.group = g]
                                  ELSE m_devices[d]], moved)
    /\ NoWrite /\ UNCHANGED m_groups

\* Members put into a group, or out of any: an unknown group is created first.
AssignGroup(ds, g, written) ==
    LET moved == {d \in ds \cap Known(m_devices) : m_devices[d].group # g}
        new == g # NoGroup /\ g \notin m_groups
    IN  /\ Changed([d \in Devices |-> IF d \in moved THEN [m_devices[d] EXCEPT !.group = g]
                                      ELSE m_devices[d]], moved)
        /\ m_groups' = IF new THEN m_groups \cup {g} ELSE m_groups
        /\ IF new THEN Write(written, rows, groupRows \cup {g}) ELSE NoWrite

\* Faulty: the members of the table wait for a timer nobody arms.
RenameGroupInMemory(old, new, written) ==
    /\ old \in m_groups
    /\ new \notin m_groups
    /\ m_groups' = (m_groups \ {old}) \cup {new}
    /\ m_devices' = Regrouped(m_devices, old, new)
    /\ Write(written, rows, IF old \in groupRows THEN (groupRows \ {old}) \cup {new} ELSE groupRows)
    /\ UNCHANGED <<m_dirty, flushTimer>>

\* The members follow in memory and in the table, without being marked dirty.
\* A group row that exists under the new name makes
\* the UPDATE fail.
RenameGroup(old, new, written) ==
    /\ old \in m_groups
    /\ new \notin m_groups
    /\ m_groups' = (m_groups \ {old}) \cup {new}
    /\ m_devices' = Regrouped(m_devices, old, new)
    /\ Write(written /\ ~(old \in groupRows /\ new \in groupRows), Regrouped(rows, old, new),
             IF old \in groupRows THEN (groupRows \ {old}) \cup {new} ELSE groupRows)
    /\ UNCHANGED <<m_dirty, flushTimer>>

DeleteGroup(g, written) ==
    /\ g \in m_groups
    /\ m_groups' = m_groups \ {g}
    /\ m_devices' = Regrouped(m_devices, g, NoGroup)
    /\ Write(written, Regrouped(rows, g, NoGroup), groupRows \ {g})
    /\ UNCHANGED <<m_dirty, flushTimer>>
-----------------------------------------------------------------------------
(* Saving, and the end of the program *)

\* flush on its timer.  The dirty set is emptied before the transaction, whose
\* outcome nobody looks at.
Flush(written) ==
    /\ flushTimer
    /\ flushTimer' = FALSE
    /\ m_dirty' = {}
    /\ IF m_dirty \cap Known(m_devices) = {} THEN NoWrite ELSE Write(written, Saved, groupRows)
    /\ UNCHANGED <<m_devices, m_groups>>

\* load, in a new process, from the tables the last one left.
Load(fromRows, fromGroupRows) ==
    /\ m_devices' = fromRows
    /\ m_groups' = fromGroupRows
    /\ m_dirty' = {}
    /\ flushTimer' = FALSE

\* The program crashes and is started again.
Crash == Load(rows, groupRows) /\ NoWrite

\* A shutdown in order flushes first.
Shutdown(written) ==
    LET saving == m_dirty \cap Known(m_devices) # {} IN
    /\ IF saving THEN Write(written, Saved, groupRows) ELSE NoWrite
    /\ Load(rows', groupRows')
-----------------------------------------------------------------------------
RegistryInit ==
    /\ m_devices = [d \in Devices |-> Unknown]
    /\ rows = m_devices
    /\ m_groups = {}
    /\ groupRows = {}
    /\ m_dirty = {}
    /\ flushTimer = FALSE
    /\ failed = FALSE

RegistryNext ==
    \/ \E listed \in SUBSET Devices : Listing(listed)
    \/ \E d \in Devices : MarkDiscovered(d)
    \/ AutoNumber
    \/ \E usb, endpoint \in Devices : LinkIdentities(usb, endpoint)
    \/ \E d \in Devices, n \in -1..MaxNumber : SetNumber(d, n)
    \/ \E ds \in SUBSET Devices, start \in 1..MaxNumber : Renumber(ds, start)
    \/ \E d \in Devices, written \in BOOLEAN : Remove(d, written)
    \/ \E g \in Groups, written \in BOOLEAN : CreateGroup(g, written)
    \/ \E ds \in SUBSET Devices, g \in Groups \cup {NoGroup}, written \in BOOLEAN :
           AssignGroup(ds, g, written)
    \/ \E old, new \in Groups, written \in BOOLEAN : RenameGroup(old, new, written)
    \/ \E g \in Groups, written \in BOOLEAN : DeleteGroup(g, written)
    \/ \E written \in BOOLEAN : Flush(written)
    \/ Crash
    \/ \E written \in BOOLEAN : Shutdown(written)

RegistrySpec == RegistryInit /\ [][RegistryNext]_registryVars
-----------------------------------------------------------------------------
(* Properties *)

\* Nothing an operator set is forgotten: a device whose record is not the one
\* in the table is dirty, and while a device is dirty the timer that will write
\* it runs.  Renaming and deleting a group change records without marking them,
\* removing a device leaves the timer, and a flush races all of them; only a
\* write the database refused breaks it.
RegistryIsSaved ==
    /\ m_dirty # {} => flushTimer
    /\ ~failed => \A d \in Devices : m_devices[d] # rows[d] => d \in m_dirty

\* A device is in no group that does not exist, in memory and, since the rows
\* are all that a crash leaves, in the tables: the row of a group is there
\* before a row that names it, and a row of a member that is only dirty when its
\* group is renamed or deleted never brings the old name back.
MembersHaveTheirGroup ==
    ~failed => \A d \in Devices : /\ m_devices[d].group \in m_groups \cup {NoGroup}
                                  /\ rows[d].group \in groupRows \cup {NoGroup}
=============================================================================
