---------------------------- MODULE DeviceOrder ----------------------------
(***************************************************************************)
(* Which devices a list, a wall or a run has, and in which order:            *)
(* DeviceRegistry::sorted and search, the filters of DevicesPage,             *)
(* WorkflowEngine::resolveTargets, the free number, and the groups of v2.0    *)
(* that a first start imports.                                              *)
(*                                                                         *)
(* A fleet is a function from the devices' ids to their records.  Texts are   *)
(* numbers that compare as the texts do with their case folded.             *)
(***************************************************************************)
EXTENDS Integers, SequencesExt, FiniteSetsExt

NoNumber  == 0
Ungrouped == 0
Never     == 0

\* `live`: it has a session; `recent`: the state changed within the last half hour.
Record(id) ==
    [id |-> id, number |-> NoNumber, name |-> 0, model |-> 0, group |-> Ungrouped,
     battery |-> -1, latency |-> -1, seen |-> Never, state |-> "AdbOnline", live |-> FALSE,
     recent |-> FALSE, favorite |-> FALSE, automation |-> FALSE, awakeFailed |-> FALSE]

OnlineStates == {"AdbOnline", "Mirroring", "Busy"}
IsOnline(r)  == r.state \in OnlineStates

SortKeys == {"Number", "Name", "Ip", "Model", "Battery", "Group", "Online", "Automation",
             "Latency", "LastSeen"}
-----------------------------------------------------------------------------
(* The order *)

\* Numbers first, those without one last; then the addresses.
Tie(a, b) ==
    IF a.number = b.number THEN a.id < b.id
    ELSE a.number # NoNumber /\ (b.number = NoNumber \/ a.number < b.number)

First(b) == IF b THEN 0 ELSE 1
Unmeasured == 2 ^ 30

\* What a key compares, the least first.
Rank(key, r) ==
    CASE key = "Name"       -> r.name
      [] key = "Ip"         -> r.id
      [] key = "Model"      -> r.model
      [] key = "Battery"    -> r.battery
      [] key = "Group"      -> r.group
      [] key = "Online"     -> First(IsOnline(r))
      [] key = "Automation" -> First(r.automation)
      [] key = "Latency"    -> IF r.latency < 0 THEN Unmeasured ELSE r.latency
      [] key = "LastSeen"   -> -r.seen

\* A key that does not tell two devices apart leaves them to Tie, in either direction.
Precedes(key, ascending, a, b) ==
    CASE key = "Number" -> (Tie(a, b) <=> ascending)
      [] key # "Number" /\ Rank(key, a) = Rank(key, b) -> Tie(a, b)
      [] OTHER -> (Rank(key, a) < Rank(key, b) <=> ascending)

\* "No subset" is written as an empty one.
OrAll(fleet, subset) == IF subset = {} THEN DOMAIN fleet ELSE subset

Sorted(fleet, key, ascending, subset) ==
    SetToSortSeq(OrAll(fleet, subset), LAMBDA x, y : Precedes(key, ascending, fleet[x], fleet[y]))

\* `hits` are the devices one of whose texts has the query.
Search(fleet, hits, subset) == OrAll(fleet, subset) \cap hits

MembersOf(fleet, group) == Sorted(fleet, "Number", TRUE, {d \in DOMAIN fleet : fleet[d].group = group})

UsedNumbers(fleet)    == {fleet[d].number : d \in DOMAIN fleet}
NextFreeNumber(fleet) == Min(1..(Cardinality(UsedNumbers(fleet)) + 1) \ UsedNumbers(fleet))
-----------------------------------------------------------------------------
(* Lists *)

Filters == {"all", "online", "offline", "mirroring", "favorites", "recentOffline",
            "recentConnected", "automation", "problems"}

Keep(filter, r) ==
    CASE filter = "all"             -> TRUE
      [] filter = "online"          -> IsOnline(r)
      [] filter = "offline"         -> ~IsOnline(r)
      [] filter = "mirroring"       -> r.state = "Mirroring" \/ r.live
      [] filter = "favorites"       -> r.favorite
      [] filter = "recentOffline"   -> ~IsOnline(r) /\ r.recent
      [] filter = "recentConnected" -> IsOnline(r) /\ r.recent
      [] filter = "automation"      -> r.automation
      [] filter = "problems"        -> r.state \in {"Unauthorized", "Error"} \/ r.awakeFailed

Filtered(fleet, filter, group) ==
    {d \in DOMAIN fleet : Keep(filter, fleet[d]) /\ (group = Ungrouped \/ fleet[d].group = group)}

\* refreshOrder of the Devices page.  Where nothing is searched for, every device is a hit.
Shown(fleet, filter, group, hits, key) ==
    Sorted(fleet, key, TRUE, Search(fleet, hits, Filtered(fleet, filter, group)))

\* The devices of a run that starts.
ResolveTargets(fleet, mode, group, selection) ==
    LET Online(ids) == SelectSeq(ids, LAMBDA d : IsOnline(fleet[d]))
    IN  CASE mode = "group"     -> Online(MembersOf(fleet, group))
          [] mode = "online"    -> Sorted(fleet, "Number", TRUE, {d \in DOMAIN fleet : IsOnline(fleet[d])})
          [] mode = "devices"   -> selection
          [] mode = "selection" -> Online(selection)
-----------------------------------------------------------------------------
(* The groups of v2.0 *)

\* What is in the tables: groups, who is in them, and whether they were imported.
NewTables == [groups |-> {}, members |-> <<>>, imported |-> FALSE]

\* A row for every group there is not yet, the mark, and then the devices.
Missing(tables, legacy) == SelectSeq(legacy, LAMBDA g : g.name \notin tables.groups)

Joined(members, g) == FoldSet(LAMBDA d, m : (d :> g.name) @@ m, members, g.serials)

\* importLegacyGroups, up to its n-th write.
ImportLegacyGroups(tables, legacy, n) ==
    LET new    == Missing(tables, legacy)
        groups == tables.groups \cup {new[i].name : i \in 1..Min({n, Len(new)})}
    IN  IF tables.imported THEN tables
        ELSE [groups |-> groups, imported |-> n > Len(new),
              members |-> IF n > Len(new) + 1 THEN FoldLeft(Joined, tables.members, new)
                          ELSE tables.members]

Writes(tables, legacy) == Len(Missing(tables, legacy)) + 2
Import(tables, legacy) == ImportLegacyGroups(tables, legacy, Writes(tables, legacy))
-----------------------------------------------------------------------------
(* Properties *)

\* Any three devices have one order, whichever key is chosen: the sort has a result, and a
\* device keeps its place while nothing about it changes.
OrderIsStrict(fleet) ==
    \A key \in SortKeys, up \in BOOLEAN :
        LET Before(x, y) == Precedes(key, up, fleet[x], fleet[y])
        IN  \A x, y, z \in DOMAIN fleet :
                /\ x # y => (Before(x, y) <=> ~Before(y, x))
                /\ x # y /\ y # z /\ x # z /\ Before(x, y) /\ Before(y, z) => Before(x, z)

\* A list shows what its filter keeps, its group has and its query finds, where that is anything.
ShownAreKept(fleet, filter, group, hits, key) ==
    LET wanted == Filtered(fleet, filter, group) \cap hits
    IN  wanted # {} => ToSet(Shown(fleet, filter, group, hits, key)) = wanted

\* A run has the devices of its group or of the fleet that are online, if there is one.
Meant(fleet, mode, group) ==
    {d \in DOMAIN fleet : IsOnline(fleet[d]) /\ (mode = "group" => fleet[d].group = group)}
Asked(fleet, mode, group) ==
    IF mode = "group" THEN {d \in DOMAIN fleet : fleet[d].group = group} ELSE Meant(fleet, mode, group)

TargetsAreMeant(fleet, mode, group) ==
    Asked(fleet, mode, group) # {}
        => ToSet(ResolveTargets(fleet, mode, group, <<>>)) = Meant(fleet, mode, group)

NumberIsFree(fleet) == NextFreeNumber(fleet) \notin UsedNumbers(fleet) \cup {NoNumber}

\* A start that did not stop half way leaves every device of v2.0 in a group that had it.
ImportIsWhole(tables, legacy) ==
    \A i \in DOMAIN legacy : \A d \in legacy[i].serials :
        d \in DOMAIN tables.members /\ \E j \in DOMAIN legacy :
            d \in legacy[j].serials /\ tables.members[d] = legacy[j].name
=============================================================================
