------------------------------- MODULE Storage -------------------------------
(***************************************************************************)
(* The database file of farm/storage: how database.cpp opens it and brings    *)
(* it up to date, the commands every first start saves in it, the threads     *)
(* that hold connections to it, and its backup.                             *)
(*                                                                         *)
(* A program that lists devices may open the file beside the control center;  *)
(* both are processes here.  What a statement does is whether it is in        *)
(* effect, and every statement can fail.                                     *)
(***************************************************************************)
EXTENDS Integers, FiniteSetsExt, SequencesExt

CONSTANTS
    Latest,       \* latestSchemaVersion
    Statements,   \* how many statements a migration has
    Seeds         \* how many commands a first start saves
-----------------------------------------------------------------------------
(* Migrations.  Each statement is harmless where it is in effect already.    *)

Statement(m) == {m} \X (1..Statements)

\* The rows of schema_version, what is in effect, and how often each seed is a saved command.
NewFile   == [versions |-> {}, has |-> {}, commands |-> [i \in 1..Seeds |-> 0]]
FileOf(v) == [NewFile EXCEPT !.versions = {v}, !.has = UNION {Statement(m) : m \in 1..v}]
Version(f) == Max(f.versions \cup {0})

\* A process: how far it is, the version it has seen or made, the next seed, and whether a
\* commit of its failed.
Out == [at |-> "out", current |-> 0, seed |-> 0, torn |-> FALSE]

Opened(f, processes) == [file |-> f, on |-> [p \in processes |-> Out]]

Went(s, p, at) == [s EXCEPT !.on[p].at = at]

\* A table that cannot be read counts as none.
ReadVersion(s, p, readable) ==
    LET current == IF readable THEN Version(s.file) ELSE 0
        t       == [s EXCEPT !.on[p].current = current]
    IN  IF current > Latest THEN Went(t, p, "failed")
        ELSE Went(t, p, IF current = Latest THEN "open" ELSE "migrating")

\* The next migration is one transaction, of which the old version need not be deleted.
Migrate(s, p, deleted) ==
    LET m    == s.on[p].current + 1
        file == [s.file EXCEPT !.has = @ \cup Statement(m), !.versions = {m} \cup (IF deleted THEN {} ELSE @)]
    IN  Went([s EXCEPT !.file = file, !.on[p].current = m], p, IF m = Latest THEN "open" ELSE "migrating")

\* The outcome of its commit is not looked at, and what was begun stays open.
MigrateUncommitted(s, p) ==
    LET m == s.on[p].current + 1
    IN  Went([s EXCEPT !.on[p].current = m, !.on[p].torn = TRUE], p, IF m = Latest THEN "open" ELSE "migrating")

LookAtCommands(s, p, readable) ==
    IF readable /\ \E i \in 1..Seeds : s.file.commands[i] > 0 THEN Went(s, p, "ready")
    ELSE Went([s EXCEPT !.on[p].seed = 1], p, "seeding")

SaveSeed(s, p, saved) ==
    LET i == s.on[p].seed
        t == [s EXCEPT !.file.commands[i] = IF saved THEN @ + 1 ELSE @, !.on[p].seed = i + 1]
    IN  Went(t, p, IF i = Seeds THEN "ready" ELSE "seeding")

Dies(s, p) == [s EXCEPT !.on[p] = Out]

\* What process p may do next, when these things may go wrong.
Goes(s, p, faults) ==
    LET at   == s.on[p].at
        fine == {TRUE} \cup (IF "read" \in faults THEN {FALSE} ELSE {})
    IN  (CASE at = "out" -> {ReadVersion(s, p, ok) : ok \in fine}
           [] at = "migrating" ->
                {Went(s, p, "failed")}
                \cup (IF s.on[p].torn THEN {} ELSE {Migrate(s, p, deleted) : deleted \in BOOLEAN})
                \cup (IF "commit" \in faults THEN {MigrateUncommitted(s, p)} ELSE {})
           [] at = "open" -> {LookAtCommands(s, p, ok) : ok \in fine}
           [] at = "seeding" -> {SaveSeed(s, p, ok) : ok \in fine}
           [] OTHER -> {})
        \cup (IF at \in {"ready", "failed"} \/ "crash" \in faults THEN {Dies(s, p)} ELSE {})

RECURSIVE Files(_, _, _)

Files(found, seen, faults) ==
    LET new == {t \in UNION {UNION {Goes(s, p, faults) : p \in DOMAIN s.on} : s \in found} :
                    \A i \in 1..Seeds : t.file.commands[i] <= 2} \ seen
    IN  IF new = {} THEN seen ELSE Files(new, seen \cup new, faults)

\* The file has what its version promises, and a program that opened it finds all it needs.
FileIsWhole(s)   == \A m \in 1..Version(s.file) : m <= Latest => Statement(m) \subseteq s.file.has
OpensAreWhole(s) == \A p \in DOMAIN s.on : s.on[p].at \in {"open", "seeding", "ready"} =>
                        \A m \in 1..Latest : Statement(m) \subseteq s.file.has
\* Nobody writes to the file of a newer build.
NewerIsLeftAlone(s, f) == s.file = f
SeedsAreOnce(s)  == \A i \in 1..Seeds : s.file.commands[i] <= 1
SeedsAreThere(s) == \A p \in DOMAIN s.on : s.on[p].at = "ready" => \A i \in 1..Seeds : s.file.commands[i] > 0
-----------------------------------------------------------------------------
(* Connections.  A name is a number; own[t] is the name thread t remembers,  *)
(* 0 if none, and thread 1 the one that opens and closes.                    *)

Closed(threads) == [open |-> FALSE, alive |-> FALSE, names |-> {}, made |-> 0,
                    own |-> [t \in threads |-> 0], inside |-> {}]

OpenAll(c)  == [c EXCEPT !.open = TRUE, !.alive = TRUE, !.inside = {1}]
\* connection(): between its look at m_open and its entry in the registry others go on.
Ask(c, t)   == IF c.open THEN [c EXCEPT !.inside = @ \cup {t}] ELSE c
Enter(c, t) ==
    LET made == IF c.own[t] = 0 THEN c.made + 1 ELSE c.made
        name == IF c.own[t] = 0 THEN made ELSE c.own[t]
    IN  [c EXCEPT !.made = made, !.own[t] = name, !.names = @ \cup {name}, !.inside = @ \ {t}]
\* The thread ends; nobody touches the registry once it is closed.
End(c, t)   == [c EXCEPT !.own[t] = 0, !.names = IF c.alive THEN @ \ {c.own[t]} ELSE @]
CloseAll(c) == [c EXCEPT !.open = FALSE, !.alive = FALSE, !.names = {}, !.own[1] = 0]

\* `orderly`: no thread is inside connection() when the database is closed.
Connects(c, orderly, most) ==
    {Enter(c, t) : t \in {t \in c.inside : c.own[t] > 0 \/ c.made < most}}
    \cup {Ask(c, t) : t \in DOMAIN c.own} \cup {End(c, t) : t \in DOMAIN c.own \ (c.inside \cup {1})}
    \cup (IF c.open THEN {} ELSE {OpenAll(c)})
    \cup (IF ~c.open \/ 1 \in c.inside \/ (orderly /\ c.inside # {}) THEN {} ELSE {CloseAll(c)})

RECURSIVE Connected(_, _, _, _)

Connected(found, seen, orderly, most) ==
    LET new == UNION {Connects(c, orderly, most) : c \in found} \ seen
    IN  IF new = {} THEN seen ELSE Connected(new, seen \cup new, orderly, most)

\* A connection belongs to one thread that runs, and none is left of a database that is closed.
ConnectionsAreOwned(c) ==
    /\ \A n \in c.names : Cardinality({t \in DOMAIN c.own : c.own[t] = n}) = 1
    /\ ~c.open => c.names = {}
-----------------------------------------------------------------------------
(* A backup of a file whose newest rows may still be in its log: numbers, 0   *)
(* for no file.                                                             *)

BackupTo(newest, main, vacuum, checkpoint, copied) ==
    IF vacuum THEN [ok |-> TRUE, copy |-> newest]
    ELSE IF ~copied THEN [ok |-> FALSE, copy |-> 0]
    ELSE [ok |-> TRUE, copy |-> IF checkpoint = "done" THEN newest ELSE main]

BackupIsNewest(newest, main, vacuum, checkpoint, copied) ==
    LET b == BackupTo(newest, main, vacuum, checkpoint, copied)
    IN  b.ok /\ checkpoint = "done" => b.copy = newest
=============================================================================
