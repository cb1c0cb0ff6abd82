------------------------------ MODULE Migration ------------------------------
(***************************************************************************)
(* migrate_json_to_sqlite() of tftpos/db.py beside the JSON backend whose  *)
(* file it reads: without the backend's lock, in one read, and then one    *)
(* row of the table at a time.                                             *)
(*                                                                         *)
(* The file holds only what the backend writes, so no record is malformed. *)
(* The rows of an attempt that failed half-way stay, and it may be tried   *)
(* again.                                                                  *)
(***************************************************************************)
EXTENDS JSONBackend, FiniteSets, Naturals

(* A file holds finitely many records; there are finitely many addresses. *)
ASSUME MigrationAssumption == IsFiniteSet(Macs)

VARIABLES
    table,   \* the rows of the SQLite database
    stage,   \* of the migration: "idle", "copy", or "done" when it returned
    text,    \* the records it has read
    left,    \* the MACs still to be saved, a subset of Macs
    count,   \* what it returns
    source,  \* history variable: the records of the backend at the read
    blind    \* history variable: the read met a file being rewritten

migrationVars == <<table, stage, text, left, count, source, blind>>

MigrationInit ==
    /\ Init
    /\ table = Empty
    /\ stage = "idle"
    /\ text = Empty /\ source = Empty
    /\ left = {}
    /\ count = 0
    /\ blind = FALSE

-----------------------------------------------------------------------------
(* The MACs the records have. *)
Found(recs) == {m \in Macs : recs[m] # Nothing}

(* json_path.read_text() and json.loads().  A file being rewritten may be  *)
(* read empty, which is taken for no records; one that holds half a text   *)
(* is refused, and the migration has not begun.                            *)
ReadText ==
    /\ stage # "copy"
    /\ text' = Loaded(file)
    /\ left' = Found(text')
    /\ stage' = "copy"
    /\ count' = 0
    /\ source' = Visible
    /\ blind' = Writing
    /\ UNCHANGED table

(* backend.save() of the next record. *)
CopyRecord(m) ==
    /\ stage = "copy"
    /\ m \in left
    /\ table' = [table EXCEPT ![m] = text[m]]
    /\ left' = left \ {m}
    /\ count' = count + 1
    /\ UNCHANGED <<stage, text, source, blind>>

(* A slip: a record that cannot be saved is skipped like a malformed one. *)
SkipRecord(m) ==
    /\ stage = "copy"
    /\ m \in left
    /\ left' = left \ {m}
    /\ UNCHANGED <<table, stage, text, count, source, blind>>

(* It raises: the database is locked or full.  So does the migration.      *)
CopyFails(m) ==
    /\ stage = "copy"
    /\ m \in left
    /\ stage' = "idle"
    /\ UNCHANGED <<table, text, left, count, source, blind>>

(* return count *)
MigrationReturns ==
    /\ stage = "copy"
    /\ left = {}
    /\ stage' = "done"
    /\ UNCHANGED <<table, text, left, count, source, blind>>

Migrate ==
    \/ ReadText
    \/ \E m \in Macs : CopyRecord(m) \/ CopyFails(m)
    \/ MigrationReturns

MigratingNext ==
    \/ Next /\ UNCHANGED migrationVars
    \/ Migrate /\ UNCHANGED vars

MigratingSpec ==
    /\ MigrationInit
    /\ [][MigratingNext]_<<vars, migrationVars>>
    /\ \A t \in Threads : WF_vars(Step(t))

-----------------------------------------------------------------------------
(* A migration that returns has put every record the backend had when it   *)
(* began into the table, as it was, whatever threads saved meanwhile and   *)
(* whatever earlier attempts have left, and returns their number; unless   *)
(* its read met a rewrite (db.py:468-493).                                 *)
MigratedIsWhole ==
    stage = "done" /\ ~blind =>
        /\ \A m \in Found(source) : table[m] = source[m]
        /\ count = Cardinality(Found(source))

=============================================================================
