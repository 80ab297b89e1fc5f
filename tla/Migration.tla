------------------------------- MODULE Migration -------------------------------
(***************************************************************************)
(* The move of the records from SQLite to MySQL                            *)
(* (scripts/migrate_sqlite_to_mysql.py): the plan, its gate, what an apply *)
(* writes and the reconciliation after it.  Applies are repeated while     *)
(* both databases go on: the old one gets rows, the new one is reviewed.   *)
(* A key is a day, a code and a source after both were normalised, so that *)
(* rows which SQLite keeps apart may have the same one.                    *)
(***************************************************************************)
EXTENDS Integers, Sequences, SequencesExt, FiniteSets, FiniteSetsExt

CONSTANTS Rows,       \* rows the old database may get: [key, kind, strategy, extra]
          Strategies, \* codes
          OldAux,     \* the other tables of the old database: [table, key]
          MaxRows, MaxApplies

None == "none"
VARIABLES source,     \* rows of picks, by id
          target,     \* picks in MySQL: [key, strategy, extra, review]
          aux,        \* the other tables in MySQL: [table, key, value, copy]
          applied,    \* applies made
          result      \* what the last apply reported
vars == <<source, target, aux, applied, result>>

NoResult == [ok |-> FALSE, total |-> 0, inserted |-> 0, existing |-> 0, duplicates |-> 0, archived |-> 0, invalid |-> 0, mismatch |-> {}]
\* bootstrap_mysql_seed.py puts some strategies there.
Seed(codes) == {[table |-> "strategies", key |-> s, value |-> "new", copy |-> 0] : s \in codes}
Init == /\ source = << >> /\ target = {} /\ applied = 0 /\ result = NoResult
        /\ \E codes \in SUBSET Strategies : aux = Seed(codes)

\* load_strategy_id_map, and _map_pick_row: None for a strategy that is not there.
Known == {a.key : a \in {b \in aux : b.table = "strategies"}}
Resolved(row) == IF row.strategy \in Known THEN row.strategy ELSE None
Mapped(row) == [key |-> row.key, strategy |-> Resolved(row), extra |-> row.extra, review |-> "old"]

\* build_pick_migration_plan: archived rows first, then invalid ones, then rows
\* whose key an earlier row has.
Archived(archive) == {i \in DOMAIN source : source[i].kind = "archived" /\ ~archive}
Invalid == {i \in DOMAIN source : source[i].kind = "invalid"}
Mappable(archive) == DOMAIN source \ (Archived(archive) \cup Invalid)
Duplicates(archive) == {i \in Mappable(archive) : \E j \in Mappable(archive) : j < i /\ source[j].key = source[i].key}
Planned(archive) == Mappable(archive) \ Duplicates(archive)

\* load_target_preconditions and validate_apply_gate.
Unresolved(archive) == {i \in Mappable(archive) : Resolved(source[i]) = None}
Gate(archive, unresolvedOk, invalidOk) ==
    /\ Known # {}
    /\ unresolvedOk \/ Unresolved(archive) = {}
    /\ invalidOk \/ Invalid = {}

\* apply_pick_plan: a pick that exists stays, but for a payload it lacks.
Of(key) == {p \in target : p.key = key}
SlipFilled(p, row) == [Mapped(row) EXCEPT !.extra = IF p.extra = None THEN row.extra ELSE p.extra]
Filled(p, row) == [p EXCEPT !.extra = IF p.extra = None THEN row.extra ELSE p.extra]
Written(archive) ==
    LET rows == {source[i] : i \in Planned(archive)}
    IN {p \in target : \A r \in rows : r.key # p.key}
       \cup UNION {IF Of(r.key) = {} THEN {Mapped(r)} ELSE {Filled(p, r) : p \in Of(r.key)} : r \in rows}

\* reconcile_pick_plan: the planned rows whose pick is missing or differs.
Mismatches(archive, picks) == {source[i].key : i \in {j \in Planned(archive) : Mapped(source[j]) \notin picks}}

\* apply_auxiliary_plan: by its natural key, which is the time of the apply for
\* what has no date; strategies, settings, pools and reports are overwritten,
\* filters, logs and results that exist are left alone.
Overwritten == {"strategies", "ui_settings", "strategy_pools", "research_reports"}
Dated(row) == row.key # "undated"
Copies(row) == {a \in aux : Dated(row) /\ a.table = row.table /\ a.key = row.key}
AuxWritten(row) == IF Copies(row) = {} THEN {[table |-> row.table, key |-> row.key, value |-> "old", copy |-> applied]}
                   ELSE IF row.table \in Overwritten THEN {[a EXCEPT !.value = "old"] : a \in Copies(row)}
                   ELSE Copies(row)

\* main --apply, one transaction: the strategies of the old database are written
\* after the plan that needs them was made.
Apply(archive, unresolvedOk, invalidOk) ==
    /\ applied < MaxApplies /\ applied' = applied + 1
    /\ UNCHANGED source
    /\ IF Gate(archive, unresolvedOk, invalidOk)
       THEN /\ target' = Written(archive)
            /\ aux' = (aux \ UNION {Copies(row) : row \in OldAux}) \cup UNION {AuxWritten(row) : row \in OldAux}
            /\ result' = [ok |-> TRUE, total |-> Len(source), inserted |-> Cardinality({i \in Planned(archive) : Of(source[i].key) = {}}),
                          existing |-> Cardinality({i \in Planned(archive) : Of(source[i].key) # {}}),
                          duplicates |-> Cardinality(Duplicates(archive)), archived |-> Cardinality(Archived(archive)),
                          invalid |-> Cardinality(Invalid), mismatch |-> Mismatches(archive, target')]
       ELSE result' = [NoResult EXCEPT !.total = Len(source)] /\ UNCHANGED <<target, aux>>

\* The old database goes on, and so does the new one.
Add == /\ Len(source) < MaxRows /\ \E row \in Rows : source' = Append(source, row)
       /\ result' = NoResult /\ UNCHANGED <<target, aux, applied>>
Review(p) == /\ p.review = "old" /\ target' = (target \ {p}) \cup {[p EXCEPT !.review = "new"]}
             /\ UNCHANGED <<source, aux, applied, result>>
Change(a) == /\ a.value = "old" /\ aux' = (aux \ {a}) \cup {[a EXCEPT !.value = "new"]}
             /\ UNCHANGED <<source, target, applied, result>>

Next == \/ \E a, u, i \in BOOLEAN : Apply(a, u, i)
        \/ Add \/ (\E p \in target : Review(p)) \/ \E a \in aux : Change(a)
Spec == Init /\ [][Next]_vars

-------------------------------------------------------------------------------
(* docs/product/SCHEMA_ALIGNMENT.md: after an apply every row of the old       *)
(* database is accounted for, and whatever is neither archived nor invalid has *)
(* a pick of its key.                                                          *)
NothingLost ==
    result.ok => /\ result.total = result.inserted + result.existing + result.duplicates + result.archived + result.invalid
                 /\ \A i \in Mappable(FALSE) : \E p \in target : p.key = source[i].key

(* test_apply_pick_plan_inserts_once_and_skips_existing: an apply keeps what   *)
(* was reviewed in MySQL, and a second one with no more rows inserts nothing.  *)
PicksKept ==
    [][applied' # applied /\ result'.ok =>
          /\ \A p \in target : \E q \in target' : q.key = p.key /\ q.review = p.review /\ q.strategy = p.strategy
          /\ result.ok => result'.inserted <= result.archived]_vars

(* test_apply_auxiliary_plan_is_idempotent_and_maps_legacy_fields: what has a  *)
(* natural key is there once however often the plan is applied, and filters,   *)
(* logs and results are not written over.                                      *)
AuxOnce ==
    [][applied' # applied =>
          /\ \A a, b \in aux' : Dated(a) /\ a.table = b.table /\ a.key = b.key => a = b
          /\ \A a \in aux : a.table \notin Overwritten => a \in aux']_vars
===============================================================================
