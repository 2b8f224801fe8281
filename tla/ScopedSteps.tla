------------------------------ MODULE ScopedSteps ------------------------------
(***************************************************************************)
(* ScopedStepStore (persistence/scoped_step_store.py): several mounts that *)
(* keep their runs in one inner step store, each under its scope's prefix, *)
(* beside rows written before any of them was scoped.                      *)
(*                                                                         *)
(* Names are sequences of symbols, because what the prefix does to them is *)
(* the point; what a row says beyond its run id and its parent is not.     *)
(***************************************************************************)
EXTENDS Naturals, Sequences, SequencesExt, FiniteSets

CONSTANTS
    Symbols,    \* what names are made of
    Mounts,
    ScopeOf,    \* each mount's scope=
    RunIds,     \* the run ids clients choose
    NoParent,
    MaxRows     \* bound: rows of the ledger

Separator == <<":">>

\* self._prefix
Prefix(m) == ScopeOf[m] \o Separator

\* A scope's prefix begins no other scope's, nor a run id from before: so it
\* is when no name has the separator in it.
ScopesAssumption ==
    /\ Separator \in Seq(Symbols)
    /\ ScopeOf \in [Mounts -> Seq(Symbols)]
    /\ RunIds \subseteq Seq(Symbols)
    /\ NoParent \notin RunIds
    /\ MaxRows \in Nat
    /\ \A m, n \in Mounts : ScopeOf[m] # ScopeOf[n] => ~IsPrefix(Prefix(m), Prefix(n))
    /\ \A m \in Mounts, r \in RunIds : ~IsPrefix(Prefix(m), r)

VARIABLE ledger \* the inner store's rows, of one owner

Tables == {"run", "event", "snapshot", "effect"}

\* parent_run_id, or None.
Parents == RunIds \union {NoParent}

(* A row is of a table and has its key, its parent and, as history, the    *)
(* scope that wrote it, if one did, and the run id it wrote it under.      *)
TypeOK ==
    /\ \A row \in ledger :
        /\ DOMAIN row = {"table", "key", "parent", "scope", "wrote"}
        /\ row.table \in Tables
        /\ row.parent \in Parents
        /\ row.wrote \in RunIds
        /\ IsSuffix(row.wrote, row.key)
        /\ row.table # "run" => \E run \in ledger : run.table = "run" /\ run.key = row.key
    /\ Cardinality(ledger) <= MaxRows

Init == ledger = {}

-----------------------------------------------------------------------------
Key(m, r) == Prefix(m) \o r

(* A test of the scope's name alone, wherever in the key it is.            *)
MineAnywhere(m, k) == \E i \in 1 .. Len(k) : IsPrefix(ScopeOf[m], SubSeq(k, i, Len(k)))

Mine(m, k) == IsPrefix(Prefix(m), k)

(* A prefix cut one symbol short.                                          *)
UnkeyShort(m, k) == IF Mine(m, k) THEN SubSeq(k, Len(Prefix(m)), Len(k)) ELSE k

Unkey(m, k) == IF Mine(m, k) THEN SubSeq(k, Len(Prefix(m)) + 1, Len(k)) ELSE k

\* _scoped_out
Out(m, rows) == {[row EXCEPT !.key = Unkey(m, row.key)] : row \in rows}

\* What the inner store holds under one key.
Under(table, k) == {row \in ledger : row.table = table /\ row.key = k}

-----------------------------------------------------------------------------
(* The protocol's reads, as a mount's request sees them.  get_run, events, *)
(* the latest snapshot and tool effects are asked for by run id; list_runs *)
(* asks for every run of the owner, and keeps this scope's.                *)

GetBy(table, m, r) == Out(m, Under(table, Key(m, r)))

ListRuns(m, parent) ==
    Out(m, {row \in ledger : /\ row.table = "run"
                             /\ parent = NoParent \/ row.parent = parent
                             /\ Mine(m, row.key)})

-----------------------------------------------------------------------------
Add(row) ==
    /\ Cardinality(ledger) < MaxRows
    /\ ledger' = ledger \union {row}

\* _scoped_in: the run id is prefixed, parent_run_id is not.
Write(table, m, r, p) ==
    Add([table |-> table, key |-> Key(m, r), parent |-> p,
         scope |-> {ScopeOf[m]}, wrote |-> r])

RegisterRun(m, r, p) ==
    /\ GetBy("run", m, r) = {}
    /\ p # NoParent => GetBy("snapshot", m, p) # {}
    /\ Write("run", m, r, p)

\* append_event, save_snapshot and record_tool_effect, of a registered run.
Record(table, m, r) ==
    /\ GetBy("run", m, r) # {}
    /\ Write(table, m, r, NoParent)

\* A row of the time before scopes.
Legacy(r) ==
    /\ Under("run", r) = {}
    /\ Add([table |-> "run", key |-> r, parent |-> NoParent, scope |-> {}, wrote |-> r])

Full == Cardinality(ledger) = MaxRows /\ UNCHANGED ledger

Next ==
    \/ \E m \in Mounts, r \in RunIds :
        \/ \E p \in Parents : RegisterRun(m, r, p)
        \/ \E table \in Tables \ {"run"} : Record(table, m, r)
    \/ \E r \in RunIds : Legacy(r)
    \/ Full

Spec == Init /\ [][Next]_ledger

-----------------------------------------------------------------------------
Of(m) == {row \in ledger : ScopeOf[m] \in row.scope}

\* A mount's own rows as a client wrote them: with the wire's run ids.
Wire(rows) == {[row EXCEPT !.key = row.wrote] : row \in rows}

(* A mount finds under a run id exactly what mounts of its own scope wrote *)
(* under it, whatever other scopes and older rows hold under the same id,  *)
(* and hands it back under the id the client knows: so a resume continues  *)
(* only its own endpoint's runs, and all of them.                          *)
FindsItsOwn ==
    \A m \in Mounts, r \in RunIds, table \in Tables :
        GetBy(table, m, r) = Wire({row \in Of(m) : row.table = table /\ row.wrote = r})

(* And it lists exactly those runs, lineage included: parent_run_id is not *)
(* prefixed on either side and still only ever joins runs of one scope.    *)
ListsItsOwn ==
    \A m \in Mounts, p \in Parents :
        ListRuns(m, p) = Wire({row \in Of(m) : /\ row.table = "run"
                                               /\ p = NoParent \/ row.parent = p})

(* A listed run's parent is a run the same mount finds.                    *)
LineageClosed ==
    \A m \in Mounts : \A row \in ListRuns(m, NoParent) :
        row.parent # NoParent => GetBy("run", m, row.parent) # {}
=============================================================================
