--------------------------- MODULE Authorization ---------------------------
(***************************************************************************)
(* What the state store knows of the plan and of the contracts that        *)
(* authorize its actions: the plan row, four values of the metadata table  *)
(* and the authorization rows, written by a controller start, a legacy     *)
(* migration, a schema upgrade and `migrate`.                              *)
(*                                                                         *)
(* A command is the list of transactions it has still to commit; a kill    *)
(* drops the rest of the list.  Commands run one at a time.  The tasks and *)
(* gates some of them create belong to StateStore and are left out.  A     *)
(* bound hash is the triple it is computed from.                           *)
(***************************************************************************)
EXTENDS Naturals, Sequences

CONSTANTS
  PlanHash,      \* the canonical hashes a plan may have
  Nil,           \* a missing value
  Contract,      \* the contract identifiers
  Lists,         \* Contract -> the actions it grants and denies; "*" grants all
  Operation,     \* the actions one may ask about
  MaxCommands    \* bound on the commands and confirmations

ASSUME AuthorizationAssumption ==
  /\ Nil \notin PlanHash /\ MaxCommands \in Nat
  /\ Lists \in [Contract -> [granted : SUBSET (Operation \cup {"*"}), denied : SUBSET Operation]]

VARIABLES
  planRow,      \* the hash in the plan row recorded last
  meta,         \* metadata: canonical hash, bound hash, schema and canonicalization versions
  contracts,    \* the authorization rows
  authRunning,  \* the command under way
  authTodo,     \* the transactions it has still to commit
  recordTorn,   \* history: a record_plan was killed and none has completed since
  unconfirmed,  \* history: active when a schema upgrade completed, not confirmed since
  authCommands  \* commands so far

authVars ==
  <<planRow, meta, contracts, authRunning, authTodo, recordTorn, unconfirmed, authCommands>>

HashOrNil == PlanHash \cup {Nil}
SchemaVersion == {"1.0", "1.0.0", "2.0", "3.0"}
BoundHash == [plan : HashOrNil, schema : SchemaVersion, canon : {"1", "2"}]
ASSUME NilAssumption == Nil \notin BoundHash
ContractRow ==
  [bound : BoundHash \cup {Nil}, state : {"missing", "active", "revoked"}, needs : BOOLEAN]

AuthTypeOK ==
  /\ planRow \in HashOrNil /\ recordTorn \in BOOLEAN /\ unconfirmed \subseteq Contract
  /\ meta.canonical \in HashOrNil /\ meta.bound \in BoundHash \cup {Nil}
  /\ meta.schema \in SchemaVersion \cup {Nil} /\ meta.canon \in {"1", "2", Nil}
  /\ contracts \in [Contract -> ContractRow] /\ authCommands \in 0..MaxCommands
  /\ (authRunning = "none") <=> (authTodo = <<>>)

AuthInit ==
  /\ planRow = Nil /\ recordTorn = FALSE /\ unconfirmed = {} /\ authCommands = 0
  /\ meta = [canonical |-> Nil, bound |-> Nil, schema |-> Nil, canon |-> Nil]
  /\ contracts = [c \in Contract |-> [bound |-> Nil, state |-> "missing", needs |-> FALSE]]
  /\ authRunning = "none" /\ authTodo = <<>>

-----------------------------------------------------------------------------
(* Who may do what *)

\* The deny list wins over the grants; what is not granted is denied.
Granted(c, op) == op \notin Lists[c].denied /\ Lists[c].granted \cap {op, "*"} # {}

\* is_authorized of the store; it does not look at expires_at.
IsAuthorized(c, op) ==
  /\ contracts[c].state = "active" /\ ~contracts[c].needs
  /\ meta.bound \in {Nil, contracts[c].bound}
  /\ Granted(c, op)

-----------------------------------------------------------------------------
(* The transactions of each command *)

Txn(key, value) == [key |-> key, value |-> value]
Bind(p, schema, canon) == [plan |-> p, schema |-> schema, canon |-> canon]

\* Mutant of RecordPlan: the bound hash is left to whoever confirms a contract.
RecordPlanUnbound(p, schema) ==
  << Txn("plan", p), Txn("canonical", p), Txn("schema", schema), Txn("canon", "1") >>

RecordPlan(p, schema) ==
  << Txn("plan", p), Txn("canonical", p), Txn("bound", Bind(p, schema, "1")),
     Txn("schema", schema), Txn("canon", "1") >>

\* Mutant of UpgradeSchema: it relies on the bound hash alone.
UpgradeSchemaUnmarked ==
  << Txn("schema", "3.0"), Txn("canon", "2"),
     Txn("bound", Bind(meta.canonical, "3.0", "2")) >>

UpgradeSchema ==
  << Txn("schema", "3.0"), Txn("canon", "2"),
     Txn("bound", Bind(meta.canonical, "3.0", "2")), Txn("mark", Nil) >>

RunCommand(command, writes) ==
  /\ authRunning = "none" /\ authCommands < MaxCommands
  /\ authCommands' = authCommands + 1 /\ authRunning' = command /\ authTodo' = writes
  /\ UNCHANGED <<planRow, meta, contracts, recordTorn, unconfirmed>>

\* initialize_plan of a controller start, with whatever the plan file holds now.
StartPlan == \E p \in PlanHash : RunCommand("record", RecordPlan(p, "1.0"))

\* upgrade_schema_with_hash_reset: a library call.
Upgrade == RunCommand("upgrade", UpgradeSchema)

\* `migrate`: nothing to do at the current version, else the schema version alone is
\* rewritten; the bound hash stays.
MigrateSchema ==
  meta.schema # "1.0.0" /\ RunCommand("migrate", <<Txn("schema", "1.0.0")>>)

\* migrate_legacy_state: a legacy hash other than the recorded one is a conflict and
\* raises before anything is written.  (So does another project state.)
MigrateLegacy ==
  \E p \in PlanHash : meta.canonical \in {Nil, p} /\ RunCommand("record", RecordPlan(p, "2.0"))

\* What one transaction does.
ApplyTxn(w) ==
  /\ planRow' = IF w.key = "plan" THEN w.value ELSE planRow
  /\ meta' = IF w.key \in DOMAIN meta THEN [meta EXCEPT ![w.key] = w.value] ELSE meta
  /\ contracts' = IF w.key # "mark" THEN contracts
                  ELSE [c \in Contract |->
                          [contracts[c] EXCEPT !.needs = @ \/ contracts[c].state = "active"]]

FinalTxn == Len(authTodo) = 1

Commit ==
  /\ authTodo # <<>>
  /\ ApplyTxn(Head(authTodo)) /\ authTodo' = Tail(authTodo)
  /\ authRunning' = IF FinalTxn THEN "none" ELSE authRunning
  /\ recordTorn' = (recordTorn /\ ~(FinalTxn /\ authRunning = "record"))
  /\ unconfirmed' = IF FinalTxn /\ authRunning = "upgrade"
              THEN unconfirmed \cup {c \in Contract : contracts[c].state = "active"} ELSE unconfirmed
  /\ UNCHANGED authCommands

KillCommand ==
  /\ authTodo # <<>>
  /\ authRunning' = "none" /\ authTodo' = <<>>
  /\ recordTorn' = (recordTorn \/ (authRunning = "record" /\ Head(authTodo).key # "plan"))
  /\ UNCHANGED <<planRow, meta, contracts, unconfirmed, authCommands>>

\* upsert_authorization: a human grants or revokes under the bound hash of the day.
Confirm(c, state) ==
  /\ authRunning = "none" /\ authCommands < MaxCommands
  /\ contracts' = [contracts EXCEPT ![c] = [bound |-> meta.bound, state |-> state, needs |-> FALSE]]
  /\ unconfirmed' = unconfirmed \ {c} /\ authCommands' = authCommands + 1
  /\ UNCHANGED <<planRow, meta, authRunning, authTodo, recordTorn>>

AuthNext ==
  \/ StartPlan \/ Upgrade \/ MigrateSchema \/ MigrateLegacy
  \/ Commit \/ KillCommand
  \/ \E c \in Contract, state \in {"active", "revoked"} : Confirm(c, state)

AuthSpec == AuthInit /\ [][AuthNext]_authVars

-----------------------------------------------------------------------------
(* Properties *)

\* A contract that was active when a schema upgrade completed authorizes nothing until
\* it is confirmed again, although the next start binds the plan to the old schema
\* again and so to the very hash the contract was given under.
UpgradeInvalidates ==
  \A c \in unconfirmed, op \in Operation : ~IsAuthorized(c, op)

\* Between commands, unless a kill tore the last record, a contract authorizes actions
\* of the recorded plan only: a contract for the plan before is of no use.
AuthorizedForRecordedPlan ==
  authRunning = "none" /\ ~recordTorn /\ planRow # Nil =>
    \A c \in Contract : (\E op \in Operation : IsAuthorized(c, op)) =>
      contracts[c].bound # Nil /\ contracts[c].bound.plan = planRow

\* Both: the rows authorize what was confirmed last, for the plan that is recorded.
AuthorizationHolds == UpgradeInvalidates /\ AuthorizedForRecordedPlan
=============================================================================
