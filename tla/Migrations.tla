----------------------------- MODULE Migrations -----------------------------
(***************************************************************************)
(* Schema migrations.  Every container of the backend runs `alembic        *)
(* upgrade head` before it serves (docker-entrypoint.sh), so containers    *)
(* that start together migrate the same database together, and an operator *)
(* may run `alembic downgrade -1` meanwhile (docs/DATABASE.md).  env.py    *)
(* wraps a whole run in one transaction.                                   *)
(*                                                                         *)
(* Alembic and PostgreSQL are modelled as the migrations use them: the     *)
(* revision is read once, at the start; a statement sees what is committed *)
(* and its own changes; a table somebody else creates, and a table locked  *)
(* by somebody else's foreign key or drop, is waited for; the version row  *)
(* is updated only where it still holds the revision the run is at; a      *)
(* cycle of waits is broken by failing one of its members.                 *)
(***************************************************************************)
EXTENDS Integers, FiniteSets, Sequences, Functions, Relation

CONSTANTS
    HeadRevision,            \* the last revision; 0 is the empty database
    Creates,         \* Creates[v]: the tables revision v creates, in order
    Drops,           \* Drops[v]: the tables its downgrade drops, in order
    Declared,        \* the tables the models of the application declare
    Containers,      \* processes that run `alembic upgrade head`
    Operators        \* processes that run `alembic downgrade -1`

Names(v) == {d.name : d \in Range(Creates[v])}
TablesAt(v) == UNION {Names(w) : w \in 1 .. v}
Tables == TablesAt(HeadRevision)
Definitions == UNION {Range(Creates[v]) : v \in 1 .. HeadRevision}
(* The other tables the foreign keys of a table reference. *)
References == [t \in Tables |->
    {ref[1] : ref \in (CHOOSE d \in Definitions : d.name = t).refs} \ {t}]

ASSUME MigrationsAssumption ==
    /\ HeadRevision \in Nat \ {0}
    /\ Containers \cap Operators = {} /\ IsFiniteSet(Containers \cup Operators)
    /\ "alembic_version" \notin Tables

(* The first i tables of a migration, in the order of its statements. *)
Created(v, i) == {Creates[v][j].name : j \in 1 .. i}
Dropped(v, i) == {Drops[v][j] : j \in 1 .. i}

(* What the migration files must be like, each by itself: every revision   *)
(* creates tables of its own, after the tables they reference, and its     *)
(* downgrade drops just these, none before the tables that reference it;   *)
(* all of them together create what the models declare.                    *)
ASSUME SchemaAssumption ==
    /\ Declared = Definitions
    /\ \A d, e \in Definitions : d.name = e.name => d = e
    /\ \A v, w \in 1 .. HeadRevision : v # w => Names(v) \cap Names(w) = {}
    /\ \A v \in 1 .. HeadRevision :
        /\ Creates[v] \in Seq(Range(Creates[v])) /\ Creates[v] # <<>>
        /\ Drops[v] \in Seq(Names(v)) /\ Range(Drops[v]) = Names(v)
        /\ \A i \in 0 .. Len(Creates[v]) - 1 :
            /\ Creates[v][i + 1].name \notin Created(v, i)
            /\ References[Creates[v][i + 1].name] \subseteq TablesAt(v - 1) \cup Created(v, i)
        /\ \A i \in 0 .. Len(Drops[v]) - 1 :
            /\ Drops[v][i + 1] \notin Dropped(v, i)
            /\ \A t \in TablesAt(v) \ Dropped(v, i) : Drops[v][i + 1] \notin References[t]

VARIABLES
    catalog,         \* the committed tables
    rows,            \* the committed rows of alembic_version: revisions
    tx               \* each runner's run of alembic

vars == <<catalog, rows, tx>>

Runners == Containers \cup Operators

Run == [pc : {"idle", "ensure", "running", "done", "failed"},
        rev : 0 .. HeadRevision,          \* the revision the run is at
        goal : 0 .. HeadRevision,
        i : Nat,                  \* statements of the current migration done
        made : SUBSET (Tables \cup {"alembic_version"}),  \* created here
        gone : SUBSET Tables,                             \* dropped here
        locks : SUBSET Tables,                            \* locked until the end
        set : SUBSET (1 .. HeadRevision), unset : SUBSET (1 .. HeadRevision), \* version rows
        error : BOOLEAN,          \* the last run failed on a statement
        raced : BOOLEAN]          \* somebody else committed since it began

Idle == [pc |-> "idle", rev |-> 0, goal |-> 0, i |-> 0, made |-> {}, gone |-> {},
         locks |-> {}, set |-> {}, unset |-> {}, error |-> FALSE, raced |-> FALSE]

Active(r) == tx[r].pc \in {"ensure", "running"}
Others(r) == {s \in Runners \ {r} : Active(s)}
Up(r) == tx[r].goal > tx[r].rev

(* Deployed databases: any revision, with the version table unless the     *)
(* database is new.                                                        *)
Init ==
    /\ \E v \in 0 .. HeadRevision :
        /\ rows = {v} \ {0}
        /\ catalog = TablesAt(v) \cup (IF v = 0 THEN {} ELSE {"alembic_version"})
    /\ tx = [r \in Runners |-> Idle]

(* MigrationContext.get_current_heads: the revision of a consistent table. *)
Revision(versions) == IF versions = {} THEN 0 ELSE CHOOSE v \in versions : TRUE

VisibleTables(r) == (catalog \cup tx[r].made) \ tx[r].gone
VisibleRows(r) == (rows \cup tx[r].set) \ tx[r].unset

-----------------------------------------------------------------------------
(* The statement the run r is at. *)

(* A deviation: a downgrade drops the tables in the order of the upgrade. *)
MigrationUnreversed(r) ==
    IF Up(r) THEN Creates[tx[r].rev + 1]
    ELSE [j \in DOMAIN Creates[tx[r].rev] |-> Creates[tx[r].rev][j].name]

Migration(r) == IF Up(r) THEN Creates[tx[r].rev + 1] ELSE Drops[tx[r].rev]
AtStatement(r) == tx[r].pc = "running" /\ tx[r].goal # tx[r].rev

Creating(r) == AtStatement(r) /\ Up(r) /\ tx[r].i < Len(Migration(r))
Dropping(r) == AtStatement(r) /\ ~Up(r) /\ tx[r].i < Len(Migration(r))
Writing(r) == AtStatement(r) /\ tx[r].i = Len(Migration(r))
Finished(r) == tx[r].pc = "running" /\ tx[r].goal = tx[r].rev

Current(r) == Migration(r)[tx[r].i + 1]
Old(r) == {tx[r].rev} \ {0}
New(r) == {IF Up(r) THEN tx[r].rev + 1 ELSE tx[r].rev - 1} \ {0}

(* The statement of r waits for the end of s: s made the same table, or    *)
(* locked what the statement locks, or wrote the same version row.         *)
WaitsFor(r, s) ==
    /\ s \in Others(r)
    /\ \/ tx[r].pc = "ensure" /\ "alembic_version" \in tx[s].made
       \/ Creating(r) /\ (Current(r).name \in tx[s].made
                            \/ References[Current(r).name] \cap tx[s].locks # {})
       \/ Dropping(r) /\ ({Current(r)} \cup References[Current(r)]) \cap tx[s].locks # {}
       \/ Writing(r) /\ (Old(r) \cap tx[s].unset # {} \/ New(r) \cap tx[s].set # {})

Proceeds(r) == \A s \in Runners : ~WaitsFor(r, s)

(* The statement fails: the table exists already, a table it references is *)
(* missing; the table to drop is missing or still referenced; the version  *)
(* row is not where the run believes it is.                                *)
Refused(r) ==
    \/ tx[r].pc = "ensure" /\ "alembic_version" \in catalog
    \/ Creating(r) /\ (Current(r).name \in VisibleTables(r)
                        \/ ~(References[Current(r).name] \subseteq VisibleTables(r)))
    \/ Dropping(r) /\ (Current(r) \notin VisibleTables(r)
                        \/ \E t \in VisibleTables(r) \cap Tables : Current(r) \in References[t])
    \/ Writing(r) /\ (~(Old(r) \subseteq VisibleRows(r)) \/ New(r) \cap VisibleRows(r) # {})

-----------------------------------------------------------------------------
(* alembic starts: it reads the revision, finds the migrations to run, and *)
(* looks for the version table if there is no revision.                    *)
Begin(r, goal) ==
    /\ ~Active(r)
    /\ tx' = [tx EXCEPT ![r] = [Idle EXCEPT
            !.pc = IF rows = {} /\ "alembic_version" \notin catalog THEN "ensure" ELSE "running",
            !.rev = Revision(rows), !.goal = goal]]
    /\ UNCHANGED <<catalog, rows>>

UpgradeHead(r) == r \in Containers /\ Begin(r, HeadRevision)

DowngradeOne(r) == r \in Operators /\ rows # {} /\ Begin(r, Revision(rows) - 1)

EnsureVersionTable(r) ==
    /\ tx[r].pc = "ensure" /\ Proceeds(r) /\ ~Refused(r)
    /\ tx' = [tx EXCEPT ![r].pc = "running", ![r].made = @ \cup {"alembic_version"}]
    /\ UNCHANGED <<catalog, rows>>

CreateTable(r) ==
    /\ Creating(r) /\ Proceeds(r) /\ ~Refused(r)
    /\ tx' = [tx EXCEPT ![r].made = @ \cup {Current(r).name},
                        ![r].locks = @ \cup References[Current(r).name],
                        ![r].i = @ + 1]
    /\ UNCHANGED <<catalog, rows>>

DropTable(r) ==
    /\ Dropping(r) /\ Proceeds(r) /\ ~Refused(r)
    /\ tx' = [tx EXCEPT ![r].gone = @ \cup {Current(r)},
                        ![r].locks = @ \cup {Current(r)} \cup References[Current(r)],
                        ![r].i = @ + 1]
    /\ UNCHANGED <<catalog, rows>>

(* HeadMaintainer: INSERT, UPDATE ... WHERE version_num = old, or DELETE. *)
WriteVersion(r) ==
    /\ Writing(r) /\ Proceeds(r) /\ ~Refused(r)
    /\ tx' = [tx EXCEPT ![r].unset = @ \cup (Old(r) \ tx[r].set),
                        ![r].set = (@ \ Old(r)) \cup New(r),
                        ![r].rev = IF Up(r) THEN @ + 1 ELSE @ - 1,
                        ![r].i = 0]
    /\ UNCHANGED <<catalog, rows>>

(* The transaction is gone, with everything it did. *)
RolledBack(r, error) ==
    [Idle EXCEPT !.pc = "failed", !.error = error, !.raced = tx[r].raced]

(* A deviation: there is no transaction, what was done stays done. *)
RollBackNothing(r, error) ==
    /\ tx' = [tx EXCEPT ![r] = RolledBack(r, error)]
    /\ catalog' = VisibleTables(r) /\ rows' = VisibleRows(r)

RollBack(r, error) ==
    /\ tx' = [tx EXCEPT ![r] = RolledBack(r, error)]
    /\ UNCHANGED <<catalog, rows>>

StatementFails(r) == Active(r) /\ Refused(r) /\ Proceeds(r) /\ RollBack(r, TRUE)

(* The process or its connection dies. *)
Crash(r) == Active(r) /\ RollBack(r, FALSE)

(* PostgreSQL's deadlock detector fails a member of a cycle of waits. *)
Deadlocked(r) ==
    /\ ~Proceeds(r)
    /\ TransitiveClosure([p \in Runners \X Runners |-> WaitsFor(p[1], p[2])], Runners)[r, r]
BreakDeadlock(r) == Active(r) /\ Deadlocked(r) /\ RollBack(r, FALSE)

(* begin_transaction's block ends; a container goes on to serve. *)
Commit(r) ==
    /\ Finished(r)
    /\ catalog' = VisibleTables(r)
    /\ rows' = VisibleRows(r)
    /\ tx' = [s \in Runners |->
                IF s = r THEN [Idle EXCEPT !.pc = "done"]
                ELSE IF Active(s) /\ (tx[r].made \cup tx[r].gone # {})
                THEN [tx[s] EXCEPT !.raced = TRUE] ELSE tx[s]]

Step(r) ==
    \/ EnsureVersionTable(r) \/ CreateTable(r) \/ DropTable(r) \/ WriteVersion(r)
    \/ StatementFails(r) \/ BreakDeadlock(r) \/ Commit(r)

Next == \E r \in Runners : UpgradeHead(r) \/ DowngradeOne(r) \/ Crash(r) \/ Step(r)

Spec == Init /\ [][Next]_vars

-----------------------------------------------------------------------------
TypeOK ==
    /\ catalog \subseteq Tables \cup {"alembic_version"}
    /\ rows \subseteq 1 .. HeadRevision
    /\ tx \in [Runners -> Run]

(* The refinement mapping: what is committed, with its constraints. *)
Committed == INSTANCE Revisions
    WITH revision <- Revision(rows), tables <- {d \in Definitions : d.name \in catalog}

(* Whoever migrates, together with whomever, and whatever crashes: what is *)
(* committed moves from one revision's schema to another's, whole, and the *)
(* head's is what the models declare, down to the rules of the foreign     *)
(* keys and the unique keys that the services rely on.                     *)
ImplementsRevisions == Committed!Spec

(* The migrations themselves never fail: a statement is refused only in a  *)
(* run that another run's commit has overtaken.                            *)
RefusedOnlyWhenOvertaken ==
    \A r \in Runners : tx[r].error => tx[r].raced

=============================================================================
