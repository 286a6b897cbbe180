-------------------------- MODULE MigrationsProofs --------------------------
(***************************************************************************)
(* Migrations by any number of containers and operators, over any schema   *)
(* history that is sound by itself, implement Revisions, and only a run    *)
(* that was overtaken by another one's commit is refused a statement.      *)
(*                                                                         *)
(* The version row is what keeps runs apart, except from the empty         *)
(* database, which has none: there it is the first table of the first      *)
(* migration.  The locks of foreign keys are not needed for either result. *)
(***************************************************************************)
EXTENDS Migrations, TLAPS

-----------------------------------------------------------------------------
(* The tables that the migrations after f, up to v, create. *)
Between(f, v) == UNION {Names(w) : w \in (f + 1) .. v}

Fields == {"pc", "rev", "goal", "i", "made", "gone", "locks", "set", "unset", "error", "raced"}

(* A run x that is over, or has not begun, has nothing uncommitted. *)
Resting(x) ==
    /\ x.pc \in {"idle", "done", "failed"}
    /\ x.made = {} /\ x.gone = {} /\ x.set = {} /\ x.unset = {}
    /\ x.error = FALSE \/ x.raced = TRUE

(* What a run that began at the revision f has made of the tables: *)
Ascending(x, f) ==
    /\ x.goal = HeadRevision /\ x.rev \in f .. HeadRevision /\ x.gone = {}
    /\ x.i \in Nat
    /\ x.rev = HeadRevision => x.i = 0
    /\ x.rev < HeadRevision => x.i <= Len(Creates[x.rev + 1])
    /\ x.made \cap Tables = Between(f, x.rev) \cup Created(x.rev + 1, x.i)

Descending(x, f) ==
    /\ f >= 1 /\ x.goal = f - 1 /\ x.made = {} /\ x.pc = "running"
    /\ x.i \in Nat
    /\ \/ x.rev = f /\ x.i <= Len(Drops[f]) /\ x.gone = Dropped(f, x.i)
       \/ x.rev = f - 1 /\ x.i = 0 /\ x.gone = Names(f)

(* The database is at the revision f. *)
AtRevision(f, tables, versions) ==
    versions = {f} \ {0} /\ tables \cap Tables = TablesAt(f)

(* A run in progress: it has written the version row once it is past f,    *)
(* and then nobody else has; what it created nobody else has committed.    *)
RunFrom(x, f, tables, versions) ==
    /\ DOMAIN x = Fields /\ x.pc \in {"ensure", "running"} /\ f \in 0 .. HeadRevision
    /\ x.error = FALSE /\ x.raced \in BOOLEAN
    /\ x.pc = "ensure" => x.rev = 0 /\ x.i = 0 /\ x.made = {}
    /\ Ascending(x, f) \/ Descending(x, f)
    /\ x.rev = f => x.set = {} /\ x.unset = {}
    /\ x.rev # f => x.set = {x.rev} \ {0} /\ x.unset = {f} \ {0} /\ versions = {f} \ {0}
    /\ x.raced = FALSE =>
           versions = {f} \ {0} /\ (x.pc = "ensure" => "alembic_version" \notin tables)
    /\ x.made \cap tables = {}

Wrote(x) == x.set \cup x.unset # {}

Inv ==
    /\ DOMAIN tx = Runners
    /\ \E v \in 0 .. HeadRevision : AtRevision(v, catalog, rows)
    /\ \A r \in Runners :
           Resting(tx[r]) \/ \E f \in 0 .. HeadRevision : RunFrom(tx[r], f, catalog, rows)
    /\ \A r, s \in Runners : r # s => tx[r].made \cap tx[s].made = {}
    /\ \A r, s \in Runners : r # s => ~Wrote(tx[r]) \/ ~Wrote(tx[s])

-----------------------------------------------------------------------------
(* The version row tells the revision. *)
LEMMA VersionRow ==
    ASSUME NEW u \in Nat, NEW v \in Nat
    PROVE  /\ Revision({v} \ {0}) = v
           /\ {u} \ {0} = {v} \ {0} => u = v
<1>1. CASE v = 0
  BY <1>1 DEF Revision
<1>2. CASE v # 0
  <2>1. {v} \ {0} = {v}
    BY <1>2
  <2>2. (CHOOSE w \in {v} : TRUE) = v
    OBVIOUS
  <2> QED BY <1>2, <2>1, <2>2 DEF Revision
<1> QED BY <1>1, <1>2

(* A migration makes or drops one table after the other. *)
LEMMA StatementByStatement ==
    ASSUME NEW v, NEW i \in Nat
    PROVE  /\ Created(v, 0) = {} /\ Dropped(v, 0) = {}
           /\ Created(v, i + 1) = Created(v, i) \cup {Creates[v][i + 1].name}
           /\ Dropped(v, i + 1) = Dropped(v, i) \cup {Drops[v][i + 1]}
<1>1. 1 .. 0 = {} /\ 1 .. (i + 1) = (1 .. i) \cup {i + 1}
  OBVIOUS
<1>2. Created(v, 0) = {} /\ Dropped(v, 0) = {}
  BY <1>1 DEF Created, Dropped
<1>3. Created(v, i + 1) = Created(v, i) \cup {Creates[v][i + 1].name}
  BY <1>1 DEF Created
<1>4. Dropped(v, i + 1) = Dropped(v, i) \cup {Drops[v][i + 1]}
  BY <1>1 DEF Dropped
<1> QED BY <1>2, <1>3, <1>4

(* A migration creates and drops exactly its own tables, and it has some. *)
LEMMA WholeMigration ==
    ASSUME NEW v \in 1 .. HeadRevision
    PROVE  /\ Len(Creates[v]) \in Nat /\ Created(v, Len(Creates[v])) = Names(v)
           /\ Len(Drops[v]) \in Nat /\ Dropped(v, Len(Drops[v])) = Names(v)
           /\ Names(v) # {} /\ Names(v) \subseteq Tables
<1>1. /\ Creates[v] \in Seq(Range(Creates[v])) /\ Creates[v] # <<>>
      /\ Drops[v] \in Seq(Names(v)) /\ Range(Drops[v]) = Names(v)
  BY SchemaAssumption
<1>2. /\ Len(Creates[v]) \in Nat /\ DOMAIN Creates[v] = 1 .. Len(Creates[v])
      /\ Len(Drops[v]) \in Nat /\ DOMAIN Drops[v] = 1 .. Len(Drops[v])
  BY <1>1
<1>3. Created(v, Len(Creates[v])) = Names(v)
  BY <1>2 DEF Created, Names, Range
<1>4. Dropped(v, Len(Drops[v])) = Names(v)
  BY <1>1, <1>2 DEF Dropped, Range
<1>5. Names(v) # {}
  <2>1. Len(Creates[v]) >= 1
    BY <1>1, <1>2
  <2>2. Creates[v][1].name \in Created(v, Len(Creates[v]))
    BY <1>2, <2>1 DEF Created
  <2> QED BY <1>3, <2>2
<1>6. Names(v) \subseteq Tables
  BY DEF Tables, TablesAt
<1> QED BY <1>2, <1>3, <1>4, <1>5, <1>6

(* The schema grows by the tables of one migration after the other, and no *)
(* migration creates a table that is there.                                *)
LEMMA MigrationByMigration ==
    ASSUME NEW f \in 0 .. HeadRevision, NEW v \in f .. HeadRevision
    PROVE  /\ Between(f, f) = {} /\ TablesAt(f) \cup Between(f, v) = TablesAt(v)
           /\ v < HeadRevision => Between(f, v + 1) = Between(f, v) \cup Names(v + 1)
           /\ v < HeadRevision => Names(v + 1) \cap TablesAt(v) = {}
           /\ v < HeadRevision => TablesAt(v + 1) = TablesAt(v) \cup Names(v + 1)
           /\ TablesAt(v) \subseteq Tables
<1> USE MigrationsAssumption
<1>1. (f + 1) .. f = {} /\ 1 .. v = (1 .. f) \cup ((f + 1) .. v)
  OBVIOUS
<1>2. (f + 1) .. (v + 1) = ((f + 1) .. v) \cup {v + 1} /\ 1 .. (v + 1) = (1 .. v) \cup {v + 1}
  OBVIOUS
<1>3. Between(f, f) = {} /\ TablesAt(f) \cup Between(f, v) = TablesAt(v)
  BY <1>1 DEF Between, TablesAt
<1>4. /\ Between(f, v + 1) = Between(f, v) \cup Names(v + 1)
      /\ TablesAt(v + 1) = TablesAt(v) \cup Names(v + 1)
  BY <1>2 DEF Between, TablesAt
<1>5. ASSUME v < HeadRevision PROVE Names(v + 1) \cap TablesAt(v) = {}
  <2>1. ASSUME NEW w \in 1 .. v PROVE Names(v + 1) \cap Names(w) = {}
    <3>1. v + 1 \in 1 .. HeadRevision /\ w \in 1 .. HeadRevision /\ v + 1 # w
      BY <1>5, <2>1
    <3> QED BY <3>1, SchemaAssumption
  <2> QED BY <2>1 DEF TablesAt
<1>6. TablesAt(v) \subseteq Tables
  <2>1. 1 .. v \subseteq 1 .. HeadRevision
    OBVIOUS
  <2> QED BY <2>1 DEF TablesAt, Tables
<1> QED BY <1>3, <1>4, <1>5, <1>6

-----------------------------------------------------------------------------
(* A run that is active has begun at some revision. *)
LEMMA ActiveRun ==
    ASSUME Inv, NEW r \in Runners
    PROVE  /\ Active(r) => \E f \in 0 .. HeadRevision : RunFrom(tx[r], f, catalog, rows)
           /\ ~Active(r) => Resting(tx[r])
<1>1. Resting(tx[r]) \/ \E f \in 0 .. HeadRevision : RunFrom(tx[r], f, catalog, rows)
  BY DEF Inv
<1>2. ASSUME Resting(tx[r]) PROVE ~Active(r)
  BY <1>2 DEF Resting, Active
<1>3. ASSUME NEW f \in 0 .. HeadRevision, RunFrom(tx[r], f, catalog, rows) PROVE Active(r)
  BY <1>3 DEF RunFrom, Active
<1> QED BY <1>1, <1>2, <1>3

(* A statement that proceeds meets nobody else's uncommitted work. *)
LEMMA Unhindered ==
    ASSUME Inv, NEW r \in Runners, Proceeds(r), NEW s \in Runners \ {r}
    PROVE  /\ tx[r].pc = "ensure" => "alembic_version" \notin tx[s].made
           /\ Creating(r) => Current(r).name \notin tx[s].made
           /\ Writing(r) => Old(r) \cap tx[s].unset = {}
<1>1. CASE Active(s)
  <2>1. s \in Others(r) /\ ~WaitsFor(r, s)
    BY <1>1 DEF Others, Proceeds
  <2> QED BY <2>1 DEF WaitsFor
<1>2. CASE ~Active(s)
  BY <1>2, ActiveRun DEF Resting
<1> QED BY <1>1, <1>2

(* A step that changes the run of r alone, to x. *)
LEMMA OneRun ==
    ASSUME Inv, NEW r \in Runners, NEW x, DOMAIN tx' = Runners, tx'[r] = x,
           \A s \in Runners \ {r} : tx'[s] = tx[s], UNCHANGED <<catalog, rows>>,
           Resting(x) \/ \E f \in 0 .. HeadRevision : RunFrom(x, f, catalog, rows),
           \A s \in Runners \ {r} : x.made \cap tx[s].made = {},
           Wrote(x) => \A s \in Runners \ {r} : ~Wrote(tx[s])
    PROVE  Inv'
<1>1. ASSUME NEW q \in Runners
      PROVE  Resting(tx'[q]) \/ \E f \in 0 .. HeadRevision : RunFrom(tx'[q], f, catalog', rows')
  <2>1. CASE q = r
    BY <2>1
  <2>2. CASE q # r
    <3>1. Resting(tx[q]) \/ \E f \in 0 .. HeadRevision : RunFrom(tx[q], f, catalog, rows)
      BY DEF Inv
    <3>2. tx'[q] = tx[q] /\ catalog' = catalog /\ rows' = rows
      BY <2>2
    <3> QED BY <3>1, <3>2
  <2> QED BY <2>1, <2>2
<1>2. \A p, q \in Runners : p # q => tx'[p].made \cap tx'[q].made = {}
  <2>1. \A p, q \in Runners : p # q => tx[p].made \cap tx[q].made = {}
    BY DEF Inv
  <2> QED BY <2>1
<1>3. \A p, q \in Runners : p # q => ~Wrote(tx'[p]) \/ ~Wrote(tx'[q])
  <2>1. \A p, q \in Runners : p # q => ~Wrote(tx[p]) \/ ~Wrote(tx[q])
    BY DEF Inv
  <2> QED BY <2>1
<1>4. \E v \in 0 .. HeadRevision : AtRevision(v, catalog', rows')
  BY DEF Inv
<1> QED BY <1>1, <1>2, <1>3, <1>4 DEF Inv

(* alembic starts. *)
LEMMA BeginStep ==
    ASSUME Inv, NEW r \in Runners, UpgradeHead(r) \/ DowngradeOne(r)
    PROVE  Inv'
<1>1. PICK f \in 0 .. HeadRevision : AtRevision(f, catalog, rows)
  BY DEF Inv
<1>2. f \in Nat /\ rows = {f} \ {0} /\ Revision(rows) = f
  BY <1>1, VersionRow, MigrationsAssumption DEF AtRevision
<1>3. PICK goal : /\ Begin(r, goal)
                  /\ goal = HeadRevision \/ (goal = f - 1 /\ f >= 1)
  BY <1>2 DEF UpgradeHead, DowngradeOne
<1> DEFINE pc == IF rows = {} /\ "alembic_version" \notin catalog THEN "ensure" ELSE "running"
           x == [Idle EXCEPT !.pc = pc, !.rev = f, !.goal = goal]
<1>4. /\ DOMAIN tx' = Runners /\ tx'[r] = x
      /\ \A s \in Runners \ {r} : tx'[s] = tx[s]
      /\ UNCHANGED <<catalog, rows>>
  BY <1>2, <1>3 DEF Begin, Inv
<1>5. pc \in {"ensure", "running"}
      /\ (pc = "ensure" => f = 0 /\ "alembic_version" \notin catalog)
  BY <1>2
<1> HIDE DEF pc
<1>6. /\ DOMAIN x = Fields /\ x.pc = pc /\ x.rev = f /\ x.goal = goal /\ x.i = 0
      /\ x.made = {} /\ x.gone = {} /\ x.set = {} /\ x.unset = {}
      /\ x.error = FALSE /\ x.raced = FALSE
  BY DEF Idle, Fields
<1> HIDE DEF x
<1>7. Ascending(x, f) \/ Descending(x, f)
  <2>1. Created(f + 1, 0) = {} /\ Dropped(f, 0) = {} /\ Between(f, f) = {}
    BY StatementByStatement, MigrationByMigration, MigrationsAssumption
  <2>2. CASE goal = HeadRevision
    <3>1. f < HeadRevision => Len(Creates[f + 1]) \in Nat
      BY <1>2, WholeMigration, MigrationsAssumption
    <3> QED BY <1>2, <1>6, <2>1, <2>2, <3>1, MigrationsAssumption DEF Ascending
  <2>3. CASE goal = f - 1 /\ f >= 1
    <3>1. Len(Drops[f]) \in Nat
      BY <2>3, WholeMigration, MigrationsAssumption
    <3> QED BY <1>2, <1>5, <1>6, <2>1, <2>3, <3>1 DEF Descending
  <2> QED BY <1>3, <2>2, <2>3
<1>8. RunFrom(x, f, catalog, rows)
  BY <1>2, <1>5, <1>6, <1>7 DEF RunFrom
<1>9. ~Wrote(x)
  BY <1>6 DEF Wrote
<1> QED BY <1>4, <1>6, <1>8, <1>9, OneRun

(* The version table is created. *)
LEMMA EnsureStep ==
    ASSUME Inv, NEW r \in Runners, EnsureVersionTable(r)
    PROVE  Inv'
<1> DEFINE a == tx[r]
           x == tx'[r]
<1>1. /\ a.pc = "ensure" /\ Proceeds(r) /\ "alembic_version" \notin catalog
      /\ DOMAIN tx' = Runners /\ \A s \in Runners \ {r} : tx'[s] = tx[s]
      /\ UNCHANGED <<catalog, rows>>
  BY DEF EnsureVersionTable, Refused, Inv
<1>0. x = [a EXCEPT !.pc = "running", !.made = @ \cup {"alembic_version"}]
  BY DEF EnsureVersionTable, Inv
<1>2. PICK f \in 0 .. HeadRevision : RunFrom(a, f, catalog, rows)
  BY <1>1, ActiveRun DEF Active
<1>3. \A s \in Runners \ {r} : "alembic_version" \notin tx[s].made
  BY <1>1, Unhindered
<1> HIDE DEF a, x
<1>4. /\ DOMAIN x = Fields /\ x.pc = "running" /\ x.rev = a.rev /\ x.goal = a.goal
      /\ x.i = a.i /\ x.made = a.made \cup {"alembic_version"} /\ x.gone = a.gone
      /\ x.set = a.set /\ x.unset = a.unset /\ x.error = a.error /\ x.raced = a.raced
  BY <1>0, <1>2 DEF RunFrom, Fields
<1>5. x.made \cap Tables = a.made \cap Tables
  BY <1>4, MigrationsAssumption
<1>6. Ascending(a, f) /\ a.made = {}
  BY <1>1, <1>2 DEF RunFrom, Descending
<1>7. Ascending(x, f)
  BY <1>4, <1>5, <1>6 DEF Ascending
<1>8. RunFrom(x, f, catalog, rows)
  BY <1>1, <1>2, <1>4, <1>6, <1>7 DEF RunFrom
<1>9. \A s \in Runners \ {r} : x.made \cap tx[s].made = {}
  BY <1>3, <1>4, <1>6
<1>10. Wrote(x) => \A s \in Runners \ {r} : ~Wrote(tx[s])
  BY <1>4 DEF Wrote, Inv, a
<1>11. tx'[r] = x
  BY DEF x
<1> QED BY <1>1, <1>8, <1>9, <1>10, <1>11, OneRun

(* A migration creates its next table. *)
LEMMA CreateStep ==
    ASSUME Inv, NEW r \in Runners, CreateTable(r)
    PROVE  Inv'
<1> DEFINE a == tx[r]
           x == tx'[r]
           v == a.rev + 1
           name == Creates[v][a.i + 1].name
<1>1. /\ Creating(r) /\ Proceeds(r) /\ ~Refused(r) /\ Active(r)
      /\ a.pc = "running" /\ a.goal > a.rev
      /\ DOMAIN tx' = Runners /\ \A s \in Runners \ {r} : tx'[s] = tx[s]
      /\ UNCHANGED <<catalog, rows>>
  BY DEF CreateTable, Inv, Creating, AtStatement, Up, Active
<1>2. Migration(r) = Creates[v] /\ Current(r).name = name /\ a.i < Len(Creates[v])
  BY <1>1 DEF Creating, Current, Migration
<1>3. x = [a EXCEPT !.made = @ \cup {name}, !.locks = @ \cup References[name], !.i = @ + 1]
  BY <1>2 DEF CreateTable, Inv
<1>4. PICK f \in 0 .. HeadRevision : RunFrom(a, f, catalog, rows)
  BY <1>1, ActiveRun
<1>5. \A s \in Runners \ {r} : name \notin tx[s].made
  BY <1>1, <1>2, Unhindered
<1>6. name \notin (catalog \cup a.made) \ a.gone
  BY <1>1, <1>2 DEF Refused, VisibleTables
<1>7. \A s \in Runners \ {r} : a.made \cap tx[s].made = {}
  BY DEF Inv
<1>8. Wrote(a) => \A s \in Runners \ {r} : ~Wrote(tx[s])
  BY DEF Inv
<1> HIDE DEF a, x, v, name
<1>9. /\ DOMAIN x = Fields /\ x.pc = a.pc /\ x.rev = a.rev /\ x.goal = a.goal
      /\ x.i = a.i + 1 /\ x.made = a.made \cup {name} /\ x.gone = a.gone
      /\ x.set = a.set /\ x.unset = a.unset /\ x.error = a.error /\ x.raced = a.raced
  BY <1>3, <1>4 DEF RunFrom, Fields
<1>10. Ascending(a, f) /\ a.rev \in Nat /\ a.i \in Nat /\ a.rev < HeadRevision /\ a.gone = {}
  <2>1. ~Descending(a, f)
    BY <1>1, MigrationsAssumption DEF Descending
  <2> QED BY <1>1, <1>4, <2>1, MigrationsAssumption DEF RunFrom, Ascending
<1>11. v \in 1 .. HeadRevision /\ Len(Creates[v]) \in Nat /\ name \in Tables
  <2>1. v \in 1 .. HeadRevision
    BY <1>10, MigrationsAssumption DEF v
  <2>2. Creates[v] \in Seq(Range(Creates[v]))
    BY <2>1, SchemaAssumption
  <2>3. a.i + 1 \in 1 .. Len(Creates[v]) /\ Len(Creates[v]) \in Nat
    BY <1>2, <1>10, <2>2
  <2>4. name \in Created(v, Len(Creates[v]))
    BY <2>3 DEF Created, name
  <2> QED BY <2>1, <2>3, <2>4, WholeMigration
<1>12. x.made \cap Tables = Between(f, x.rev) \cup Created(x.rev + 1, x.i)
  <2>1. Created(v, a.i + 1) = Created(v, a.i) \cup {name}
    BY <1>10, StatementByStatement DEF name
  <2>2. a.made \cap Tables = Between(f, a.rev) \cup Created(v, a.i)
    BY <1>10 DEF Ascending, v
  <2>3. x.rev + 1 = v
    BY <1>9 DEF v
  <2> QED BY <1>9, <1>11, <2>1, <2>2, <2>3
<1>13. Ascending(x, f)
  BY <1>2, <1>9, <1>10, <1>11, <1>12 DEF Ascending, v
<1>14. x.made \cap catalog = {}
  BY <1>4, <1>6, <1>9, <1>10 DEF RunFrom
<1>15. RunFrom(x, f, catalog, rows)
  BY <1>1, <1>4, <1>9, <1>13, <1>14 DEF RunFrom
<1>16. \A s \in Runners \ {r} : x.made \cap tx[s].made = {}
  BY <1>5, <1>7, <1>9
<1>17. Wrote(x) => \A s \in Runners \ {r} : ~Wrote(tx[s])
  BY <1>8, <1>9 DEF Wrote
<1>18. tx'[r] = x
  BY DEF x
<1> QED BY <1>1, <1>15, <1>16, <1>17, <1>18, OneRun

(* A downgrade drops its next table. *)
LEMMA DropStep ==
    ASSUME Inv, NEW r \in Runners, DropTable(r)
    PROVE  Inv'
<1> DEFINE a == tx[r]
           x == tx'[r]
           name == Drops[a.rev][a.i + 1]
<1>1. /\ Dropping(r) /\ Active(r) /\ a.pc = "running" /\ ~(a.goal > a.rev) /\ a.goal # a.rev
      /\ DOMAIN tx' = Runners /\ \A s \in Runners \ {r} : tx'[s] = tx[s]
      /\ UNCHANGED <<catalog, rows>>
  BY DEF DropTable, Inv, Dropping, AtStatement, Up, Active
<1>2. Migration(r) = Drops[a.rev] /\ Current(r) = name /\ a.i < Len(Drops[a.rev])
  BY <1>1 DEF Dropping, Current, Migration, Up
<1>3. x = [a EXCEPT !.gone = @ \cup {name}, !.locks = @ \cup {name} \cup References[name],
                    !.i = @ + 1]
  BY <1>2 DEF DropTable, Inv
<1>4. PICK f \in 0 .. HeadRevision : RunFrom(a, f, catalog, rows)
  BY <1>1, ActiveRun
<1>5. \A s \in Runners \ {r} : a.made \cap tx[s].made = {}
  BY DEF Inv
<1>6. Wrote(a) => \A s \in Runners \ {r} : ~Wrote(tx[s])
  BY DEF Inv
<1> HIDE DEF a, x, name
<1>7. /\ DOMAIN x = Fields /\ x.pc = a.pc /\ x.rev = a.rev /\ x.goal = a.goal
      /\ x.i = a.i + 1 /\ x.made = a.made /\ x.gone = a.gone \cup {name}
      /\ x.set = a.set /\ x.unset = a.unset /\ x.error = a.error /\ x.raced = a.raced
  BY <1>3, <1>4 DEF RunFrom, Fields
<1>8. Descending(a, f) /\ a.rev = f /\ a.i \in Nat /\ f >= 1
  <2>1. ~Ascending(a, f)
    BY <1>1, MigrationsAssumption DEF Ascending
  <2> QED BY <1>1, <1>4, <2>1 DEF RunFrom, Descending
<1>9. Len(Drops[f]) \in Nat
  BY <1>8, WholeMigration, MigrationsAssumption
<1>10. x.gone = Dropped(f, x.i)
  <2>1. Dropped(f, a.i + 1) = Dropped(f, a.i) \cup {name}
    BY <1>8, StatementByStatement DEF name
  <2>2. a.gone = Dropped(f, a.i)
    BY <1>8, MigrationsAssumption DEF Descending
  <2> QED BY <1>7, <2>1, <2>2
<1>11. Descending(x, f)
  BY <1>2, <1>7, <1>8, <1>9, <1>10 DEF Descending
<1>12. RunFrom(x, f, catalog, rows)
  BY <1>1, <1>4, <1>7, <1>11 DEF RunFrom
<1>13. Wrote(x) => \A s \in Runners \ {r} : ~Wrote(tx[s])
  BY <1>6, <1>7 DEF Wrote
<1>14. tx'[r] = x
  BY DEF x
<1> QED BY <1>1, <1>5, <1>7, <1>12, <1>13, <1>14, OneRun

(* The run fails, for whatever reason. *)
LEMMA RollBackStep ==
    ASSUME Inv, NEW r \in Runners, NEW error \in BOOLEAN, RollBack(r, error),
           error = FALSE \/ tx[r].raced = TRUE
    PROVE  Inv'
<1> DEFINE x == RolledBack(r, error)
<1>1. /\ DOMAIN tx' = Runners /\ tx'[r] = x
      /\ \A s \in Runners \ {r} : tx'[s] = tx[s]
      /\ UNCHANGED <<catalog, rows>>
  BY DEF RollBack, Inv
<1>2. /\ x.pc = "failed" /\ x.made = {} /\ x.gone = {} /\ x.set = {} /\ x.unset = {}
      /\ x.error = error /\ x.raced = tx[r].raced
  BY DEF RolledBack, Idle
<1> HIDE DEF x
<1>3. Resting(x) /\ ~Wrote(x)
  BY <1>2 DEF Resting, Wrote
<1> QED BY <1>1, <1>2, <1>3, OneRun

(* The version row is written: nobody else has, or can have, done so. *)
LEMMA WriteStep ==
    ASSUME Inv, NEW r \in Runners, WriteVersion(r)
    PROVE  Inv'
<1> DEFINE a == tx[r]
           x == tx'[r]
           to == IF a.goal > a.rev THEN a.rev + 1 ELSE a.rev - 1
           old == {a.rev} \ {0}
           new == {to} \ {0}
<1>1. /\ Writing(r) /\ Proceeds(r) /\ ~Refused(r) /\ Active(r)
      /\ a.pc = "running" /\ a.goal # a.rev /\ a.i = Len(Migration(r))
      /\ DOMAIN tx' = Runners /\ \A s \in Runners \ {r} : tx'[s] = tx[s]
      /\ UNCHANGED <<catalog, rows>>
  BY DEF WriteVersion, Inv, Writing, AtStatement, Active
<1>2. x = [a EXCEPT !.unset = @ \cup (old \ a.set), !.set = (@ \ old) \cup new,
                    !.rev = to, !.i = 0]
  BY DEF WriteVersion, Inv, Old, New, Up
<1>3. PICK f \in 0 .. HeadRevision : RunFrom(a, f, catalog, rows)
  BY <1>1, ActiveRun
<1>4. old \subseteq (rows \cup a.set) \ a.unset
  BY <1>1 DEF Refused, VisibleRows, Old
<1>5. \A s \in Runners \ {r} : old \cap tx[s].unset = {}
  BY <1>1, Unhindered DEF Old
<1>6. \A s \in Runners \ {r} : a.made \cap tx[s].made = {}
  BY DEF Inv
<1>7. Wrote(a) => \A s \in Runners \ {r} : ~Wrote(tx[s])
  BY DEF Inv
<1>8. Migration(r) = IF a.goal > a.rev THEN Creates[a.rev + 1] ELSE Drops[a.rev]
  BY DEF Migration, Up
<1> HIDE DEF a, x, to, old, new
<1>9. /\ DOMAIN x = Fields /\ x.pc = a.pc /\ x.rev = to /\ x.goal = a.goal
      /\ x.i = 0 /\ x.made = a.made /\ x.gone = a.gone
      /\ x.set = (a.set \ old) \cup new /\ x.unset = a.unset \cup (old \ a.set)
      /\ x.error = a.error /\ x.raced = a.raced
  BY <1>2, <1>3 DEF RunFrom, Fields
<1>10. PICK v \in 0 .. HeadRevision : AtRevision(v, catalog, rows)
  BY DEF Inv
<1>11. CASE a.goal > a.rev
  <2>1. /\ Ascending(a, f) /\ a.rev \in f .. HeadRevision /\ a.rev < HeadRevision
        /\ a.rev \in Nat /\ a.rev + 1 \in 1 .. HeadRevision
    <3>1. ~Descending(a, f)
      BY <1>11, MigrationsAssumption DEF Descending
    <3> QED BY <1>3, <1>11, <3>1, MigrationsAssumption DEF RunFrom, Ascending
  <2>2. to = a.rev + 1 /\ a.i = Len(Creates[a.rev + 1])
    BY <1>1, <1>8, <1>11 DEF to
  <2>3. a.made \cap Tables = Between(f, a.rev + 1)
    <3>1. Created(a.rev + 1, a.i) = Names(a.rev + 1)
      BY <2>1, <2>2, WholeMigration
    <3>2. Between(f, a.rev + 1) = Between(f, a.rev) \cup Names(a.rev + 1)
      BY <2>1, MigrationByMigration
    <3> QED BY <2>1, <3>1, <3>2 DEF Ascending
  <2>4. Created(to + 1, 0) = {} /\ (to < HeadRevision => Len(Creates[to + 1]) \in Nat)
    <3>1. to < HeadRevision => to + 1 \in 1 .. HeadRevision
      BY <2>1, <2>2, MigrationsAssumption
    <3> QED BY <3>1, StatementByStatement, WholeMigration
  <2>5. Ascending(x, f)
    BY <1>9, <2>1, <2>2, <2>3, <2>4, MigrationsAssumption DEF Ascending
  <2>6. rows = {f} \ {0} /\ to # f
    <3>1. to # f
      BY <2>1, <2>2
    <3>2. CASE a.rev # f
      BY <1>3, <3>1, <3>2 DEF RunFrom
    <3>3. CASE a.rev = f /\ f # 0
      <4>1. f \in rows
        BY <1>3, <1>4, <3>3 DEF RunFrom, old
      <4> QED BY <1>10, <3>1, <3>3, <4>1 DEF AtRevision
    <3>4. CASE a.rev = f /\ f = 0
      <4>1. Names(1) \subseteq a.made
        <5>1. Between(0, 1) = Between(0, 0) \cup Names(1)
          BY MigrationByMigration, MigrationsAssumption
        <5> QED BY <2>3, <3>4, <5>1
      <4>2. a.made \cap catalog = {}
        BY <1>3 DEF RunFrom
      <4>3. ASSUME v # 0 PROVE FALSE
        <5>1. 1 \in 1 .. v /\ 1 \in 1 .. HeadRevision
          BY <4>3, MigrationsAssumption
        <5>2. Names(1) \subseteq TablesAt(v) /\ Names(1) # {}
          BY <5>1, WholeMigration DEF TablesAt
        <5> QED BY <1>10, <4>1, <4>2, <5>2 DEF AtRevision
      <4> QED BY <1>10, <3>1, <3>4, <4>3 DEF AtRevision
    <3> QED BY <3>2, <3>3, <3>4
  <2>7. x.set = {to} \ {0} /\ x.unset = {f} \ {0}
    <3>1. CASE a.rev = f
      BY <1>3, <1>9, <3>1 DEF RunFrom, old, new
    <3>2. CASE a.rev # f
      BY <1>3, <1>9, <3>2 DEF RunFrom, old, new
    <3> QED BY <3>1, <3>2
  <2>8. RunFrom(x, f, catalog, rows)
    BY <1>1, <1>3, <1>9, <2>5, <2>6, <2>7 DEF RunFrom
  <2>9. ASSUME NEW s \in Runners \ {r} PROVE ~Wrote(tx[s])
    <3>1. CASE Wrote(a)
      BY <1>7, <3>1
    <3>2. CASE ~Wrote(a)
      <4>1. a.rev = f
        BY <1>3, <2>1, <3>2 DEF RunFrom, Wrote
      <4>2. ASSUME Wrote(tx[s]) PROVE FALSE
        <5>1. PICK g \in 0 .. HeadRevision : RunFrom(tx[s], g, catalog, rows)
          BY <4>2, ActiveRun DEF Resting, Wrote
        <5>2. tx[s].rev # g /\ rows = {g} \ {0} /\ tx[s].unset = {g} \ {0}
          BY <4>2, <5>1 DEF RunFrom, Wrote
        <5>3. g = f
          BY <2>6, <5>2, VersionRow
        <5>4. CASE f # 0
          BY <1>5, <4>1, <5>2, <5>3, <5>4 DEF old
        <5>5. CASE f = 0
          <6>1. Ascending(tx[s], 0) /\ tx[s].rev \in 1 .. HeadRevision
            BY <5>1, <5>2, <5>3, <5>5, MigrationsAssumption DEF RunFrom, Ascending, Descending
          <6>2. Names(1) \subseteq tx[s].made
            <7>1. Names(1) \subseteq Between(0, tx[s].rev)
              BY <6>1 DEF Between
            <7> QED BY <6>1, <7>1 DEF Ascending
          <6>3. Names(1) \subseteq a.made
            BY <2>1, <2>3, <4>1, <5>5 DEF Between
          <6>4. Names(1) # {}
            BY WholeMigration, MigrationsAssumption
          <6> QED BY <1>6, <6>2, <6>3, <6>4
        <5> QED BY <5>4, <5>5
      <4> QED BY <4>2
    <3> QED BY <3>1, <3>2
  <2>10. tx'[r] = x
    BY DEF x
  <2> QED BY <1>1, <1>6, <1>9, <2>8, <2>9, <2>10, OneRun
<1>12. CASE ~(a.goal > a.rev)
  <2>1. Descending(a, f) /\ a.rev = f /\ f >= 1 /\ a.i \in Nat
    <3>1. ~Ascending(a, f)
      BY <1>1, <1>12, MigrationsAssumption DEF Ascending
    <3> QED BY <1>1, <1>3, <3>1 DEF RunFrom, Descending
  <2>2. to = f - 1 /\ a.i = Len(Drops[f])
    BY <1>1, <1>8, <1>12, <2>1 DEF to
  <2>3. a.gone = Names(f)
    BY <2>1, <2>2, WholeMigration, MigrationsAssumption DEF Descending
  <2>4. Descending(x, f)
    BY <1>9, <2>1, <2>2, <2>3 DEF Descending
  <2>5. f \in rows /\ a.set = {} /\ a.unset = {}
    BY <1>3, <1>4, <2>1 DEF RunFrom, old
  <2>6. rows = {f} \ {0} /\ to # f
    BY <1>10, <2>1, <2>2, <2>5 DEF AtRevision
  <2>7. x.set = {to} \ {0} /\ x.unset = {f} \ {0}
    BY <1>9, <2>1, <2>5 DEF old, new
  <2>8. RunFrom(x, f, catalog, rows)
    BY <1>1, <1>3, <1>9, <2>4, <2>6, <2>7 DEF RunFrom
  <2>9. ASSUME NEW s \in Runners \ {r} PROVE ~Wrote(tx[s])
    <3>1. SUFFICES ASSUME Wrote(tx[s]) PROVE FALSE
      OBVIOUS
    <3>2. PICK g \in 0 .. HeadRevision : RunFrom(tx[s], g, catalog, rows)
      BY <3>1, ActiveRun DEF Resting, Wrote
    <3>3. rows = {g} \ {0} /\ tx[s].unset = {g} \ {0}
      BY <3>1, <3>2 DEF RunFrom, Wrote
    <3> QED BY <1>5, <2>1, <2>5, <3>3 DEF old
  <2>10. tx'[r] = x
    BY DEF x
  <2> QED BY <1>1, <1>6, <1>9, <2>8, <2>9, <2>10, OneRun
<1> QED BY <1>11, <1>12

(* A run that nobody has overtaken is refused no statement. *)
LEMMA NotRefused ==
    ASSUME Inv, NEW r \in Runners, Active(r), Refused(r)
    PROVE  tx[r].raced = TRUE
<1> DEFINE a == tx[r]
<1>1. PICK f \in 0 .. HeadRevision : RunFrom(a, f, catalog, rows)
  BY ActiveRun
<1>2. SUFFICES ASSUME a.raced = FALSE PROVE FALSE
  BY <1>1 DEF RunFrom
<1>3. rows = {f} \ {0} /\ (a.pc = "ensure" => "alembic_version" \notin catalog)
  BY <1>1, <1>2 DEF RunFrom
<1>4. catalog \cap Tables = TablesAt(f)
  <2>1. PICK v \in 0 .. HeadRevision : AtRevision(v, catalog, rows)
    BY DEF Inv
  <2>2. v = f
    BY <1>3, <2>1, VersionRow DEF AtRevision
  <2> QED BY <2>1, <2>2 DEF AtRevision
<1>5. CASE a.pc = "ensure"
  BY <1>3, <1>5 DEF Refused, Creating, Dropping, Writing, AtStatement
<1>6. CASE Creating(r)
  <2> DEFINE v == a.rev + 1
             name == Creates[v][a.i + 1].name
  <2>1. /\ a.goal > a.rev /\ Migration(r) = Creates[v] /\ Current(r).name = name
        /\ a.i < Len(Creates[v]) /\ ~(a.pc = "ensure") /\ ~Dropping(r) /\ ~Writing(r)
    <3>1. a.goal > a.rev /\ a.pc = "running" /\ a.i < Len(Migration(r))
      BY <1>6 DEF Creating, AtStatement, Up
    <3>2. Migration(r) = Creates[v] /\ Current(r).name = name
      BY <3>1 DEF Migration, Current, Up
    <3>3. ~Writing(r)
      <4>1. Ascending(a, f)
        BY <1>1, <3>1, MigrationsAssumption DEF RunFrom, Descending
      <4>2. a.i \in Nat /\ v \in 1 .. HeadRevision
        BY <3>1, <4>1, MigrationsAssumption DEF Ascending
      <4>3. Len(Creates[v]) \in Nat
        BY <4>2, WholeMigration
      <4> QED BY <3>1, <3>2, <4>2, <4>3 DEF Writing
    <3> QED BY <1>6, <3>1, <3>2, <3>3 DEF Creating, Dropping
  <2> HIDE DEF a
  <2>2. /\ Ascending(a, f) /\ a.rev \in f .. HeadRevision /\ a.rev < HeadRevision
        /\ a.i \in Nat /\ v \in 1 .. HeadRevision /\ v - 1 = a.rev
    <3>1. ~Descending(a, f)
      BY <2>1, MigrationsAssumption DEF Descending
    <3> QED BY <1>1, <2>1, <3>1, MigrationsAssumption DEF RunFrom, Ascending
  <2>3. Len(Creates[v]) \in Nat /\ a.i \in 0 .. Len(Creates[v]) - 1
    BY <2>1, <2>2, WholeMigration
  <2> HIDE DEF v, name
  <2>4. name \notin Created(v, a.i) /\ References[name] \subseteq TablesAt(a.rev) \cup Created(v, a.i)
    BY <2>2, <2>3, SchemaAssumption DEF name
  <2>5. name \in Names(v) /\ name \in Tables
    <3>1. name \in Created(v, Len(Creates[v]))
      BY <2>3 DEF Created, name
    <3> QED BY <2>2, <3>1, WholeMigration
  <2>6. name \notin TablesAt(a.rev) /\ TablesAt(a.rev) = TablesAt(f) \cup Between(f, a.rev)
        /\ TablesAt(a.rev) \subseteq Tables
    <3>1. Names(v) \cap TablesAt(a.rev) = {}
      BY <2>2, MigrationByMigration DEF v
    <3> QED BY <2>2, <2>5, <3>1, MigrationByMigration
  <2>7. a.made \cap Tables = Between(f, a.rev) \cup Created(v, a.i) /\ a.gone = {}
    BY <2>2 DEF Ascending, v
  <2>8. name \notin (catalog \cup a.made) \ a.gone
        /\ References[name] \subseteq (catalog \cup a.made) \ a.gone
    BY <1>4, <2>4, <2>5, <2>6, <2>7
  <2> QED BY <2>1, <2>8 DEF Refused, VisibleTables, a
<1>7. CASE Dropping(r)
  <2> DEFINE name == Drops[f][a.i + 1]
  <2>1. /\ ~(a.goal > a.rev) /\ a.goal # a.rev /\ Current(r) = Drops[a.rev][a.i + 1]
        /\ a.pc = "running" /\ a.i < Len(Drops[a.rev]) /\ ~Creating(r)
    BY <1>7 DEF Dropping, AtStatement, Up, Current, Migration, Creating
  <2>2. /\ a.rev = f /\ f >= 1 /\ a.i \in Nat /\ a.gone = Dropped(f, a.i) /\ a.made = {}
    <3>1. ~Ascending(a, f)
      BY <2>1, MigrationsAssumption DEF Ascending
    <3>2. Descending(a, f)
      BY <1>1, <3>1 DEF RunFrom
    <3> HIDE DEF a
    <3> QED BY <2>1, <3>2, MigrationsAssumption DEF Descending
  <2>3. f \in 1 .. HeadRevision /\ Len(Drops[f]) \in Nat /\ a.i \in 0 .. Len(Drops[f]) - 1
    BY <2>1, <2>2, WholeMigration, MigrationsAssumption
  <2>4. ~Writing(r)
    <3>1. Migration(r) = Drops[f]
      BY <2>1, <2>2 DEF Migration, Up
    <3> QED BY <2>3, <3>1 DEF Writing
  <2>5. name \notin Dropped(f, a.i)
        /\ \A t \in TablesAt(f) \ Dropped(f, a.i) : name \notin References[t]
    BY <2>3, SchemaAssumption
  <2>6. name \in TablesAt(f)
    <3>1. name \in Dropped(f, Len(Drops[f]))
      BY <2>3 DEF Dropped
    <3>2. name \in Names(f)
      BY <2>3, <3>1, WholeMigration
    <3> QED BY <2>3, <3>2 DEF TablesAt
  <2>7. name \in (catalog \cup a.made) \ a.gone
    BY <1>4, <2>2, <2>5, <2>6
  <2>8. ((catalog \cup a.made) \ a.gone) \cap Tables = TablesAt(f) \ Dropped(f, a.i)
    BY <1>4, <2>2
  <2> QED BY <2>1, <2>2, <2>4, <2>5, <2>7, <2>8 DEF Refused, VisibleTables
<1>8. CASE Writing(r)
  <2>1. Old(r) \subseteq VisibleRows(r) /\ New(r) \cap VisibleRows(r) = {}
    <3>1. a.goal # a.rev
      BY <1>8 DEF Writing, AtStatement
    <3>2. VisibleRows(r) = {a.rev} \ {0} /\ a.rev \in Nat
      <4>1. a.rev \in Nat
        BY <1>1, MigrationsAssumption DEF RunFrom, Ascending, Descending
      <4>2. CASE a.rev = f
        BY <1>1, <1>3, <4>1, <4>2 DEF RunFrom, VisibleRows
      <4>3. CASE a.rev # f
        <5>1. a.set = {a.rev} \ {0} /\ a.unset = {f} \ {0}
          BY <1>1, <4>3 DEF RunFrom
        <5> QED BY <1>3, <4>1, <4>3, <5>1 DEF VisibleRows
      <4> QED BY <4>1, <4>2, <4>3
    <3> QED BY <3>2 DEF Old, New
  <2>2. ~Creating(r) /\ ~Dropping(r) /\ ~(a.pc = "ensure")
    <3>1. a.i \in Nat
      BY <1>1 DEF RunFrom, Ascending, Descending
    <3>2. a.i = Len(Migration(r)) /\ a.pc = "running"
      BY <1>8 DEF Writing, AtStatement
    <3> QED BY <3>1, <3>2 DEF Creating, Dropping
  <2> QED BY <2>1, <2>2, <1>8 DEF Refused
<1> QED BY <1>5, <1>6, <1>7, <1>8 DEF Refused

(* A commit leaves the revision as it is, or moves the whole schema to the *)
(* head or one revision back; then the run has made or dropped tables.     *)
LEMMA CommitMoves ==
    ASSUME Inv, NEW r \in Runners, Commit(r)
    PROVE  \E f, g \in 0 .. HeadRevision :
               /\ AtRevision(f, catalog, rows) /\ AtRevision(g, catalog', rows')
               /\ f = g \/ g = HeadRevision \/ g = f - 1
               /\ f # g => Wrote(tx[r]) /\ tx[r].made \cup tx[r].gone # {}
<1> DEFINE a == tx[r]
<1>1. /\ a.pc = "running" /\ a.goal = a.rev /\ Active(r)
      /\ catalog' = (catalog \cup a.made) \ a.gone
      /\ rows' = (rows \cup a.set) \ a.unset
  BY DEF Commit, Finished, VisibleTables, VisibleRows, Active
<1>2. PICK f \in 0 .. HeadRevision : RunFrom(a, f, catalog, rows)
  BY <1>1, ActiveRun
<1>3. PICK v \in 0 .. HeadRevision : AtRevision(v, catalog, rows)
  BY DEF Inv
<1>4. f \in Nat /\ v \in Nat /\ HeadRevision \in Nat /\ HeadRevision >= 1
  BY MigrationsAssumption
<1> HIDE DEF a
<1>5. CASE a.rev = f
  <2>1. Ascending(a, f) /\ f = HeadRevision
    BY <1>1, <1>2, <1>4, <1>5 DEF RunFrom, Ascending, Descending
  <2>2. a.made \cap Tables = {} /\ a.gone = {} /\ a.set = {} /\ a.unset = {}
    <3>1. Between(f, f) = {} /\ Created(f + 1, 0) = {} /\ a.i = 0
      BY <1>4, <1>5, <2>1, MigrationByMigration, StatementByStatement DEF Ascending
    <3> QED BY <1>2, <1>5, <2>1, <3>1 DEF RunFrom, Ascending
  <2>3. catalog' \cap Tables = catalog \cap Tables /\ rows' = rows
    BY <1>1, <2>2
  <2>4. AtRevision(v, catalog', rows')
    BY <1>3, <2>3 DEF AtRevision
  <2> QED BY <1>3, <2>4
<1>6. CASE a.rev # f
  <2>1. /\ a.set = {a.rev} \ {0} /\ a.unset = {f} \ {0} /\ rows = {f} \ {0}
    BY <1>2, <1>6 DEF RunFrom
  <2>2. v = f
    BY <1>3, <1>4, <2>1, VersionRow DEF AtRevision
  <2>3. a.rev \in 0 .. HeadRevision /\ a.rev \in Nat
    BY <1>1, <1>2, <1>4 DEF RunFrom, Ascending, Descending
  <2>4. rows' = {a.rev} \ {0} /\ Wrote(a)
    BY <1>1, <1>4, <1>6, <2>1, <2>3 DEF Wrote
  <2>5. catalog \cap Tables = TablesAt(f)
    BY <1>3, <2>2 DEF AtRevision
  <2>6. CASE Ascending(a, f)
    <3>1. a.rev = HeadRevision /\ a.gone = {} /\ f + 1 \in (f + 1) .. HeadRevision
      BY <1>1, <1>4, <1>6, <2>6 DEF Ascending
    <3>2. Created(HeadRevision + 1, 0) = {} /\ a.i = 0
      BY <2>6, <3>1, StatementByStatement DEF Ascending
    <3>3. a.made \cap Tables = Between(f, HeadRevision)
      BY <2>6, <3>1, <3>2 DEF Ascending
    <3>4. TablesAt(f) \cup Between(f, HeadRevision) = TablesAt(HeadRevision)
      BY <1>4, MigrationByMigration
    <3>5. catalog' \cap Tables = TablesAt(HeadRevision)
      BY <1>1, <2>5, <3>1, <3>3, <3>4
    <3>6. a.made # {}
      <4>1. f + 1 \in 1 .. HeadRevision
        BY <1>4, <3>1
      <4>2. Names(f + 1) # {}
        BY <4>1, WholeMigration
      <4>3. Names(f + 1) \subseteq Between(f, HeadRevision)
        BY <3>1 DEF Between
      <4> QED BY <3>3, <4>2, <4>3
    <3>7. AtRevision(HeadRevision, catalog', rows')
      BY <2>4, <3>1, <3>5 DEF AtRevision
    <3> QED BY <1>3, <1>4, <2>2, <2>4, <3>6, <3>7 DEF a
  <2>7. CASE Descending(a, f)
    <3>1. a.rev = f - 1 /\ a.gone = Names(f) /\ a.made = {} /\ f >= 1
      BY <1>6, <2>7 DEF Descending
    <3>2. f - 1 \in 0 .. HeadRevision /\ f - 1 \in (f - 1) .. HeadRevision
          /\ f - 1 < HeadRevision /\ (f - 1) + 1 = f /\ f \in 1 .. HeadRevision
      BY <1>4, <3>1
    <3>3. Names(f) \cap TablesAt(f - 1) = {} /\ TablesAt(f) = TablesAt(f - 1) \cup Names(f)
      BY <3>2, MigrationByMigration
    <3>4. catalog' \cap Tables = TablesAt(f - 1)
      BY <1>1, <2>5, <3>1, <3>3
    <3>5. Names(f) # {}
      BY <3>2, WholeMigration
    <3>6. AtRevision(f - 1, catalog', rows')
      BY <2>4, <3>1, <3>4 DEF AtRevision
    <3> QED BY <1>3, <2>2, <2>4, <3>1, <3>2, <3>5, <3>6 DEF a
  <2> QED BY <1>2, <2>6, <2>7 DEF RunFrom
<1> QED BY <1>5, <1>6

(* What a commit leaves of the other runs. *)
LEMMA CommitStep ==
    ASSUME Inv, NEW r \in Runners, Commit(r)
    PROVE  Inv'
<1>1. PICK f, g \in 0 .. HeadRevision :
          /\ AtRevision(f, catalog, rows) /\ AtRevision(g, catalog', rows')
          /\ f # g => Wrote(tx[r]) /\ tx[r].made \cup tx[r].gone # {}
  BY CommitMoves
<1>2. /\ DOMAIN tx' = Runners /\ tx'[r] = [Idle EXCEPT !.pc = "done"]
      /\ catalog' = (catalog \cup tx[r].made) \ tx[r].gone
  BY DEF Commit, VisibleTables
<1>3. /\ Resting(tx'[r]) /\ tx'[r].made = {} /\ ~Wrote(tx'[r])
  BY <1>2 DEF Idle, Resting, Wrote
<1>4. ASSUME NEW s \in Runners \ {r}
      PROVE  /\ tx'[s].made = tx[s].made /\ Wrote(tx'[s]) = Wrote(tx[s])
             /\ Resting(tx'[s]) \/ \E h \in 0 .. HeadRevision : RunFrom(tx'[s], h, catalog', rows')
  <2>1. CASE ~Active(s)
    <3>1. tx'[s] = tx[s] /\ Resting(tx[s])
      BY <2>1, ActiveRun DEF Commit
    <3> QED BY <3>1
  <2>2. CASE Active(s)
    <3> DEFINE b == tx[s]
               y == tx'[s]
    <3>1. PICK h \in 0 .. HeadRevision : RunFrom(b, h, catalog, rows)
      BY <2>2, ActiveRun
    <3>2. y = IF tx[r].made \cup tx[r].gone # {} THEN [b EXCEPT !.raced = TRUE] ELSE b
      BY <2>2 DEF Commit
    <3>3. b.made \cap tx[r].made = {}
      BY DEF Inv
    <3>4. Wrote(tx[r]) => ~Wrote(b)
      BY DEF Inv
    <3> HIDE DEF b, y
    <3>5. /\ DOMAIN y = Fields /\ y.pc = b.pc /\ y.rev = b.rev /\ y.goal = b.goal
          /\ y.i = b.i /\ y.made = b.made /\ y.gone = b.gone
          /\ y.set = b.set /\ y.unset = b.unset /\ y.error = b.error
      BY <3>1, <3>2 DEF RunFrom, Fields
    <3>6. y.raced \in BOOLEAN
          /\ (y.raced = FALSE => b.raced = FALSE /\ tx[r].made \cup tx[r].gone = {})
      <4>1. CASE tx[r].made \cup tx[r].gone # {}
        <5>1. y.raced = TRUE
          BY <3>1, <3>2, <4>1 DEF RunFrom, Fields
        <5> QED BY <5>1
      <4>2. CASE tx[r].made \cup tx[r].gone = {}
        <5>1. y = b
          BY <3>2, <4>2
        <5> QED BY <3>1, <4>2, <5>1 DEF RunFrom
      <4> QED BY <4>1, <4>2
    <3>7. f = g => rows' = rows
      BY <1>1 DEF AtRevision
    <3>8. b.rev # h => Wrote(b)
      <4>1. b.rev \in Nat /\ h \in Nat
        BY <3>1, MigrationsAssumption DEF RunFrom, Ascending, Descending
      <4> QED BY <3>1, <4>1 DEF RunFrom, Wrote
    <3>9. b.rev # h => rows' = {h} \ {0}
      BY <1>1, <3>1, <3>4, <3>7, <3>8 DEF RunFrom
    <3>10. y.raced = FALSE =>
              rows' = {h} \ {0} /\ (y.pc = "ensure" => "alembic_version" \notin catalog')
      <4> SUFFICES ASSUME y.raced = FALSE
                   PROVE  rows' = {h} \ {0} /\ (y.pc = "ensure" => "alembic_version" \notin catalog')
        OBVIOUS
      <4>1. tx[r].made \cup tx[r].gone = {} /\ b.raced = FALSE
        BY <3>6
      <4>2. catalog' = catalog /\ rows' = rows
        BY <1>1, <1>2, <3>7, <4>1
      <4> QED BY <3>1, <3>5, <4>1, <4>2 DEF RunFrom
    <3>11. y.made \cap catalog' = {}
      BY <1>2, <3>1, <3>3, <3>5 DEF RunFrom
    <3>12. Ascending(y, h) \/ Descending(y, h)
      BY <3>1, <3>5 DEF RunFrom, Ascending, Descending
    <3>13. RunFrom(y, h, catalog', rows')
      BY <3>1, <3>5, <3>6, <3>9, <3>10, <3>11, <3>12 DEF RunFrom
    <3>14. Wrote(y) = Wrote(b)
      BY <3>5 DEF Wrote
    <3> QED BY <3>5, <3>13, <3>14 DEF b, y
  <2> QED BY <2>1, <2>2
<1>5. \A p, q \in Runners : p # q => tx'[p].made \cap tx'[q].made = {}
  <2>1. \A p, q \in Runners : p # q => tx[p].made \cap tx[q].made = {}
    BY DEF Inv
  <2> QED BY <1>3, <1>4, <2>1
<1>6. \A p, q \in Runners : p # q => ~Wrote(tx'[p]) \/ ~Wrote(tx'[q])
  <2>1. \A p, q \in Runners : p # q => ~Wrote(tx[p]) \/ ~Wrote(tx[q])
    BY DEF Inv
  <2> QED BY <1>3, <1>4, <2>1
<1>7. \A q \in Runners :
        Resting(tx'[q]) \/ \E h \in 0 .. HeadRevision : RunFrom(tx'[q], h, catalog', rows')
  BY <1>3, <1>4
<1> QED BY <1>1, <1>2, <1>5, <1>6, <1>7 DEF Inv

-----------------------------------------------------------------------------
(* Inv holds at whatever revision the database is found. *)
LEMMA InitInv ==
    ASSUME Init
    PROVE  Inv
<1>1. PICK v \in 0 .. HeadRevision :
        /\ rows = {v} \ {0}
        /\ catalog = TablesAt(v) \cup (IF v = 0 THEN {} ELSE {"alembic_version"})
  BY DEF Init
<1>2. TablesAt(v) \subseteq Tables
  BY MigrationByMigration, MigrationsAssumption
<1>3. AtRevision(v, catalog, rows)
  BY <1>1, <1>2, MigrationsAssumption DEF AtRevision
<1>4. DOMAIN tx = Runners /\ \A r \in Runners : tx[r] = Idle
  BY DEF Init
<1>5. Resting(Idle) /\ ~Wrote(Idle) /\ Idle.made = {}
  BY DEF Idle, Resting, Wrote
<1> QED BY <1>3, <1>4, <1>5 DEF Inv

(* Every step of every run keeps Inv. *)
LEMMA NextInv ==
    ASSUME Inv, [Next]_vars
    PROVE  Inv'
<1>1. ASSUME NEW r \in Runners, Crash(r) \/ BreakDeadlock(r) PROVE Inv'
  <2>1. RollBack(r, FALSE)
    BY <1>1 DEF Crash, BreakDeadlock
  <2> QED BY <2>1, RollBackStep
<1>2. ASSUME NEW r \in Runners, StatementFails(r) PROVE Inv'
  <2>1. RollBack(r, TRUE) /\ tx[r].raced = TRUE
    BY <1>2, NotRefused DEF StatementFails
  <2> QED BY <2>1, RollBackStep
<1>3. CASE UNCHANGED vars
  BY <1>3 DEF vars, Inv
<1> QED BY <1>1, <1>2, <1>3, BeginStep, EnsureStep, CreateStep, DropStep, WriteStep, CommitStep
        DEF Next, Step

(* The invariant the other theorems rest on: the database is at a revision, *)
(* runs have what they say they have, and at most one of them has written   *)
(* the version row.                                                         *)
THEOREM Invariance == Spec => []Inv
BY InitInv, NextInv, PTL DEF Spec

(* Whoever migrates, together with however many others: a statement is     *)
(* refused only to a run that another run's commit has overtaken.          *)
THEOREM OnlyOvertakenRefused == Spec => []RefusedOnlyWhenOvertaken
<1>1. Inv => RefusedOnlyWhenOvertaken
  <2> SUFFICES ASSUME Inv, NEW r \in Runners
               PROVE  tx[r].error => tx[r].raced
    BY DEF RefusedOnlyWhenOvertaken
  <2>1. tx[r].error = FALSE \/ tx[r].raced = TRUE
    BY DEF Inv, Resting, RunFrom
  <2> QED BY <2>1
<1> QED BY <1>1, Invariance, PTL

-----------------------------------------------------------------------------
(* The refinement mapping shows the schema of the revision. *)
LEMMA SchemaOfRevision ==
    ASSUME NEW v \in 0 .. HeadRevision, NEW tables, NEW versions, AtRevision(v, tables, versions)
    PROVE  /\ Revision(versions) = v
           /\ {d \in Definitions : d.name \in tables} = Committed!SchemaAt(v)
<1>1. Revision(versions) = v
  BY VersionRow, MigrationsAssumption DEF AtRevision
<1>2. {d \in Definitions : d.name \in tables} = UNION {Range(Creates[w]) : w \in 1 .. v}
  <2>1. ASSUME NEW d \in Definitions, d.name \in tables
        PROVE  \E w \in 1 .. v : d \in Range(Creates[w])
    <3>1. PICK u \in 1 .. HeadRevision : d \in Range(Creates[u])
      BY DEF Definitions
    <3>2. d.name \in Names(u) /\ Names(u) \subseteq Tables
      BY <3>1, WholeMigration DEF Names
    <3>3. d.name \in TablesAt(v)
      BY <2>1, <3>2 DEF AtRevision
    <3>4. PICK w \in 1 .. v : d.name \in Names(w)
      BY <3>3 DEF TablesAt
    <3>5. PICK e \in Range(Creates[w]) : e.name = d.name
      BY <3>4 DEF Names
    <3>6. e \in Definitions
      BY <3>5, MigrationsAssumption DEF Definitions
    <3> QED BY <3>5, <3>6, SchemaAssumption
  <2>2. ASSUME NEW w \in 1 .. v, NEW d \in Range(Creates[w])
        PROVE  d \in Definitions /\ d.name \in tables
    <3>1. w \in 1 .. HeadRevision
      BY MigrationsAssumption
    <3>2. d \in Definitions
      BY <3>1 DEF Definitions
    <3>3. d.name \in TablesAt(v)
      BY DEF TablesAt, Names
    <3> QED BY <3>2, <3>3 DEF AtRevision
  <2> QED BY <2>1, <2>2
<1>3. v = HeadRevision => Declared = UNION {Range(Creates[w]) : w \in 1 .. v}
  BY SchemaAssumption DEF Definitions
<1>4. Committed!SchemaAt(v) = UNION {Range(Creates[w]) : w \in 1 .. v}
  BY <1>3 DEF Committed!SchemaAt, Committed!Range, Range
<1> QED BY <1>1, <1>2, <1>4

(* The detailed specification implements Revisions: however many runs of   *)
(* alembic overlap, wait, fail or crash, what is committed is at every     *)
(* moment the whole schema of one revision, and moves to the head's or one *)
(* revision back in one step.                                              *)
THEOREM Implementation == Spec => ImplementsRevisions
<1> DEFINE tables == {d \in Definitions : d.name \in catalog}
<1>1. Init => Committed!Init
  <2> SUFFICES ASSUME Init PROVE Committed!Init
    OBVIOUS
  <2>1. PICK v \in 0 .. HeadRevision : AtRevision(v, catalog, rows)
    BY InitInv DEF Inv
  <2>2. Revision(rows) = v /\ tables = Committed!SchemaAt(v)
    BY <2>1, SchemaOfRevision
  <2> QED BY <2>2 DEF Committed!Init
<1>2. Inv /\ [Next]_vars => [Committed!Next]_<<Revision(rows), tables>>
  <2> SUFFICES ASSUME Inv, [Next]_vars
               PROVE  Committed!Next \/ (Revision(rows)' = Revision(rows) /\ tables' = tables)
    OBVIOUS
  <2>1. CASE UNCHANGED <<catalog, rows>>
    BY <2>1
  <2>2. ASSUME NEW r \in Runners, Commit(r)
        PROVE  Committed!Next \/ (Revision(rows)' = Revision(rows) /\ tables' = tables)
    <3>1. PICK f, g \in 0 .. HeadRevision :
            /\ AtRevision(f, catalog, rows) /\ AtRevision(g, catalog', rows')
            /\ f = g \/ g = HeadRevision \/ g = f - 1
      BY <2>2, CommitMoves
    <3>2. Revision(rows) = f /\ tables = Committed!SchemaAt(f)
      BY <3>1, SchemaOfRevision
    <3>3. Revision(rows') = g /\ {d \in Definitions : d.name \in catalog'} = Committed!SchemaAt(g)
      BY <3>1, SchemaOfRevision
    <3>4. Revision(rows)' = g /\ tables' = Committed!SchemaAt(g)
      BY <3>3 DEF Revision
    <3> HIDE DEF tables
    <3>5. CASE f = g
      BY <3>2, <3>4, <3>5
    <3>6. CASE f # g /\ g = HeadRevision
      <4>1. f < HeadRevision
        BY <3>6, MigrationsAssumption
      <4> QED BY <3>2, <3>4, <3>6, <4>1
              DEF Committed!Next, Committed!Upgrade, Committed!MoveTo, tables
    <3>7. CASE f # g /\ g = f - 1
      <4>1. f > 0
        BY <3>7, MigrationsAssumption
      <4> QED BY <3>2, <3>4, <3>7, <4>1
              DEF Committed!Next, Committed!Downgrade, Committed!MoveTo, tables
    <3> QED BY <3>1, <3>5, <3>6, <3>7
  <2>3. UNCHANGED <<catalog, rows>> \/ \E r \in Runners : Commit(r)
    BY DEF Next, Step, UpgradeHead, DowngradeOne, Begin, Crash, StatementFails, BreakDeadlock,
           RollBack, EnsureVersionTable, CreateTable, DropTable, WriteVersion, vars
  <2> QED BY <2>1, <2>2, <2>3
<1> QED BY <1>1, <1>2, Invariance, PTL DEF Spec, ImplementsRevisions, Committed!Spec

=============================================================================
