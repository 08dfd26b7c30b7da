------------------------------- MODULE Startup ------------------------------
(***************************************************************************)
(* What every start of the process runs before it serves: the migrations   *)
(* (RunMigration in pkg/migrations/migration.go and its scripts) and the   *)
(* preheating of the counters, tenant by tenant (PreheatProducts in        *)
(* application.go), through crashes, ignored errors and a connection that  *)
(* is replaced half-way.                                                   *)
(*                                                                         *)
(*   open -> recordTable -> load -> up -> ... -> write -> load | open ...  *)
(*                           \-> (recorded already) ->/                    *)
(*   users:     up -> count -> accounts -> permissions -> write            *)
(*   products:  up -> look -> create -> look ... -> write                  *)
(*   preheat:   wait -> fill -> fill ... -> wait | serving                 *)
(***************************************************************************)
EXTENDS Integers, Sequences

CONSTANTS
  Tenants,    \* targetSchemas, in their order
  Products,   \* defaultProducts, in their order
  FullStock,  \* the stock that a new product starts with
  Faults,     \* what may happen: "crash", "db" and "redis" (ignored errors), "conn"
  MaxFaults,  \* bound: how often
  Public, Absent

Range(f) == {f[i] : i \in DOMAIN f}
Schemas == Range(Tenants) \cup {Public}

\* The two numbers; the first one names the script of the users in public and
\* that of the members in a tenant.
First == "20260513-001"
Second == "20260522-001"

\* The scripts of a schema, in order: number, kind and the tables they create.
UserScript == [no |-> First, kind |-> "users", makes |-> {"users", "user_permissions"}]
MemberScript == [no |-> First, kind |-> "members", makes |-> {"member", "transaction"}]
ProductScript == [no |-> Second, kind |-> "products", makes |-> {"product", "transaction"}]

ASSUME StartupAssumption ==
  /\ Tenants \in Seq(Range(Tenants)) /\ Tenants # <<>> /\ Public \notin Range(Tenants)
  /\ Products \in Seq(Range(Products)) /\ Products # <<>>
  /\ FullStock \in Nat /\ MaxFaults \in Nat
  /\ Absent \notin Nat

Order == <<Public>> \o Tenants
Scripts(s) == IF s = Public THEN <<UserScript>> ELSE <<MemberScript, ProductScript>>

VARIABLES
  recordTable,  \* the schemas with a migrate_record table
  records,      \* the numbers in it
  tables,       \* the other tables of a schema
  accounts,     \* whether the default accounts are inserted
  permissions,  \* whether their permissions are
  stock,        \* the stock of a product in a schema, or Absent
  pc,           \* where the process is
  at,           \* the schema it is at, an index of Order
  job,          \* the script it is at, an index of Scripts
  item,         \* the product it is at, an index of Products
  path,         \* the search_path of its connection
  lost,         \* whether this start has lost a search_path it had set
  faults,       \* how many faults there were
  counter,      \* the counter in Redis of a tenant's product, or Absent
  cold          \* the tenants that this start did not preheat in full

dbVars == <<recordTable, records, tables, accounts, permissions, stock>>
placeVars == <<at, job, item>>
cacheVars == <<counter, cold>>
startupVars == <<dbVars, pc, placeVars, path, lost,
                 faults, cacheVars>>

Init ==
  /\ recordTable = {}
  /\ records = [s \in Schemas |-> {}]
  /\ tables = [s \in Schemas |-> {}]
  /\ accounts = FALSE
  /\ permissions = FALSE
  /\ stock = [s \in Schemas |-> [p \in Range(Products) |-> Absent]]
  /\ counter = stock
  /\ cold = {}
  /\ pc = "down" /\ at = 1 /\ job = 1 /\ item = 1
  /\ path = Public
  /\ lost = FALSE
  /\ faults = 0

Script == Scripts(Order[at])[job]
Product == Products[item]

\* A statement reports an error that the code does not look at.
Ignored == "db" \in Faults /\ faults < MaxFaults
CountFault == faults' = faults + 1

-----------------------------------------------------------------------------
Start ==
  /\ pc = "down"
  /\ pc' = "open" /\ at' = 1 /\ job' = 1 /\ item' = 1
  /\ path' = Public
  /\ lost' = FALSE
  /\ cold' = {}
  /\ UNCHANGED <<dbVars, faults, counter>>

\* Variant: the path is set for public only.
PublicPath == Public

SchemaPath == Order[at]

\* CREATE SCHEMA IF NOT EXISTS, and SET search_path on the connection at hand.
Open ==
  /\ pc = "open"
  /\ path' = SchemaPath
  /\ pc' = "recordTable" /\ job' = 1
  /\ UNCHANGED <<dbVars, at, item, lost, faults, cacheVars>>

\* Variant: only the first schema gets the table.
FirstRecordTable == IF recordTable = {} THEN {path} ELSE recordTable

NewRecordTable == recordTable \cup {path}

MakeRecordTable ==
  /\ pc = "recordTable"
  /\ recordTable' = NewRecordTable
  /\ pc' = "load"
  /\ UNCHANGED <<records, tables, accounts, permissions, stock, placeVars, path, lost,
                 faults, cacheVars>>

\* On to the next script, the next schema, or the preheating.
Advance ==
  IF job < Len(Scripts(Order[at])) THEN pc' = "load" /\ job' = job + 1 /\ UNCHANGED at
  ELSE IF at < Len(Order) THEN pc' = "open" /\ at' = at + 1 /\ UNCHANGED job
  ELSE pc' = "wait" /\ at' = 2 /\ UNCHANGED job

\* Variant: the record comes before the script, so a crash leaves it alone.
RecordFirst ==
  /\ pc = "load"
  /\ IF Script.no \in records[path]
       THEN Advance /\ UNCHANGED records
       ELSE /\ records' = [records EXCEPT ![path] = @ \cup {Script.no}]
            /\ pc' = "up"
            /\ UNCHANGED <<at, job>>
  /\ UNCHANGED <<recordTable, tables, accounts, permissions, stock, item, path, lost,
                 faults, cacheVars>>

\* loadRecords: the error of the query is dropped, and no record is none.
Load ==
  /\ pc = "load"
  /\ \/ /\ Script.no \in records[path]
        /\ Advance
        /\ UNCHANGED faults
     \/ /\ \/ Script.no \notin records[path] /\ UNCHANGED faults
           \/ Script.no \in records[path] /\ Ignored /\ CountFault
        /\ pc' = "up"
        /\ UNCHANGED <<at, job>>
  /\ UNCHANGED <<dbVars, item, path, lost, cacheVars>>

MakeTables(some) == tables' = [tables EXCEPT ![path] = @ \cup some]

\* AutoMigrate of the script's entities; then its rows.
Up ==
  /\ pc = "up"
  /\ MakeTables(Script.makes)
  /\ pc' = CASE Script.kind = "users" -> "count"
             [] Script.kind = "members" -> "write"
             [] Script.kind = "products" -> "look"
  /\ item' = 1
  /\ UNCHANGED <<recordTable, records, accounts, permissions, stock, at, job, path, lost,
                 faults, cacheVars>>

-----------------------------------------------------------------------------
\* The script returns an error: log.Fatalf.
Fatal == pc' = "down" /\ UNCHANGED dbVars

\* Accounts are inserted only into an empty table; a failed count is zero.
Count ==
  /\ pc = "count"
  /\ \/ pc' = (IF accounts THEN "write" ELSE "accounts") /\ UNCHANGED faults
     \/ accounts /\ Ignored /\ CountFault /\ pc' = "accounts"
  /\ UNCHANGED <<dbVars, placeVars, path, lost, cacheVars>>

\* The batches of an insert are one transaction; account is unique.
SeedAccounts ==
  /\ pc = "accounts"
  /\ IF accounts THEN Fatal
     ELSE /\ accounts' = TRUE
          /\ pc' = "permissions"
          /\ UNCHANGED <<recordTable, records, tables, permissions, stock>>
  /\ UNCHANGED <<placeVars, path, lost, faults, cacheVars>>

SeedPermissions ==
  /\ pc = "permissions"
  /\ permissions' = TRUE
  /\ pc' = "write"
  /\ UNCHANGED <<recordTable, records, tables, accounts, stock, placeVars, path, lost,
                 faults, cacheVars>>

\* Variant: the product is not looked for.
NeverFound == FALSE

Found == "product" \in tables[path] /\ stock[path][Product] # Absent

NextProduct ==
  IF item < Len(Products) THEN pc' = "look" /\ item' = item + 1
  ELSE pc' = "write" /\ UNCHANGED item

\* Any error of the query is taken for "not found".
Look ==
  /\ pc = "look"
  /\ \/ Found /\ NextProduct /\ UNCHANGED faults
     \/ /\ \/ ~Found /\ UNCHANGED faults
           \/ Found /\ Ignored /\ CountFault
        /\ pc' = "create"
        /\ UNCHANGED item
  /\ UNCHANGED <<dbVars, at, job, path, lost, cacheVars>>

\* Variant: Save for Create.
Savable == "product" \in tables[path]

\* The id is the primary key.
Creatable == "product" \in tables[path] /\ stock[path][Product] = Absent

Create ==
  /\ pc = "create"
  /\ IF Creatable
       THEN /\ stock' = [stock EXCEPT ![path][Product] = FullStock]
            /\ NextProduct
            /\ UNCHANGED <<recordTable, records, tables, accounts, permissions>>
       ELSE Fatal /\ UNCHANGED item
  /\ UNCHANGED <<at, job, path, lost, faults, cacheVars>>

\* writeRecord: its error is ignored.
Write ==
  /\ pc = "write"
  /\ \/ /\ records' = [records EXCEPT ![path] = @ \cup {Script.no}]
        /\ UNCHANGED faults
     \/ Ignored /\ CountFault /\ UNCHANGED records
  /\ Advance
  /\ UNCHANGED <<recordTable, tables, accounts, permissions, stock, item, path, lost,
                 cacheVars>>

-----------------------------------------------------------------------------
NextTenant ==
  /\ item' = 1
  /\ IF at < Len(Order) THEN pc' = "wait" /\ at' = at + 1
     ELSE pc' = "serving" /\ UNCHANGED at

\* Variant: a tenant that cannot be preheated ends the preheating.
SkipAll == cold' = cold \cup {Order[at]} /\ pc' = "serving" /\ UNCHANGED <<at, item>>

\* The tenant is left as it is.
Skip == cold' = cold \cup {Order[at]} /\ NextTenant

\* Is the table there (ten tries), and what is in it?
Wait ==
  /\ pc = "wait"
  /\ \/ /\ "product" \in tables[Order[at]]
        /\ pc' = "fill" /\ item' = 1
        /\ UNCHANGED <<at, faults, cold>>
     \/ "product" \notin tables[Order[at]] /\ Skip /\ UNCHANGED faults
     \/ Ignored /\ Skip /\ CountFault
  /\ UNCHANGED <<dbVars, job, path, lost, counter>>

\* Variant: SET with NX.
CounterIfNone(s, p) == IF counter[s][p] = Absent THEN stock[s][p] ELSE counter[s][p]

\* SET of the row's stock, whatever the counter holds.
NewCounter(s, p) == stock[s][p]

\* The turn of one row: its counter.  (The price beside it decides only whether
\* an order may name the product, and no order has to.)
Fill ==
  /\ pc = "fill"
  /\ LET s == Order[at]
     IN \/ /\ stock[s][Product] = Absent
           /\ UNCHANGED <<counter, cold, faults>>
        \/ /\ stock[s][Product] # Absent
           /\ counter' = [counter EXCEPT ![s][Product] = NewCounter(s, Product)]
           /\ UNCHANGED <<cold, faults>>
        \/ /\ stock[s][Product] # Absent
           /\ "redis" \in Faults /\ faults < MaxFaults /\ CountFault
           /\ cold' = cold \cup {s}
           /\ UNCHANGED counter
  /\ IF item < Len(Products) THEN item' = item + 1 /\ UNCHANGED <<pc, at>>
     ELSE NextTenant
  /\ UNCHANGED <<dbVars, job, path, lost>>

-----------------------------------------------------------------------------
\* An order takes one out of the counter while the process serves, and the trade
\* worker books it or, when the process ends before, nobody does.
Sell(s, p) ==
  /\ pc = "serving"
  /\ counter[s][p] # Absent /\ counter[s][p] > 0
  /\ counter' = [counter EXCEPT ![s][p] = @ - 1]
  /\ stock' = [stock EXCEPT ![s][p] = @ - 1] \/ UNCHANGED stock
  /\ UNCHANGED <<recordTable, records, tables, accounts, permissions,
                 pc, placeVars, path, lost, faults, cold>>

\* The process ends: an error that panics, log.Fatalf, a kill or a shutdown.
\* AutoMigrate creates one table after the other.
Crash ==
  /\ "crash" \in Faults /\ faults < MaxFaults
  /\ pc # "down"
  /\ IF pc = "up" THEN \E some \in SUBSET Script.makes : MakeTables(some)
     ELSE UNCHANGED tables
  /\ pc' = "down"
  /\ CountFault
  /\ UNCHANGED <<recordTable, records, accounts, permissions, stock, placeVars, path, lost,
                 cacheVars>>

\* The pool replaces the connection: the new one starts with the default path.
Reconnect ==
  /\ "conn" \in Faults /\ faults < MaxFaults
  /\ pc \notin {"down", "serving"} /\ path # Public
  /\ path' = Public
  /\ lost' = TRUE
  /\ CountFault
  /\ UNCHANGED <<dbVars, pc, placeVars, cacheVars>>

Migrate ==
  \/ Open \/ MakeRecordTable \/ Load \/ Up \/ Write
  \/ Count \/ SeedAccounts \/ SeedPermissions \/ Look \/ Create

PreheatProducts == Wait \/ Fill

Next ==
  \/ Start \/ Migrate \/ PreheatProducts \/ Crash \/ Reconnect
  \/ \E s \in Range(Tenants), p \in Range(Products) : Sell(s, p)

\* The program runs on, and somebody starts it again.
Spec == /\ Init /\ [][Next]_startupVars
        /\ WF_startupVars(Start)
        /\ WF_startupVars(Migrate \/ PreheatProducts)

-----------------------------------------------------------------------------
\* Every variable holds a value of its kind; rows come with their table, and the
\* records of a schema with the record table that AutoMigrate made there.
TypeOK ==
  /\ recordTable \subseteq Schemas
  /\ records \in [Schemas -> SUBSET {First, Second}]
  /\ \A s \in Schemas : records[s] # {} => s \in recordTable
  /\ tables \in [Schemas -> SUBSET (UserScript.makes \cup MemberScript.makes
                                      \cup ProductScript.makes)]
  /\ accounts => "users" \in tables[Public]
  /\ permissions => accounts
  /\ stock \in [Schemas -> [Range(Products) -> 0..FullStock \cup {Absent}]]
  /\ pc \in {"down", "open", "recordTable", "load", "up", "count", "accounts",
             "permissions", "look", "create", "write", "wait", "fill", "serving"}
  /\ at \in DOMAIN Order /\ job \in 1..2 /\ item \in DOMAIN Products
  /\ path \in Schemas
  /\ lost \in BOOLEAN
  /\ faults \in 0..MaxFaults
  /\ counter \in [Schemas -> [Range(Products) -> 0..FullStock \cup {Absent}]]
  /\ cold \subseteq Range(Tenants)

HasProducts(s) == \A p \in Range(Products) : stock[s][p] # Absent

\* What a script leaves in its schema.
Applied(script, s) ==
  /\ script.makes \subseteq tables[s]
  /\ script.kind = "users" => accounts
  /\ script.kind = "products" => HasProducts(s)

\* A record in the schema of a script means that the script has run to its end
\* there, whatever was cut off, dropped or sent to the wrong schema meanwhile
\* (writeRecord comes after up).  The record that a product script sends to
\* public, when the path is lost, is no script of public.
RecordsAreTrue ==
  \A s \in Schemas : \A j \in DOMAIN Scripts(s) :
    Scripts(s)[j].no \in records[s] => Applied(Scripts(s)[j], s)

\* The service never starts over a tenant that lacks a table or a product,
\* unless its connection was replaced since the start.
ServingIsComplete ==
  pc = "serving" /\ ~lost =>
    \A s \in Schemas : \A j \in DOMAIN Scripts(s) : Applied(Scripts(s)[j], s)

\* A start never resets what the shop has sold: the seeding runs again after a
\* crash or a dropped error, and leaves every product that is there alone.
StocksKept ==
  [][\A s \in Schemas, p \in Range(Products) :
       stock[s][p] # Absent /\ stock'[s][p] # stock[s][p] => pc = "serving"]_startupVars

\* Whatever the counters were before, a process that comes to serve sells from
\* the stock of the books: in every tenant whose own preheating met no error,
\* and one tenant's error does not keep another one cold (continue, not return).
CountersWarm ==
  [][pc # "serving" /\ pc' = "serving" =>
       \A s \in Range(Tenants) \ cold' : counter'[s] = stock[s]]_startupVars

\* No partial start stands in the way of the next one: when the faults are over
\* and the process is started again, it comes to serve and stays.
ComesToServe == <>[](pc = "serving")
=============================================================================
