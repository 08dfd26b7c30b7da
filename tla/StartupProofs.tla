---------------------------- MODULE StartupProofs ---------------------------
(***************************************************************************)
(* Proofs about the start of the process, for every list of tenants and    *)
(* products and every set of faults.                                       *)
(***************************************************************************)
EXTENDS Startup, TLAPS

\* The process is at a script of a schema.
AtScript == pc \in {"load", "up", "count", "accounts", "permissions", "look", "create", "write"}

\* The process is past the migrations.
Migrated == pc \in {"wait", "fill", "serving"}

\* Where the process is, the script is one of the schema, and the connection
\* writes to the schema or, when it was replaced, to public.
Located ==
  /\ AtScript => job \in DOMAIN Scripts(Order[at])
  /\ pc = "recordTable" => job = 1
  /\ pc = "recordTable" \/ AtScript => path = Order[at] \/ (path = Public /\ lost)
  /\ AtScript => path \in recordTable
  /\ pc # "down" /\ at # 1 => Public \in recordTable
  /\ pc \in {"count", "accounts", "permissions"} => Script.kind = "users"
  /\ pc \in {"look", "create"} => Script.kind = "products"
  /\ Migrated => at # 1

\* What the script at hand has done, if its schema is the one it writes to.
Worked ==
  path = Order[at] =>
    /\ pc \in {"count", "accounts", "permissions", "look", "create", "write"} =>
         Script.makes \subseteq tables[path]
    /\ pc \in {"permissions", "write"} /\ Script.kind = "users" => accounts
    /\ pc \in {"look", "create"} => \A k \in 1..(item - 1) : stock[path][Products[k]] # Absent
    /\ pc = "write" /\ Script.kind = "products" => HasProducts(path)

\* The scripts of the schema at an index: those before the one at hand, and all.
AppliedUpTo(i, n) ==
  \A j \in DOMAIN Scripts(Order[i]) : j < n => Applied(Scripts(Order[i])[j], Order[i])
AllApplied(i) ==
  \A j \in DOMAIN Scripts(Order[i]) : Applied(Scripts(Order[i])[j], Order[i])

\* The scripts before the one at hand have run, public's in any case and those of
\* the tenants unless the connection was replaced.
Preceded ==
  /\ pc # "down" /\ at # 1 => AllApplied(1)
  /\ pc # "down" /\ ~lost =>
       /\ \A i \in DOMAIN Order : i < at \/ Migrated => AllApplied(i)
       /\ AtScript => AppliedUpTo(at, job)

\* A counter is never above its row.
Backed ==
  \A s \in Schemas, p \in Range(Products) :
    counter[s][p] # Absent => stock[s][p] # Absent /\ counter[s][p] <= stock[s][p]

\* The tenants before the one at hand are preheated.
Warmed ==
  /\ pc \in {"wait", "fill"} =>
       \A i \in 2..(at - 1) : Order[i] \in cold \/ counter[Order[i]] = stock[Order[i]]
  /\ pc = "fill" =>
       \A k \in 1..(item - 1) :
         Order[at] \in cold \/ counter[Order[at]][Products[k]] = stock[Order[at]][Products[k]]

StartupInv ==
  /\ TypeOK /\ Located /\ Worked /\ Preceded /\ Backed /\ Warmed
  /\ RecordsAreTrue /\ ServingIsComplete

-----------------------------------------------------------------------------
\* Public comes first, then the tenants.
LEMMA OrderFacts ==
  /\ Order \in Seq(Schemas) /\ Len(Order) \in Nat /\ DOMAIN Order = 1..Len(Order)
  /\ 1 \in DOMAIN Order /\ 2 \in DOMAIN Order /\ Order[1] = Public
  /\ \A i \in DOMAIN Order : i # 1 => Order[i] \in Range(Tenants) /\ Order[i] # Public
  /\ \A s \in Schemas : \E i \in DOMAIN Order : Order[i] = s
  <1>1. Len(Tenants) \in Nat /\ DOMAIN Tenants = 1..Len(Tenants) /\ Len(Tenants) > 0
    BY StartupAssumption
  <1>2. /\ Len(Order) = Len(Tenants) + 1 /\ DOMAIN Order = 1..Len(Order) /\ Order[1] = Public
        /\ \A i \in 2..Len(Order) : Order[i] = Tenants[i - 1]
    BY <1>1, StartupAssumption DEF Order, Schemas
  <1>3. \A i \in DOMAIN Order : i # 1 =>
          i - 1 \in DOMAIN Tenants /\ Order[i] = Tenants[i - 1]
    BY <1>1, <1>2
  <1>4. \A i \in DOMAIN Order : i # 1 => Order[i] \in Range(Tenants) /\ Order[i] # Public
    BY <1>3, StartupAssumption DEF Range
  <1>5. \A k \in DOMAIN Tenants : k + 1 \in DOMAIN Order /\ Order[k + 1] = Tenants[k]
    BY <1>1, <1>2
  <1>6. \A s \in Schemas : \E i \in DOMAIN Order : Order[i] = s
    BY <1>1, <1>2, <1>5 DEF Schemas, Range
  <1>7. Order \in Seq(Schemas)
    BY StartupAssumption DEF Order, Schemas
  <1>8. QED
    BY <1>1, <1>2, <1>4, <1>6, <1>7

\* The scripts of a schema.
LEMMA ScriptFacts ==
  /\ \A i \in DOMAIN Order : Order[i] \in Schemas
  /\ Scripts(Order[1]) = <<UserScript>>
  /\ \A i \in DOMAIN Order : i # 1 => Scripts(Order[i]) = <<MemberScript, ProductScript>>
  /\ First # Second
  BY OrderFacts DEF Scripts, Schemas, First, Second

\* The products are numbered from one.
LEMMA ProductFacts ==
  /\ Len(Products) \in Nat \ {0} /\ DOMAIN Products = 1..Len(Products)
  /\ \A k \in DOMAIN Products : Products[k] \in Range(Products)
  /\ \A p \in Range(Products) : \E k \in DOMAIN Products : Products[k] = p
  BY StartupAssumption DEF Range

\* One entry of a table of tables is set.
LEMMA SetEntry ==
  ASSUME NEW S, NEW P, NEW V, NEW f \in [S -> [P -> V]], NEW s \in S, NEW p \in P, NEW v
  PROVE  /\ v \in V => [f EXCEPT ![s][p] = v] \in [S -> [P -> V]]
         /\ \A t \in S, q \in P :
              [f EXCEPT ![s][p] = v][t][q] = IF t = s /\ q = p THEN v ELSE f[t][q]
         /\ \A t \in S : t # s => [f EXCEPT ![s][p] = v][t] = f[t]
  OBVIOUS

\* The rows and the counters.
LEMMA EntryTypes ==
  ASSUME TypeOK
  PROVE  /\ stock \in [Schemas -> [Range(Products) -> 0..FullStock \cup {Absent}]]
         /\ counter \in [Schemas -> [Range(Products) -> 0..FullStock \cup {Absent}]]
         /\ path \in Schemas /\ Order[at] \in Schemas /\ Product \in Range(Products)
  BY ScriptFacts, ProductFacts DEF TypeOK, Product

\* What is sold is in the row.
LEMMA SoldBacked ==
  ASSUME TypeOK, Backed, NEW t \in Range(Tenants), NEW q \in Range(Products), Sell(t, q)
  PROVE  /\ t \in Schemas
         /\ counter[t][q] \in 1..FullStock /\ counter[t][q] - 1 \in 0..FullStock
         /\ stock[t][q] \in 1..FullStock /\ stock[t][q] - 1 \in 0..FullStock
         /\ counter[t][q] <= stock[t][q]
  <1>1. t \in Schemas /\ counter[t][q] # Absent /\ counter[t][q] > 0
    BY DEF Sell, Schemas
  <1>2. stock[t][q] # Absent /\ counter[t][q] <= stock[t][q]
    BY <1>1 DEF Backed
  <1>3. counter[t][q] \in 0..FullStock /\ stock[t][q] \in 0..FullStock
    BY <1>1, <1>2, EntryTypes
  <1>4. QED
    BY <1>1, <1>2, <1>3, StartupAssumption

\* Tables, accounts and products stay once they are there.
LEMMA Grows ==
  ASSUME TypeOK, Backed, [Next]_startupVars
  PROVE  /\ \A s \in Schemas : tables[s] \subseteq tables'[s]
         /\ accounts => accounts'
         /\ recordTable \subseteq recordTable'
         /\ \A s \in Schemas, p \in Range(Products) :
              stock[s][p] # Absent => stock'[s][p] # Absent
  <1>1. CASE UNCHANGED startupVars \/ Start \/ Open \/ Load \/ Count \/ Look \/ Wait \/ Fill \/ Reconnect
    BY <1>1 DEF startupVars, dbVars, Start, Open, Load, Count, Look, Wait, Fill, Reconnect
  <1>2. CASE MakeRecordTable \/ SeedPermissions \/ Write
    BY <1>2 DEF MakeRecordTable, NewRecordTable, SeedPermissions, Write
  <1>3. CASE Up \/ Crash
    BY <1>3 DEF Up, Crash, MakeTables, TypeOK
  <1>4. CASE SeedAccounts
    BY <1>4 DEF SeedAccounts, Fatal, dbVars
  <1>5. CASE Create
    <2>1. /\ UNCHANGED <<tables, accounts, recordTable>>
          /\ stock' = stock \/ stock' = [stock EXCEPT ![path][Product] = FullStock]
      BY <1>5 DEF Create, Fatal, dbVars
    <2>2. FullStock # Absent
      BY StartupAssumption
    <2>3. CASE stock' = [stock EXCEPT ![path][Product] = FullStock]
      BY <2>1, <2>2, <2>3, EntryTypes,
         SetEntry, SMTT(30)
    <2>4. QED
      BY <2>1, <2>3
  <1>6. ASSUME NEW t \in Range(Tenants), NEW q \in Range(Products), Sell(t, q)
        PROVE  /\ UNCHANGED <<tables, accounts, recordTable>>
               /\ \A s \in Schemas, p \in Range(Products) :
                    stock[s][p] # Absent => stock'[s][p] # Absent
    <2>1. /\ UNCHANGED <<tables, accounts, recordTable>> /\ t \in Schemas
          /\ stock' = stock \/ stock' = [stock EXCEPT ![t][q] = stock[t][q] - 1]
      BY <1>6 DEF Sell, Schemas
    <2>2. stock[t][q] - 1 # Absent
      BY <1>6, SoldBacked, StartupAssumption
    <2>3. QED
      BY <2>1, <2>2, EntryTypes, SetEntry
  <1>7. QED
    BY <1>1, <1>2, <1>3, <1>4, <1>5, <1>6 DEF Next, Migrate, PreheatProducts

\* So what has been applied stays applied.
LEMMA AppliedStays ==
  ASSUME TypeOK, Backed, [Next]_startupVars, NEW s \in Schemas, NEW script, Applied(script, s)
  PROVE  Applied(script, s)'
  BY Grows DEF Applied, HasProducts

\* A counter stays below its row: rows are created before counters, and an order
\* takes from the counter what it may take from the row.
LEMMA BackedStep ==
  ASSUME TypeOK, Backed, [Next]_startupVars
  PROVE  Backed'
  <1>1. CASE UNCHANGED <<stock, counter>>
    BY <1>1 DEF Backed
  <1>2. CASE Create
    <2>1. /\ counter' = counter
          /\ \/ stock' = stock
             \/ /\ stock[path][Product] = Absent
                /\ stock' = [stock EXCEPT ![path][Product] = FullStock]
      BY <1>2 DEF Create, Creatable, Fatal, dbVars, cacheVars
    <2>2. \A s \in Schemas, p \in Range(Products) :
            stock[s][p] # Absent => stock'[s][p] = stock[s][p]
      BY <2>1, EntryTypes, SetEntry
    <2>3. QED
      BY <2>1, <2>2 DEF Backed
  <1>3. CASE Fill
    <2>1. /\ stock' = stock
          /\ \/ counter' = counter
             \/ /\ stock[Order[at]][Product] # Absent
                /\ counter' = [counter EXCEPT ![Order[at]][Product] = stock[Order[at]][Product]]
      BY <1>3 DEF Fill, NewCounter, dbVars
    <2>2. \A s \in Schemas, p \in Range(Products) :
            \/ counter'[s][p] = counter[s][p]
            \/ stock[s][p] # Absent /\ counter'[s][p] = stock[s][p]
      <3>1. CASE counter' = counter
        BY <3>1
      <3>2. CASE /\ stock[Order[at]][Product] # Absent
                 /\ counter' = [counter EXCEPT ![Order[at]][Product] = stock[Order[at]][Product]]
        BY <3>2, EntryTypes, SetEntry
      <3>3. QED
        BY <2>1, <3>1, <3>2
    <2>3. \A s \in Schemas, p \in Range(Products) :
            stock[s][p] # Absent => stock[s][p] \in Nat
      BY EntryTypes, StartupAssumption
    <2>4. QED
      BY <2>1, <2>2, <2>3 DEF Backed
  <1>4. ASSUME NEW t \in Range(Tenants), NEW q \in Range(Products), Sell(t, q)
        PROVE  Backed'
    <2>1. /\ t \in Schemas
          /\ counter' = [counter EXCEPT ![t][q] = counter[t][q] - 1]
          /\ stock' = [stock EXCEPT ![t][q] = stock[t][q] - 1] \/ stock' = stock
      BY <1>4 DEF Sell, Schemas
    <2>2. /\ stock'[t][q] \in {stock[t][q], stock[t][q] - 1}
          /\ counter'[t][q] = counter[t][q] - 1
      BY <2>1, EntryTypes, SetEntry
    <2>3. stock'[t][q] # Absent /\ counter'[t][q] <= stock'[t][q]
      BY <1>4, <2>2, SoldBacked, StartupAssumption
    <2>4. \A s \in Schemas, p \in Range(Products) :
            (s = t /\ p = q) \/ (counter'[s][p] = counter[s][p] /\ stock'[s][p] = stock[s][p])
      BY <2>1, EntryTypes, SetEntry
    <2>5. QED
      BY <2>3, <2>4 DEF Backed
  <1>5. QED
    BY <1>1, <1>2, <1>3, <1>4 DEF Next, Migrate, PreheatProducts, startupVars, dbVars, cacheVars,
       Start,
       Open, MakeRecordTable, Load, Up, Count, SeedAccounts, Fatal, SeedPermissions, Look, Write,
       Wait, Crash, Reconnect

\* The script at hand.
LEMMA ScriptAtHand ==
  ASSUME TypeOK, Located, AtScript
  PROVE  /\ path = Order[at] \/ (path = Public /\ lost /\ at # 1)
         /\ \/ at = 1 /\ job = 1 /\ Script = UserScript /\ path = Public
            \/ at # 1 /\ job = 1 /\ Script = MemberScript
            \/ at # 1 /\ job = 2 /\ Script = ProductScript
         /\ pc \in {"count", "accounts", "permissions"} => Script = UserScript
         /\ pc \in {"look", "create"} => Script = ProductScript
  <1>1. /\ at \in DOMAIN Order /\ job \in DOMAIN Scripts(Order[at])
        /\ path = Order[at] \/ (path = Public /\ lost)
    BY DEF TypeOK, Located
  <1>2. \/ at = 1 /\ job = 1 /\ Script = UserScript
        \/ at # 1 /\ job = 1 /\ Script = MemberScript
        \/ at # 1 /\ job = 2 /\ Script = ProductScript
    BY <1>1, ScriptFacts DEF Script
  <1>3. /\ pc \in {"count", "accounts", "permissions"} => Script.kind = "users"
        /\ pc \in {"look", "create"} => Script.kind = "products"
    BY DEF Located
  <1>4. UserScript.kind = "users" /\ MemberScript.kind = "members" /\ ProductScript.kind = "products"
    BY DEF UserScript, MemberScript, ProductScript
  <1>5. QED
    BY <1>1, <1>2, <1>3, <1>4, OrderFacts

\* The parts of the type invariant.
DbTypes ==
  /\ recordTable \subseteq Schemas
  /\ records \in [Schemas -> SUBSET {First, Second}]
  /\ \A s \in Schemas : records[s] # {} => s \in recordTable
  /\ tables \in [Schemas -> SUBSET (UserScript.makes \cup MemberScript.makes
                                      \cup ProductScript.makes)]
  /\ accounts => "users" \in tables[Public]
  /\ permissions => accounts
  /\ stock \in [Schemas -> [Range(Products) -> 0..FullStock \cup {Absent}]]
PlaceTypes ==
  /\ pc \in {"down", "open", "recordTable", "load", "up", "count", "accounts",
             "permissions", "look", "create", "write", "wait", "fill", "serving"}
  /\ at \in DOMAIN Order /\ job \in 1..2 /\ item \in DOMAIN Products
  /\ path \in Schemas
  /\ lost \in BOOLEAN
  /\ faults \in 0..MaxFaults
CacheTypes ==
  /\ counter \in [Schemas -> [Range(Products) -> 0..FullStock \cup {Absent}]]
  /\ cold \subseteq Range(Tenants)

\* Where the process goes is a place.
LEMMA PlaceStep ==
  ASSUME TypeOK, Located, [Next]_startupVars
  PROVE  PlaceTypes'
  <1> USE DEF PlaceTypes
  <1>1. PlaceTypes
    BY DEF TypeOK
  <1>2. /\ DOMAIN Order = 1..Len(Order) /\ Len(Order) \in Nat /\ 1 \in DOMAIN Order /\ 2 \in DOMAIN Order
        /\ Public \in Schemas /\ Order[at] \in Schemas
        /\ Len(Scripts(Order[at])) \in 1..2
    BY <1>1, OrderFacts, ScriptFacts DEF Schemas
  <1>3. DOMAIN Products = 1..Len(Products) /\ Len(Products) \in Nat \ {0} /\ 1 \in DOMAIN Products
    BY ProductFacts
  <1>4. faults < MaxFaults => faults + 1 \in 0..MaxFaults
    BY <1>1, StartupAssumption
  <1>5. CASE Start \/ Open \/ MakeRecordTable
    <2>1. CASE Start
      <3>1. pc' = "open" /\ at' = 1 /\ job' = 1 /\ item' = 1 /\ path' = Public /\ lost' = FALSE
            /\ faults' = faults
        BY <2>1 DEF Start
      <3>2. at' \in DOMAIN Order /\ item' \in DOMAIN Products /\ path' \in Schemas
        BY <1>2, <1>3, <3>1
      <3>3. job' \in 1..2 /\ faults' \in 0..MaxFaults
        BY <1>1, <3>1
      <3>4. QED
        BY <3>1, <3>2, <3>3
    <2>2. CASE Open
      BY <1>1, <1>2, <2>2 DEF Open, SchemaPath
    <2>3. CASE MakeRecordTable
      BY <1>1, <2>3 DEF MakeRecordTable, placeVars
    <2>4. QED
      BY <1>5, <2>1, <2>2, <2>3
  <1>6. ASSUME Advance
        PROVE  at' \in DOMAIN Order /\ job' \in 1..2 /\ pc' \in {"load", "open", "wait"}
    <2>1. /\ at \in DOMAIN Order /\ at \in 1..Len(Order) /\ job \in 1..2
          /\ Len(Scripts(Order[at])) \in 1..2
      BY <1>1, <1>2
    <2>2. CASE job < Len(Scripts(Order[at]))
      <3>1. pc' = "load" /\ job' = job + 1 /\ at' = at
        BY <1>6, <2>2 DEF Advance
      <3>2. job = 1
        <4>1. \A j, n \in 1..2 : j < n => j = 1
          OBVIOUS
        <4>2. QED
          BY <4>1, <2>1, <2>2
      <3>3. QED
        BY <1>2, <2>1, <3>1, <3>2
    <2>3. CASE ~(job < Len(Scripts(Order[at]))) /\ at < Len(Order)
      BY <1>2, <1>6, <2>1, <2>3 DEF Advance
    <2>4. CASE ~(job < Len(Scripts(Order[at]))) /\ ~(at < Len(Order))
      BY <1>2, <1>6, <2>1, <2>4 DEF Advance
    <2>5. QED
      BY <2>2, <2>3, <2>4
  <1>7. CASE Load \/ Write
    BY <1>1, <1>4, <1>6, <1>7 DEF Load, Write, Ignored, CountFault
  <1>8. CASE Up
    <2>1. pc' \in {"count", "write", "look"}
      BY <1>8, ScriptAtHand DEF Up, AtScript, UserScript, MemberScript, ProductScript
    <2>2. QED
      BY <2>1, <1>1, <1>3, <1>8 DEF Up
  <1>9. CASE Count \/ SeedAccounts \/ SeedPermissions
    BY <1>1, <1>4, <1>9 DEF Count, SeedAccounts, SeedPermissions, Fatal, Ignored, CountFault,
       placeVars
  <1>10. CASE Look \/ Create
    BY <1>1, <1>3, <1>4, <1>10 DEF Look, Create, NextProduct, Fatal, Ignored, CountFault, placeVars
  <1>11. CASE Wait \/ Fill
    BY <1>1, <1>2, <1>3, <1>4, <1>11 DEF Wait, Fill, Skip, NextTenant, Ignored, CountFault,
       placeVars
  <1>12. CASE Crash \/ Reconnect
    BY <1>1, <1>2, <1>4, <1>12 DEF Crash, Reconnect, CountFault, placeVars
  <1>13. ASSUME NEW t \in Range(Tenants), NEW q \in Range(Products), Sell(t, q) PROVE PlaceTypes'
    BY <1>1, <1>13 DEF Sell, placeVars
  <1>14. CASE UNCHANGED startupVars
    BY <1>1, <1>14 DEF startupVars, placeVars
  <1>15. QED
    BY <1>5, <1>7, <1>8, <1>9, <1>10, <1>11, <1>12, <1>13, <1>14 DEF Next, Migrate, PreheatProducts

\* The books hold rows, and rows have their table.
LEMMA DbStep ==
  ASSUME TypeOK, Located, Worked, Backed, [Next]_startupVars
  PROVE  DbTypes'
  <1>1. DbTypes
    BY DEF TypeOK, DbTypes
  <1>2. path \in Schemas /\ Public \in Schemas /\ Order[at] \in Schemas /\ Product \in Range(Products)
    BY EntryTypes DEF Schemas
  <1>3. CASE UNCHANGED dbVars
    BY <1>1, <1>3 DEF DbTypes, dbVars
  <1>4. CASE MakeRecordTable
    BY <1>1, <1>2, <1>4 DEF MakeRecordTable, NewRecordTable, DbTypes
  <1>5. ASSUME NEW some, some \subseteq Script.makes, AtScript, MakeTables(some),
               UNCHANGED <<recordTable, records, accounts, permissions, stock>>
        PROVE  DbTypes'
    <2>1. some \subseteq UserScript.makes \cup MemberScript.makes \cup ProductScript.makes
      BY <1>5, ScriptAtHand
    <2>2. QED
      BY <1>1, <1>2, <1>5, <2>1 DEF MakeTables, DbTypes
  <1>6. CASE Up
    BY <1>5, <1>6 DEF Up, AtScript
  <1>7. CASE Crash
    BY <1>1, <1>5, <1>7 DEF Crash, AtScript, DbTypes
  <1>8. CASE SeedAccounts
    <2>1. AtScript /\ pc = "accounts"
      BY <1>8 DEF SeedAccounts, AtScript
    <2>2. Script = UserScript /\ path = Public /\ path = Order[at]
      BY <2>1, ScriptAtHand DEF UserScript, MemberScript, ProductScript
    <2>3. "users" \in tables[Public]
      BY <2>1, <2>2 DEF Worked, UserScript
    <2>4. QED
      BY <1>1, <1>8, <2>3 DEF SeedAccounts, Fatal, dbVars, DbTypes
  <1>9. CASE SeedPermissions
    <2>1. AtScript /\ pc = "permissions"
      BY <1>9 DEF SeedPermissions, AtScript
    <2>2. Script = UserScript /\ path = Order[at]
      BY <2>1, ScriptAtHand DEF UserScript, MemberScript, ProductScript
    <2>3. accounts
      BY <2>1, <2>2 DEF Worked, UserScript
    <2>4. QED
      BY <1>1, <1>9, <2>3 DEF SeedPermissions, DbTypes
  <1>10. CASE Create
    <2>1. /\ UNCHANGED <<recordTable, records, tables, accounts, permissions>>
          /\ stock' = stock \/ stock' = [stock EXCEPT ![path][Product] = FullStock]
      BY <1>10 DEF Create, Fatal, dbVars
    <2>2. stock' \in [Schemas -> [Range(Products) -> 0..FullStock \cup {Absent}]]
      <3>1. FullStock \in 0..FullStock
        BY StartupAssumption
      <3>2. CASE stock' = [stock EXCEPT ![path][Product] = FullStock]
        BY <3>1, <3>2, EntryTypes, SetEntry
      <3>3. QED
        BY <2>1, <3>2, EntryTypes
    <2>3. QED
      BY <1>1, <2>1, <2>2 DEF DbTypes
  <1>11. CASE Write
    <2>1. /\ path \in recordTable /\ Script.no \in {First, Second} /\ recordTable' = recordTable
          /\ UNCHANGED <<tables, accounts, permissions, stock>>
          /\ records' = records \/ records' = [records EXCEPT ![path] = @ \cup {Script.no}]
      <3>1. AtScript
        BY <1>11 DEF Write, AtScript
      <3>2. path \in recordTable
        BY <3>1 DEF Located
      <3>3. Script.no \in {First, Second}
        BY <3>1, ScriptAtHand DEF UserScript, MemberScript, ProductScript
      <3>4. QED
        BY <1>11, <3>2, <3>3 DEF Write
    <2>2. CASE records' = records
      BY <1>1, <2>1, <2>2 DEF DbTypes
    <2>3. CASE records' = [records EXCEPT ![path] = @ \cup {Script.no}]
      <3>1. records' \in [Schemas -> SUBSET {First, Second}]
        BY <1>1, <1>2, <2>1, <2>3 DEF DbTypes
      <3>2. \A s \in Schemas : records'[s] # {} => s \in recordTable
        BY <1>1, <1>2, <2>1, <2>3 DEF DbTypes
      <3>3. QED
        BY <1>1, <2>1, <3>1, <3>2 DEF DbTypes
    <2>4. QED
      BY <2>1, <2>2, <2>3
  <1>12. ASSUME NEW t \in Range(Tenants), NEW q \in Range(Products), Sell(t, q) PROVE DbTypes'
    <2>1. /\ UNCHANGED <<recordTable, records, tables, accounts, permissions>>
          /\ stock' = stock \/ stock' = [stock EXCEPT ![t][q] = stock[t][q] - 1]
      BY <1>12 DEF Sell
    <2>2. stock' \in [Schemas -> [Range(Products) -> 0..FullStock \cup {Absent}]]
      <3>1. t \in Schemas /\ stock[t][q] - 1 \in 0..FullStock
        BY <1>12, SoldBacked
      <3>2. CASE stock' = [stock EXCEPT ![t][q] = stock[t][q] - 1]
        BY <3>1, <3>2, EntryTypes, SetEntry
      <3>3. QED
        BY <2>1, <3>2, EntryTypes
    <2>3. QED
      BY <1>1, <2>1, <2>2 DEF DbTypes
  <1>13. QED
    BY <1>3, <1>4, <1>6, <1>7, <1>8, <1>9, <1>10, <1>11, <1>12
       DEF Next, Migrate, PreheatProducts, startupVars, Start, Open, Load, Count, Look, Wait, Fill,
           Reconnect

\* The counters are numbers, and only tenants are left cold.
LEMMA CacheStep ==
  ASSUME TypeOK, Located, Backed, [Next]_startupVars
  PROVE  CacheTypes'
  <1>1. CacheTypes
    BY DEF TypeOK, CacheTypes
  <1>2. CASE UNCHANGED cacheVars \/ Start
    BY <1>1, <1>2 DEF CacheTypes, cacheVars, Start
  <1>3. ASSUME pc \in {"wait", "fill"}
        PROVE  Order[at] \in Range(Tenants)
    BY <1>3, OrderFacts DEF Located, Migrated, TypeOK
  <1>4. CASE Wait
    BY <1>1, <1>3, <1>4 DEF Wait, Skip, NextTenant, CacheTypes
  <1>5. CASE Fill
    <2>1. /\ cold' = cold \/ cold' = cold \cup {Order[at]}
          /\ \/ counter' = counter
             \/ counter' = [counter EXCEPT ![Order[at]][Product] = stock[Order[at]][Product]]
          /\ pc = "fill"
      BY <1>5 DEF Fill, NewCounter
    <2>2. counter' \in [Schemas -> [Range(Products) -> 0..FullStock \cup {Absent}]]
      <3>1. stock[Order[at]][Product] \in 0..FullStock \cup {Absent}
        BY EntryTypes
      <3>2. CASE counter' = [counter EXCEPT ![Order[at]][Product] = stock[Order[at]][Product]]
        BY <3>1, <3>2, EntryTypes, SetEntry
      <3>3. QED
        BY <2>1, <3>2, EntryTypes
    <2>3. QED
      BY <1>1, <1>3, <2>1, <2>2 DEF CacheTypes
  <1>6. ASSUME NEW t \in Range(Tenants), NEW q \in Range(Products), Sell(t, q) PROVE CacheTypes'
    <2>1. counter' = [counter EXCEPT ![t][q] = counter[t][q] - 1] /\ cold' = cold
      BY <1>6 DEF Sell
    <2>2. t \in Schemas /\ counter[t][q] - 1 \in 0..FullStock
      BY <1>6, SoldBacked
    <2>3. counter' \in [Schemas -> [Range(Products) -> 0..FullStock \cup {Absent}]]
      BY <2>1, <2>2, EntryTypes, SetEntry
    <2>4. QED
      BY <1>1, <2>1, <2>3 DEF CacheTypes
  <1>7. QED
    BY <1>2, <1>4, <1>5, <1>6 DEF Next, Migrate, PreheatProducts, startupVars, cacheVars, Open,
       MakeRecordTable, Load, Up, Count, SeedAccounts, SeedPermissions, Look, Create, Write, Crash,
       Reconnect

\* Every variable keeps its kind.
LEMMA TypeStep ==
  ASSUME TypeOK, Located, Worked, Backed, [Next]_startupVars
  PROVE  TypeOK'
  BY PlaceStep, DbStep, CacheStep DEF TypeOK, PlaceTypes, DbTypes, CacheTypes

\* The process moves on to a script, a schema or a tenant that is there.
LEMMA LocatedStep ==
  ASSUME TypeOK, Located, Worked, Backed, [Next]_startupVars
  PROVE  Located'
  <1> USE DEF Migrated, AtScript
  <1>1. /\ DOMAIN Order = 1..Len(Order) /\ Len(Order) \in Nat /\ at \in 1..Len(Order)
        /\ 2 \in DOMAIN Order /\ Order[1] = Public
    BY OrderFacts DEF TypeOK
  <1>2. recordTable \subseteq recordTable'
    BY Grows
  <1>3. CASE Start \/ Open \/ MakeRecordTable
    <2>1. CASE Start
      BY <1>1, <2>1 DEF Start, Located
    <2>2. CASE Open
      BY <1>1, <2>2 DEF Open, SchemaPath, Located, dbVars
    <2>3. CASE MakeRecordTable
      <3>1. job' = 1 /\ at' = at
        BY <2>3 DEF MakeRecordTable, placeVars, Located
      <3>2. 1 \in DOMAIN Scripts(Order[at])
        BY ScriptFacts DEF TypeOK
      <3>3. QED
        BY <1>1, <2>3, <3>1, <3>2 DEF MakeRecordTable, NewRecordTable, placeVars, Located
    <2>4. QED
      BY <1>3, <2>1, <2>2, <2>3
  <1>4. CASE Load \/ Write
    <2>1. AtScript /\ recordTable' = recordTable /\ path' = path /\ lost' = lost
      BY <1>4 DEF Load, Write, dbVars
    <2>2. /\ Public \in recordTable /\ path \in recordTable
          /\ path = Order[at] \/ (path = Public /\ lost)
      BY <1>1, <2>1, ScriptAtHand DEF Located
    <2>3. CASE Advance
      <3>1. job \in 1..Len(Scripts(Order[at])) /\ Len(Scripts(Order[at])) \in Nat
            /\ DOMAIN Scripts(Order[at]) = 1..Len(Scripts(Order[at]))
        BY <2>1, ScriptFacts DEF Located, TypeOK
      <3>2. CASE job < Len(Scripts(Order[at]))
        BY <1>1, <2>1, <2>2, <2>3, <3>1, <3>2 DEF Advance, Located
      <3>3. CASE ~(job < Len(Scripts(Order[at])))
        BY <1>1, <2>1, <2>2, <2>3, <3>1, <3>3 DEF Advance, Located
      <3>4. QED
        BY <3>2, <3>3
    <2>4. CASE pc' = "up" /\ UNCHANGED <<at, job>>
      BY <2>1, <2>2, <2>4 DEF Located
    <2>5. QED
      BY <1>4, <2>3, <2>4 DEF Load, Write
  <1>5. CASE Up
    <2>1. AtScript /\ UNCHANGED <<recordTable, at, job, path, lost>>
      BY <1>5 DEF Up
    <2>2. /\ pc' \in {"count", "write", "look"}
          /\ pc' = "count" => Script.kind = "users"
          /\ pc' = "look" => Script.kind = "products"
      BY <1>5, <2>1, ScriptAtHand DEF Up, UserScript, MemberScript, ProductScript
    <2>3. Script' = Script
      BY <2>1 DEF Script
    <2>4. QED
      BY <2>1, <2>2, <2>3 DEF Located
  <1>6. CASE Count \/ SeedAccounts \/ SeedPermissions
    <2>1. UNCHANGED <<recordTable, at, job, path, lost>> /\ Script' = Script
          /\ pc \in {"count", "accounts", "permissions"}
          /\ pc' \in {"accounts", "permissions", "write", "down"}
      BY <1>6 DEF Count, SeedAccounts, SeedPermissions, Fatal, Script, dbVars, placeVars
    <2>2. QED
      BY <2>1 DEF Located
  <1>7. CASE Look \/ Create
    <2>1. UNCHANGED <<recordTable, at, job, path, lost>> /\ Script' = Script
          /\ pc \in {"look", "create"} /\ pc' \in {"look", "create", "write", "down"}
      BY <1>7 DEF Look, Create, NextProduct, Fatal, Script, dbVars
    <2>2. QED
      BY <2>1 DEF Located
  <1>8. CASE Wait \/ Fill
    <2>1. UNCHANGED <<recordTable, path, lost>> /\ pc \in {"wait", "fill"}
          /\ pc' \in {"wait", "fill", "serving"} /\ at' \in {at, at + 1}
      BY <1>8 DEF Wait, Fill, Skip, NextTenant, dbVars
    <2>2. QED
      BY <1>1, <2>1 DEF Located
  <1>9. CASE Crash
    BY <1>9 DEF Crash, Located
  <1>10. CASE Reconnect
    <2>1. UNCHANGED <<recordTable, pc, at, job>> /\ path' = Public /\ lost' /\ path # Public
          /\ Script' = Script /\ pc # "down"
      BY <1>10 DEF Reconnect, Script, dbVars, placeVars
    <2>2. AtScript => Public \in recordTable
      BY <1>1, <2>1, ScriptAtHand DEF Located
    <2>3. QED
      BY <2>1, <2>2 DEF Located
  <1>11. ASSUME NEW t \in Range(Tenants), NEW q \in Range(Products), Sell(t, q) PROVE Located'
    BY <1>11 DEF Sell, Located, placeVars
  <1>12. CASE UNCHANGED startupVars
    BY <1>12 DEF startupVars, Located, placeVars, dbVars, Script
  <1>15. QED
    BY <1>3, <1>4, <1>5, <1>6, <1>7, <1>8, <1>9, <1>10, <1>11, <1>12
       DEF Next, Migrate, PreheatProducts

\* What a script has done it has done: each step of it adds its part, and nothing
\* takes the others away.
LEMMA WorkedStep ==
  ASSUME TypeOK, Located, Worked, Backed, [Next]_startupVars
  PROVE  Worked'
  <1>1. CASE pc' \notin {"count", "accounts", "permissions", "look", "create", "write"}
    BY <1>1 DEF Worked
  <1>2. /\ \A s \in Schemas : tables[s] \subseteq tables'[s]
        /\ accounts => accounts'
        /\ \A s \in Schemas, p \in Range(Products) : stock[s][p] # Absent => stock'[s][p] # Absent
    BY Grows
  <1>3. /\ path \in Schemas /\ item \in 1..Len(Products) /\ Len(Products) \in Nat
        /\ DOMAIN Products = 1..Len(Products) /\ Product \in Range(Products)
        /\ \A k \in 1..Len(Products) : Products[k] \in Range(Products)
        /\ \A p \in Range(Products) : \E k \in 1..Len(Products) : Products[k] = p
    BY ProductFacts, EntryTypes DEF TypeOK
  <1>4. CASE Up
    <2>1. AtScript /\ UNCHANGED <<at, job, path, stock>> /\ item' = 1
      BY <1>4 DEF Up, AtScript
    <2>2. Script' = Script /\ MakeTables(Script.makes)
      BY <1>4, <2>1 DEF Up, Script
    <2>3. Script.makes \subseteq tables'[path]
      BY <1>3, <2>2 DEF MakeTables, TypeOK
    <2>4. /\ pc' \in {"count", "look", "write"}
          /\ pc' = "write" => Script = MemberScript
      BY <1>4, <2>1, ScriptAtHand DEF Up, UserScript, MemberScript, ProductScript
    <2>5. QED
      BY <2>1, <2>2, <2>3, <2>4 DEF Worked, MemberScript
  <1>5. CASE Count \/ SeedAccounts \/ SeedPermissions
    <2>1. AtScript /\ pc \in {"count", "accounts", "permissions"}
      BY <1>5 DEF Count, SeedAccounts, SeedPermissions, AtScript
    <2>2. /\ UNCHANGED <<at, job, path>> /\ Script' = Script
          /\ pc' \in {"accounts", "permissions", "write", "down"}
          /\ pc' \in {"permissions", "write"} => accounts' \/ pc = "permissions"
      BY <1>5 DEF Count, SeedAccounts, SeedPermissions, Fatal, Script, dbVars, placeVars
    <2>3. Script = UserScript
      BY <2>1, ScriptAtHand
    <2>4. CASE path = Order[at]
      <3>1. Script.makes \subseteq tables'[path]
        BY <1>2, <1>3, <2>1, <2>4 DEF Worked
      <3>2. pc' \in {"permissions", "write"} => accounts'
        BY <1>2, <2>1, <2>2, <2>3, <2>4 DEF Worked, UserScript
      <3>3. QED
        BY <2>2, <2>3, <3>1, <3>2 DEF Worked, UserScript
    <2>5. QED
      BY <2>2, <2>4 DEF Worked
  <1>6. CASE Look \/ Create
    <2>1. /\ AtScript /\ pc \in {"look", "create"} /\ UNCHANGED <<at, job, path>>
          /\ Script' = Script
      BY <1>6 DEF Look, Create, AtScript, Fatal, Script, dbVars
    <2>2. Script = ProductScript
      BY <2>1, ScriptAtHand
    <2>3. \/ UNCHANGED item /\ pc' \in {"create", "down"}
          \/ NextProduct /\ stock'[path][Product] # Absent
      <3>1. CASE Look
        BY <3>1 DEF Look, Found, dbVars
      <3>2. CASE Create
        <4>1. CASE Creatable
          <5>1. FullStock # Absent
            BY StartupAssumption
          <5>2. NextProduct /\ stock' = [stock EXCEPT ![path][Product] = FullStock]
            BY <3>2, <4>1 DEF Create
          <5>3. QED
            BY <5>1, <5>2, EntryTypes, SetEntry
        <4>2. CASE ~Creatable
          BY <3>2, <4>2 DEF Create, Fatal
        <4>3. QED
          BY <4>1, <4>2
      <3>3. QED
        BY <1>6, <3>1, <3>2
    <2>4. CASE path = Order[at] /\ pc' # "down"
      <3>1. Script.makes \subseteq tables'[path]
        BY <1>2, <1>3, <2>1, <2>4 DEF Worked
      <3>2. \A k \in 1..(item - 1) : stock'[path][Products[k]] # Absent
        <4>1. \A k \in 1..(item - 1) : k \in 1..Len(Products) /\ stock[path][Products[k]] # Absent
          BY <1>3, <2>1, <2>4 DEF Worked
        <4>2. QED
          BY <1>2, <1>3, <4>1
      <3>3. CASE UNCHANGED item /\ pc' = "create"
        BY <2>1, <2>2, <3>1, <3>2, <3>3 DEF Worked, ProductScript
      <3>4. CASE NextProduct /\ stock'[path][Product] # Absent
        <4>1. \A k \in 1..item : stock'[path][Products[k]] # Absent
          BY <1>3, <3>2, <3>4 DEF Product
        <4>2. CASE item < Len(Products)
          <5>1. pc' = "look" /\ item' - 1 = item
            BY <1>3, <3>4, <4>2 DEF NextProduct
          <5>2. QED
            BY <2>1, <3>1, <4>1, <5>1 DEF Worked
        <4>3. CASE ~(item < Len(Products))
          <5>1. pc' = "write" /\ 1..item = 1..Len(Products)
            <6>1. PICK n \in Nat : n = Len(Products)
              BY <1>3
            <6>2. item \in 1..n /\ ~(item < n)
              BY <1>3, <4>3, <6>1
            <6>3. item = n
              BY <6>2
            <6>4. QED
              BY <3>4, <4>3, <6>1, <6>3 DEF NextProduct
          <5>2. \A p \in Range(Products) : stock'[path][p] # Absent
            BY <1>3, <4>1, <5>1
          <5>3. HasProducts(path)'
            BY <2>1, <5>2 DEF HasProducts
          <5>4. QED
            BY <2>1, <2>2, <3>1, <5>1, <5>3 DEF Worked, ProductScript
        <4>4. QED
          BY <4>2, <4>3
      <3>5. QED
        BY <2>3, <2>4, <3>3, <3>4
    <2>5. QED
      BY <2>1, <2>4, <1>1 DEF Worked
  <1>7. CASE Reconnect
    <2>1. /\ UNCHANGED <<pc, at, job, item>> /\ path' = Public /\ path # Public
      BY <1>7 DEF Reconnect, placeVars
    <2>2. AtScript => path' # Order[at]
      BY <2>1, ScriptAtHand, OrderFacts DEF TypeOK
    <2>3. QED
      BY <2>1, <2>2 DEF Worked, AtScript
  <1>8. CASE UNCHANGED startupVars
    BY <1>8 DEF Worked, startupVars, placeVars, dbVars, Script, HasProducts
  <1>9. QED
    BY <1>1, <1>4, <1>5, <1>6, <1>7, <1>8
       DEF Next, Migrate, PreheatProducts, Start, Open, MakeRecordTable, Load, Write, Advance, Wait,
           Fill, Skip, NextTenant, Sell, Crash

\* A script that ends, or is recorded, has been applied.
LEMMA ScriptEnds ==
  ASSUME TypeOK, Located, Worked, Preceded, RecordsAreTrue,
         pc = "write" \/ (pc = "load" /\ Script.no \in records[path]),
         ~lost \/ at = 1
  PROVE  path = Order[at] /\ Applied(Script, Order[at])
  <1>1. path = Order[at] /\ path \in Schemas /\ job \in DOMAIN Scripts(Order[at])
    BY ScriptAtHand, OrderFacts, EntryTypes DEF AtScript, Located
  <1>2. CASE pc = "write"
    BY <1>1, <1>2 DEF Worked, Applied
  <1>3. CASE pc = "load" /\ Script.no \in records[path]
    BY <1>1, <1>3 DEF RecordsAreTrue, Script
  <1>4. QED
    BY <1>1, <1>2, <1>3

\* The process moves on from a script only when it has been applied.
LEMMA PrecededStep ==
  ASSUME TypeOK, Located, Worked, Preceded, Backed, RecordsAreTrue, [Next]_startupVars
  PROVE  Preceded'
  <1>1. /\ DOMAIN Order = 1..Len(Order) /\ Len(Order) \in Nat /\ at \in 1..Len(Order)
        /\ 1 \in DOMAIN Order /\ \A i \in DOMAIN Order : Order[i] \in Schemas
    BY OrderFacts, ScriptFacts DEF TypeOK
  <1>2. \A i \in DOMAIN Order : AllApplied(i) => AllApplied(i)'
    BY <1>1, AppliedStays DEF AllApplied
  <1>3. \A i \in DOMAIN Order, n \in Int : AppliedUpTo(i, n) => AppliedUpTo(i, n)'
    BY <1>1, AppliedStays DEF AppliedUpTo
  <1>4. CASE Start
    BY <1>1, <1>4 DEF Start, Preceded, Migrated, AtScript
  <1>5. CASE pc' = "down"
    BY <1>5 DEF Preceded
  <1>6. ASSUME pc # "down", pc' # "down", UNCHANGED at, lost => lost',
               Migrated' => Migrated, AtScript' => AtScript /\ UNCHANGED job
        PROVE  Preceded'
    BY <1>1, <1>2, <1>3, <1>6 DEF Preceded, TypeOK
  <1>7. CASE MakeRecordTable
    <2>1. pc' = "load" /\ at' = at /\ job' = 1 /\ lost' = lost /\ pc = "recordTable"
      BY <1>7 DEF MakeRecordTable, placeVars, Located
    <2>2. PICK i \in DOMAIN Order : i = at
      BY <1>1
    <2>3. DOMAIN Scripts(Order[i]) \in {1..1, 1..2}
      BY ScriptFacts
    <2>4. AppliedUpTo(i, 1)'
      BY <2>3 DEF AppliedUpTo
    <2>5. QED
      BY <1>1, <1>2, <2>1, <2>2, <2>4 DEF Preceded, Migrated
  <1>8. ASSUME AtScript, lost' = lost, Advance, ~lost \/ at = 1 => Applied(Script, Order[at])
        PROVE  Preceded'
    <2>1. /\ job \in 1..Len(Scripts(Order[at])) /\ Len(Scripts(Order[at])) \in Nat
          /\ DOMAIN Scripts(Order[at]) = 1..Len(Scripts(Order[at]))
      BY <1>1, <1>8, ScriptFacts DEF Located
    <2>2. PICK i \in DOMAIN Order : i = at
      BY <1>1
    <2>3. PICK n \in Int : n = job
      BY <2>1
    <2>4. pc # "down"
      BY <1>8 DEF AtScript
    <2>5. ~lost \/ i = 1 => AppliedUpTo(i, n + 1)
      <3>1. \A k \in DOMAIN Scripts(Order[i]) : k < n + 1 => k < n \/ k = n
        BY <2>1, <2>2, <2>3
      <3>2. CASE ~lost
        BY <1>8, <2>2, <2>3, <2>4, <3>1, <3>2 DEF Preceded, AppliedUpTo, Script
      <3>3. CASE i = 1
        <4>1. \A k \in DOMAIN Scripts(Order[i]) : k = n
          BY <2>1, <2>2, <2>3, <3>3, ScriptFacts
        <4>2. QED
          BY <1>8, <2>2, <2>3, <3>3, <4>1 DEF AppliedUpTo, Script
      <3>4. QED
        BY <3>2, <3>3
    <2>6. ~lost \/ i = 1 => AppliedUpTo(i, n + 1)'
      BY <1>3, <2>5
    <2>7. i # 1 => AllApplied(1)'
      BY <1>1, <1>2, <2>2, <2>4 DEF Preceded
    <2>8. ~lost => \A k \in DOMAIN Order : k < i => AllApplied(k)'
      BY <1>2, <2>2, <2>4 DEF Preceded
    <2>9. CASE job < Len(Scripts(Order[at]))
      <3>1. pc' = "load" /\ at' = i /\ job' = n + 1
        BY <1>8, <2>2, <2>3, <2>9 DEF Advance
      <3>2. QED
        BY <1>8, <2>6, <2>7, <2>8, <3>1 DEF Preceded, Migrated
    <2>10. CASE ~(job < Len(Scripts(Order[at])))
      <3>1. ~lost \/ i = 1 => AllApplied(i)'
        BY <2>1, <2>2, <2>3, <2>6, <2>10 DEF AppliedUpTo, AllApplied
      <3>2. \/ pc' = "open" /\ at' = i + 1 /\ i < Len(Order)
            \/ pc' = "wait" /\ i = Len(Order)
        BY <1>1, <1>8, <2>2, <2>10 DEF Advance
      <3>3. AllApplied(1)'
        BY <2>7, <3>1
      <3>4. ~lost => \A k \in DOMAIN Order : k < i + 1 => AllApplied(k)'
        BY <1>1, <2>8, <3>1
      <3>5. QED
        BY <1>1, <1>8, <3>2, <3>3, <3>4 DEF Preceded, Migrated, AtScript
    <2>11. QED
      BY <2>9, <2>10
  <1>9. CASE Load \/ Write
    <2>1. CASE Advance
      <3>1. AtScript /\ lost' = lost /\ (pc = "write" \/ (pc = "load" /\ Script.no \in records[path]))
        BY <1>9, <2>1 DEF Load, Write, AtScript, Advance
      <3>2. ~lost \/ at = 1 => Applied(Script, Order[at])
        BY <3>1, ScriptEnds
      <3>3. QED
        BY <1>8, <2>1, <3>1, <3>2
    <2>2. CASE ~Advance
      BY <1>6, <1>9, <2>2 DEF Load, Write, AtScript, Migrated
    <2>3. QED
      BY <2>1, <2>2
  <1>10. CASE Open \/ Up \/ Count \/ SeedAccounts \/ SeedPermissions \/ Look \/ Create \/ Reconnect
    <2>1. /\ pc # "down" /\ at' = at /\ (lost => lost') /\ (Migrated' => Migrated)
          /\ pc' # "recordTable" => job' = job
      BY <1>10, ScriptAtHand DEF Open, Up, Count, SeedAccounts, SeedPermissions, Look, Create,
         NextProduct,
         Reconnect, Fatal, AtScript, Migrated, placeVars, UserScript, MemberScript, ProductScript
    <2>2. pc' # "down" /\ AtScript' => AtScript /\ job' = job
      BY <1>10 DEF Open, Up, Count, SeedAccounts, SeedPermissions, Look, Create, NextProduct,
         Reconnect,
         Fatal, AtScript, placeVars
    <2>3. QED
      BY <1>5, <1>6, <2>1, <2>2 DEF AtScript
  <1>11. CASE Wait \/ Fill
    <2>1. pc \in {"wait", "fill"} /\ pc' \in {"wait", "fill", "serving"} /\ lost' = lost
      BY <1>11 DEF Wait, Fill, Skip, NextTenant
    <2>2. at # 1
      BY <2>1 DEF Located, Migrated
    <2>3. QED
      BY <1>1, <1>2, <2>1, <2>2 DEF Preceded, Migrated, AtScript
  <1>12. ASSUME NEW t \in Range(Tenants), NEW q \in Range(Products), Sell(t, q) PROVE Preceded'
    BY <1>6, <1>12 DEF Sell, placeVars, AtScript, Migrated
  <1>13. CASE UNCHANGED startupVars
    <2>1. CASE pc = "down"
      BY <1>5, <1>13, <2>1 DEF startupVars
    <2>2. CASE pc # "down"
      BY <1>6, <1>13, <2>2 DEF startupVars, placeVars, AtScript, Migrated
    <2>3. QED
      BY <2>1, <2>2
  <1>14. CASE Crash
    BY <1>5, <1>14 DEF Crash
  <1>15. QED
    BY <1>4, <1>7, <1>9, <1>10, <1>11, <1>12, <1>13, <1>14 DEF Next, Migrate, PreheatProducts

\* Two rows of entries that agree are equal.
LEMMA EntryEqual ==
  ASSUME NEW S, NEW P, NEW V, NEW W, NEW f \in [S -> [P -> V]], NEW g \in [S -> [P -> W]],
         NEW s \in S, \A p \in P : f[s][p] = g[s][p]
  PROVE  f[s] = g[s]
  OBVIOUS

\* The turn of a row makes its counter the row's stock, or leaves the tenant cold.
LEMMA FilledStep ==
  ASSUME TypeOK, Located, Backed, Warmed, Fill
  PROVE  /\ pc = "fill" /\ UNCHANGED stock /\ cold \subseteq cold'
         /\ counter' \in [Schemas -> [Range(Products) -> 0..FullStock \cup {Absent}]]
         /\ \A i \in 2..(at - 1) : Order[i] \in cold' \/ counter'[Order[i]] = stock[Order[i]]
         /\ \A k \in 1..item :
              Order[at] \in cold' \/ counter'[Order[at]][Products[k]] = stock[Order[at]][Products[k]]
  <1>1. /\ pc = "fill" /\ UNCHANGED stock /\ cold \subseteq cold'
        /\ \/ stock[Order[at]][Product] = Absent /\ UNCHANGED counter
           \/ counter' = [counter EXCEPT ![Order[at]][Product] = stock[Order[at]][Product]]
           \/ Order[at] \in cold' /\ UNCHANGED counter
    BY DEF Fill, NewCounter, dbVars
  <1>2. /\ Order[at] \in Schemas /\ Product \in Range(Products)
        /\ at \in 1..Len(Order) /\ \A i \in 1..Len(Order) : Order[i] \in Schemas
        /\ item \in 1..Len(Products) /\ \A k \in 1..Len(Products) : Products[k] \in Range(Products)
        /\ Len(Order) \in Nat /\ Len(Products) \in Nat
    BY EntryTypes, OrderFacts, ScriptFacts, ProductFacts DEF TypeOK
  <1>3. /\ counter' \in [Schemas -> [Range(Products) -> 0..FullStock \cup {Absent}]]
        /\ \A t \in Schemas, p \in Range(Products) :
             counter'[t][p] = counter[t][p] \/ counter'[t][p] = stock[t][p]
    <2>1. CASE UNCHANGED counter
      BY <2>1, EntryTypes
    <2>2. CASE counter' = [counter EXCEPT ![Order[at]][Product] = stock[Order[at]][Product]]
      <3>1. stock[Order[at]][Product] \in 0..FullStock \cup {Absent}
        BY <1>2, EntryTypes
      <3>2. QED
        BY <2>2, <3>1, EntryTypes, SetEntry
    <2>3. QED
      BY <1>1, <2>1, <2>2
  <1>4. \A t \in Schemas : counter[t] = stock[t] => counter'[t] = stock[t]
    BY <1>3, EntryTypes, EntryEqual
  <1>5. Order[at] \in cold' \/ counter'[Order[at]][Product] = stock[Order[at]][Product]
    <2>1. CASE stock[Order[at]][Product] = Absent /\ UNCHANGED counter
      BY <1>2, <2>1 DEF Backed
    <2>2. CASE counter' = [counter EXCEPT ![Order[at]][Product] = stock[Order[at]][Product]]
      BY <1>2, <2>2, EntryTypes, SetEntry
    <2>3. QED
      BY <1>1, <2>1, <2>2
  <1>6. \A i \in 2..(at - 1) : Order[i] \in cold' \/ counter'[Order[i]] = stock[Order[i]]
    BY <1>1, <1>2, <1>4 DEF Warmed
  <1>7. ASSUME NEW k \in 1..item
        PROVE  Order[at] \in cold' \/ counter'[Order[at]][Products[k]] = stock[Order[at]][Products[k]]
    <2>1. CASE k = item
      BY <1>5, <2>1 DEF Product
    <2>2. CASE k # item
      <3>1. k \in 1..(item - 1) /\ Products[k] \in Range(Products)
        BY <1>2, <2>2
      <3>2. Order[at] \in cold \/ counter[Order[at]][Products[k]] = stock[Order[at]][Products[k]]
        BY <1>1, <3>1 DEF Warmed
      <3>3. QED
        BY <1>1, <1>2, <1>3, <3>1, <3>2
    <2>3. QED
      BY <2>1, <2>2
  <1>8. QED
    BY <1>1, <1>3, <1>6, <1>7

\* A tenant is preheated when the process is past it, or it is left cold.
LEMMA WarmedStep ==
  ASSUME TypeOK, Located, Backed, Warmed, [Next]_startupVars
  PROVE  Warmed'
  <1>1. /\ at \in 1..Len(Order) /\ Len(Order) \in Nat /\ DOMAIN Order = 1..Len(Order)
        /\ \A i \in 1..Len(Order) : Order[i] \in Schemas
        /\ item \in 1..Len(Products) /\ Len(Products) \in Nat /\ DOMAIN Products = 1..Len(Products)
        /\ \A k \in 1..Len(Products) : Products[k] \in Range(Products)
        /\ \A p \in Range(Products) : \E k \in 1..Len(Products) : Products[k] = p
    BY OrderFacts, ScriptFacts, ProductFacts DEF TypeOK
  <1>2. CASE pc' \notin {"wait", "fill"}
    BY <1>2 DEF Warmed
  <1>3. CASE Load \/ Write
    <2>1. pc' = "wait" => at' = 2
      BY <1>3 DEF Load, Write, Advance
    <2>2. pc' # "fill"
      BY <1>3 DEF Load, Write, Advance
    <2>3. QED
      BY <2>1, <2>2 DEF Warmed
  <1>4. CASE Wait
    <2>1. /\ UNCHANGED <<stock, counter>> /\ cold \subseteq cold'
          /\ \/ pc' = "fill" /\ item' = 1 /\ at' = at
             \/ pc' = "wait" /\ at' = at + 1 /\ Order[at] \in cold'
             \/ pc' = "serving"
      BY <1>4 DEF Wait, Skip, NextTenant, dbVars
    <2>2. pc = "wait"
      BY <1>4 DEF Wait
    <2>3. \A i \in 2..(at - 1) : Order[i] \in cold' \/ counter'[Order[i]] = stock'[Order[i]]
      BY <2>1, <2>2 DEF Warmed
    <2>4. QED
      BY <1>1, <2>1, <2>3 DEF Warmed
  <1>5. CASE Fill
    <2>1. /\ pc = "fill" /\ UNCHANGED stock /\ cold \subseteq cold'
          /\ \A i \in 2..(at - 1) : Order[i] \in cold' \/ counter'[Order[i]] = stock[Order[i]]
          /\ \A k \in 1..item :
               Order[at] \in cold' \/ counter'[Order[at]][Products[k]] = stock[Order[at]][Products[k]]
      BY <1>5, FilledStep
    <2>2. CASE item < Len(Products)
      <3>1. item' - 1 = item /\ UNCHANGED <<pc, at>>
        BY <1>1, <1>5, <2>2 DEF Fill
      <3>2. QED
        BY <2>1, <3>1 DEF Warmed
    <2>3. CASE ~(item < Len(Products))
      <3>1. NextTenant /\ item = Len(Products)
        BY <1>1, <1>5, <2>3 DEF Fill
      <3>2. Order[at] \in cold' \/ counter'[Order[at]] = stock[Order[at]]
        <4>1. counter' \in [Schemas -> [Range(Products) -> 0..FullStock \cup {Absent}]]
              /\ Order[at] \in Schemas
          BY <1>1, <1>5, FilledStep
        <4>2. Order[at] \in cold'
                \/ \A p \in Range(Products) : counter'[Order[at]][p] = stock[Order[at]][p]
          BY <1>1, <2>1, <3>1
        <4>3. QED
          BY <4>1, <4>2, EntryTypes, EntryEqual
      <3>3. pc' = "serving" \/ (pc' = "wait" /\ at' = at + 1)
        BY <3>1 DEF NextTenant
      <3>4. QED
        BY <1>1, <2>1, <3>2, <3>3 DEF Warmed
    <2>4. QED
      BY <2>2, <2>3
  <1>6. CASE Reconnect
    BY <1>6 DEF Reconnect, Warmed, dbVars, placeVars, cacheVars
  <1>7. CASE UNCHANGED startupVars
    BY <1>7 DEF Warmed, startupVars, dbVars, placeVars, cacheVars
  <1>8. CASE Up
    BY <1>2, <1>8, ScriptAtHand DEF Up, AtScript, UserScript, MemberScript, ProductScript
  <1>9. QED
    BY <1>2, <1>3, <1>4, <1>5, <1>6, <1>7, <1>8 DEF Next, Migrate, PreheatProducts, Start, Open,
       MakeRecordTable, Count, SeedAccounts, SeedPermissions, Fatal, Look, Create, NextProduct,
       Crash, Sell

\* A record comes after what it stands for.
LEMMA RecordsStep ==
  ASSUME TypeOK, Located, Worked, Preceded, Backed, RecordsAreTrue, [Next]_startupVars
  PROVE  RecordsAreTrue'
  <1>1. SUFFICES ASSUME NEW s \in Schemas, NEW j \in DOMAIN Scripts(s),
                        Scripts(s)[j].no \in records'[s]
                 PROVE  Applied(Scripts(s)[j], s)'
    BY DEF RecordsAreTrue
  <1>2. CASE Scripts(s)[j].no \in records[s]
    BY <1>2, AppliedStays DEF RecordsAreTrue
  <1>3. CASE Scripts(s)[j].no \notin records[s]
    <2>1. Write /\ records' = [records EXCEPT ![path] = @ \cup {Script.no}]
      BY <1>1, <1>3 DEF Next, Migrate, PreheatProducts, startupVars, dbVars, Start, Open,
         MakeRecordTable, Load, Up, Count, SeedAccounts, SeedPermissions, Fatal, Look, Create,
         Write,
         Wait, Fill, Crash, Reconnect, Sell
    <2>2. s = path /\ Scripts(s)[j].no = Script.no
      BY <1>1, <1>3, <2>1 DEF TypeOK
    <2>3. AtScript /\ pc = "write"
      BY <2>1 DEF Write, AtScript
    <2>4. CASE path = Order[at]
      <3>1. Scripts(s)[j] = Script
        <4>1. CASE at = 1
          BY <1>1, <2>2, <2>3, <2>4, <4>1, ScriptAtHand, ScriptFacts
        <4>2. CASE at # 1
          <5>1. Scripts(s) = <<MemberScript, ProductScript>>
            BY <2>2, <2>4, <4>2, ScriptFacts DEF TypeOK
          <5>2. Scripts(s)[j] \in {MemberScript, ProductScript} /\ Script \in {MemberScript, ProductScript}
            BY <1>1, <2>3, <4>2, <5>1, ScriptAtHand
          <5>3. MemberScript.no # ProductScript.no
            BY ScriptFacts DEF MemberScript, ProductScript
          <5>4. QED
            BY <2>2, <5>2, <5>3
        <4>3. QED
          BY <4>1, <4>2
      <3>2. Applied(Script, s)
        BY <2>2, <2>3, <2>4 DEF Worked, Applied
      <3>3. QED
        BY <3>1, <3>2, AppliedStays
    <2>5. CASE path # Order[at]
      <3>1. s = Public /\ s = Order[1] /\ at # 1
        BY <2>2, <2>3, <2>5, ScriptAtHand, OrderFacts
      <3>2. AllApplied(1)
        BY <2>3, <3>1 DEF Preceded
      <3>3. Applied(Scripts(s)[j], s)
        BY <1>1, <3>1, <3>2 DEF AllApplied
      <3>4. QED
        BY <3>3, AppliedStays
    <2>6. QED
      BY <2>4, <2>5
  <1>4. QED
    BY <1>2, <1>3

\* Serving comes after every script.
LEMMA ServingFollows ==
  ASSUME Preceded
  PROVE  ServingIsComplete
  BY OrderFacts DEF Preceded, ServingIsComplete, Migrated, AllApplied

-----------------------------------------------------------------------------
\* Nothing is there before the first start.
LEMMA StartupInit ==
  ASSUME Init
  PROVE  StartupInv
  <1>1. /\ 1 \in DOMAIN Order /\ 1 \in DOMAIN Products /\ Public \in Schemas
        /\ 0 \in 0..MaxFaults
    BY OrderFacts, ProductFacts, StartupAssumption DEF Schemas
  <1>2. PlaceTypes
    <2>1. pc = "down" /\ at = 1 /\ job = 1 /\ item = 1 /\ path = Public /\ lost = FALSE /\ faults = 0
      BY DEF Init
    <2>2. at \in DOMAIN Order /\ item \in DOMAIN Products
      BY <1>1, <2>1, Zenon
    <2>3. path \in Schemas /\ faults \in 0..MaxFaults
      BY <1>1, <2>1
    <2>4. job \in 1..2
      BY <2>1
    <2>5. lost \in BOOLEAN
      BY <2>1, Zenon
    <2>6. QED
      BY <2>1, <2>2, <2>3, <2>4, <2>5 DEF PlaceTypes
  <1>3. stock = [s \in Schemas |-> [p \in Range(Products) |-> Absent]]
    BY DEF Init
  <1>4. stock \in [Schemas -> [Range(Products) -> 0..FullStock \cup {Absent}]] /\ counter = stock
    BY <1>3 DEF Init
  <1>5. DbTypes /\ CacheTypes
    BY <1>1, <1>4 DEF Init, DbTypes, CacheTypes
  <1>6. TypeOK
    BY <1>2, <1>5 DEF TypeOK, PlaceTypes, DbTypes, CacheTypes
  <1>7. Located /\ Worked /\ Preceded /\ Warmed
    BY DEF Init, Located, Worked, Preceded, Warmed, AtScript, Migrated
  <1>8. Backed
    BY <1>3, <1>4 DEF Backed
  <1>9. RecordsAreTrue /\ ServingIsComplete
    BY DEF Init, RecordsAreTrue, ServingIsComplete
  <1>10. QED
    BY <1>6, <1>7, <1>8, <1>9 DEF StartupInv

\* The invariant is inductive.
LEMMA StartupStep ==
  ASSUME StartupInv, [Next]_startupVars
  PROVE  StartupInv'
  <1>1. TypeOK /\ Located /\ Worked /\ Preceded /\ Backed /\ Warmed /\ RecordsAreTrue
    BY DEF StartupInv
  <1>2. Preceded'
    BY <1>1, PrecededStep
  <1>3. ServingIsComplete'
    BY <1>2, OrderFacts DEF Preceded, ServingIsComplete, Migrated, AllApplied
  <1>4. QED
    BY <1>1, <1>2, <1>3, TypeStep, LocatedStep, WorkedStep, BackedStep, WarmedStep, RecordsStep
       DEF StartupInv

\* The invariant holds in every state.
THEOREM StartupHolds == Spec => []StartupInv
  <1>1. Init => StartupInv
    BY StartupInit
  <1>2. StartupInv /\ [Next]_startupVars => StartupInv'
    BY StartupStep
  <1>3. QED
    BY <1>1, <1>2, PTL DEF Spec

\* Every variable holds a value of its kind, through every start and crash.
THEOREM StartupTypeCorrect == Spec => []TypeOK
  <1>1. StartupInv => TypeOK
    BY DEF StartupInv
  <1>2. QED
    BY <1>1, StartupHolds, PTL

\* A record in migrate_record means that its script has run to its end in that
\* schema (loadRecords, up, writeRecord), whatever was cut off, dropped or sent to
\* the wrong schema meanwhile.
THEOREM RecordsTellTheTruth == Spec => []RecordsAreTrue
  <1>1. StartupInv => RecordsAreTrue
    BY DEF StartupInv
  <1>2. QED
    BY <1>1, StartupHolds, PTL

\* The service never starts over a tenant that lacks a table or a product, unless
\* its connection was replaced since the start.
THEOREM ServesCompleteTenants == Spec => []ServingIsComplete
  <1>1. StartupInv => ServingIsComplete
    BY DEF StartupInv
  <1>2. QED
    BY <1>1, StartupHolds, PTL

\* A start never changes the stock of a product that is there: only orders do.
LEMMA StockStep ==
  ASSUME TypeOK, [Next]_startupVars, NEW s \in Schemas, NEW p \in Range(Products),
         stock[s][p] # Absent, stock'[s][p] # stock[s][p]
  PROVE  pc = "serving"
  <1>1. CASE Create
    <2>1. stock[path][Product] = Absent /\ stock' = [stock EXCEPT ![path][Product] = FullStock]
      BY <1>1 DEF Create, Creatable, Fatal, dbVars
    <2>2. s # path \/ p # Product
      BY <2>1
    <2>3. QED
      BY <2>1, <2>2, EntryTypes, SetEntry
  <1>2. CASE \E t \in Range(Tenants), q \in Range(Products) : Sell(t, q)
    BY <1>2 DEF Sell
  <1>3. CASE UNCHANGED stock
    BY <1>3
  <1>4. QED
    BY <1>1, <1>2, <1>3 DEF Next, Migrate, PreheatProducts, startupVars, dbVars, Start, Open,
       MakeRecordTable, Load, Up, Count, SeedAccounts, Fatal, SeedPermissions, Look, Write, Wait,
       Fill,
       Crash, Reconnect

\* So no start resets what the shop has sold (the product seeding looks before it
\* creates).
THEOREM StartsKeepStocks == Spec => StocksKept
  <1>1. TypeOK /\ [Next]_startupVars =>
          [\A s \in Schemas, p \in Range(Products) :
             stock[s][p] # Absent /\ stock'[s][p] # stock[s][p] => pc = "serving"]_startupVars
    BY StockStep
  <1>2. QED
    BY <1>1, StartupTypeCorrect, PTL DEF Spec, StocksKept

\* An index up to the last one that is not the last one.
LEMMA BeforeTheLast ==
  ASSUME NEW n \in Int, NEW k \in 2..n, k # n
  PROVE  k \in 2..(n - 1)
  OBVIOUS

\* The step to serving ends the last tenant's turn, and the ones before it had theirs.
LEMMA WarmStep ==
  ASSUME TypeOK, Located, Backed, Warmed, [Next]_startupVars, pc # "serving", pc' = "serving",
         NEW s \in Range(Tenants), s \notin cold'
  PROVE  counter'[s] = stock[s]
  <1>1. Wait \/ Fill
    BY ScriptAtHand DEF Next, Migrate, PreheatProducts, startupVars, Start, Open,
       MakeRecordTable, Load,
       Up, Count, SeedAccounts, Fatal, SeedPermissions, Look, Create, NextProduct, Write,
       Advance, Crash,
       Reconnect, Sell, AtScript, UserScript, MemberScript, ProductScript
  <1>2. /\ at \in 1..Len(Order) /\ Len(Order) \in Nat /\ DOMAIN Order = 1..Len(Order)
        /\ item \in 1..Len(Products) /\ Len(Products) \in Nat
        /\ \A p \in Range(Products) : \E k \in 1..Len(Products) : Products[k] = p
        /\ Order[at] \in Schemas
    BY OrderFacts, ScriptFacts, ProductFacts DEF TypeOK
  <1>3. PICK i \in 2..Len(Order) : Order[i] = s
    <2>1. PICK i \in DOMAIN Order : Order[i] = s
      BY OrderFacts DEF Schemas
    <2>2. i # 1
      BY <2>1, OrderFacts, StartupAssumption
    <2>3. QED
      BY <1>2, <2>1, <2>2
  <1>4. at \in Int /\ i \in 2..at
    BY <1>1, <1>2 DEF Wait, Fill, Skip, NextTenant
  <1>5. CASE Wait
    <2>1. cold \subseteq cold' /\ Order[at] \in cold' /\ counter' = counter /\ pc = "wait"
      BY <1>5 DEF Wait, Skip
    <2>2. i # at
      BY <1>3, <2>1
    <2>3. i \in 2..(at - 1)
      BY <1>4, <2>2, BeforeTheLast
    <2>4. QED
      BY <1>3, <2>1, <2>3 DEF Warmed
  <1>6. CASE Fill
    <2>1. CASE i = at
      <3>1. item = Len(Products)
        BY <1>2, <1>6 DEF Fill
      <3>2. \A p \in Range(Products) : counter'[s][p] = stock[s][p]
        BY <1>2, <1>3, <1>6, <2>1, <3>1, FilledStep
      <3>3. s \in Schemas /\ counter' \in [Schemas -> [Range(Products) -> 0..FullStock \cup {Absent}]]
        BY <1>2, <1>3, <1>6, <2>1, FilledStep
      <3>4. QED
        BY <3>2, <3>3, EntryTypes, EntryEqual
    <2>2. CASE i # at
      <3>1. i \in 2..(at - 1)
        BY <1>4, <2>2, BeforeTheLast
      <3>2. QED
        BY <1>3, <1>6, <3>1, FilledStep
    <2>3. QED
      BY <2>1, <2>2
  <1>7. QED
    BY <1>1, <1>5, <1>6

\* A process that comes to serve sells from the stock of the books, whatever the
\* counters held before, except in the tenants whose own preheating failed.
THEOREM ServesWithWarmCounters == Spec => CountersWarm
  <1>1. StartupInv /\ [Next]_startupVars =>
          [pc # "serving" /\ pc' = "serving" =>
             \A s \in Range(Tenants) \ cold' : counter'[s] = stock[s]]_startupVars
    BY WarmStep DEF StartupInv
  <1>2. QED
    BY <1>1, StartupHolds, PTL DEF Spec, CountersWarm
=============================================================================
