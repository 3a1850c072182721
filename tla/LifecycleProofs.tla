--------------------------- MODULE LifecycleProofs ---------------------------
(***************************************************************************)
(* Theorems about the safety of Lifecycle for every number of processes,   *)
(* requests, seeded products and faults.                                   *)
(***************************************************************************)
EXTENDS Lifecycle, FiniteSetTheorems, TLAPS

AfterConfigure == {"migrate", "create", "upgrade", "seed", "build", "listen", "serving", "draining"}
AfterMigrate == {"seed", "build", "listen", "serving", "draining"}
AfterSeed == {"build", "listen", "serving", "draining"}
AfterBuild == {"listen", "serving", "draining"}

HasRows == \A p \in Products : stock[p] # NoRow

(* How far a process has come tells what is ready. *)
Ready(i) ==
    /\ pc[i] \in AfterConfigure => env[i].databaseURL = "set"
    /\ pc[i] \in AfterMigrate => schema = "migrated"
    /\ pc[i] \in {"configure", "migrate", "create", "upgrade"} => seeded[i] = 0
    /\ pc[i] = "seed" =>
          seeded[i] < Len(SeedStock) /\ \A p \in 1..seeded[i] : stock[p] # NoRow
    /\ pc[i] \in AfterSeed /\ SeedsProducts(i) => HasRows
    /\ pc[i] \in AfterBuild => env[i].secret = "strong"

(* A process returns success only after its last request. *)
Clean(i) ==
    /\ pc[i] # "closing" => code[i] = 0
    /\ pc[i] = "closing" /\ code[i] = 0 => Serving(i) = {}

(* A request in progress is some process's, and one that is not yet committed has no order. *)
Placing(r) ==
    /\ st[r] \in InProgress =>
          /\ at[r] \in Processes /\ pc[at[r]] \in {"serving", "draining", "closing"}
          /\ wants[r] \in Products
    /\ \A p \in Products : <<r, p>> \in placed => st[r] \in {"committed", "over"}

LifeInv ==
    /\ TypeOK /\ NeverRestocked /\ IsFiniteSet(placed)
    /\ \A i \in Processes : Ready(i)
    /\ \A i \in Processes : Clean(i)
    /\ \A r \in Requests : Placing(r)

-----------------------------------------------------------------------------

Sold(p) == {order \in placed : order[2] = p}

LEMMA ProductFacts ==
    /\ Len(SeedStock) \in Nat /\ Len(SeedStock) > 0
    /\ Products = 1..Len(SeedStock)
    /\ \A p \in Products : SeedStock[p] \in Nat
  BY LifecycleAssumption DEF Products

LEMMA LifeInit == Init => LifeInv
<1> SUFFICES ASSUME Init PROVE LifeInv
  OBVIOUS
<1> USE LifecycleAssumption
<1>1. env \in [Processes -> Environment] /\ \A i \in Processes : env[i] \in Environments[i]
  <2>1. \A i \in Processes : env[i] \in Environments[i] /\ Environments[i] \subseteq Environment
    BY DEF Init
  <2>2. env = [i \in Processes |-> env[i]]
    BY DEF Init
  <2> QED
    BY <2>1, <2>2
<1>2. TypeOK
  BY <1>1, ProductFacts DEF Init, TypeOK, NoRow
<1>3. NeverRestocked
  BY DEF Init, NeverRestocked
<1>4. IsFiniteSet(placed)
  BY FS_EmptySet DEF Init
<1>5. \A i \in Processes : Ready(i) /\ Clean(i)
  BY DEF Init, Ready, Clean, AfterConfigure, AfterMigrate, AfterSeed, AfterBuild
<1>6. \A r \in Requests : Placing(r)
  BY DEF Init, Placing, InProgress
<1> QED
  BY <1>2, <1>3, <1>4, <1>5, <1>6 DEF LifeInv

-----------------------------------------------------------------------------
(* Types *)

LEMMA LifeTypeStep ==
    ASSUME LifeInv, Next
    PROVE  TypeOK'
<1> USE DEF LifeInv, TypeOK, database, process, requests, Goto, Return, Move
<1>f. Fault => faults' \in 0..MaxFaults
  BY LifecycleAssumption DEF Fault
<1>o. ASSUME NEW S, Over(S)
      PROVE  /\ st' \in [Requests -> InProgress \cup {"idle", "over"}]
             /\ at' \in [Requests -> Processes \cup {None}]
             /\ wants' \in [Requests -> Products \cup {None}]
  BY <1>o DEF Over
<1>1. ASSUME NEW i \in Processes, Start(i) PROVE TypeOK'
  BY <1>1, ProductFacts DEF Start
<1>2. ASSUME NEW i \in Processes, Configure(i) PROVE TypeOK'
  BY <1>2 DEF Configure
<1>3. ASSUME NEW i \in Processes, CheckVersion(i) PROVE TypeOK'
  BY <1>3 DEF CheckVersion, AfterMigrations
<1>4. ASSUME NEW i \in Processes, CreateVersionTable(i) PROVE TypeOK'
  BY <1>4 DEF CreateVersionTable, Migrate
<1>5. ASSUME NEW i \in Processes, ApplyMigration(i) PROVE TypeOK'
  BY <1>5 DEF ApplyMigration, Migrate, AfterMigrations
<1>6. ASSUME NEW i \in Processes, SeedRow(i) PROVE TypeOK'
  <2>1. seeded[i] + 1 \in Products
    BY <1>6, ProductFacts DEF SeedRow, Ready
  <2>2. stock' \in [Products -> {NoRow} \cup Nat] /\ \A p \in Products : stock'[p] <= SeedStock[p]
    <3>1. stock \in [Products -> {NoRow} \cup Nat] /\ \A p \in Products : stock[p] <= SeedStock[p]
      OBVIOUS
    <3>2. \/ stock' = stock
          \/ stock' = [stock EXCEPT ![seeded[i] + 1] = SeedStock[seeded[i] + 1]]
      BY <1>6 DEF SeedRow, InsertRow
    <3>3. SeedStock[seeded[i] + 1] \in Nat
      BY <2>1, ProductFacts
    <3>4. ASSUME NEW p \in Products
          PROVE  stock'[p] \in {NoRow} \cup Nat /\ stock'[p] <= SeedStock[p]
      <4>1. CASE p = seeded[i] + 1
        BY <2>1, <3>1, <3>2, <3>3, <4>1
      <4>2. CASE p # seeded[i] + 1
        BY <3>1, <3>2, <4>2
      <4> QED
        BY <4>1, <4>2
    <3> QED
      BY <3>1, <3>2, <3>4
  <2>3. seeded' \in [Processes -> 0..Len(SeedStock)]
    <3>1. seeded[i] + 1 \in 0..Len(SeedStock)
      BY <2>1, ProductFacts
    <3>2. seeded' = seeded \/ seeded' = [seeded EXCEPT ![i] = seeded[i] + 1]
      BY <1>6 DEF SeedRow
    <3> QED
      BY <3>1, <3>2
  <2> QED
    BY <1>6, <2>2, <2>3 DEF SeedRow, SeedError
<1>7. ASSUME NEW i \in Processes, Build(i) PROVE TypeOK'
  BY <1>7 DEF Build
<1>8. ASSUME NEW i \in Processes PROVE Listen(i) \/ BeginShutdown(i) => TypeOK'
  BY DEF Listen, BeginShutdown
<1>9. ASSUME NEW i \in Processes PROVE ListenAndServeFails(i) \/ Signal(i) => TypeOK'
  BY <1>f DEF ListenAndServeFails, Signal
<1>10. ASSUME NEW i \in Processes, ShutdownDone(i) \/ ShutdownTimesOut(i) PROVE TypeOK'
  BY <1>10 DEF ShutdownDone, ShutdownTimesOut, ReturnFromServe
<1>11. ASSUME NEW i \in Processes, Exit(i) \/ Crash(i) PROVE TypeOK'
  <2>1. End(i) /\ faults' \in 0..MaxFaults
    BY <1>f, <1>11 DEF Exit, Crash
  <2> QED
    BY <1>o, <2>1 DEF End
<1>12. ASSUME NEW r \in Requests, Receive(r) PROVE TypeOK'
  BY <1>12 DEF Receive, InProgress
<1>13. ASSUME NEW r \in Requests, BeginTx(r) \/ Rollback(r) \/ Answer(r) PROVE TypeOK'
  <2>1. CASE BeginTx(r)
    BY <2>1 DEF BeginTx, InProgress
  <2>2. CASE Rollback(r)
    BY <2>2 DEF Rollback, InProgress
  <2>3. CASE Answer(r)
    BY <1>o, <2>3 DEF Answer
  <2> QED
    BY <1>13, <2>1, <2>2, <2>3
<1>14. ASSUME NEW r \in Requests, Commit(r) PROVE TypeOK'
  <2>1. wants[r] \in Products
    BY <1>14 DEF Commit, Placing, InProgress
  <2>2. stock[wants[r]] \in Nat /\ stock[wants[r]] - 1 \in Nat /\ stock[wants[r]] <= SeedStock[wants[r]]
    BY <1>14, <2>1 DEF Commit, InStock, NoRow
  <2>3. stock' \in [Products -> {NoRow} \cup Nat] /\ \A p \in Products : stock'[p] <= SeedStock[p]
    BY <1>14, <2>1, <2>2, ProductFacts DEF Commit, NoRow
  <2>4. placed' \subseteq Requests \X Products
    BY <1>14, <2>1 DEF Commit
  <2> QED
    BY <1>14, <2>3, <2>4 DEF Commit, InProgress
<1>15. CASE DatabaseFails \/ DatabaseRecovers
  BY <1>f, <1>15 DEF DatabaseFails, DatabaseRecovers, InProgress
<1> QED
  BY <1>1, <1>2, <1>3, <1>4, <1>5, <1>6, <1>7, <1>8, <1>9, <1>10, <1>11, <1>12, <1>13, <1>14,
     <1>15 DEF Next, Run, Serve

-----------------------------------------------------------------------------
(* Processes *)

ProcessStep(i) ==
    Start(i) \/ Run(i) \/ ListenAndServeFails(i) \/ Signal(i) \/ Crash(i)

RequestStep == \E r \in Requests : Receive(r) \/ Serve(r)

(* What is ready stays ready. *)
LEMMA DatabaseGrows ==
    ASSUME LifeInv, Next
    PROVE  /\ env' = env
           /\ schema = "migrated" => schema' = "migrated"
           /\ \A p \in Products : stock[p] # NoRow => stock'[p] # NoRow
<1> USE DEF database
<1>0. stock \in [Products -> {NoRow} \cup Nat] /\ \A p \in Products : SeedStock[p] # NoRow
  BY ProductFacts DEF LifeInv, TypeOK, NoRow
<1>1. ASSUME NEW i \in Processes, ProcessStep(i), ~SeedRow(i)
      PROVE  env' = env /\ stock' = stock /\ (schema = "migrated" => schema' = "migrated")
  BY <1>1 DEF ProcessStep, Run, Start, Configure, CheckVersion, CreateVersionTable, ApplyMigration,
              Migrate, Build, Listen, ListenAndServeFails, Signal, BeginShutdown, ShutdownDone,
              ShutdownTimesOut, Exit, Crash, End
<1>2. ASSUME NEW i \in Processes, SeedRow(i)
      PROVE  /\ env' = env /\ schema' = schema
             /\ \A p \in Products : stock[p] # NoRow => stock'[p] # NoRow
  <2>1. \/ stock' = stock
        \/ /\ stock[seeded[i] + 1] = NoRow
           /\ stock' = [stock EXCEPT ![seeded[i] + 1] = SeedStock[seeded[i] + 1]]
    BY <1>2 DEF SeedRow, InsertRow
  <2> QED
    BY <1>0, <1>2, <2>1 DEF SeedRow
<1>3. ASSUME NEW r \in Requests, Commit(r)
      PROVE  /\ env' = env /\ schema' = schema
             /\ \A p \in Products : stock[p] # NoRow => stock'[p] # NoRow
  <2>1. stock[wants[r]] > 0 /\ stock' = [stock EXCEPT ![wants[r]] = @ - 1]
    BY <1>3 DEF Commit, InStock
  <2>2. env' = env /\ schema' = schema
    BY <1>3 DEF Commit
  <2> QED
    BY <1>0, <2>1, <2>2 DEF NoRow
<1>4. ASSUME NEW r \in Requests, Receive(r) \/ (Serve(r) /\ ~Commit(r))
      PROVE  env' = env /\ schema' = schema /\ stock' = stock
  BY <1>4 DEF Receive, Serve, BeginTx, Rollback, Answer
<1>5. CASE DatabaseFails \/ DatabaseRecovers
  BY <1>5 DEF DatabaseFails, DatabaseRecovers
<1> QED
  BY <1>1, <1>2, <1>3, <1>4, <1>5 DEF Next, ProcessStep, Serve

LEMMA ReadyKept ==
    ASSUME LifeInv, Next, NEW j \in Processes, pc'[j] = pc[j], seeded'[j] = seeded[j]
    PROVE  Ready(j)'
<1>1. Ready(j)
  BY DEF LifeInv
<1>2. pc[j] = "seed" => 1..seeded[j] \subseteq Products
  <2>1. seeded[j] \in 0..Len(SeedStock)
    BY DEF LifeInv, TypeOK
  <2> QED
    BY <2>1, ProductFacts
<1> QED
  BY <1>1, <1>2, DatabaseGrows DEF Ready, HasRows, SeedsProducts, AfterMigrate

LEMMA OtherProcesses ==
    ASSUME LifeInv, NEW i \in Processes, ProcessStep(i), NEW j \in Processes, j # i
    PROVE  pc'[j] = pc[j] /\ seeded'[j] = seeded[j] /\ code'[j] = code[j]
<1> USE DEF LifeInv, TypeOK, Goto, Return, process
<1>1. CASE Start(i) \/ Configure(i) \/ CheckVersion(i)
  BY <1>1 DEF Start, Configure, CheckVersion
<1>2. CASE CreateVersionTable(i) \/ ApplyMigration(i) \/ SeedRow(i)
  BY <1>2 DEF CreateVersionTable, ApplyMigration, Migrate, SeedRow, SeedError
<1>3. CASE Build(i) \/ Listen(i) \/ ListenAndServeFails(i) \/ Signal(i) \/ BeginShutdown(i)
  BY <1>3 DEF Build, Listen, ListenAndServeFails, Signal, BeginShutdown
<1>4. CASE ShutdownDone(i) \/ ShutdownTimesOut(i) \/ Exit(i) \/ Crash(i)
  BY <1>4 DEF ShutdownDone, ShutdownTimesOut, ReturnFromServe, Exit, Crash, End
<1> QED
  BY <1>1, <1>2, <1>3, <1>4 DEF ProcessStep, Run

LEMMA ReadyStep ==
    ASSUME LifeInv, Next, NEW i \in Processes, ProcessStep(i)
    PROVE  Ready(i)'
<1> USE DEF AfterConfigure, AfterMigrate, AfterSeed, AfterBuild
<1>r. Ready(i) /\ pc \in [Processes -> {"down", "configure", "migrate", "create", "upgrade", "seed",
                             "build", "listen", "serving", "draining", "closing"}]
      /\ seeded \in [Processes -> 0..Len(SeedStock)]
      /\ schema \in {"none", "versioned", "migrated"} /\ env \in [Processes -> Environment]
  BY DEF LifeInv, TypeOK
<1>s. \A result : Return(i, result) => Ready(i)'
  BY <1>r DEF Return, Goto, Ready
<1>m. ASSUME pc'[i] = AfterMigrations(i), seeded'[i] = 0, schema' = "migrated",
             env'[i] = env[i], env[i].databaseURL = "set"
      PROVE  Ready(i)'
  <2>1. pc'[i] = IF SeedsProducts(i) THEN "seed" ELSE "build"
    BY <1>m DEF AfterMigrations
  <2>2. \A p \in 1..seeded'[i] : FALSE
    BY <1>m
  <2>3. SeedsProducts(i)' = SeedsProducts(i)
    BY <1>m DEF SeedsProducts
  <2> QED
    BY <1>m, <2>1, <2>2, <2>3, ProductFacts DEF Ready
<1>1. CASE Start(i)
  BY <1>1, <1>r DEF Start, Goto, Ready
<1>2. CASE Configure(i)
  BY <1>2, <1>r, <1>s, DatabaseGrows DEF Configure, Goto, Ready
<1>3. CASE CheckVersion(i)
  <2>1. pc[i] = "migrate" /\ env[i].databaseURL = "set" /\ seeded[i] = 0 /\ seeded' = seeded
        /\ schema' = schema /\ env' = env
    BY <1>3, <1>r DEF CheckVersion, Ready, database
  <2>2. CASE Return(i, 1)
    BY <1>s, <2>2
  <2>3. CASE pc'[i] = AfterMigrations(i) /\ schema = "migrated"
    BY <1>m, <2>1, <2>3
  <2>4. CASE pc'[i] \in {"create", "upgrade"}
    BY <2>1, <2>4 DEF Ready
  <2> QED
    BY <1>3, <1>r, <2>2, <2>3, <2>4 DEF CheckVersion, Goto
<1>4. CASE CreateVersionTable(i)
  BY <1>4, <1>r, <1>s, DatabaseGrows DEF CreateVersionTable, Migrate, Goto, Ready
<1>5. CASE ApplyMigration(i)
  <2>1. pc[i] = "upgrade" /\ env[i].databaseURL = "set" /\ seeded[i] = 0 /\ seeded' = seeded
        /\ env' = env
    BY <1>5, <1>r DEF ApplyMigration, Migrate, Ready
  <2>2. CASE Return(i, 1)
    BY <1>s, <2>2
  <2>3. CASE pc'[i] = AfterMigrations(i) /\ schema' = "migrated"
    BY <1>m, <2>1, <2>3
  <2> QED
    BY <1>5, <1>r, <2>2, <2>3 DEF ApplyMigration, Migrate, Goto
<1>6. CASE SeedRow(i)
  <2> DEFINE p == seeded[i] + 1
  <2>1. p \in Products /\ pc[i] = "seed"
    BY <1>6, <1>r, ProductFacts DEF SeedRow, Ready
  <2>2. CASE SeedError(i)
    BY <1>s, <2>2 DEF SeedError
  <2>3. CASE ~SeedError(i)
    <3>1. /\ InsertRow(p) /\ seeded' = [seeded EXCEPT ![i] = p]
          /\ Goto(i, IF p = Len(SeedStock) THEN "build" ELSE "seed")
          /\ schema' = schema
      BY <1>6, <2>3 DEF SeedRow
    <3>2. stock'[p] # NoRow
      BY <2>1, <3>1, ProductFacts DEF InsertRow, LifeInv, TypeOK, NoRow
    <3>3. ASSUME NEW q \in 1..p PROVE stock'[q] # NoRow
      <4>1. CASE q = p
        BY <3>2, <4>1
      <4>2. CASE q # p
        <5>1. q \in 1..seeded[i] /\ q \in Products
          BY <2>1, <3>3, <4>2, <1>r, ProductFacts
        <5> QED
          BY <5>1, <2>1, <1>r, DatabaseGrows DEF Ready
      <4> QED
        BY <4>1, <4>2
    <3>4. seeded'[i] = p /\ pc'[i] = IF p = Len(SeedStock) THEN "build" ELSE "seed"
      BY <3>1, <1>r DEF Goto
    <3>5. p = Len(SeedStock) => HasRows'
      BY <3>3, ProductFacts DEF HasRows
    <3>6. p <= Len(SeedStock)
      BY <2>1, ProductFacts
    <3> QED
      BY <1>r, <2>1, <3>1, <3>3, <3>4, <3>5, <3>6, DatabaseGrows, ProductFacts DEF Ready
  <2> QED
    BY <2>2, <2>3
<1>7. CASE Build(i)
  BY <1>7, <1>r, <1>s, DatabaseGrows DEF Build, Goto, Ready, HasRows, SeedsProducts
<1>8. CASE Listen(i) \/ BeginShutdown(i)
  BY <1>8, <1>r, DatabaseGrows DEF Listen, BeginShutdown, Goto, Ready, HasRows, SeedsProducts
<1>9. CASE ListenAndServeFails(i) \/ ShutdownDone(i) \/ ShutdownTimesOut(i)
  BY <1>9, <1>s DEF ListenAndServeFails, ShutdownDone, ShutdownTimesOut, ReturnFromServe
<1>10. CASE Signal(i)
  BY <1>10, ReadyKept DEF Signal
<1>11. CASE Exit(i) \/ Crash(i)
  BY <1>11, <1>r DEF Exit, Crash, End, Goto, Ready
<1> QED
  BY <1>1, <1>2, <1>3, <1>4, <1>5, <1>6, <1>7, <1>8, <1>9, <1>10, <1>11 DEF ProcessStep, Run

-----------------------------------------------------------------------------
(* Requests *)

(* A request in progress stays with its process, or is new to one that serves. *)
LEMMA RequestKept ==
    ASSUME LifeInv, Next, NEW r \in Requests, st'[r] \in InProgress
    PROVE  \/ /\ st[r] \in InProgress /\ at'[r] = at[r] /\ wants'[r] = wants[r]
           \/ /\ at'[r] \in Processes /\ pc[at'[r]] = "serving" /\ pc' = pc
              /\ wants'[r] \in Products /\ st[r] = "idle"
<1> USE DEF InProgress, LifeInv, TypeOK
<1>1. ASSUME NEW i \in Processes, ProcessStep(i)
      PROVE  st[r] \in InProgress /\ at'[r] = at[r] /\ wants'[r] = wants[r]
  <2>1. UNCHANGED requests \/ \E S : Over(S)
    BY <1>1 DEF ProcessStep, Run, Start, Configure, CheckVersion, CreateVersionTable, ApplyMigration,
                Migrate, SeedRow, Build, Listen, ListenAndServeFails, Signal, BeginShutdown, ShutdownDone,
                ShutdownTimesOut, Exit, Crash, End, requests
  <2> QED
    BY <2>1 DEF Over, requests
<1>2. ASSUME NEW q \in Requests, Serve(q)
      PROVE  st[r] \in InProgress /\ at'[r] = at[r] /\ wants'[r] = wants[r]
  BY <1>2 DEF Serve, BeginTx, Commit, Rollback, Answer, Move, Over
<1>3. ASSUME NEW q \in Requests, Receive(q)
      PROVE  \/ /\ st[r] \in InProgress /\ at'[r] = at[r] /\ wants'[r] = wants[r]
             \/ /\ at'[r] \in Processes /\ pc[at'[r]] = "serving" /\ pc' = pc
                /\ wants'[r] \in Products /\ st[r] = "idle"
  <2>1. PICK i \in Processes, p \in Products :
          pc[i] = "serving" /\ at' = [at EXCEPT ![q] = i] /\ wants' = [wants EXCEPT ![q] = p]
    BY <1>3 DEF Receive
  <2>2. st' = [st EXCEPT ![q] = "handler"] /\ st[q] = "idle" /\ pc' = pc
    BY <1>3 DEF Receive, Move, process
  <2> QED
    BY <2>1, <2>2
<1>4. CASE DatabaseFails \/ DatabaseRecovers
  BY <1>4 DEF DatabaseFails, DatabaseRecovers, requests
<1> QED
  BY <1>1, <1>2, <1>3, <1>4 DEF Next, ProcessStep

(* A process that does not serve gets no more requests. *)
LEMMA ServingShrinks ==
    ASSUME LifeInv, Next, NEW j \in Processes, pc[j] # "serving"
    PROVE  Serving(j)' \subseteq Serving(j)
  BY RequestKept DEF Serving

(* The processes that may have requests keep the right to them until they end. *)
LEMMA HostsKept ==
    ASSUME LifeInv, NEW i \in Processes, ProcessStep(i),
           pc[i] \in {"serving", "draining", "closing"}
    PROVE  \/ pc'[i] \in {"serving", "draining", "closing"}
           \/ pc'[i] = "down" /\ code'[i] = 0 /\ Serving(i)' = {}
<1> USE DEF LifeInv, TypeOK, Goto, Return
<1>1. CASE Signal(i)
  BY <1>1 DEF Signal
<1>2. CASE BeginShutdown(i) \/ ShutdownDone(i) \/ ShutdownTimesOut(i) \/ ListenAndServeFails(i)
  BY <1>2 DEF BeginShutdown, ShutdownDone, ShutdownTimesOut, ReturnFromServe, ListenAndServeFails
<1>3. CASE Exit(i) \/ Crash(i)
  <2>1. End(i)
    BY <1>3 DEF Exit, Crash
  <2>2. Serving(i)' = {}
    BY <2>1, LifecycleAssumption DEF End, Over, Serving
  <2> QED
    BY <2>1, <2>2 DEF End
<1>4. \/ Signal(i) \/ BeginShutdown(i) \/ ShutdownDone(i) \/ ShutdownTimesOut(i)
      \/ ListenAndServeFails(i) \/ Exit(i) \/ Crash(i)
  BY DEF ProcessStep, Run, Start, Configure, CheckVersion, CreateVersionTable, ApplyMigration,
         Migrate, SeedRow, Build, Listen
<1> QED
  BY <1>1, <1>2, <1>3, <1>4

LEMMA CleanStep ==
    ASSUME LifeInv, Next, NEW j \in Processes
    PROVE  Clean(j)'
<1>1. CASE pc'[j] = pc[j] /\ code'[j] = code[j]
  <2>1. CASE pc[j] = "closing"
    BY <1>1, <2>1, ServingShrinks DEF LifeInv, Clean
  <2>2. CASE pc[j] # "closing"
    BY <1>1, <2>2 DEF LifeInv, Clean
  <2> QED
    BY <2>1, <2>2
<1>2. CASE ~(pc'[j] = pc[j] /\ code'[j] = code[j])
  <2>1. ProcessStep(j)
    <3>1. ASSUME NEW r \in Requests, Receive(r) \/ Serve(r) PROVE FALSE
      BY <1>2, <3>1 DEF Receive, Serve, BeginTx, Commit, Rollback, Answer, process
    <3>2. ~DatabaseFails /\ ~DatabaseRecovers
      BY <1>2 DEF DatabaseFails, DatabaseRecovers, process
    <3> QED
      BY <1>2, <3>1, <3>2, OtherProcesses DEF Next, ProcessStep
  <2>2. pc[j] # "closing" => code[j] = 0
    BY DEF LifeInv, Clean
  <2> USE DEF LifeInv, TypeOK, Goto, Return, Clean
  <2>3. CASE Exit(j) \/ Crash(j)
    BY <2>3 DEF Exit, Crash, End
  <2>4. CASE ShutdownDone(j)
    <3>1. Serving(j)' = {}
      BY <2>4 DEF ShutdownDone, Drained, Serving, requests
    <3> QED
      BY <2>4, <3>1 DEF ShutdownDone, ReturnFromServe
  <2>5. CASE Start(j) \/ Configure(j) \/ CheckVersion(j) \/ SeedRow(j)
    BY <2>2, <2>5 DEF Start, Configure, CheckVersion, AfterMigrations, SeedRow, SeedError
  <2>6. CASE CreateVersionTable(j) \/ ApplyMigration(j)
    BY <2>2, <2>6 DEF CreateVersionTable, ApplyMigration, Migrate, AfterMigrations
  <2>7. CASE \/ Build(j) \/ Listen(j) \/ ListenAndServeFails(j)
             \/ BeginShutdown(j) \/ ShutdownTimesOut(j)
    BY <2>2, <2>7 DEF Build, Listen, ListenAndServeFails, BeginShutdown, ShutdownTimesOut, ReturnFromServe
  <2>8. CASE Signal(j)
    BY <1>2, <2>8 DEF Signal
  <2> QED
    BY <2>1, <2>3, <2>4, <2>5, <2>6, <2>7, <2>8 DEF ProcessStep, Run
<1> QED
  BY <1>1, <1>2

LEMMA CommittedKept ==
    ASSUME LifeInv, Next, NEW r \in Requests, st[r] \in {"committed", "over"}
    PROVE  st'[r] \in {"committed", "over"}
<1> USE DEF LifeInv, TypeOK
<1>1. ASSUME NEW i \in Processes, ProcessStep(i) PROVE st'[r] \in {"committed", "over"}
  <2>1. UNCHANGED st \/ \E S : Over(S)
    BY <1>1 DEF ProcessStep, Run, Start, Configure, CheckVersion, CreateVersionTable, ApplyMigration,
                Migrate, SeedRow, Build, Listen, ListenAndServeFails, Signal, BeginShutdown, ShutdownDone,
                ShutdownTimesOut, Exit, Crash, End, requests
  <2> QED
    BY <2>1 DEF Over
<1>2. ASSUME NEW q \in Requests, Receive(q) \/ Serve(q) PROVE st'[r] \in {"committed", "over"}
  BY <1>2 DEF Receive, Serve, BeginTx, Commit, Rollback, Answer, Move, Over
<1>3. CASE DatabaseFails \/ DatabaseRecovers
  BY <1>3 DEF DatabaseFails, DatabaseRecovers, requests
<1> QED
  BY <1>1, <1>2, <1>3 DEF Next, ProcessStep

(* Orders are placed by Commit only. *)
LEMMA OnlyCommitsPlace ==
    ASSUME LifeInv, Next, placed' # placed
    PROVE  \E r \in Requests : Commit(r)
<1>1. ASSUME NEW i \in Processes, ProcessStep(i) PROVE placed' = placed
  BY <1>1 DEF ProcessStep, Run, Start, Configure, CheckVersion, CreateVersionTable, ApplyMigration,
              Migrate, SeedRow, Build, Listen, ListenAndServeFails, Signal, BeginShutdown, ShutdownDone,
              ShutdownTimesOut, Exit, Crash, End, database
<1>2. ASSUME NEW r \in Requests, Receive(r) \/ BeginTx(r) \/ Rollback(r) \/ Answer(r)
      PROVE  placed' = placed
  BY <1>2 DEF Receive, BeginTx, Rollback, Answer, database
<1>3. CASE DatabaseFails \/ DatabaseRecovers
  BY <1>3 DEF DatabaseFails, DatabaseRecovers
<1> QED
  BY <1>1, <1>2, <1>3 DEF Next, ProcessStep, Serve

LEMMA PlacingStep ==
    ASSUME LifeInv, Next, NEW r \in Requests
    PROVE  Placing(r)'
<1>1. ASSUME st'[r] \in InProgress
      PROVE  /\ at'[r] \in Processes /\ pc'[at'[r]] \in {"serving", "draining", "closing"}
             /\ wants'[r] \in Products
  <2>1. CASE /\ at'[r] \in Processes /\ pc[at'[r]] = "serving" /\ pc' = pc
             /\ wants'[r] \in Products
    BY <2>1
  <2>2. CASE st[r] \in InProgress /\ at'[r] = at[r] /\ wants'[r] = wants[r]
    <3> DEFINE i == at[r]
    <3>1. i \in Processes /\ pc[i] \in {"serving", "draining", "closing"} /\ wants[r] \in Products
      BY <2>2 DEF LifeInv, Placing
    <3>2. CASE ProcessStep(i)
      <4>1. r \in Serving(i)'
        BY <1>1, <2>2 DEF Serving
      <4> QED
        BY <2>2, <3>1, <3>2, <4>1, HostsKept DEF Serving
    <3>3. CASE \E k \in Processes : k # i /\ ProcessStep(k)
      BY <2>2, <3>1, <3>3, OtherProcesses
    <3>4. CASE \E q \in Requests : Receive(q) \/ Serve(q)
      BY <2>2, <3>1, <3>4 DEF Receive, Serve, BeginTx, Commit, Rollback, Answer, process
    <3>5. CASE DatabaseFails \/ DatabaseRecovers
      BY <2>2, <3>1, <3>5 DEF DatabaseFails, DatabaseRecovers, process
    <3> QED
      BY <3>2, <3>3, <3>4, <3>5 DEF Next, ProcessStep
  <2> QED
    BY <1>1, <2>1, <2>2, RequestKept
<1>2. ASSUME NEW p \in Products, <<r, p>> \in placed'
      PROVE  st'[r] \in {"committed", "over"}
  <2>1. CASE <<r, p>> \in placed
    BY <2>1, CommittedKept DEF LifeInv, Placing
  <2>2. CASE <<r, p>> \notin placed
    <3>1. PICK q \in Requests : Commit(q)
      BY <1>2, <2>2, OnlyCommitsPlace
    <3>2. q = r
      BY <1>2, <2>2, <3>1 DEF Commit
    <3> QED
      BY <3>1, <3>2 DEF Commit, Move, LifeInv, TypeOK
  <2> QED
    BY <2>1, <2>2
<1> QED
  BY <1>1, <1>2 DEF Placing

-----------------------------------------------------------------------------
(* Stock *)

LEMMA SoldFacts ==
    ASSUME LifeInv, NEW p
    PROVE  IsFiniteSet(Sold(p)) /\ Cardinality(Sold(p)) \in Nat
<1>1. Sold(p) \subseteq placed
  BY DEF Sold
<1> QED
  BY <1>1, FS_Subset, FS_CardinalityType DEF LifeInv

(* What the seed and the orders leave of product p. *)
LEMMA StockStep ==
    ASSUME LifeInv, Next, NEW p \in Products
    PROVE  IF stock'[p] = NoRow THEN Sold(p)' = {}
           ELSE stock'[p] + Cardinality(Sold(p)') = SeedStock[p]
<1>1. /\ IF stock[p] = NoRow THEN Sold(p) = {} ELSE stock[p] + Cardinality(Sold(p)) = SeedStock[p]
      /\ stock \in [Products -> {NoRow} \cup Nat]
  BY DEF LifeInv, NeverRestocked, Sold, TypeOK
<1>2. CASE stock'[p] = stock[p] /\ Sold(p)' = Sold(p)
  BY <1>1, <1>2
<1>3. CASE stock'[p] # stock[p] /\ placed' = placed
  <2>1. PICK i \in Processes : SeedRow(i)
    <3>1. ASSUME NEW r \in Requests, Commit(r) PROVE FALSE
      <4>1. <<r, wants[r]>> \in placed /\ wants[r] \in Products /\ st[r] = "tx"
        BY <1>3, <3>1 DEF Commit, LifeInv, Placing, InProgress
      <4> QED
        BY <4>1 DEF LifeInv, Placing
    <3>2. ASSUME NEW r \in Requests, Receive(r) \/ Serve(r) PROVE FALSE
      BY <1>3, <3>1, <3>2 DEF Receive, Serve, BeginTx, Rollback, Answer, database
    <3>3. ~DatabaseFails /\ ~DatabaseRecovers
      BY <1>3 DEF DatabaseFails, DatabaseRecovers
    <3>4. ASSUME NEW i \in Processes, ProcessStep(i), ~SeedRow(i) PROVE FALSE
      BY <1>3, <3>4 DEF ProcessStep, Run, Start, Configure, CheckVersion, CreateVersionTable,
              ApplyMigration, Migrate, Build, Listen, ListenAndServeFails, Signal, BeginShutdown,
              ShutdownDone, ShutdownTimesOut, Exit, Crash, End, database
    <3> QED
      BY <3>2, <3>3, <3>4 DEF Next, ProcessStep
  <2>2. stock[p] = NoRow /\ stock'[p] = SeedStock[p]
    BY <1>1, <1>3, <2>1 DEF SeedRow, InsertRow
  <2>3. Sold(p)' = {} /\ Cardinality({}) = 0
    BY <1>1, <1>3, <2>2, FS_EmptySet DEF Sold
  <2>4. SeedStock[p] \in Nat
    BY ProductFacts
  <2> QED
    BY <2>2, <2>3, <2>4 DEF NoRow
<1>4. CASE placed' # placed
  <2>1. PICK r \in Requests : Commit(r)
    BY <1>4, OnlyCommitsPlace
  <2> DEFINE w == wants[r]
  <2>2. /\ w \in Products /\ st[r] = "tx" /\ stock[w] > 0
        /\ stock' = [stock EXCEPT ![w] = @ - 1] /\ placed' = placed \cup {<<r, w>>}
    BY <2>1 DEF Commit, InStock, LifeInv, Placing, InProgress
  <2>3. CASE p # w
    <3>1. Sold(p)' = Sold(p) /\ stock'[p] = stock[p]
      BY <1>1, <2>2, <2>3 DEF Sold
    <3> QED
      BY <1>1, <3>1
  <2>4. CASE p = w
    <3>1. <<r, w>> \notin Sold(p)
      BY <2>2, <2>4 DEF Sold, LifeInv, Placing
    <3>2. Sold(p)' = Sold(p) \cup {<<r, w>>}
      BY <2>2, <2>4 DEF Sold
    <3>3. Cardinality(Sold(p)') = Cardinality(Sold(p)) + 1
      BY <3>1, <3>2, SoldFacts, FS_AddElement
    <3>4. Cardinality(Sold(p)) \in Nat
      BY SoldFacts
    <3>5. stock[p] \in Nat /\ stock'[p] = stock[p] - 1 /\ stock[p] > 0
      BY <1>1, <2>2, <2>4 DEF NoRow
    <3>6. SeedStock[p] \in Nat
      BY ProductFacts
    <3> QED
      BY <1>1, <3>3, <3>4, <3>5, <3>6 DEF NoRow
  <2> QED
    BY <2>3, <2>4
<1>5. placed' = placed => Sold(p)' = Sold(p)
  BY DEF Sold
<1> QED
  BY <1>2, <1>3, <1>4, <1>5

LEMMA PlacedFinite ==
    ASSUME LifeInv, Next
    PROVE  IsFiniteSet(placed')
<1>1. CASE placed' = placed
  BY <1>1 DEF LifeInv
<1>2. CASE placed' # placed
  <2>1. PICK r \in Requests : placed' = placed \cup {<<r, wants[r]>>}
    BY <1>2, OnlyCommitsPlace DEF Commit
  <2> QED
    BY <2>1, FS_AddElement DEF LifeInv
<1> QED
  BY <1>1, <1>2

LEMMA LifeInvStep == LifeInv /\ [Next]_vars => LifeInv'
<1> SUFFICES ASSUME LifeInv, [Next]_vars PROVE LifeInv'
  OBVIOUS
<1>1. CASE Next
  <2>1. TypeOK' /\ IsFiniteSet(placed')
    BY <1>1, LifeTypeStep, PlacedFinite
  <2>2. NeverRestocked'
    BY <1>1, StockStep DEF NeverRestocked, Sold
  <2>3. ASSUME NEW j \in Processes PROVE Ready(j)'
    <3>1. CASE pc'[j] = pc[j] /\ seeded'[j] = seeded[j]
      BY <1>1, <3>1, ReadyKept
    <3>2. CASE ProcessStep(j)
      BY <1>1, <3>2, ReadyStep
    <3>3. CASE UNCHANGED process
      BY <1>1, <3>3, ReadyKept DEF process
    <3>4. ASSUME NEW r \in Requests, Receive(r) \/ Serve(r) PROVE UNCHANGED process
      BY <3>4 DEF Receive, Serve, BeginTx, Commit, Rollback, Answer
    <3>5. DatabaseFails \/ DatabaseRecovers => UNCHANGED process
      BY DEF DatabaseFails, DatabaseRecovers
    <3> QED
      BY <1>1, <3>1, <3>2, <3>3, <3>4, <3>5, OtherProcesses DEF Next, ProcessStep
  <2> QED
    BY <1>1, <2>1, <2>2, <2>3, CleanStep, PlacingStep DEF LifeInv
<1>2. CASE UNCHANGED vars
  <2>1. TypeOK' /\ NeverRestocked' /\ IsFiniteSet(placed')
    BY <1>2 DEF LifeInv, vars, database, process, requests, TypeOK, NeverRestocked
  <2>2. ASSUME NEW j \in Processes PROVE Ready(j)' /\ Clean(j)'
    BY <1>2 DEF LifeInv, vars, database, process, requests, Ready, Clean, HasRows, SeedsProducts,
                Serving
  <2>3. ASSUME NEW r \in Requests PROVE Placing(r)'
    BY <1>2 DEF LifeInv, vars, database, process, requests, Placing
  <2> QED
    BY <2>1, <2>2, <2>3 DEF LifeInv
<1> QED
  BY <1>1, <1>2

LEMMA LifeInvAlways == Safety => []LifeInv
  BY LifeInit, LifeInvStep, PTL DEF Safety

-----------------------------------------------------------------------------
(* The theorems *)

(* The types of Lifecycle, among them that no product ever has more than its seed. *)
THEOREM LifecycleTypes == Safety => []TypeOK
<1>1. LifeInv => TypeOK
  BY DEF LifeInv
<1> QED
  BY <1>1, LifeInvAlways, PTL

(* A process serves only with its configuration, the schema and the seed in place, however many
   processes start, stop and crash beside it (main.go:50-71). *)
THEOREM ReadyTheorem == Safety => []ServesOnlyWhenReady
<1>1. LifeInv => ServesOnlyWhenReady
  BY DEF LifeInv, Ready, ServesOnlyWhenReady, ValidEnvironment, HasRows, AfterConfigure,
         AfterMigrate, AfterSeed, AfterBuild
<1> QED
  BY <1>1, LifeInvAlways, PTL

(* The seed (seed.go:21-31) brings the stock of each product into the database once. *)
THEOREM NeverRestockedTheorem == Safety => []NeverRestocked
<1>1. LifeInv => NeverRestocked
  BY DEF LifeInv
<1> QED
  BY <1>1, LifeInvAlways, PTL

(* Success of a process means that no request of its was left unanswered (main.go:131-135). *)
THEOREM CleanExitTheorem == Safety => CleanExitDropsNothing
<1>1. LifeInv /\ [Next]_vars => [\A i \in Processes : Exits(i, 0) => Serving(i) = {}]_vars
  BY DEF LifeInv, Clean, Exits
<1> QED
  BY <1>1, LifeInvAlways, PTL DEF Safety, CleanExitDropsNothing

=============================================================================
