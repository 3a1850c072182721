------------------------------- MODULE Lifecycle ------------------------------
(***************************************************************************)
(* The life of the processes that serve the API: configuration, migration, *)
(* seed, serving and orderly shutdown (cmd/main.go, internal/config,       *)
(* postgres/migrate.go and postgres/seed.go), with several processes on    *)
(* one database, signals, crashes, outages of the database and restarts.   *)
(* What a process knows is lost when it ends; the database stays.          *)
(*                                                                         *)
(* A request stands for a createOrder of one unit: its transaction is one  *)
(* interval, whose inside is the subject of OrderService.  goose, pgxpool  *)
(* and net/http are external, modelled from how main.go relies on them:    *)
(* goose checks and applies without a lock of its own, Close of the pool   *)
(* waits for the connections in use, and Shutdown stops listening at once  *)
(* and then waits for the requests in progress.                            *)
(***************************************************************************)
EXTENDS Integers, FiniteSets, Sequences

CONSTANTS
    Processes,    \* instances of the program, each started again when it ends
    Requests,     \* the orders that clients place
    SeedStock,    \* the stock of seedProducts, in their order
    Environments, \* bound: the environments each process may be started in
    MaxFaults,    \* bound: signals, crashes, outages, failures to listen or accept
    None          \* no process, no product

Products == DOMAIN SeedStock

(* What the code makes of each variable: whether DATABASE_URL is there and can be parsed,
   whether JWT_SECRET has minSecretLength bytes, and the text of SEED_PRODUCTS. *)
Environment ==
    [databaseURL : {"unset", "malformed", "set"}, secret : {"weak", "strong"},
     seed : {"unset", "malformed", "true", "false"}]

ASSUME LifecycleAssumption ==
    /\ SeedStock \in Seq(Nat) /\ Len(SeedStock) > 0
    /\ Environments \in [Processes -> SUBSET Environment]
    /\ None \notin Processes /\ None \notin Products
    /\ MaxFaults \in Nat

VARIABLES
    up,        \* whether the database answers
    schema,    \* "none", "versioned" (goose's own table) or "migrated"
    stock,     \* products.stock, -1 where there is no row
    placed,    \* the committed orders: a request and the product it bought
    env,       \* the environment of each process
    pc,        \* where each process is
    seeded,    \* how many products its seed has gone through
    signalled, \* whether it has been told to stop
    code,      \* what run returns: 0 for nil, 1 for an error
    st,        \* where each request is
    at,        \* the process that serves it
    wants,     \* the product it buys
    faults     \* the faults so far

database == <<up, schema, stock, placed>>
process == <<pc, seeded, signalled, code>>
requests == <<st, at, wants>>
vars == <<database, env, process, requests, faults>>

NoRow == -1

BoolOrDefault(v, default) == IF v \in {"true", "false"} THEN v = "true" ELSE default

(* config.Load *)
SeedsProducts(i) == BoolOrDefault(env[i].seed, TRUE)

(* Requests S are answered, or nobody is left to answer them. *)
Over(S) ==
    /\ st' = [r \in Requests |-> IF r \in S THEN "over" ELSE st[r]]
    /\ at' = [r \in Requests |-> IF r \in S THEN None ELSE at[r]]
    /\ wants' = [r \in Requests |-> IF r \in S THEN None ELSE wants[r]]

InProgress == {"handler", "tx", "committed", "refused"}

(* The requests that i has accepted and not answered. *)
Serving(i) == {r \in Requests : at[r] = i /\ st[r] \in InProgress}

Init ==
    /\ up = TRUE
    /\ schema = "none"
    /\ stock = [p \in Products |-> NoRow]
    /\ placed = {}
    /\ env \in [Processes -> UNION {Environments[i] : i \in Processes}]
    /\ \A i \in Processes : env[i] \in Environments[i]
    /\ pc = [i \in Processes |-> "down"]
    /\ seeded = [i \in Processes |-> 0]
    /\ signalled = [i \in Processes |-> FALSE]
    /\ code = [i \in Processes |-> 0]
    /\ st = [r \in Requests |-> "idle"]
    /\ at = [r \in Requests |-> None]
    /\ wants = [r \in Requests |-> None]
    /\ faults = 0

Goto(i, where) == pc' = [pc EXCEPT ![i] = where]

(* run returns: its deferred calls close the pool. *)
Return(i, result) ==
    /\ Goto(i, "closing")
    /\ code' = [code EXCEPT ![i] = result]

-----------------------------------------------------------------------------
(* Start *)

Start(i) ==
    /\ pc[i] = "down"
    /\ Goto(i, "configure")
    /\ seeded' = [seeded EXCEPT ![i] = 0]
    /\ UNCHANGED <<database, env, signalled, code, requests, faults>>

(* pgxpool.New parses the URL and connects later: only a malformed one is an error here. *)
Configure(i) ==
    /\ pc[i] = "configure"
    /\ \/ /\ env[i].databaseURL = "set"
          /\ Goto(i, "migrate")
          /\ UNCHANGED code
       \/ /\ env[i].databaseURL # "set"
          /\ Return(i, 1)
    /\ UNCHANGED <<database, env, seeded, signalled, requests, faults>>

AfterMigrations(i) == IF SeedsProducts(i) THEN "seed" ELSE "build"

(* goose.Up reads the version; it knows nothing of the signal. *)
CheckVersion(i) ==
    /\ pc[i] = "migrate"
    /\ \/ /\ up
          /\ Goto(i, CASE schema = "none" -> "create"
                       [] schema = "versioned" -> "upgrade"
                       [] schema = "migrated" -> AfterMigrations(i))
          /\ UNCHANGED code
       \/ /\ ~up
          /\ Return(i, 1)
    /\ UNCHANGED <<database, env, seeded, signalled, requests, faults>>

(* One transaction that fails if another process has committed the same one since the check. *)
Migrate(i, from, before, after, next) ==
    /\ pc[i] = from
    /\ \/ /\ up /\ schema = before
          /\ schema' = after
          /\ Goto(i, next)
          /\ UNCHANGED code
       \/ /\ ~up \/ schema # before
          /\ Return(i, 1)
          /\ UNCHANGED schema
    /\ UNCHANGED <<up, stock, placed, env, seeded, signalled, requests, faults>>

CreateVersionTable(i) == Migrate(i, "create", "none", "versioned", "upgrade")

ApplyMigration(i) == Migrate(i, "upgrade", "versioned", "migrated", AfterMigrations(i))

(* Variant: a product that is there gets its initial stock back (DO UPDATE). *)
Upsert(p) == stock' = [stock EXCEPT ![p] = SeedStock[p]]

(* Variant: the initial stock is added to what is there. *)
Restock(p) ==
    stock' = [stock EXCEPT ![p] = IF @ = NoRow THEN SeedStock[p] ELSE @ + SeedStock[p]]

(* Variant: without ON CONFLICT a row that is there is an error. *)
AcceptsOnlyNew(p) == stock[p] = NoRow

(* ON CONFLICT DO NOTHING *)
Accepts(p) == TRUE

InsertRow(p) ==
    IF stock[p] = NoRow THEN stock' = [stock EXCEPT ![p] = SeedStock[p]] ELSE UNCHANGED stock

(* Variant: an error of the seed is only logged. *)
SeedErrorLogged(i) ==
    /\ Goto(i, "build")
    /\ UNCHANGED code

SeedError(i) == Return(i, 1)

(* One INSERT of the seed, under the context that a signal cancels. *)
SeedRow(i) ==
    LET p == seeded[i] + 1 IN
    /\ pc[i] = "seed"
    /\ \/ /\ up /\ ~signalled[i] /\ Accepts(p)
          /\ InsertRow(p)
          /\ seeded' = [seeded EXCEPT ![i] = p]
          /\ Goto(i, IF p = Len(SeedStock) THEN "build" ELSE "seed")
          /\ UNCHANGED code
       \/ /\ ~(up /\ ~signalled[i] /\ Accepts(p))
          /\ SeedError(i)
          /\ UNCHANGED <<stock, seeded>>
    /\ UNCHANGED <<up, schema, placed, env, signalled, requests, faults>>

(* NewJWTService refuses a weak secret. *)
Build(i) ==
    /\ pc[i] = "build"
    /\ \/ /\ env[i].secret = "strong"
          /\ Goto(i, "listen")
          /\ UNCHANGED code
       \/ /\ env[i].secret = "weak"
          /\ Return(i, 1)
    /\ UNCHANGED <<database, env, seeded, signalled, requests, faults>>

Listen(i) ==
    /\ pc[i] = "listen"
    /\ Goto(i, "serving")
    /\ UNCHANGED <<database, env, seeded, signalled, code, requests, faults>>

Fault ==
    /\ faults < MaxFaults
    /\ faults' = faults + 1

(* ListenAndServe returns an error: the address cannot be had or, later, Accept fails.  The
   requests in progress are not waited for. *)
ListenAndServeFails(i) ==
    /\ pc[i] \in {"listen", "serving"}
    /\ Fault
    /\ Return(i, 1)
    /\ UNCHANGED <<database, env, seeded, signalled, requests>>

-----------------------------------------------------------------------------
(* Shutdown *)

Running(i) == pc[i] # "down"

(* SIGINT or SIGTERM after NotifyContext; a second one changes nothing. *)
Signal(i) ==
    /\ Running(i) /\ ~signalled[i]
    /\ Fault
    /\ signalled' = [signalled EXCEPT ![i] = TRUE]
    /\ UNCHANGED <<database, env, pc, seeded, code, requests>>

(* Shutdown may come before ListenAndServe, which then returns ErrServerClosed. *)
BeginShutdown(i) ==
    /\ pc[i] \in {"listen", "serving"} /\ signalled[i]
    /\ Goto(i, "draining")
    /\ UNCHANGED <<database, env, seeded, signalled, code, requests, faults>>

(* Variant: the server is closed, not shut down. *)
NeedNotWait(i) == TRUE

Drained(i) == Serving(i) = {}

(* Variant: serve waits for the listening goroutine, which says nothing of ErrServerClosed. *)
AwaitListener(i, result) ==
    /\ Goto(i, "draining")
    /\ UNCHANGED code

ReturnFromServe(i, result) == Return(i, result)

ShutdownDone(i) ==
    /\ pc[i] = "draining" /\ Drained(i)
    /\ ReturnFromServe(i, 0)
    /\ UNCHANGED <<database, env, seeded, signalled, requests, faults>>

(* shutdownTimeout passes while a request is in progress. *)
ShutdownTimesOut(i) ==
    /\ pc[i] = "draining" /\ Serving(i) # {}
    /\ ReturnFromServe(i, 1)
    /\ UNCHANGED <<database, env, seeded, signalled, requests, faults>>

(* The process is gone, and with it what it was doing. *)
End(i) ==
    /\ Goto(i, "down")
    /\ signalled' = [signalled EXCEPT ![i] = FALSE]
    /\ code' = [code EXCEPT ![i] = 0]
    /\ Over(Serving(i))
    /\ UNCHANGED <<database, env, seeded>>

ConnectionsReturned(i) == \A r \in Serving(i) : st[r] # "tx"

(* pool.Close returns when every connection is back; then the process exits. *)
Exit(i) ==
    /\ pc[i] = "closing" /\ ConnectionsReturned(i)
    /\ End(i)
    /\ UNCHANGED faults

(* The process is killed: the server rolls back its transactions. *)
Crash(i) ==
    /\ Running(i)
    /\ Fault
    /\ End(i)

-----------------------------------------------------------------------------
(* Requests *)

Move(r, where) == st' = [st EXCEPT ![r] = where]

Receive(r) ==
    /\ st[r] = "idle"
    /\ \E i \in Processes, p \in Products :
          /\ pc[i] = "serving"
          /\ at' = [at EXCEPT ![r] = i]
          /\ wants' = [wants EXCEPT ![r] = p]
    /\ Move(r, "handler")
    /\ UNCHANGED <<database, env, process, faults>>

(* A pool that is being closed gives no connection. *)
BeginTx(r) ==
    /\ st[r] = "handler"
    /\ Move(r, IF up /\ pc[at[r]] # "closing" THEN "tx" ELSE "refused")
    /\ UNCHANGED <<database, env, process, at, wants, faults>>

InStock(p) == stock[p] > 0

Commit(r) ==
    LET p == wants[r] IN
    /\ st[r] = "tx" /\ up
    /\ InStock(p)
    /\ stock' = [stock EXCEPT ![p] = @ - 1]
    /\ placed' = placed \cup {<<r, p>>}
    /\ Move(r, "committed")
    /\ UNCHANGED <<up, schema, env, process, at, wants, faults>>

(* No stock, no such product, or any error or panic of the handler, which WithinTx and Recover
   turn into a rollback and an answer. *)
Rollback(r) ==
    /\ st[r] = "tx"
    /\ Move(r, "refused")
    /\ UNCHANGED <<database, env, process, at, wants, faults>>

(* The handler returns.  Its answer may still be lost: the client is gone, or writeTimeout has
   passed; the server does not care. *)
Answer(r) ==
    /\ st[r] \in {"committed", "refused"}
    /\ Over({r})
    /\ UNCHANGED <<database, env, process, faults>>

-----------------------------------------------------------------------------
(* The database *)

DatabaseFails ==
    /\ up
    /\ Fault
    /\ up' = FALSE
    /\ st' = [r \in Requests |-> IF st[r] = "tx" THEN "refused" ELSE st[r]]
    /\ UNCHANGED <<schema, stock, placed, env, process, at, wants>>

DatabaseRecovers ==
    /\ ~up
    /\ up' = TRUE
    /\ UNCHANGED <<schema, stock, placed, env, process, requests, faults>>

-----------------------------------------------------------------------------
(* Specification *)

(* The steps the program takes of its own accord. *)
Run(i) ==
    \/ Configure(i)
    \/ CheckVersion(i)
    \/ CreateVersionTable(i)
    \/ ApplyMigration(i)
    \/ SeedRow(i)
    \/ Build(i)
    \/ Listen(i)
    \/ BeginShutdown(i)
    \/ ShutdownDone(i)
    \/ ShutdownTimesOut(i)
    \/ Exit(i)

Serve(r) ==
    \/ BeginTx(r)
    \/ Commit(r)
    \/ Rollback(r)
    \/ Answer(r)

Next ==
    \/ \E i \in Processes : Start(i) \/ Run(i) \/ ListenAndServeFails(i) \/ Signal(i) \/ Crash(i)
    \/ \E r \in Requests : Receive(r) \/ Serve(r)
    \/ DatabaseFails
    \/ DatabaseRecovers

(* The main goroutine and the handlers run; a process that ends is started again
   (docker-compose.yml: restart: unless-stopped), the database too. *)
Fairness ==
    /\ \A i \in Processes : WF_vars(Run(i)) /\ WF_vars(Start(i))
    /\ \A r \in Requests : WF_vars(Serve(r))
    /\ WF_vars(DatabaseRecovers)

Safety == Init /\ [][Next]_vars
Spec == Safety /\ Fairness

-----------------------------------------------------------------------------
(* Properties *)

TypeOK ==
    /\ up \in BOOLEAN
    /\ schema \in {"none", "versioned", "migrated"}
    /\ stock \in [Products -> {NoRow} \cup Nat]
    /\ \A p \in Products : stock[p] <= SeedStock[p]
    /\ placed \subseteq Requests \X Products
    /\ env \in [Processes -> Environment]
    /\ \A i \in Processes : env[i] \in Environments[i]
    /\ pc \in [Processes -> {"down", "configure", "migrate", "create", "upgrade", "seed",
                             "build", "listen", "serving", "draining", "closing"}]
    /\ seeded \in [Processes -> 0..Len(SeedStock)]
    /\ signalled \in [Processes -> BOOLEAN]
    /\ code \in [Processes -> {0, 1}]
    /\ st \in [Requests -> InProgress \cup {"idle", "over"}]
    /\ at \in [Requests -> Processes \cup {None}]
    /\ wants \in [Requests -> Products \cup {None}]
    /\ faults \in 0..MaxFaults

ValidEnvironment(i) == env[i].databaseURL = "set" /\ env[i].secret = "strong"

(* A process that serves has a valid configuration, the whole schema and, if it seeds, the whole
   seed, whatever crash, signal or rival process interrupted the start-ups before
   (main.go:50-71; openspec/changes/composition, "Startup wiring"). *)
ServesOnlyWhenReady ==
    \A i \in Processes : pc[i] \in {"serving", "draining"} =>
        /\ ValidEnvironment(i)
        /\ schema = "migrated"
        /\ SeedsProducts(i) => \A p \in Products : stock[p] # NoRow

(* However often processes start, one beside the other, the seed puts each product's stock into
   the database once: what is there and what was sold add up to it (seed.go:21-31). *)
NeverRestocked ==
    \A p \in Products :
        LET sold == {order \in placed : order[2] = p} IN
        IF stock[p] = NoRow THEN sold = {} ELSE stock[p] + Cardinality(sold) = SeedStock[p]

(* run returns a result and the process ends; a crash is no such step. *)
Exits(i, result) ==
    pc[i] = "closing" /\ code[i] = result /\ pc'[i] = "down" /\ faults' = faults

(* A process that exits with success has answered every request it accepted (main.go:131-135). *)
CleanExitDropsNothing == [][\A i \in Processes : Exits(i, 0) => Serving(i) = {}]_vars

(* A process that is told to stop does, wherever it is: migrating, seeding, not yet listening,
   or with transactions open. *)
SignalStopsProcess == \A i \in Processes : signalled[i] ~> pc[i] = "down"

(* Once faults cease every well configured process serves for good: no crash or lost race
   of a start-up leaves the database in a state that a later start-up cannot complete. *)
RecoversFromFaults ==
    \A i \in Processes : ValidEnvironment(i) => <>[](pc[i] = "serving")

=============================================================================
