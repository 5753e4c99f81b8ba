------------------------ MODULE OptimizerCacheProofs ------------------------
(***************************************************************************)
(* What holds of the cache for every number of workers, price classes,     *)
(* keys, runs and every combination of faults.                             *)
(***************************************************************************)
EXTENDS OptimizerCache, TLAPS

-----------------------------------------------------------------------------
(* The statements map tables to tables.                                    *)

(* After the upsert of a facility the SELECT finds the id of a row of a    *)
(* place that is near enough.                                              *)
LEMMA FacilityFound ==
  ASSUME NEW db \in Tables, NEW key \in Keys
  PROVE  /\ WithFacility(db, key) \in Tables
         /\ \A id \in IdsOf(WithFacility(db, key), key) :
              /\ id \in Nat \ {0}
              /\ \E f \in WithFacility(db, key).facility :
                   f.id = id /\ <<key, f.key>> \in Near
<1> DEFINE new == [id |-> db.seq + 1, key |-> key]
           db2 == WithFacility(db, key)
<1>1. db2 \in Tables
  <2>1. CASE Has(db, key)
    BY <2>1 DEF WithFacility
  <2>2. CASE ~Has(db, key)
    <3>1. new \in [id : Nat \ {0}, key : Keys]
      BY DEF Tables
    <3>2. db2 = [db EXCEPT !.seq = @ + 1, !.facility = @ \cup {new}]
      BY <2>2 DEF WithFacility
    <3>3. /\ db.seq + 1 \in Nat
          /\ db.facility \cup {new} \in SUBSET [id : Nat \ {0}, key : Keys]
      BY <3>1 DEF Tables
    <3> HIDE DEF new
    <3>4. QED BY <3>2, <3>3 DEF Tables
  <2>3. QED BY <2>1, <2>2
<1>2. \A id \in IdsOf(db2, key) :
        \E f \in db2.facility : f.id = id /\ <<key, f.key>> \in Near
  BY DEF IdsOf
<1>3. \A id \in IdsOf(db2, key) : id \in Nat \ {0}
  BY <1>1, <1>2 DEF Tables
<1>4. QED BY <1>1, <1>2, <1>3

LEMMA WeatherTyped ==
  ASSUME NEW db \in Tables, NEW id \in Nat \ {0}, NEW times \in SUBSET Nat,
         NEW v \in Values
  PROVE  WithWeather(db, id, times, v) \in Tables
BY DEF WithWeather, Tables

LEMMA SpotsTyped ==
  ASSUME NEW db \in Tables, NEW class \in Classes, NEW t \in Nat
  PROVE  WithSpots(db, class, t) \in Tables
BY DEF WithSpots, Tables

LEMMA PrunedTyped ==
  ASSUME NEW db \in Tables, NEW statement \in {1, 2, 3}, NEW now \in Nat
  PROVE  Pruned(db, statement, now) \in Tables
BY DEF Pruned, Tables

LEMMA NoRowsTyped == NoRows \in Tables
BY DEF NoRows, Tables

LEMMA TimesTyped ==
  ASSUME NEW k, run \in Nat
  PROVE  Times(k) \in SUBSET Nat /\ Day \in Nat
BY SqlAssumption, RunAssumption DEF Times, Day

-----------------------------------------------------------------------------
(* Type correctness.                                                       *)

(* What a worker knows where it is, which the types rest on.               *)
TaskInv ==
  \A w \in Workers :
    /\ worker[w].pc # "idle" => worker[w].task \in Tasks
    /\ worker[w].pc = "check" => worker[w].task \in Classes
    /\ worker[w].pc = "lookup" => worker[w].task \in Keys
    /\ worker[w].pc = "insert" /\ worker[w].task \in Keys => worker[w].id # 0

TypeInv == TypeOK /\ TaskInv

LEMMA TypeInit == Init => TypeInv
<1> SUFFICES ASSUME Init PROVE TypeInv
  OBVIOUS
<1> USE DEF Init
<1>1. /\ disk \in Tables
      /\ view \in Tables
      /\ txn = "none"
      /\ refused \in BOOLEAN
      /\ leaked \in BOOLEAN
      /\ mutex = NoWorker
      /\ reader = "idle"
  BY NoRowsTyped DEF SqlInit
<1>2. worker \in [Workers -> WorkerStates] /\ \A w \in Workers : worker[w].pc = "idle"
  BY DEF Resting, WorkerStates, Tasks
<1>3. outcome \in [Tasks -> Outcomes]
  BY DEF Outcomes
<1>4. queue \subseteq Tasks /\ run \in Nat
  OBVIOUS
<1>5. \A w \in Workers : worker[w].pc \notin Sections /\ mutex # w
  BY <1>1, <1>2, SqlAssumption DEF Sections
<1>6. TypeOK
  BY <1>1, <1>2, <1>3, <1>4, <1>5 DEF TypeOK, StoreOK, SectionOK, Sections
<1>7. TaskInv
  BY <1>2 DEF TaskInv
<1>8. QED BY <1>6, <1>7 DEF TypeInv

(* What the steps of one worker keep, whatever they do to the tables.      *)
LEMMA GoesToTyped ==
  ASSUME TypeOK, NEW w \in Workers, NEW pc \in Steps, NEW id \in Nat,
         GoesTo(w, pc, id)
  PROVE  /\ worker' \in [Workers -> WorkerStates]
         /\ worker'[w] = [worker[w] EXCEPT !.pc = pc, !.id = id]
         /\ \A u \in Workers \ {w} : worker'[u] = worker[u]
         /\ UNCHANGED <<reader, phase, run, queue, outcome>>
BY DEF GoesTo, TypeOK, WorkerStates

LEMMA EndsTyped ==
  ASSUME TypeOK, NEW w \in Workers, worker[w].task \in Tasks,
         NEW how \in {"cached", "unfetched", "lost", "stored", "unpruned"},
         Ends(w, how)
  PROVE  /\ worker' \in [Workers -> WorkerStates]
         /\ worker'[w] = Resting
         /\ \A u \in Workers \ {w} : worker'[u] = worker[u]
         /\ outcome' \in [Tasks -> Outcomes]
         /\ UNCHANGED <<reader, phase, run, queue>>
BY DEF Ends, TypeOK, Resting, WorkerStates, Outcomes

(* While nobody is in a section, no transaction is merely open.            *)
LEMMA NoneOutside ==
  ASSUME TypeInv, mutex = NoWorker
  PROVE  /\ txn # "open"
         /\ \A w \in Workers : worker[w].pc \notin Sections
BY SqlAssumption DEF TypeInv, TypeOK, SectionOK, Sections

(* A statement on its own outside of the transactions of the sections.     *)
LEMMA ExecutesTyped ==
  ASSUME TypeInv, NEW db \in Tables, NEW writes \in BOOLEAN, Executes(db, writes)
  PROVE  /\ StoreOK'
         /\ txn' = txn
BY DEF TypeInv, TypeOK, StoreOK, Executes

LEMMA RollsBackTyped ==
  ASSUME TypeInv, RollsBack
  PROVE  StoreOK' /\ txn' = "none"
BY DEF TypeInv, TypeOK, StoreOK, RollsBack

(* The steps that leave the workers alone.                                 *)
LEMMA TypeOthers ==
  ASSUME TypeInv,
         StartRun \/ StartRunFails \/ EndRun \/ CalcFails \/ Crash \/ Reads \/ Finished
  PROVE  TypeInv'
<1> USE DEF TypeInv, TypeOK
<1>1. CASE StartRun
  <2>1. queue' \subseteq Tasks
    BY <1>1, RunAssumption DEF StartRun, Tasks
  <2> QED BY <1>1, <2>1 DEF StartRun, store, StoreOK, SectionOK, TaskInv, Outcomes
<1>2. CASE StartRunFails
  BY <1>2 DEF StartRunFails, store, StoreOK, SectionOK, TaskInv, Outcomes
<1>3. CASE EndRun \/ CalcFails
  <2>1. \A w \in Workers : worker[w] = Resting
    BY <1>3 DEF EndRun, CalcFails, AllDone
  <2>2. \A w \in Workers : worker[w].pc # "commit"
    <3>1. Resting.pc = "idle"
      BY DEF Resting
    <3> QED BY <2>1, <3>1
  <2>3. /\ txn' = "none"
        /\ view' = disk
        /\ leaked' \in BOOLEAN
        /\ phase' = "idle"
        /\ UNCHANGED <<disk, refused, mutex, reader, run, queue, worker, outcome>>
    BY <1>3 DEF EndRun, CalcFails, Closes, RollsBack, StoreOK
  <2>4. StoreOK' /\ SectionOK'
    BY <2>2, <2>3 DEF StoreOK, SectionOK
  <2>5. QED BY <2>3, <2>4 DEF TaskInv
<1>4. CASE Crash
  <2>1. /\ worker' = [w \in Workers |-> Resting]
        /\ mutex' = NoWorker
        /\ txn' = "none"
    BY <1>4 DEF Crash
  <2>2. SectionOK'
    BY <2>1, SqlAssumption DEF SectionOK, Resting, Sections
  <2>3. worker' \in [Workers -> WorkerStates] /\ TaskInv'
    BY <2>1 DEF TaskInv, Resting, WorkerStates
  <2>4. StoreOK' /\ outcome' \in [Tasks -> Outcomes]
    BY <1>4 DEF Crash, StoreOK, Outcomes
  <2>5. QED BY <1>4, <2>2, <2>3, <2>4 DEF Crash
<1>5. CASE Reads
  BY <1>5 DEF Reads, StartRead, EndRead, pool, store, StoreOK, SectionOK, TaskInv
<1>6. CASE Finished
  BY <1>6 DEF Finished, vars, pool, store, StoreOK, SectionOK, TaskInv
<1>7. QED BY <1>1, <1>2, <1>3, <1>4, <1>5, <1>6

(* The steps of a worker outside of the locked sections.                   *)
LEMMA TypeOutside ==
  ASSUME TypeInv, NEW w \in Workers,
         \/ Take(w) \/ Check(w) \/ Fetch(w) \/ FetchFails(w) \/ Lookup(w)
         \/ LookupBusy(w) \/ InsertWeatherFails(w)
  PROVE  TypeInv'
<1>0. TypeOK /\ TaskInv
  BY DEF TypeInv
<1>a. /\ StoreOK
      /\ SectionOK
      /\ run \in Nat
      /\ queue \subseteq Tasks
      /\ worker \in [Workers -> WorkerStates]
  BY <1>0 DEF TypeOK
<1> DEFINE Elsewhere == /\ worker[w].pc \notin Sections
                        /\ worker'[w].pc \notin Sections
                        /\ \A u \in Workers \ {w} : worker'[u] = worker[u]
<1>1. ASSUME Elsewhere, StoreOK', UNCHANGED mutex,
             txn' = txn \/ (mutex = NoWorker /\ txn' = "none")
      PROVE  SectionOK'
  BY <1>1, <1>a, NoneOutside DEF SectionOK, Sections
<1>2. CASE Take(w)
  <2>1. PICK k \in queue :
          /\ queue' = queue \ {k}
          /\ worker' = [worker EXCEPT ![w] =
               [pc |-> IF k \in Classes THEN "check" ELSE "fetch", task |-> k, id |-> 0]]
    BY <1>2 DEF Take
  <2>2. worker' \in [Workers -> WorkerStates] /\ TaskInv'
    BY <1>0, <1>a, <2>1 DEF WorkerStates, Steps, TaskInv, Tasks
  <2>3. Elsewhere
    BY <1>2, <2>1 DEF Take, At, Sections
  <2>4. StoreOK' /\ txn' = txn /\ mutex' = mutex
    BY <1>0, <1>a, <1>2 DEF Take, store, StoreOK
  <2>5. SectionOK'
    BY <1>1, <2>3, <2>4
  <2>6. QED BY <1>0, <1>2, <2>1, <2>2, <2>4, <2>5 DEF Take, TypeInv, TypeOK
<1>3. CASE Check(w)
  <2>1. worker[w].pc = "check" /\ worker[w].task \in Classes
    BY <1>0, <1>a, <1>3 DEF Check, At, TaskInv
  <2>2. StoreOK' /\ txn' = txn /\ mutex' = mutex
    BY <1>0, <1>a, <1>3 DEF Check, store, StoreOK
  <2>3. CASE Ends(w, "cached")
    <3>1. Elsewhere /\ TaskInv'
      BY <1>0, <1>a, <2>1, <2>3, EndsTyped DEF Sections, Resting, TaskInv, Tasks
    <3>2. QED BY <1>0, <1>1, <2>1, <2>2, <2>3, <3>1, EndsTyped DEF Tasks, TypeInv, TypeOK
  <2>4. CASE GoesTo(w, "fetch", 0)
    <3>1. /\ worker'[w] = [worker[w] EXCEPT !.pc = "fetch", !.id = 0]
          /\ \A u \in Workers \ {w} : worker'[u] = worker[u]
      <4>1. "fetch" \in Steps /\ 0 \in Nat
        BY DEF Steps
      <4>2. QED BY ZenonT(60), <1>0, <2>4, <4>1, GoesToTyped
    <3>2. worker'[w].pc = "fetch" /\ worker'[w].task = worker[w].task
      BY <1>a, <3>1 DEF WorkerStates
    <3>3. Elsewhere
      BY <2>1, <3>1, <3>2 DEF Sections
    <3>4. TaskInv'
      BY <1>0, <2>1, <3>1, <3>2 DEF TaskInv, Tasks
    <3>5. QED BY <1>0, <1>1, <2>2, <2>4, <3>3, <3>4, GoesToTyped DEF Steps, TypeInv, TypeOK
  <2>5. QED BY <1>3, <2>3, <2>4 DEF Check
<1>4. CASE Fetch(w)
  <2>1. worker[w].pc = "fetch" /\ worker[w].task \in Tasks
    BY <1>0, <1>a, <1>4 DEF Fetch, At, TaskInv
  <2>2. StoreOK' /\ txn' = txn /\ mutex' = mutex
    BY <1>0, <1>a, <1>4 DEF Fetch, store, StoreOK
  <2>3. PICK pc \in {"insert", "lookup"} :
          GoesTo(w, pc, 0) /\ (pc = "insert" <=> worker[w].task \in Classes)
    BY <1>4 DEF Fetch
  <2>4. /\ worker'[w] = [worker[w] EXCEPT !.pc = pc, !.id = 0]
        /\ \A u \in Workers \ {w} : worker'[u] = worker[u]
    <3>1. pc \in Steps /\ 0 \in Nat
      BY <2>3 DEF Steps
    <3>2. QED BY ZenonT(60), <1>0, <2>3, <3>1, GoesToTyped
  <2>5. worker'[w].pc = pc /\ worker'[w].task = worker[w].task
    BY <1>a, <2>4 DEF WorkerStates
  <2>6. Elsewhere
    BY <2>1, <2>4, <2>5 DEF Sections
  <2>7. TaskInv'
    <3>1. Classes \cap Keys = {}
      BY SqlAssumption
    <3>2. \A u \in Workers \ {w} : worker'[u] = worker[u]
      BY <2>4
    <3> QED BY <1>0, <2>1, <2>3, <2>5, <3>1, <3>2 DEF TaskInv, Tasks
  <2>8. QED BY <1>0, <1>1, <2>2, <2>3, <2>6, <2>7, GoesToTyped DEF Steps, TypeInv, TypeOK
<1>5. CASE FetchFails(w)
  <2>1. worker[w].pc = "fetch" /\ worker[w].task \in Tasks
    BY <1>0, <1>a, <1>5 DEF FetchFails, At, TaskInv
  <2>2. StoreOK' /\ txn' = txn /\ mutex' = mutex /\ Ends(w, "unfetched")
    BY <1>0, <1>a, <1>5 DEF FetchFails, store, StoreOK
  <2>3. Elsewhere /\ TaskInv'
    BY <1>0, <1>a, <2>1, <2>2, EndsTyped DEF Sections, Resting, TaskInv
  <2>4. QED BY <1>0, <1>1, <2>1, <2>2, <2>3, EndsTyped DEF TypeInv, TypeOK
<1>6. CASE Lookup(w)
  <2>1. worker[w].pc = "lookup" /\ worker[w].task \in Keys
    BY <1>0, <1>a, <1>6 DEF Lookup, At, TaskInv
  <2> DEFINE db == WithFacility(view, worker[w].task)
  <2>0. PICK id \in IdsOf(db, worker[w].task) : GoesTo(w, "insert", id)
    BY <1>6 DEF Lookup
  <2>2. db \in Tables /\ id \in Nat \ {0}
    BY <1>0, <1>a, <2>1, FacilityFound DEF StoreOK
  <2>3. Executes(db, TRUE) /\ GoesTo(w, "insert", id) /\ mutex' = mutex
    BY <1>6, <2>0 DEF Lookup
  <2>4. StoreOK' /\ txn' = txn
    BY <2>2, <2>3, ExecutesTyped
  <2> HIDE DEF db
  <2>5. /\ worker'[w] = [worker[w] EXCEPT !.pc = "insert", !.id = id]
        /\ \A u \in Workers \ {w} : worker'[u] = worker[u]
    <3>1. "insert" \in Steps /\ id \in Nat
      BY <2>2 DEF Steps
    <3>2. QED BY ZenonT(60), <1>0, <2>3, <3>1, GoesToTyped
  <2>6. /\ worker'[w].pc = "insert"
        /\ worker'[w].task = worker[w].task
        /\ worker'[w].id # 0
    BY <1>a, <2>2, <2>5 DEF WorkerStates
  <2>7. Elsewhere
    BY <2>1, <2>5, <2>6 DEF Sections
  <2>8. TaskInv'
    BY <1>0, <2>1, <2>5, <2>6 DEF TaskInv, Tasks
  <2>9. QED BY <1>0, <1>1, <2>2, <2>3, <2>4, <2>7, <2>8, GoesToTyped DEF Steps, TypeInv, TypeOK
<1>7. CASE LookupBusy(w)
  <2>1. worker[w].pc = "lookup" /\ worker[w].task \in Tasks
    BY <1>0, <1>a, <1>7 DEF LookupBusy, At, TaskInv
  <2>2. StoreOK' /\ txn' = txn /\ mutex' = mutex /\ Ends(w, "lost")
    BY <1>0, <1>a, <1>7 DEF LookupBusy, Busy, store, StoreOK
  <2>3. Elsewhere /\ TaskInv'
    BY <1>0, <1>a, <2>1, <2>2, EndsTyped DEF Sections, Resting, TaskInv
  <2>4. QED BY <1>0, <1>1, <2>1, <2>2, <2>3, EndsTyped DEF TypeInv, TypeOK
<1>8. CASE InsertWeatherFails(w)
  <2>1. worker[w].pc = "insert" /\ worker[w].task \in Tasks /\ mutex = NoWorker
    BY <1>0, <1>a, <1>8 DEF InsertWeatherFails, At, TaskInv
  <2>2. StoreOK' /\ txn' = "none" /\ mutex' = mutex /\ Ends(w, "lost")
    BY <1>8, RollsBackTyped DEF InsertWeatherFails
  <2>3. Elsewhere /\ TaskInv'
    BY <1>0, <1>a, <2>1, <2>2, EndsTyped DEF Sections, Resting, TaskInv
  <2>4. QED BY <1>0, <1>1, <2>1, <2>2, <2>3, EndsTyped DEF TypeInv, TypeOK
<1>9. QED BY <1>2, <1>3, <1>4, <1>5, <1>6, <1>7, <1>8

(* The steps of a worker into, in and out of the locked sections.          *)
LEMMA TypeInside ==
  ASSUME TypeInv, NEW w \in Workers,
         InsertSpots(w) \/ InsertWeather(w) \/ Commit(w) \/ Prunes(w)
  PROVE  TypeInv'
<1>0. TypeOK /\ TaskInv
  BY DEF TypeInv
<1>a. /\ StoreOK
      /\ SectionOK
      /\ run \in Nat
      /\ queue \subseteq Tasks
      /\ worker \in [Workers -> WorkerStates]
  BY <1>0 DEF TypeOK
<1>1. ASSUME NEW pc \in Steps, NEW id \in Nat, GoesTo(w, pc, id), mutex' = w,
             worker[w].pc # "idle", pc \in Sections,
             mutex = NoWorker \/ worker[w].pc \in Sections,
             pc = "commit" => txn' # "none",
             pc # "commit" => txn' # "open",
             StoreOK'
      PROVE  TypeInv'
  <2>1. /\ worker'[w] = [worker[w] EXCEPT !.pc = pc, !.id = id]
        /\ \A u \in Workers \ {w} : worker'[u] = worker[u]
    <3>1. pc \in Steps /\ id \in Nat /\ GoesTo(w, pc, id)
      BY <1>1
    <3>2. QED BY ZenonT(60), <1>0, <3>1, GoesToTyped
  <2>2. worker'[w].pc = pc /\ worker'[w].task = worker[w].task
    BY <1>a, <2>1 DEF WorkerStates
  <2>3. \A u \in Workers \ {w} : worker[u].pc \notin Sections
    BY <1>a, <1>1, SqlAssumption DEF SectionOK
  <2>4. SectionOK'
    BY <1>1, <2>1, <2>2, <2>3 DEF SectionOK, Sections
  <2>5. TaskInv'
    BY <1>0, <1>1, <2>1, <2>2 DEF TaskInv, Sections
  <2>6. QED BY <1>0, <1>1, <2>4, <2>5, GoesToTyped DEF TypeInv, TypeOK
<1>2. ASSUME NEW how \in Outcomes \ {"none"}, Ends(w, how), mutex' = NoWorker,
             worker[w].pc \in Sections, txn' # "open", StoreOK'
      PROVE  TypeInv'
  <2>1. worker[w].task \in Tasks
    BY <1>0, <1>2 DEF TaskInv, Sections
  <2>2. /\ worker'[w] = Resting
        /\ \A u \in Workers \ {w} : worker'[u] = worker[u]
    BY <1>0, <1>2, <2>1, EndsTyped DEF Outcomes
  <2>3. \A u \in Workers \ {w} : worker[u].pc \notin Sections
    BY <1>a, <1>2, SqlAssumption DEF SectionOK
  <2>4. SectionOK'
    BY <1>2, <2>2, <2>3, SqlAssumption DEF SectionOK, Sections, Resting
  <2>5. TaskInv'
    BY <1>0, <2>2 DEF TaskInv, Resting
  <2>6. QED BY <1>0, <1>2, <2>1, <2>4, <2>5, EndsTyped DEF TypeInv, TypeOK, Outcomes
<1>3. ASSUME NEW db \in Tables, Begins(db), mutex = NoWorker
      PROVE  StoreOK' /\ txn' # "none"
  BY <1>a, <1>3 DEF Begins, StoreOK
<1>4. CASE InsertSpots(w)
  <2>1. worker[w].pc = "insert" /\ worker[w].task \in Classes /\ mutex = NoWorker
    BY <1>4 DEF InsertSpots, At
  <2>2. Begins(WithSpots(view, worker[w].task, Day)) /\ mutex' = w /\ GoesTo(w, "commit", 0)
    BY <1>4 DEF InsertSpots
  <2>3. StoreOK' /\ txn' # "none"
    BY <1>a, <1>3, <2>1, <2>2, SpotsTyped, TimesTyped DEF StoreOK
  <2>4. QED BY <1>1, <2>1, <2>2, <2>3 DEF Steps, Sections
<1>5. CASE InsertWeather(w)
  <2> DEFINE id == worker[w].id
             v == [key |-> worker[w].task, run |-> run]
  <2>1. /\ worker[w].pc = "insert"
        /\ worker[w].task \in Keys
        /\ mutex = NoWorker
        /\ id \in Nat \ {0}
    BY <1>0, <1>a, <1>5 DEF InsertWeather, At, TaskInv, WorkerStates
  <2>2. /\ Begins(WithWeather(view, id, Times(worker[w].task), v))
        /\ mutex' = w
        /\ GoesTo(w, "commit", id)
    BY <1>5 DEF InsertWeather
  <2>3. v \in Values
    BY <1>a, <2>1 DEF Values
  <2>4. WithWeather(view, id, Times(worker[w].task), v) \in Tables
    BY <1>a, <2>1, <2>3, WeatherTyped, TimesTyped DEF StoreOK
  <2>5. StoreOK' /\ txn' # "none"
    BY <1>3, <2>1, <2>2, <2>4
  <2>6. QED BY <1>1, <2>1, <2>2, <2>5 DEF Steps, Sections
<1>6. CASE Commit(w)
  <2>1. worker[w].pc = "commit" /\ mutex = w /\ mutex' = mutex
    BY <1>6, <1>a DEF Commit, At, SectionOK, Sections
  <2>2. StoreOK' /\ txn' # "open" /\ GoesTo(w, "prune1", worker[w].id)
    BY <1>6, <1>a DEF Commit, Commits, StoreOK
  <2>3. worker[w].id \in Nat
    BY <1>a DEF WorkerStates
  <2>4. QED BY <1>1, <2>1, <2>2, <2>3 DEF Steps, Sections
<1>7. ASSUME NEW i \in {1, 2, 3}, NEW pc \in {"prune1", "prune2", "prune3"},
             NEW next \in {"prune2", "prune3", "idle"}, Prune(w, i, pc, next)
      PROVE  TypeInv'
  <2> DEFINE db == Pruned(view, i, run)
  <2>1. /\ worker[w].pc = pc
        /\ worker[w].pc \in Sections
        /\ worker[w].id \in Nat
        /\ mutex = w
        /\ txn # "open"
    BY <1>7, <1>a DEF Prune, At, SectionOK, Sections, WorkerStates
  <2>2. db \in Tables
    BY <1>a, PrunedTyped DEF StoreOK
  <2>3. CASE Executes(db, db # view) /\ next = "idle" /\ Ends(w, "stored") /\ mutex' = NoWorker
    <3>1. StoreOK' /\ txn' = txn
      BY <2>2, <2>3, ExecutesTyped
    <3>2. QED BY <1>2, <2>1, <2>3, <3>1 DEF Outcomes
  <2>4. CASE Executes(db, db # view) /\ next # "idle" /\ GoesTo(w, next, worker[w].id)
               /\ UNCHANGED mutex
    <3>1. StoreOK' /\ txn' = txn
      BY <2>2, <2>4, ExecutesTyped
    <3>2. QED BY <1>1, <2>1, <2>4, <3>1 DEF Steps, Sections
  <2>5. CASE Busy(db # view) /\ Ends(w, "unpruned") /\ mutex' = NoWorker
    <3>1. StoreOK' /\ txn' = txn
      BY <1>a, <2>5 DEF Busy, store, StoreOK
    <3>2. QED BY <1>2, <2>1, <2>5, <3>1 DEF Outcomes
  <2>6. QED BY <1>7, <2>3, <2>4, <2>5 DEF Prune
<1>8. CASE Prunes(w)
  BY <1>7, <1>8 DEF Prunes
<1>9. QED BY <1>4, <1>5, <1>6, <1>8

LEMMA TypeStep == TypeInv /\ [Next]_vars => TypeInv'
<1> SUFFICES ASSUME TypeInv, [Next]_vars PROVE TypeInv'
  OBVIOUS
<1>1. CASE \E w \in Workers : WorkerStep(w)
  BY <1>1, TypeOutside, TypeInside DEF WorkerStep
<1>2. CASE Next /\ ~ \E w \in Workers : WorkerStep(w)
  BY <1>2, TypeOthers DEF Next
<1>3. CASE UNCHANGED vars
  BY <1>3 DEF vars, pool, store, TypeInv, TypeOK, StoreOK, SectionOK, TaskInv
<1>4. QED BY <1>1, <1>2, <1>3

(* Type correctness: the variables hold values of their kind and the mutex *)
(* is held exactly by the worker in a locked section.                      *)
THEOREM TypeCorrect == Spec => []TypeOK
<1>1. Init => TypeInv
  BY TypeInit
<1>2. TypeInv /\ [Next]_vars => TypeInv'
  BY TypeStep
<1>3. TypeInv => TypeOK
  BY DEF TypeInv
<1>4. QED BY <1>1, <1>2, <1>3, PTL DEF Spec

-----------------------------------------------------------------------------
(* The tables stay consistent.  What TablesConsistent says of the tables   *)
(* needs, to be kept, that AUTOINCREMENT counts past every id.             *)

Consistent(db) ==
  /\ \A f \in db.facility : f.id <= db.seq
  /\ \A f, g \in db.facility : f.key = g.key \/ f.id = g.id => f = g
  /\ \A x \in db.weather : \E f \in db.facility : f.id = x.id

ConsistentInv == Consistent(disk) /\ Consistent(view)

LEMMA NoRowsConsistent == Consistent(NoRows)
BY DEF Consistent, NoRows

(* A new facility gets an id that no facility has.                         *)
LEMMA FacilityConsistent ==
  ASSUME NEW db \in Tables, NEW key \in Keys, Consistent(db)
  PROVE  Consistent(WithFacility(db, key))
<1> DEFINE new == [id |-> db.seq + 1, key |-> key]
           db2 == WithFacility(db, key)
<1>1. CASE Has(db, key)
  BY <1>1 DEF WithFacility
<1>2. CASE ~Has(db, key)
  <2>1. /\ db2.facility = db.facility \cup {new}
        /\ db2.weather = db.weather
        /\ db2.seq = db.seq + 1
    BY <1>2 DEF WithFacility, Tables
  <2>2. /\ db.seq \in Nat
        /\ \A f \in db.facility : f.id \in Nat /\ f.id <= db.seq /\ f.key # key
    BY <1>2 DEF Tables, Consistent, Has
  <2>3. new.id = db.seq + 1 /\ new.key = key
    OBVIOUS
  <2> HIDE DEF new, db2
  <2>4. \A f \in db2.facility : f.id <= db2.seq
    BY <2>1, <2>2, <2>3
  <2>5. \A f, g \in db2.facility : f.key = g.key \/ f.id = g.id => f = g
    <3> SUFFICES ASSUME NEW f \in db2.facility, NEW g \in db2.facility,
                        f.key = g.key \/ f.id = g.id
                 PROVE  f = g
      OBVIOUS
    <3>1. CASE f \in db.facility /\ g \in db.facility
      BY <3>1 DEF Consistent
    <3>2. CASE f = new /\ g \in db.facility
      BY <3>2, <2>2, <2>3
    <3>3. CASE f \in db.facility /\ g = new
      BY <3>3, <2>2, <2>3
    <3>4. QED BY <3>1, <3>2, <3>3, <2>1
  <2>6. \A x \in db2.weather : \E f \in db2.facility : f.id = x.id
    BY <2>1 DEF Consistent
  <2>7. Consistent(db2)
    BY <2>4, <2>5, <2>6 DEF Consistent
  <2>8. QED BY <2>7 DEF db2
<1>3. QED BY <1>1, <1>2

(* Weather is only inserted for a facility that is there: its foreign key. *)
LEMMA WeatherConsistent ==
  ASSUME NEW db \in Tables, NEW id \in Nat \ {0}, NEW times \in SUBSET Nat,
         NEW v \in Values, Consistent(db), References(db, id)
  PROVE  Consistent(WithWeather(db, id, times, v))
<1> DEFINE rows == {[id |-> id, t |-> t, v |-> v] : t \in times}
           db2 == WithWeather(db, id, times, v)
<1>1. /\ db2.facility = db.facility
      /\ db2.seq = db.seq
      /\ db2.weather \subseteq db.weather \cup rows
  BY DEF WithWeather, Tables
<1>2. \A x \in rows : x.id = id
  OBVIOUS
<1>3. \E f \in db.facility : f.id = id
  BY DEF References
<1> HIDE DEF rows
<1>4. \A x \in db2.weather : \E f \in db2.facility : f.id = x.id
  BY <1>1, <1>2, <1>3 DEF Consistent
<1>5. QED BY <1>1, <1>4 DEF Consistent

LEMMA SpotsConsistent ==
  ASSUME NEW db \in Tables, NEW class, NEW t, Consistent(db)
  PROVE  Consistent(WithSpots(db, class, t))
<1>1. /\ WithSpots(db, class, t).facility = db.facility
      /\ WithSpots(db, class, t).weather = db.weather
      /\ WithSpots(db, class, t).seq = db.seq
  BY DEF WithSpots, Tables
<1>2. QED BY <1>1 DEF Consistent

(* A facility is only pruned when no weather is left of it.                *)
LEMMA PrunedConsistent ==
  ASSUME NEW db \in Tables, NEW statement \in {1, 2, 3}, NEW now, Consistent(db)
  PROVE  Consistent(Pruned(db, statement, now))
<1> DEFINE db2 == Pruned(db, statement, now)
<1>1. CASE statement \in {1, 2}
  <2>1. /\ db2.facility = db.facility
        /\ db2.weather \subseteq db.weather
        /\ db2.seq = db.seq
    BY <1>1 DEF Pruned, Tables
  <2>2. QED BY <2>1 DEF Consistent
<1>2. CASE statement = 3
  <2>1. /\ db2.facility = {f \in db.facility : \E x \in db.weather : x.id = f.id}
        /\ db2.weather = db.weather
        /\ db2.seq = db.seq
    BY <1>2 DEF Pruned, Tables
  <2>2. QED BY <2>1 DEF Consistent
<1>3. QED BY <1>1, <1>2

(* What a step does to the tables: they only change by the statements.     *)
LEMMA ConsistentStep ==
  ASSUME TypeInv, ConsistentInv, [Next]_vars
  PROVE  ConsistentInv'
<1>0. /\ disk \in Tables
      /\ view \in Tables
      /\ run \in Nat
      /\ worker \in [Workers -> WorkerStates]
      /\ TaskInv
  BY DEF TypeInv, TypeOK, StoreOK
<1>1. ASSUME disk' \in {disk, view}, view' \in {disk, view}
      PROVE  ConsistentInv'
  BY <1>1 DEF ConsistentInv, Consistent
<1>2. ASSUME NEW db, Consistent(db), view' = db, disk' \in {disk, db}
      PROVE  ConsistentInv'
  BY <1>2 DEF ConsistentInv, Consistent
<1>3. CASE UNCHANGED vars
  BY <1>1, <1>3 DEF vars, store
<1>4. CASE StartRun \/ StartRunFails \/ Reads \/ Finished
  BY <1>1, <1>4
     DEF StartRun, StartRunFails, Reads, StartRead, EndRead, Finished, vars, store
<1>5. CASE EndRun \/ CalcFails \/ Crash
  BY <1>1, <1>5 DEF EndRun, Closes, RollsBack, CalcFails, Crash
<1>6. ASSUME NEW w \in Workers, WorkerStep(w)
      PROVE  ConsistentInv'
  <2>1. CASE Take(w) \/ Check(w) \/ Fetch(w) \/ FetchFails(w) \/ LookupBusy(w)
    BY <1>1, <2>1 DEF Take, Check, Fetch, FetchFails, LookupBusy, Busy, store
  <2>2. CASE Lookup(w)
    <3> DEFINE db == WithFacility(view, worker[w].task)
    <3>1. worker[w].task \in Keys
      BY <1>0, <2>2 DEF Lookup, At, TaskInv
    <3>2. Consistent(db)
      BY <1>0, <3>1, FacilityConsistent DEF ConsistentInv
    <3>3. Executes(db, TRUE)
      BY <2>2 DEF Lookup
    <3> HIDE DEF db
    <3>4. QED BY <1>2, <3>2, <3>3 DEF Executes
  <2>3. CASE InsertSpots(w)
    <3> DEFINE db == WithSpots(view, worker[w].task, Day)
    <3>1. Consistent(db) /\ Begins(db)
      BY <1>0, <2>3, SpotsConsistent DEF ConsistentInv, InsertSpots
    <3> HIDE DEF db
    <3>2. QED BY <1>2, <3>1 DEF Begins
  <2>4. CASE InsertWeather(w)
    <3> DEFINE v == [key |-> worker[w].task, run |-> run]
               db == WithWeather(view, worker[w].id, Times(worker[w].task), v)
    <3>1. worker[w].task \in Keys /\ worker[w].id \in Nat \ {0}
      BY <1>0, <2>4 DEF InsertWeather, At, TaskInv, WorkerStates
    <3>2. v \in Values /\ Times(worker[w].task) \in SUBSET Nat
      BY <1>0, <3>1, TimesTyped DEF Values
    <3>3. References(view, worker[w].id) /\ Begins(db)
      BY <2>4 DEF InsertWeather
    <3> HIDE DEF v
    <3>4. Consistent(db)
      BY <1>0, <3>1, <3>2, <3>3, WeatherConsistent DEF ConsistentInv
    <3> HIDE DEF db
    <3>5. QED BY <1>2, <3>3, <3>4 DEF Begins
  <2>5. CASE InsertWeatherFails(w) \/ Commit(w)
    BY <1>1, <2>5 DEF InsertWeatherFails, RollsBack, Commit, Commits
  <2>6. ASSUME NEW i \in {1, 2, 3}, NEW pc, NEW next, Prune(w, i, pc, next)
        PROVE  ConsistentInv'
    <3> DEFINE db == Pruned(view, i, run)
    <3>1. Consistent(db)
      BY <1>0, PrunedConsistent DEF ConsistentInv
    <3>2. Executes(db, db # view) \/ Busy(db # view)
      BY <2>6 DEF Prune
    <3> HIDE DEF db
    <3>3. QED BY <1>1, <1>2, <3>1, <3>2 DEF Executes, Busy, store
  <2>7. CASE Prunes(w)
    BY <2>6, <2>7 DEF Prunes
  <2>8. QED BY <1>6, <2>1, <2>2, <2>3, <2>4, <2>5, <2>7 DEF WorkerStep
<1>7. QED BY <1>3, <1>4, <1>5, <1>6 DEF Next

(* However many workers store at once, whatever fails, is refused or is    *)
(* killed: in what is committed and in what the optimizer sees, no weather *)
(* is without its facility and no facility is there twice.                 *)
THEOREM TablesStayConsistent == Spec => []TablesConsistent
<1>1. Init => TypeInv /\ ConsistentInv
  BY TypeInit, NoRowsConsistent DEF Init, SqlInit, ConsistentInv
<1>2. TypeInv /\ ConsistentInv /\ [Next]_vars => TypeInv' /\ ConsistentInv'
  BY TypeStep, ConsistentStep
<1>3. ConsistentInv => TablesConsistent
  BY DEF ConsistentInv, Consistent, TablesConsistent
<1>4. QED BY <1>1, <1>2, <1>3, PTL DEF Spec

-----------------------------------------------------------------------------
(* Rows belong to their facility, as long as no commit is refused: then     *)
(* nothing is taken back that others rely on, and an id once found stays    *)
(* the id of a place near enough or of none.                                *)

Owned(db) ==
  \A x \in db.weather, f \in db.facility : x.id = f.id => <<x.v.key, f.key>> \in Near

(* The id a worker has found still means a facility near that of its task. *)
IdCurrent(r, db) ==
  /\ r.id <= db.seq
  /\ \A f \in db.facility : f.id = r.id => <<r.task, f.key>> \in Near

Own ==
  /\ txn # "stuck"
  /\ txn = "none" => view = disk
  /\ Owned(disk)
  /\ Owned(view)
  /\ \A w \in Workers : worker[w].pc = "insert" => IdCurrent(worker[w], view)

(* A refused commit is not forgotten.                                      *)
LEMMA RefusedStays ==
  ASSUME [Next]_vars, refused
  PROVE  refused'
<1>1. CASE UNCHANGED vars \/ Finished
  BY <1>1 DEF Finished, vars, store
<1>2. CASE StartRun \/ StartRunFails \/ Reads
  BY <1>2 DEF StartRun, StartRunFails, Reads, StartRead, EndRead, store
<1>3. CASE EndRun \/ CalcFails \/ Crash
  BY <1>3 DEF EndRun, CalcFails, Crash, Closes, RollsBack
<1>4. ASSUME NEW w \in Workers, WorkerStep(w)
      PROVE  refused'
  BY <1>4 DEF WorkerStep, Take, Check, Fetch, FetchFails, Lookup, LookupBusy,
       InsertSpots, InsertWeather, InsertWeatherFails, Commit, Prunes, Prune,
       Executes, Busy, Begins, RollsBack, Commits, store
<1> QED BY <1>1, <1>2, <1>3, <1>4 DEF Next

(* db2 comes of db by a statement that gives no id away twice.             *)
Extends(db2, db) ==
  /\ db2.seq >= db.seq
  /\ \A f \in db2.facility : f \in db.facility \/ f.id > db.seq

LEMMA FacilityExtends ==
  ASSUME NEW db \in Tables, NEW key \in Keys, Consistent(db), Owned(db)
  PROVE  /\ Extends(WithFacility(db, key), db)
         /\ Owned(WithFacility(db, key))
<1> DEFINE new == [id |-> db.seq + 1, key |-> key]
           db2 == WithFacility(db, key)
<1>1. db.seq \in Nat /\ \A x \in db.weather : x.id \in Nat /\ x.id <= db.seq
  BY DEF Tables, Consistent
<1>2. CASE Has(db, key)
  BY <1>1, <1>2 DEF WithFacility, Extends
<1>3. CASE ~Has(db, key)
  <2>1. /\ db2.facility = db.facility \cup {new}
        /\ db2.weather = db.weather
        /\ db2.seq = db.seq + 1
    BY <1>3 DEF WithFacility, Tables
  <2>2. new.id = db.seq + 1
    OBVIOUS
  <2> HIDE DEF new, db2
  <2>3. Extends(db2, db) /\ Owned(db2)
    BY <1>1, <2>1, <2>2 DEF Extends, Owned
  <2>4. QED BY <2>3 DEF db2
<1>4. QED BY <1>2, <1>3

LEMMA WeatherExtends ==
  ASSUME NEW db \in Tables, NEW id \in Nat \ {0}, NEW times \in SUBSET Nat,
         NEW v \in Values, Owned(db),
         \A f \in db.facility : f.id = id => <<v.key, f.key>> \in Near
  PROVE  /\ Extends(WithWeather(db, id, times, v), db)
         /\ Owned(WithWeather(db, id, times, v))
<1> DEFINE rows == {[id |-> id, t |-> t, v |-> v] : t \in times}
           db2 == WithWeather(db, id, times, v)
<1>1. /\ db2.facility = db.facility
      /\ db2.seq = db.seq
      /\ db.seq \in Nat
      /\ db2.weather \subseteq db.weather \cup rows
  BY DEF WithWeather, Tables
<1>2. \A x \in rows : x.id = id /\ x.v = v
  OBVIOUS
<1> HIDE DEF rows, db2
<1>3. Extends(db2, db) /\ Owned(db2)
  BY <1>1, <1>2 DEF Extends, Owned
<1>4. QED BY <1>3 DEF db2

LEMMA SpotsExtends ==
  ASSUME NEW db \in Tables, NEW class, NEW t, Owned(db)
  PROVE  Extends(WithSpots(db, class, t), db) /\ Owned(WithSpots(db, class, t))
<1>1. /\ WithSpots(db, class, t).facility = db.facility
      /\ WithSpots(db, class, t).weather = db.weather
      /\ WithSpots(db, class, t).seq = db.seq
      /\ db.seq \in Nat
  BY DEF WithSpots, Tables
<1>2. QED BY <1>1 DEF Extends, Owned

LEMMA PrunedExtends ==
  ASSUME NEW db \in Tables, NEW statement \in {1, 2, 3}, NEW now, Owned(db)
  PROVE  /\ Extends(Pruned(db, statement, now), db)
         /\ Owned(Pruned(db, statement, now))
<1> DEFINE db2 == Pruned(db, statement, now)
<1>1. /\ db2.facility \subseteq db.facility
      /\ db2.weather \subseteq db.weather
      /\ db2.seq = db.seq
      /\ db.seq \in Nat
  <2>1. CASE statement = 1
    BY <2>1 DEF Pruned, Tables
  <2>2. CASE statement = 2
    BY <2>2 DEF Pruned, Tables
  <2>3. CASE statement = 3
    BY <2>3 DEF Pruned, Tables
  <2>4. QED BY <2>1, <2>2, <2>3
<1>2. QED BY <1>1 DEF Extends, Owned

(* Other workers' ids survive a statement.                                 *)
LEMMA IdsSurvive ==
  ASSUME TypeInv, NEW u \in Workers, IdCurrent(worker[u], view), NEW db \in Tables,
         Extends(db, view), worker'[u] = worker[u]
  PROVE  IdCurrent(worker'[u], db)
BY DEF TypeInv, TypeOK, StoreOK, WorkerStates, IdCurrent, Extends, Tables

LEMMA OwnedInit == Init => Own
<1> SUFFICES ASSUME Init PROVE Own
  OBVIOUS
<1>1. \A w \in Workers : worker[w].pc # "insert"
  BY DEF Init, Resting
<1>2. Owned(NoRows)
  BY DEF Owned, NoRows
<1>3. QED BY <1>1, <1>2 DEF Init, SqlInit, Own

LEMMA OwnedStep ==
  ASSUME TypeInv, ConsistentInv, Own, ~refused', [Next]_vars
  PROVE  Own'
<1>0. /\ disk \in Tables
      /\ view \in Tables
      /\ run \in Nat
      /\ worker \in [Workers -> WorkerStates]
      /\ TaskInv
      /\ txn \in {"none", "open"}
      /\ txn = "none" => view = disk
      /\ Owned(disk)
      /\ Owned(view)
  BY DEF TypeInv, TypeOK, StoreOK, Own
<1>1. ASSUME UNCHANGED store,
             \A w \in Workers : \/ worker'[w].pc # "insert"
                               \/ worker'[w] = worker[w]
                               \/ IdCurrent(worker'[w], view')
      PROVE  Own'
  BY <1>0, <1>1 DEF Own, store, IdCurrent
<1>2. ASSUME view' = disk, txn' = "none", UNCHANGED disk, txn = "none",
             \A w \in Workers : worker'[w].pc # "insert" \/ worker'[w] = worker[w]
      PROVE  Own'
  BY <1>0, <1>2 DEF Own, IdCurrent
<1>3. CASE UNCHANGED vars
  BY <1>1, <1>3 DEF vars, pool, store
<1>4. CASE StartRun \/ StartRunFails \/ Reads \/ Finished
  BY <1>1, <1>4
     DEF StartRun, StartRunFails, Reads, StartRead, EndRead, Finished, vars, pool, store
<1>5. CASE EndRun \/ CalcFails
  <2>1. \A w \in Workers : worker[w].pc # "commit"
    BY <1>5 DEF EndRun, CalcFails, AllDone, Resting
  <2>2. txn = "none"
    BY <1>0, <2>1 DEF TypeInv, TypeOK, SectionOK
  <2>3. QED BY <1>2, <1>5, <2>2 DEF EndRun, Closes, RollsBack, CalcFails
<1>6. CASE Crash
  <2>1. \A w \in Workers : worker'[w].pc # "insert"
    BY <1>6 DEF Crash, Resting
  <2>2. view' = disk /\ txn' = "none" /\ UNCHANGED disk
    BY <1>6 DEF Crash
  <2>3. QED BY <1>0, <2>1, <2>2 DEF Own
<1>7. ASSUME NEW w \in Workers, WorkerStep(w)
      PROVE  Own'
  <2>a. \A u \in Workers : worker[u].pc = "insert" => IdCurrent(worker[u], view)
    BY DEF Own
  (* A statement that extends the tables.                                  *)
  <2>b. ASSUME NEW db \in Tables, Extends(db, view), Owned(db), view' = db,
               \/ disk' = db /\ txn' = "none"
               \/ disk' = disk /\ txn' = "open",
               \A u \in Workers \ {w} : worker'[u] = worker[u],
               worker'[w].pc = "insert" => IdCurrent(worker'[w], db)
        PROVE  Own'
    <3>1. \A u \in Workers : worker'[u].pc = "insert" => IdCurrent(worker'[u], db)
      BY <2>a, <2>b, IdsSurvive
    <3>2. \A u \in Workers : worker'[u].pc = "insert" => IdCurrent(worker'[u], view')
      BY <2>b, <3>1 DEF IdCurrent
    <3>3. QED BY <1>0, <2>b, <3>2 DEF Own
  <2>c. mutex = NoWorker => txn = "none"
    BY <1>0, NoneOutside
  <2>1. CASE Take(w)
    BY <1>1, <2>1, <1>0 DEF Take, store, WorkerStates
  <2>2. CASE Check(w) \/ FetchFails(w) \/ LookupBusy(w)
    <3>1. UNCHANGED store
      BY <2>2 DEF Check, FetchFails, LookupBusy, Busy, Ends, GoesTo
    <3>2. \A u \in Workers : worker'[u].pc # "insert" \/ worker'[u] = worker[u]
      <4>1. CASE Ends(w, "cached") \/ Ends(w, "unfetched") \/ Ends(w, "lost")
        BY <1>0, <4>1 DEF Ends, Resting
      <4>2. CASE GoesTo(w, "fetch", 0)
        BY <1>0, <4>2 DEF GoesTo, WorkerStates
      <4>3. QED BY <2>2, <4>1, <4>2 DEF Check, FetchFails, LookupBusy
    <3>3. QED BY <1>1, <3>1, <3>2
  <2>3. CASE Fetch(w)
    <3>1. UNCHANGED store
      BY <2>3 DEF Fetch, GoesTo
    <3>2. \A u \in Workers \ {w} : worker'[u] = worker[u]
      BY <1>0, <2>3 DEF Fetch, GoesTo
    <3>3. worker'[w].id = 0
      BY <1>0, <2>3 DEF Fetch, GoesTo, WorkerStates
    <3>4. IdCurrent(worker'[w], view')
      BY <1>0, <3>1, <3>3 DEF IdCurrent, Tables, store
    <3>5. QED BY <1>1, <3>1, <3>2, <3>4
  <2>4. CASE Lookup(w)
    <3> DEFINE key == worker[w].task
               db == WithFacility(view, key)
    <3>1. key \in Keys /\ mutex = NoWorker
      BY <1>0, <2>4 DEF Lookup, At, TaskInv
    <3>0. PICK id \in IdsOf(db, key) : GoesTo(w, "insert", id)
      BY <2>4 DEF Lookup
    <3>2. /\ db \in Tables
          /\ \E f \in db.facility : f.id = id /\ <<key, f.key>> \in Near
          /\ Consistent(db)
          /\ Extends(db, view)
          /\ Owned(db)
      BY <1>0, <3>1, FacilityFound, FacilityConsistent, FacilityExtends DEF ConsistentInv
    <3>3. Executes(db, TRUE) /\ GoesTo(w, "insert", id)
      BY <2>4, <3>0 DEF Lookup
    <3> HIDE DEF db
    <3>4. /\ worker'[w].id = id
          /\ worker'[w].task = key
          /\ \A u \in Workers \ {w} : worker'[u] = worker[u]
      BY <1>0, <3>3 DEF GoesTo, WorkerStates
    <3>5. IdCurrent(worker'[w], db)
      BY <3>2, <3>4 DEF IdCurrent, Consistent
    <3>6. view' = db /\ disk' = db /\ txn' = "none"
      BY <2>c, <3>1, <3>3 DEF Executes
    <3>7. QED BY <2>b, <3>2, <3>4, <3>5, <3>6
  <2>5. CASE InsertSpots(w)
    <3> DEFINE db == WithSpots(view, worker[w].task, Day)
    <3>1. db \in Tables /\ Extends(db, view) /\ Owned(db)
      BY <1>0, <2>5, SpotsTyped, SpotsExtends, TimesTyped DEF InsertSpots
    <3>2. Begins(db) /\ GoesTo(w, "commit", 0)
      BY <2>5 DEF InsertSpots
    <3> HIDE DEF db
    <3>3. view' = db /\ disk' = disk /\ txn' = "open"
      BY <1>0, <3>2 DEF Begins
    <3>4. /\ worker'[w].pc = "commit"
          /\ \A u \in Workers \ {w} : worker'[u] = worker[u]
      BY <1>0, <3>2 DEF GoesTo, WorkerStates
    <3>5. QED BY <2>b, <3>1, <3>3, <3>4
  <2>6. CASE InsertWeather(w)
    <3> DEFINE v == [key |-> worker[w].task, run |-> run]
               db == WithWeather(view, worker[w].id, Times(worker[w].task), v)
    <3>1. worker[w].task \in Keys /\ worker[w].id \in Nat \ {0} /\ IdCurrent(worker[w], view)
      BY <1>0, <2>a, <2>6 DEF InsertWeather, At, TaskInv, WorkerStates
    <3>2. /\ v \in Values
          /\ Times(worker[w].task) \in SUBSET Nat
          /\ v.key = worker[w].task
      BY <1>0, <3>1, TimesTyped DEF Values
    <3>3. Begins(db) /\ GoesTo(w, "commit", worker[w].id)
      BY <2>6 DEF InsertWeather
    <3> HIDE DEF v
    <3>4. db \in Tables /\ Extends(db, view) /\ Owned(db)
      BY <1>0, <3>1, <3>2, WeatherTyped, WeatherExtends DEF IdCurrent
    <3> HIDE DEF db
    <3>5. view' = db /\ disk' = disk /\ txn' = "open"
      BY <1>0, <3>3 DEF Begins
    <3>6. /\ worker'[w].pc = "commit"
          /\ \A u \in Workers \ {w} : worker'[u] = worker[u]
      BY <1>0, <3>3 DEF GoesTo, WorkerStates
    <3>7. QED BY <2>b, <3>4, <3>5, <3>6
  <2>7. CASE InsertWeatherFails(w)
    <3>1. txn = "none"
      BY <2>c, <2>7 DEF InsertWeatherFails
    <3>2. \A u \in Workers : worker'[u].pc # "insert" \/ worker'[u] = worker[u]
      BY <1>0, <2>7 DEF InsertWeatherFails, Ends, Resting, WorkerStates
    <3>3. QED BY <1>2, <2>7, <3>1, <3>2 DEF InsertWeatherFails, RollsBack, Ends
  <2>8. CASE Commit(w)
    <3>1. GoesTo(w, "prune1", worker[w].id) /\ view' = view /\ disk' = view /\ txn' = "none"
      BY <1>0, <2>8 DEF Commit, Commits
    <3>2. /\ worker'[w].pc = "prune1"
          /\ \A u \in Workers \ {w} : worker'[u] = worker[u]
      BY <1>0, <3>1 DEF GoesTo, WorkerStates
    <3>3. Extends(view, view)
      BY <1>0 DEF Extends, Tables
    <3>4. QED BY <1>0, <2>b, <3>1, <3>2, <3>3
  <2>9. ASSUME NEW i \in {1, 2, 3}, NEW pc \in Sections,
               NEW next \in {"prune2", "prune3", "idle"}, Prune(w, i, pc, next)
        PROVE  Own'
    <3> DEFINE db == Pruned(view, i, run)
    <3>1. db \in Tables /\ Extends(db, view) /\ Owned(db)
      BY <1>0, PrunedTyped, PrunedExtends
    <3>2. /\ worker'[w].pc # "insert"
          /\ \A u \in Workers \ {w} : worker'[u] = worker[u]
      BY <1>0, <2>9 DEF Prune, Ends, GoesTo, Resting, WorkerStates
    <3> HIDE DEF db
    <3>3. CASE Executes(db, db # view)
      <4>1. view' = db /\ disk' = db /\ txn' = "none"
        BY <1>0, <3>3 DEF Executes
      <4> QED BY <2>b, <3>1, <3>2, <4>1
    <3>4. CASE Busy(db # view)
      <4>1. UNCHANGED store
        BY <3>4 DEF Busy
      <4> QED BY <1>1, <3>2, <4>1
    <3> QED BY <2>9, <3>3, <3>4 DEF Prune, db
  <2>10. CASE Prunes(w)
    BY <2>9, <2>10 DEF Prunes, Sections
  <2>11. QED BY <1>7, <2>1, <2>2, <2>3, <2>4, <2>5, <2>6, <2>7, <2>8, <2>10 DEF WorkerStep
<1>8. QED BY <1>3, <1>4, <1>5, <1>6, <1>7 DEF Next

(* As long as no commit was refused, the weather stored for a facility was *)
(* fetched for that one or for one near enough, though                     *)
(* sql_helper_insert_weather uses an id found in an earlier locked section *)
(* and prunes run in between.                                              *)
THEOREM RowsStayWithTheirFacility == Spec => []RowsOfTheirFacility
<1> DEFINE Inv == TypeInv /\ ConsistentInv /\ (~refused => Own)
<1>1. Init => Inv
  BY TypeInit, NoRowsConsistent, OwnedInit DEF Init, SqlInit, ConsistentInv
<1>2. Inv /\ [Next]_vars => Inv'
  BY TypeStep, ConsistentStep, OwnedStep, RefusedStays
<1>3. Inv => RowsOfTheirFacility
  BY DEF Own, Owned, RowsOfTheirFacility
<1> HIDE DEF Inv
<1>4. QED BY <1>1, <1>2, <1>3, PTL DEF Spec

-----------------------------------------------------------------------------
(* The latest fetch.  Kept by every statement, whoever wrote the rows and  *)
(* whatever is rolled back: for every time of a fetch that is not yet to   *)
(* be pruned there is a row that is as recent.  The rows of a fetch are    *)
(* only replaced by later ones, and only deleted when their time is over.  *)

Fetched(v) == v.run .. v.run + (IF v.key \in Forecasts THEN Horizon ELSE 0)

Fresh(db, now) ==
  \A x \in db.weather :
    /\ x.v.run <= now
    /\ \A t \in Fetched(x.v) : t + Retention >= now =>
         \E y \in db.weather : y.id = x.id /\ y.t = t /\ y.v.run >= x.v.run

FreshInv == Fresh(disk, run) /\ Fresh(view, run)

LEMMA FetchedTimes ==
  ASSUME NEW v \in Values, NEW t \in Fetched(v)
  PROVE  t \in Nat /\ v.run \in Nat
BY SqlAssumption DEF Fetched, Values

(* What is due only gets less as time goes on.                             *)
LEMMA FreshLater ==
  ASSUME NEW db \in Tables, NEW now \in Nat, NEW later \in Nat, later >= now,
         Fresh(db, now)
  PROVE  Fresh(db, later)
<1> SUFFICES ASSUME NEW x \in db.weather
             PROVE  /\ x.v.run <= later
                    /\ \A t \in Fetched(x.v) : t + Retention >= later =>
                         \E y \in db.weather : y.id = x.id /\ y.t = t /\ y.v.run >= x.v.run
  BY DEF Fresh
<1>1. x.v \in Values /\ x.v.run \in Nat
  BY DEF Tables, Values
<1>2. x.v.run <= later
  BY <1>1 DEF Fresh
<1>3. ASSUME NEW t \in Fetched(x.v), t + Retention >= later
      PROVE  \E y \in db.weather : y.id = x.id /\ y.t = t /\ y.v.run >= x.v.run
  <2>1. t \in Nat
    BY <1>1, FetchedTimes
  <2>2. t + Retention >= now
    BY <1>3, <2>1, SqlAssumption
  <2> QED BY <2>2 DEF Fresh
<1> QED BY <1>2, <1>3

LEMMA WeatherFresh ==
  ASSUME NEW db \in Tables, NEW now \in Nat, NEW id \in Nat \ {0}, NEW v \in Values,
         v.run = now, Fresh(db, now)
  PROVE  Fresh(WithWeather(db, id, Fetched(v), v), now)
<1> DEFINE old == {w \in db.weather : w.id # id \/ w.t \notin Fetched(v)}
           new == {[id |-> id, t |-> t, v |-> v] : t \in Fetched(v)}
           rows == WithWeather(db, id, Fetched(v), v).weather
<1>1. rows = old \cup new
  BY DEF WithWeather, Tables
<1>2. \A x \in new : x.id = id /\ x.v = v /\ x.t \in Fetched(v)
  OBVIOUS
<1>3. \A t \in Fetched(v) : \E y \in rows : y.id = id /\ y.t = t /\ y.v = v
  <2> TAKE t \in Fetched(v)
  <2>1. [id |-> id, t |-> t, v |-> v] \in rows
    BY <1>1
  <2> QED BY <2>1
<1>4. \A y \in db.weather :
        y \in rows \/ \E z \in rows : z.id = y.id /\ z.t = y.t /\ z.v = v
  <2> TAKE y \in db.weather
  <2>1. CASE y \in old
    BY <1>1, <2>1
  <2>2. CASE y \notin old
    <3>1. y.id = id /\ y.t \in Fetched(v)
      BY <2>2
    <3> QED BY <1>3, <3>1
  <2> QED BY <2>1, <2>2
<1>5. \A y \in db.weather : y.v.run \in Nat /\ y.v.run <= now
  BY DEF Tables, Values, Fresh
<1>6. \A x \in rows : x \in db.weather \/ (x.id = id /\ x.v = v)
  BY <1>1, <1>2
<1> HIDE DEF rows, old, new
<1>7. ASSUME NEW x \in rows
      PROVE  /\ x.v.run <= now
             /\ \A t \in Fetched(x.v) : t + Retention >= now =>
                  \E y \in rows : y.id = x.id /\ y.t = t /\ y.v.run >= x.v.run
  <2>1. CASE x \in db.weather
    <3>1. ASSUME NEW t \in Fetched(x.v), t + Retention >= now
          PROVE  \E y \in rows : y.id = x.id /\ y.t = t /\ y.v.run >= x.v.run
      <4>1. PICK y \in db.weather : y.id = x.id /\ y.t = t /\ y.v.run >= x.v.run
        BY <2>1, <3>1 DEF Fresh
      <4>2. CASE y \in rows
        BY <4>1, <4>2
      <4>3. ASSUME NEW z \in rows, z.id = y.id, z.t = y.t, z.v = v
            PROVE  \E u \in rows : u.id = x.id /\ u.t = t /\ u.v.run >= x.v.run
        BY <1>5, <2>1, <4>1, <4>3
      <4> QED BY <1>4, <4>2, <4>3
    <3> QED BY <1>5, <2>1, <3>1
  <2>2. CASE x.id = id /\ x.v = v
    <3>1. \A t \in Fetched(v) :
            \E y \in rows : y.id = x.id /\ y.t = t /\ y.v = x.v
      BY <1>3, <2>2
    <3> QED BY <2>2, <3>1
  <2> QED BY <1>6, <2>1, <2>2
<1> QED BY <1>7 DEF Fresh, rows

LEMMA PrunedFresh ==
  ASSUME NEW db \in Tables, NEW now \in Nat, NEW statement \in {1, 2, 3}, Fresh(db, now)
  PROVE  Fresh(Pruned(db, statement, now), now)
<1> DEFINE rows == Pruned(db, statement, now).weather
<1>1. /\ rows \subseteq db.weather
      /\ \A y \in db.weather : y.t + Retention >= now => y \in rows
  <2>1. CASE statement = 1
    BY <2>1 DEF Pruned, Tables
  <2>2. CASE statement = 2
    BY <2>2 DEF Pruned, Tables
  <2>3. CASE statement = 3
    BY <2>3 DEF Pruned, Tables
  <2> QED BY <2>1, <2>2, <2>3
<1> HIDE DEF rows
<1>2. \A x \in rows :
        /\ x.v.run <= now
        /\ \A t \in Fetched(x.v) : t + Retention >= now =>
             \E y \in rows : y.id = x.id /\ y.t = t /\ y.v.run >= x.v.run
  BY <1>1 DEF Fresh
<1> QED BY <1>2 DEF Fresh, rows

(* The other statements leave the weather alone.                           *)
LEMMA OthersFresh ==
  ASSUME NEW db \in Tables, NEW now, NEW key, NEW class, NEW t, Fresh(db, now)
  PROVE  Fresh(WithFacility(db, key), now) /\ Fresh(WithSpots(db, class, t), now)
<1>1. WithFacility(db, key).weather = db.weather
  BY DEF WithFacility, Tables
<1>2. WithSpots(db, class, t).weather = db.weather
  BY DEF WithSpots, Tables
<1> QED BY <1>1, <1>2 DEF Fresh

LEMMA TimesFetched ==
  ASSUME NEW k, run \in Nat
  PROVE  Times(k) = Fetched([key |-> k, run |-> run])
<1>1. /\ [key |-> k, run |-> run].key = k
      /\ [key |-> k, run |-> run].run = run
  OBVIOUS
<1>2. run .. (run + 0) = {run}
  OBVIOUS
<1> QED BY <1>1, <1>2 DEF Times, Fetched

LEMMA FreshStep ==
  ASSUME TypeInv, FreshInv, [Next]_vars
  PROVE  FreshInv'
<1>0. /\ disk \in Tables
      /\ view \in Tables
      /\ run \in Nat
      /\ worker \in [Workers -> WorkerStates]
      /\ TaskInv
  BY DEF TypeInv, TypeOK, StoreOK
<1>1. ASSUME disk' \in {disk, view}, view' \in {disk, view}, run' \in {run, run + 1}
      PROVE  FreshInv'
  <2>1. run' \in Nat /\ run' >= run
    BY <1>0, <1>1
  <2>2. Fresh(disk, run') /\ Fresh(view, run')
    BY <1>0, <2>1, FreshLater DEF FreshInv
  <2>3. Fresh(disk', run') /\ Fresh(view', run')
    BY <1>1, <2>2
  <2> QED BY <2>3 DEF FreshInv
<1>2. ASSUME NEW db, Fresh(db, run), view' = db, disk' \in {disk, db}, run' = run
      PROVE  FreshInv'
  <2>1. Fresh(disk', run') /\ Fresh(view', run')
    BY <1>2 DEF FreshInv
  <2> QED BY <2>1 DEF FreshInv
<1>3. CASE UNCHANGED vars
  BY <1>1, <1>3 DEF vars, pool, store
<1>4. CASE StartRun \/ StartRunFails \/ Reads \/ Finished
  BY <1>1, <1>4
     DEF StartRun, StartRunFails, Reads, StartRead, EndRead, Finished, vars, pool, store
<1>5. CASE EndRun \/ CalcFails \/ Crash
  BY <1>1, <1>5 DEF EndRun, Closes, RollsBack, CalcFails, Crash
<1>6. ASSUME NEW w \in Workers, WorkerStep(w)
      PROVE  FreshInv'
  <2>0. run' = run
    BY <1>6 DEF WorkerStep, Take, Check, Fetch, FetchFails, Lookup, LookupBusy,
         InsertSpots, InsertWeather, InsertWeatherFails, Commit, Prunes, Prune,
         GoesTo, Ends
  <2>1. CASE Take(w) \/ Check(w) \/ Fetch(w) \/ FetchFails(w) \/ LookupBusy(w)
    BY <1>1, <2>0, <2>1 DEF Take, Check, Fetch, FetchFails, LookupBusy, Busy, store
  <2>2. CASE Lookup(w)
    <3> DEFINE db == WithFacility(view, worker[w].task)
    <3>1. Fresh(db, run)
      BY <1>0, OthersFresh DEF FreshInv
    <3>2. Executes(db, TRUE)
      BY <2>2 DEF Lookup
    <3> HIDE DEF db
    <3> QED BY <1>2, <2>0, <3>1, <3>2 DEF Executes
  <2>3. CASE InsertSpots(w)
    <3> DEFINE db == WithSpots(view, worker[w].task, Day)
    <3>1. Fresh(db, run)
      BY <1>0, OthersFresh DEF FreshInv
    <3>2. Begins(db)
      BY <2>3 DEF InsertSpots
    <3> HIDE DEF db
    <3> QED BY <1>2, <2>0, <3>1, <3>2 DEF Begins
  <2>4. CASE InsertWeather(w)
    <3> DEFINE k == worker[w].task
               v == [key |-> k, run |-> run]
               db == WithWeather(view, worker[w].id, Times(k), v)
    <3>1. k \in Keys /\ worker[w].id \in Nat \ {0}
      BY <1>0, <2>4 DEF InsertWeather, At, TaskInv, WorkerStates
    <3>2. v \in Values /\ v.run = run
      BY <1>0, <3>1 DEF Values
    <3>3. Times(k) = Fetched(v)
      BY <1>0, TimesFetched
    <3>4. Begins(db)
      BY <2>4 DEF InsertWeather
    <3> HIDE DEF k, v
    <3>5. Fresh(WithWeather(view, worker[w].id, Fetched(v), v), run)
      BY <1>0, <3>1, <3>2, WeatherFresh DEF FreshInv
    <3>6. Fresh(db, run)
      BY <3>3, <3>5
    <3> HIDE DEF db
    <3> QED BY <1>2, <2>0, <3>4, <3>6 DEF Begins
  <2>5. CASE InsertWeatherFails(w) \/ Commit(w)
    BY <1>1, <2>0, <2>5 DEF InsertWeatherFails, RollsBack, Commit, Commits
  <2>6. ASSUME NEW i \in {1, 2, 3}, NEW pc, NEW next, Prune(w, i, pc, next)
        PROVE  FreshInv'
    <3> DEFINE db == Pruned(view, i, run)
    <3>1. Fresh(db, run)
      BY <1>0, PrunedFresh DEF FreshInv
    <3>2. Executes(db, db # view) \/ Busy(db # view)
      BY <2>6 DEF Prune
    <3> HIDE DEF db
    <3> QED BY <1>1, <1>2, <2>0, <3>1, <3>2 DEF Executes, Busy, store
  <2>7. CASE Prunes(w)
    BY <2>6, <2>7 DEF Prunes
  <2> QED BY <1>6, <2>1, <2>2, <2>3, <2>4, <2>5, <2>7 DEF WorkerStep
<1> QED BY <1>3, <1>4, <1>5, <1>6 DEF Next

LEMMA FreshInit == Init => FreshInv
BY DEF Init, SqlInit, FreshInv, Fresh, NoRows

(* Whatever is read, refused, rolled back or killed: a reader finds every  *)
(* time of the latest fetch, as recent as that fetch.                      *)
THEOREM LatestTimesStayFresh == Spec => []LatestTimesFresh
<1>1. TypeInv /\ FreshInv => LatestTimesFresh
  <2> SUFFICES ASSUME TypeInv, FreshInv,
                      NEW x \in disk.weather, Latest(x), NEW t \in Due(x.v)
               PROVE  \E y \in disk.weather :
                        y.id = x.id /\ y.t = t /\ y.v.run = x.v.run
    BY DEF LatestTimesFresh
  <2>1. t \in Fetched(x.v) /\ t + Retention >= run
    BY DEF Due, Fetched
  <2>2. PICK y \in disk.weather : y.id = x.id /\ y.t = t /\ y.v.run >= x.v.run
    BY <2>1 DEF FreshInv, Fresh
  <2>3. y.v.run <= x.v.run
    BY <2>2 DEF Latest
  <2>4. x.v.run \in Nat /\ y.v.run \in Nat
    BY DEF TypeInv, TypeOK, StoreOK, Tables, Values
  <2> QED BY <2>2, <2>3, <2>4
<1>2. TypeInv /\ FreshInv /\ [Next]_vars => TypeInv' /\ FreshInv'
  BY TypeStep, FreshStep
<1> QED BY <1>1, <1>2, TypeInit, FreshInit, PTL DEF Spec

(* As long as no commit was refused, a run leaves only the values of one   *)
(* fetch under an id: the facilities stored under it are near one another, *)
(* so that each fetch brings the same times and replaces what the other    *)
(* brought.                                                                *)

Uniform(db) ==
  /\ \A x \in db.weather : x.t \in Fetched(x.v)
  /\ \A x, y \in db.weather : x.id = y.id /\ x.v.run = y.v.run => x.v = y.v

UniformInv == Uniform(disk) /\ Uniform(view)

(* Near keys fetch the same times.                                         *)
LEMMA NearFetched ==
  ASSUME NEW v \in Values, NEW u \in Values, v.run = u.run, NEW key \in Keys,
         <<v.key, key>> \in Near, <<u.key, key>> \in Near
  PROVE  Fetched(v) = Fetched(u)
<1>1. \A pair \in Near : pair[1] \in Forecasts <=> pair[2] \in Forecasts
  BY SqlAssumption
<1>2. v.key \in Forecasts <=> key \in Forecasts
  <2>1. <<v.key, key>>[1] \in Forecasts <=> <<v.key, key>>[2] \in Forecasts
    BY <1>1
  <2> QED BY <2>1
<1>3. u.key \in Forecasts <=> key \in Forecasts
  <2>1. <<u.key, key>>[1] \in Forecasts <=> <<u.key, key>>[2] \in Forecasts
    BY <1>1
  <2> QED BY <2>1
<1> QED BY <1>2, <1>3 DEF Fetched

LEMMA WeatherUniform ==
  ASSUME NEW db \in Tables, NEW id \in Nat \ {0}, NEW v \in Values,
         Consistent(db), Owned(db), Uniform(db), References(db, id),
         \A f \in db.facility : f.id = id => <<v.key, f.key>> \in Near
  PROVE  Uniform(WithWeather(db, id, Fetched(v), v))
<1> DEFINE new == {[id |-> id, t |-> t, v |-> v] : t \in Fetched(v)}
           rows == WithWeather(db, id, Fetched(v), v).weather
<1>1. rows = {w \in db.weather : w.id # id \/ w.t \notin Fetched(v)} \cup new
  BY DEF WithWeather, Tables
<1>2. \A x \in new : x.id = id /\ x.v = v /\ x.t \in Fetched(v)
  OBVIOUS
<1>3. PICK f \in db.facility : f.id = id
  BY DEF References
<1>4. f.key \in Keys /\ <<v.key, f.key>> \in Near
  BY <1>3 DEF Tables
<1>5. \A x \in db.weather : x.v \in Values
  BY DEF Tables
<1>6. ASSUME NEW x \in db.weather, x.id = id, x.v.run = v.run
      PROVE  x.t \in Fetched(v)
  <2>1. <<x.v.key, f.key>> \in Near
    BY <1>3, <1>6 DEF Owned
  <2>2. Fetched(x.v) = Fetched(v)
    BY <1>4, <1>5, <1>6, <2>1, NearFetched
  <2> QED BY <2>2 DEF Uniform
<1>7. \A x \in rows : \/ x \in db.weather /\ (x.id # id \/ x.t \notin Fetched(v))
                      \/ x.id = id /\ x.v = v /\ x.t \in Fetched(v)
  BY <1>1, <1>2
<1> HIDE DEF rows, new
<1>8. \A x \in rows : x.t \in Fetched(x.v)
  BY <1>7 DEF Uniform
<1>9. ASSUME NEW x \in rows, NEW y \in rows, x.id = y.id, x.v.run = y.v.run
      PROVE  x.v = y.v
  BY <1>6, <1>7, <1>9 DEF Uniform
<1> QED BY <1>8, <1>9 DEF Uniform, rows

(* The other statements write no weather.                                  *)
LEMMA FewerUniform ==
  ASSUME NEW db, NEW db2, db2.weather \subseteq db.weather, Uniform(db)
  PROVE  Uniform(db2)
BY DEF Uniform

LEMMA OthersFewer ==
  ASSUME NEW db \in Tables, NEW key, NEW class, NEW t, NEW now, NEW statement \in {1, 2, 3}
  PROVE  /\ WithFacility(db, key).weather \subseteq db.weather
         /\ WithSpots(db, class, t).weather \subseteq db.weather
         /\ Pruned(db, statement, now).weather \subseteq db.weather
<1>1. WithFacility(db, key).weather = db.weather
  BY DEF WithFacility, Tables
<1>2. WithSpots(db, class, t).weather = db.weather
  BY DEF WithSpots, Tables
<1>3. Pruned(db, statement, now).weather \subseteq db.weather
  <2>1. CASE statement = 1
    BY <2>1 DEF Pruned, Tables
  <2>2. CASE statement = 2
    BY <2>2 DEF Pruned, Tables
  <2>3. CASE statement = 3
    BY <2>3 DEF Pruned, Tables
  <2> QED BY <2>1, <2>2, <2>3
<1> QED BY <1>1, <1>2, <1>3

LEMMA UniformStep ==
  ASSUME TypeInv, ConsistentInv, Own, UniformInv, [Next]_vars
  PROVE  UniformInv'
<1>0. /\ disk \in Tables
      /\ view \in Tables
      /\ run \in Nat
      /\ worker \in [Workers -> WorkerStates]
      /\ TaskInv
  BY DEF TypeInv, TypeOK, StoreOK
<1>1. ASSUME disk' \in {disk, view}, view' \in {disk, view}
      PROVE  UniformInv'
  <2>1. Uniform(disk') /\ Uniform(view')
    BY <1>1 DEF UniformInv
  <2> QED BY <2>1 DEF UniformInv
<1>2. ASSUME NEW db, Uniform(db), view' = db, disk' \in {disk, db}
      PROVE  UniformInv'
  <2>1. Uniform(disk') /\ Uniform(view')
    BY <1>2 DEF UniformInv
  <2> QED BY <2>1 DEF UniformInv
<1>3. CASE UNCHANGED vars
  BY <1>1, <1>3 DEF vars, store
<1>4. CASE StartRun \/ StartRunFails \/ Reads \/ Finished
  BY <1>1, <1>4
     DEF StartRun, StartRunFails, Reads, StartRead, EndRead, Finished, vars, store
<1>5. CASE EndRun \/ CalcFails \/ Crash
  BY <1>1, <1>5 DEF EndRun, Closes, RollsBack, CalcFails, Crash
<1>6. ASSUME NEW w \in Workers, WorkerStep(w)
      PROVE  UniformInv'
  <2>1. CASE Take(w) \/ Check(w) \/ Fetch(w) \/ FetchFails(w) \/ LookupBusy(w)
    BY <1>1, <2>1 DEF Take, Check, Fetch, FetchFails, LookupBusy, Busy, store
  <2>2. CASE Lookup(w)
    <3> DEFINE db == WithFacility(view, worker[w].task)
    <3>1. Uniform(db)
      BY <1>0, OthersFewer, FewerUniform DEF UniformInv
    <3>2. Executes(db, TRUE)
      BY <2>2 DEF Lookup
    <3> HIDE DEF db
    <3> QED BY <1>2, <3>1, <3>2 DEF Executes
  <2>3. CASE InsertSpots(w)
    <3> DEFINE db == WithSpots(view, worker[w].task, Day)
    <3>1. Uniform(db)
      BY <1>0, OthersFewer, FewerUniform DEF UniformInv
    <3>2. Begins(db)
      BY <2>3 DEF InsertSpots
    <3> HIDE DEF db
    <3> QED BY <1>2, <3>1, <3>2 DEF Begins
  <2>4. CASE InsertWeather(w)
    <3> DEFINE k == worker[w].task
               v == [key |-> k, run |-> run]
               db == WithWeather(view, worker[w].id, Times(k), v)
    <3>1. k \in Keys /\ worker[w].id \in Nat \ {0}
      BY <1>0, <2>4 DEF InsertWeather, At, TaskInv, WorkerStates
    <3>2. v \in Values /\ v.key = k
      BY <1>0, <3>1 DEF Values
    <3>3. Times(k) = Fetched(v)
      BY <1>0, TimesFetched
    <3>4. Begins(db) /\ References(view, worker[w].id)
      BY <2>4 DEF InsertWeather
    <3>5. \A f \in view.facility : f.id = worker[w].id => <<k, f.key>> \in Near
      BY <2>4 DEF InsertWeather, At, Own, IdCurrent
    <3> HIDE DEF k, v
    <3>6. Uniform(WithWeather(view, worker[w].id, Fetched(v), v))
      BY <1>0, <3>1, <3>2, <3>4, <3>5, WeatherUniform DEF UniformInv, ConsistentInv, Own
    <3>7. Uniform(db)
      BY <3>3, <3>6
    <3> HIDE DEF db
    <3> QED BY <1>2, <3>4, <3>7 DEF Begins
  <2>5. CASE InsertWeatherFails(w) \/ Commit(w)
    BY <1>1, <2>5 DEF InsertWeatherFails, RollsBack, Commit, Commits
  <2>6. ASSUME NEW i \in {1, 2, 3}, NEW pc, NEW next, Prune(w, i, pc, next)
        PROVE  UniformInv'
    <3> DEFINE db == Pruned(view, i, run)
    <3>1. Uniform(db)
      BY <1>0, OthersFewer, FewerUniform DEF UniformInv
    <3>2. Executes(db, db # view) \/ Busy(db # view)
      BY <2>6 DEF Prune
    <3> HIDE DEF db
    <3> QED BY <1>1, <1>2, <3>1, <3>2 DEF Executes, Busy, store
  <2>7. CASE Prunes(w)
    BY <2>6, <2>7 DEF Prunes
  <2> QED BY <1>6, <2>1, <2>2, <2>3, <2>4, <2>5, <2>7 DEF WorkerStep
<1> QED BY <1>3, <1>4, <1>5, <1>6 DEF Next

LEMMA UniformInit == Init => UniformInv
BY DEF Init, SqlInit, UniformInv, Uniform, NoRows

(* As long as no commit was refused, the latest fetch is whole in what is  *)
(* committed: none of its times that are due is missing, and none has the  *)
(* values of another fetch.                                                *)
THEOREM LatestFetchStaysWhole == Spec => []LatestFetchWhole
<1> DEFINE Inv == /\ TypeInv /\ ConsistentInv /\ FreshInv
                  /\ ~refused => Own /\ UniformInv
<1>1. Init => Inv
  BY TypeInit, NoRowsConsistent, OwnedInit, FreshInit, UniformInit
     DEF Init, SqlInit, ConsistentInv
<1>2. Inv /\ [Next]_vars => Inv'
  BY TypeStep, ConsistentStep, OwnedStep, FreshStep, UniformStep, RefusedStays
<1>3. Inv => LatestFetchWhole
  <2> SUFFICES ASSUME Inv, ~refused, NEW x \in disk.weather, Latest(x), NEW t \in Due(x.v)
               PROVE  [id |-> x.id, t |-> t, v |-> x.v] \in disk.weather
    BY DEF LatestFetchWhole
  <2>1. t \in Fetched(x.v) /\ t + Retention >= run
    BY DEF Due, Fetched
  <2>2. PICK y \in disk.weather : y.id = x.id /\ y.t = t /\ y.v.run >= x.v.run
    BY <2>1 DEF FreshInv, Fresh
  <2>3. /\ x \in [id : Nat \ {0}, t : Nat, v : Values]
        /\ y \in [id : Nat \ {0}, t : Nat, v : Values]
    BY DEF TypeInv, TypeOK, StoreOK, Tables
  <2>4. y.v.run = x.v.run
    <3>1. y.v.run <= x.v.run
      BY <2>2 DEF Latest
    <3>2. x.v.run \in Nat /\ y.v.run \in Nat
      BY <2>3 DEF Values
    <3> QED BY <2>2, <3>1, <3>2
  <2>5. y.v = x.v
    BY <2>2, <2>4 DEF UniformInv, Uniform
  <2>6. y = [id |-> x.id, t |-> t, v |-> x.v]
    BY <2>2, <2>3, <2>5
  <2> QED BY <2>6
<1> HIDE DEF Inv
<1> QED BY <1>1, <1>2, <1>3, PTL DEF Spec

-----------------------------------------------------------------------------
(* What was stored stays, as long as no commit was refused: whatever other *)
(* workers then store, prune and delete leaves it alone, or replaces it by *)
(* weather of the same run; it is not old enough, is under another id, or  *)
(* keeps its facility from being pruned; and no rollback takes back what   *)
(* others wrote.                                                           *)

StoredInv ==
  /\ phase = "idle" => \A w \in Workers : worker[w].pc = "idle"
  /\ \A k \in Tasks : outcome[k] = "stored" => Holds(view, k)
  /\ \A w \in Workers : worker[w].pc \in Sections => Holds(view, worker[w].task)

(* What db holds, db2 holds.                                               *)
Keeps(db2, db) == \A k \in Tasks : Holds(db, k) => Holds(db2, k)

LEMMA MoreHolds ==
  ASSUME NEW db, NEW db2, db.spots \subseteq db2.spots,
         db.facility \subseteq db2.facility, db.weather \subseteq db2.weather
  PROVE  Keeps(db2, db)
BY DEF Keeps, Holds

LEMMA FacilityHolds ==
  ASSUME NEW db \in Tables, NEW key
  PROVE  Keeps(WithFacility(db, key), db)
<1> DEFINE db2 == WithFacility(db, key)
<1>1. /\ db.spots \subseteq db2.spots
      /\ db.facility \subseteq db2.facility
      /\ db.weather \subseteq db2.weather
  BY DEF WithFacility, Tables
<1> HIDE DEF db2
<1>2. Keeps(db2, db)
  BY <1>1, MoreHolds
<1> QED BY <1>2 DEF db2

LEMMA SpotsHold ==
  ASSUME NEW db \in Tables, NEW class \in Classes
  PROVE  /\ Keeps(WithSpots(db, class, Day), db)
         /\ Holds(WithSpots(db, class, Day), class)
<1> DEFINE db2 == WithSpots(db, class, Day)
<1>1. /\ db2.spots = db.spots \cup {[class |-> class, t |-> Day]}
      /\ db2.facility = db.facility
      /\ db2.weather = db.weather
  BY DEF WithSpots, Tables
<1> HIDE DEF db2
<1>2. Keeps(db2, db)
  BY <1>1, MoreHolds
<1>3. Holds(db2, class)
  BY <1>1 DEF Holds
<1> QED BY <1>2, <1>3 DEF db2

(* Whether a row for a time of this run is in db, all that Holds asks.     *)
HasRow(db, id, t) == \E x \in db.weather : x.id = id /\ x.t = t /\ x.v.run = run

LEMMA HoldsWeather ==
  ASSUME NEW db, NEW k, k \notin Classes
  PROVE  Holds(db, k) <=> \E f \in db.facility :
                            <<k, f.key>> \in Near /\ \A t \in Times(k) : HasRow(db, f.id, t)
BY DEF Holds, HasRow

LEMMA WeatherHolds ==
  ASSUME NEW db \in Tables, NEW id, NEW key \in Keys, References(db, id),
         \A f \in db.facility : f.id = id => <<key, f.key>> \in Near
  PROVE  LET db2 == WithWeather(db, id, Times(key), [key |-> key, run |-> run])
         IN  Keeps(db2, db) /\ Holds(db2, key)
<1> DEFINE v == [key |-> key, run |-> run]
           new == {[id |-> id, t |-> t, v |-> v] : t \in Times(key)}
           db2 == WithWeather(db, id, Times(key), v)
<1>1. /\ db2.spots = db.spots
      /\ db2.facility = db.facility
      /\ db2.weather = {w \in db.weather : w.id # id \/ w.t \notin Times(key)} \cup new
  BY DEF WithWeather, Tables
<1>2. \A t \in Times(key) : HasRow(db2, id, t)
  <2> TAKE t \in Times(key)
  <2> DEFINE x == [id |-> id, t |-> t, v |-> v]
  <2>1. x \in db2.weather
    BY <1>1
  <2>2. x.id = id /\ x.t = t /\ x.v.run = run
    OBVIOUS
  <2> HIDE DEF x, db2
  <2> QED BY <2>1, <2>2 DEF HasRow
<1> HIDE DEF db2, new
<1>3. ASSUME NEW i, NEW t, HasRow(db, i, t)
      PROVE  HasRow(db2, i, t)
  <2>1. PICK x \in db.weather : x.id = i /\ x.t = t /\ x.v.run = run
    BY <1>3 DEF HasRow
  <2>2. CASE x.id # id \/ x.t \notin Times(key)
    <3>1. x \in db2.weather
      BY <1>1, <2>2
    <3> QED BY <2>1, <3>1 DEF HasRow
  <2>3. CASE x.id = id /\ x.t \in Times(key)
    BY <1>2, <2>1, <2>3
  <2> QED BY <2>2, <2>3
<1>4. Holds(db2, key)
  <2>1. PICK f \in db2.facility : f.id = id /\ <<key, f.key>> \in Near
    BY <1>1 DEF References
  <2>2. key \notin Classes
    BY SqlAssumption
  <2> QED BY <1>2, <2>1, <2>2, HoldsWeather
<1>5. ASSUME NEW k \in Tasks, Holds(db, k)
      PROVE  Holds(db2, k)
  <2>1. CASE k \in Classes
    BY <1>1, <1>5, <2>1 DEF Holds
  <2>2. CASE k \notin Classes
    <3>1. PICK f \in db.facility : <<k, f.key>> \in Near /\ \A t \in Times(k) : HasRow(db, f.id, t)
      BY <1>5, <2>2, HoldsWeather
    <3>2. f \in db2.facility /\ \A t \in Times(k) : HasRow(db2, f.id, t)
      BY <1>1, <1>3, <3>1
    <3> QED BY <2>2, <3>1, <3>2, HoldsWeather
  <2> QED BY <2>1, <2>2
<1>6. Keeps(db2, db)
  BY <1>5 DEF Keeps
<1> QED BY <1>4, <1>6 DEF db2

(* The day is not older than the runs that want its spots.                 *)
LEMMA NotYetOld ==
  ASSUME run \in Nat, RunsPerDay <= Retention + 1
  PROVE  /\ Day \in Nat /\ Day + Retention >= run
         /\ \A k : run \in Times(k) /\ \A t \in Times(k) : t \in Nat /\ t + Retention >= run
<1>1. Day \in Nat /\ Day + Retention >= run
  <2>1. \A a \in Nat, d \in Nat \ {0} : a % d \in Nat /\ a % d <= a /\ a % d < d
    OBVIOUS
  <2>2. run % RunsPerDay \in Nat /\ run % RunsPerDay <= run /\ run % RunsPerDay < RunsPerDay
    BY <2>1, RunAssumption
  <2> DEFINE r == run % RunsPerDay
  <2>3. r \in Nat /\ r <= run /\ r < RunsPerDay
    BY <2>2
  <2> HIDE DEF r
  <2>4. run - r \in Nat /\ run - r + Retention >= run
    BY <2>3, RunAssumption, SqlAssumption
  <2> QED BY <2>4 DEF Day, r
<1>2. ASSUME NEW k
      PROVE  run \in Times(k) /\ \A t \in Times(k) : t \in Nat /\ t + Retention >= run
  BY SqlAssumption DEF Times
<1> QED BY <1>1, <1>2

LEMMA PrunedHolds ==
  ASSUME NEW db \in Tables, NEW statement \in {1, 2, 3}, run \in Nat,
         RunsPerDay <= Retention + 1
  PROVE  Keeps(Pruned(db, statement, run), db)
<1> DEFINE db2 == Pruned(db, statement, run)
<1>1. /\ \A s \in db.spots : s.t + Retention >= run => s \in db2.spots
      /\ \A x \in db.weather : x.t + Retention >= run => x \in db2.weather
      /\ \A f \in db.facility : (\E x \in db.weather : x.id = f.id) => f \in db2.facility
  <2>1. CASE statement = 1
    BY <2>1 DEF Pruned, Tables
  <2>2. CASE statement = 2
    BY <2>2 DEF Pruned, Tables
  <2>3. CASE statement = 3
    BY <2>3 DEF Pruned, Tables
  <2> QED BY <2>1, <2>2, <2>3
<1> HIDE DEF db2
<1>3. ASSUME NEW k \in Tasks, Holds(db, k)
      PROVE  Holds(db2, k)
  <2>1. CASE k \in Classes
    <3>1. [class |-> k, t |-> Day] \in db.spots
      BY <1>3, <2>1 DEF Holds
    <3>2. [class |-> k, t |-> Day].t = Day
      OBVIOUS
    <3>3. Day + Retention >= run
      BY NotYetOld
    <3>4. [class |-> k, t |-> Day] \in db2.spots
      BY <1>1, <3>1, <3>2, <3>3
    <3> QED BY <2>1, <3>4 DEF Holds
  <2>2. CASE k \notin Classes
    <3>1. PICK f \in db.facility : <<k, f.key>> \in Near /\ \A t \in Times(k) : HasRow(db, f.id, t)
      BY <1>3, <2>2, HoldsWeather
    <3>2. run \in Times(k) /\ \A t \in Times(k) : t + Retention >= run
      BY NotYetOld
    <3>3. f \in db2.facility
      BY <1>1, <3>1, <3>2 DEF HasRow
    <3>4. \A t \in Times(k) : HasRow(db2, f.id, t)
      BY <1>1, <3>1, <3>2 DEF HasRow
    <3> QED BY <2>2, <3>1, <3>3, <3>4, HoldsWeather
  <2> QED BY <2>1, <2>2
<1>4. Keeps(db2, db)
  BY <1>3 DEF Keeps
<1> QED BY <1>4 DEF db2

LEMMA StoredInit == Init => StoredInv
<1> SUFFICES ASSUME Init PROVE StoredInv
  OBVIOUS
<1>1. \A w \in Workers : worker[w].pc = "idle"
  BY DEF Init, Resting
<1>2. \A k \in Tasks : outcome[k] = "none"
  BY DEF Init
<1> QED BY <1>1, <1>2 DEF StoredInv, Sections

(* How a step of worker w keeps it.                                        *)
LEMMA StoredByWorker ==
  ASSUME TypeInv, StoredInv, NEW w \in Workers, run' = run, phase' = "working",
         Keeps(view', view),
         \A u \in Workers \ {w} : worker'[u] = worker[u],
         worker'[w].pc \in Sections => Holds(view', worker'[w].task),
         \A k \in Tasks : outcome'[k] = "stored" => outcome[k] = "stored" \/ Holds(view', k)
  PROVE  StoredInv'
<1>1. \A k : Holds(view', k) <=> Holds(view, k)'
  BY DEF Holds, Day, Times
<1>2. \A k \in Tasks : outcome'[k] = "stored" => Holds(view', k)
  BY DEF StoredInv, Keeps
<1>3. \A u \in Workers : worker'[u].pc \in Sections => Holds(view', worker'[u].task)
  <2> SUFFICES ASSUME NEW u \in Workers \ {w}, worker[u].pc \in Sections
               PROVE  Holds(view', worker[u].task)
    OBVIOUS
  <2>1. worker[u].task \in Tasks
    BY DEF TypeInv, TaskInv, Sections
  <2>2. Holds(view, worker[u].task)
    BY DEF StoredInv
  <2> QED BY <2>1, <2>2 DEF Keeps
<1>4. \A u \in Workers : worker'[u].pc \in Sections => Holds(view, worker[u].task)'
  BY <1>1, <1>3 DEF Holds, Day, Times
<1> QED BY <1>1, <1>2, <1>4 DEF StoredInv

LEMMA NothingLost ==
  ASSUME NEW db
  PROVE  Keeps(db, db)
BY DEF Keeps

LEMMA StoredOthers ==
  ASSUME TypeInv, Own, StoredInv,
         \/ StartRun \/ StartRunFails \/ EndRun \/ CalcFails \/ Crash \/ Reads
         \/ Finished \/ UNCHANGED vars
  PROVE  StoredInv'
<1>1. CASE StartRun \/ StartRunFails
  <2>1. \A w \in Workers : worker'[w].pc = "idle"
    BY <1>1 DEF StartRun, StartRunFails, StoredInv
  <2>2. \A k \in Tasks : outcome'[k] = "none"
    BY <1>1 DEF StartRun, StartRunFails
  <2> QED BY <2>1, <2>2 DEF StoredInv, Sections
<1>2. CASE EndRun \/ CalcFails
  <2>1. \A w \in Workers : worker[w].pc = "idle"
    BY <1>2 DEF EndRun, CalcFails, AllDone, Resting
  <2>2. txn # "open" /\ txn # "stuck"
    BY <2>1 DEF TypeInv, TypeOK, SectionOK, Own
  <2>3. view = disk
    BY <2>2 DEF TypeInv, TypeOK, StoreOK, Own
  <2>4. view' = view /\ UNCHANGED <<run, worker, outcome>>
    BY <1>2, <2>3 DEF EndRun, CalcFails, Closes, RollsBack
  <2>5. \A k : Holds(view, k)' <=> Holds(view, k)
    BY <2>4 DEF Holds, Day, Times
  <2> QED BY <2>1, <2>4, <2>5 DEF StoredInv, Sections
<1>3. CASE Crash
  <2>1. \A w \in Workers : worker'[w].pc = "idle"
    BY <1>3 DEF Crash, Resting
  <2>2. \A k \in Tasks : outcome'[k] = "none"
    BY <1>3 DEF Crash
  <2> QED BY <2>1, <2>2 DEF StoredInv, Sections
<1>4. CASE Reads \/ Finished \/ UNCHANGED vars
  <2>1. UNCHANGED <<phase, run, worker, outcome, view>>
    BY <1>4 DEF Reads, StartRead, EndRead, Finished, vars, pool, store
  <2>2. \A k : Holds(view, k)' <=> Holds(view, k)
    BY <2>1 DEF Holds, Day, Times
  <2> QED BY <2>1, <2>2 DEF StoredInv
<1> QED BY <1>1, <1>2, <1>3, <1>4

LEMMA StoredStep ==
  ASSUME RunsPerDay <= Retention + 1,
         TypeInv, Own, StoredInv, ~refused', [Next]_vars
  PROVE  StoredInv'
<1>0. /\ disk \in Tables
      /\ view \in Tables
      /\ run \in Nat
      /\ worker \in [Workers -> WorkerStates]
      /\ outcome \in [Tasks -> Outcomes]
      /\ TaskInv
      /\ txn \in {"none", "open"}
      /\ txn = "none" => view = disk
  BY DEF TypeInv, TypeOK, StoreOK, Own
<1>1. ASSUME NEW w \in Workers, WorkerStep(w)
      PROVE  StoredInv'
  <2>0. phase' = "working" /\ run' = run
    BY <1>1 DEF WorkerStep, Take, Check, Fetch, FetchFails, Lookup, LookupBusy,
         InsertSpots, InsertWeather, InsertWeatherFails, Commit, Prunes, Prune, At,
         GoesTo, Ends
  (* Where a step leads the worker.                                        *)
  <2>a. ASSUME NEW pc, NEW id, GoesTo(w, pc, id)
        PROVE  /\ worker'[w].pc = pc /\ worker'[w].task = worker[w].task
               /\ \A u \in Workers \ {w} : worker'[u] = worker[u]
               /\ outcome' = outcome
    BY <1>0, <2>a DEF GoesTo, WorkerStates
  <2>b. ASSUME NEW how, Ends(w, how), worker[w].task \in Tasks
        PROVE  /\ worker'[w].pc = "idle"
               /\ \A u \in Workers \ {w} : worker'[u] = worker[u]
               /\ outcome'[worker[w].task] = how
               /\ \A k \in Tasks \ {worker[w].task} : outcome'[k] = outcome[k]
    BY <1>0, <2>b DEF Ends, Resting
  <2>c. worker[w].pc # "idle" => worker[w].task \in Tasks
    BY <1>0 DEF TaskInv
  <2>1. CASE Take(w)
    <3>1. view' = view /\ outcome' = outcome
      BY <2>1 DEF Take, store
    <3>2. /\ worker'[w].pc \in {"check", "fetch"}
          /\ \A u \in Workers \ {w} : worker'[u] = worker[u]
      BY <1>0, <2>1 DEF Take
    <3> QED BY <2>0, <3>1, <3>2, NothingLost, StoredByWorker DEF Sections
  <2>2. CASE Check(w) \/ FetchFails(w) \/ LookupBusy(w)
    <3>1. view' = view /\ worker[w].task \in Tasks
      BY <2>2, <2>c DEF Check, FetchFails, LookupBusy, Busy, store, At
    <3>2. CASE \E how \in {"cached", "unfetched", "lost"} : Ends(w, how)
      <4>1. PICK how \in {"cached", "unfetched", "lost"} : Ends(w, how)
        BY <3>2
      <4> QED BY <2>0, <2>b, <3>1, <4>1, NothingLost, StoredByWorker DEF Sections
    <3>3. CASE GoesTo(w, "fetch", 0)
      BY <2>0, <2>a, <3>1, <3>3, NothingLost, StoredByWorker DEF Sections
    <3> QED BY <2>2, <3>2, <3>3 DEF Check, FetchFails, LookupBusy
  <2>3. CASE Fetch(w)
    <3>1. view' = view
      BY <2>3 DEF Fetch, store
    <3>2. PICK pc \in {"insert", "lookup"} : GoesTo(w, pc, 0)
      BY <2>3 DEF Fetch
    <3> QED BY <2>0, <2>a, <3>1, <3>2, NothingLost, StoredByWorker DEF Sections
  <2>4. CASE Lookup(w)
    <3> DEFINE db == WithFacility(view, worker[w].task)
    <3>0. PICK id \in IdsOf(db, worker[w].task) : GoesTo(w, "insert", id)
      BY <2>4 DEF Lookup
    <3>1. Executes(db, TRUE)
      BY <2>4 DEF Lookup
    <3>2. Keeps(db, view)
      BY <1>0, FacilityHolds
    <3> HIDE DEF db
    <3>3. view' = db
      BY <3>1 DEF Executes
    <3> QED BY <2>0, <2>a, <3>0, <3>2, <3>3, StoredByWorker DEF Sections
  <2>5. CASE InsertSpots(w)
    <3> DEFINE db == WithSpots(view, worker[w].task, Day)
    <3>1. worker[w].task \in Classes /\ Begins(db) /\ GoesTo(w, "commit", 0)
      BY <2>5 DEF InsertSpots
    <3>2. Keeps(db, view) /\ Holds(db, worker[w].task)
      BY <1>0, <3>1, SpotsHold
    <3> HIDE DEF db
    <3>3. view' = db
      BY <3>1 DEF Begins
    <3>4. worker'[w].pc = "commit" /\ worker'[w].task = worker[w].task
      BY <2>a, <3>1
    <3> QED BY <2>0, <2>a, <3>1, <3>2, <3>3, <3>4, StoredByWorker
  <2>6. CASE InsertWeather(w)
    <3> DEFINE key == worker[w].task
               db == WithWeather(view, worker[w].id, Times(key), [key |-> key, run |-> run])
    <3>1. /\ key \in Keys /\ References(view, worker[w].id)
          /\ Begins(db) /\ GoesTo(w, "commit", worker[w].id)
      BY <2>6 DEF InsertWeather
    <3>2. \A f \in view.facility : f.id = worker[w].id => <<key, f.key>> \in Near
      BY <2>6 DEF InsertWeather, At, Own, IdCurrent
    <3>3. Keeps(db, view) /\ Holds(db, key)
      BY <1>0, <3>1, <3>2, WeatherHolds
    <3> HIDE DEF db
    <3>4. view' = db
      BY <3>1 DEF Begins
    <3>5. worker'[w].pc = "commit" /\ worker'[w].task = key
      BY <2>a, <3>1
    <3> HIDE DEF key
    <3> QED BY <2>0, <2>a, <3>1, <3>3, <3>4, <3>5, StoredByWorker
  <2>7. CASE InsertWeatherFails(w)
    <3>1. worker[w].task \in Tasks /\ Ends(w, "lost") /\ RollsBack /\ mutex = NoWorker
      BY <2>7, <2>c DEF InsertWeatherFails, At
    <3>2. view' = view
      BY <1>0, <3>1, NoneOutside DEF RollsBack
    <3> QED BY <2>0, <2>b, <3>1, <3>2, NothingLost, StoredByWorker DEF Sections
  <2>8. CASE Commit(w)
    <3>1. view' = view /\ GoesTo(w, "prune1", worker[w].id) /\ worker[w].pc = "commit"
      BY <2>8 DEF Commit, Commits, At
    <3>2. Holds(view', worker[w].task)
      BY <3>1 DEF StoredInv, Sections
    <3>3. worker'[w].task = worker[w].task
      BY <2>a, <3>1
    <3> QED BY <2>0, <2>a, <3>1, <3>2, <3>3, NothingLost, StoredByWorker
  <2>9. ASSUME NEW i \in {1, 2, 3}, NEW pc \in Sections,
               NEW next \in {"prune2", "prune3", "idle"}, Prune(w, i, pc, next)
        PROVE  StoredInv'
    <3> DEFINE db == Pruned(view, i, run)
    <3>1. Executes(db, db # view) \/ Busy(db # view)
      BY <2>9 DEF Prune
    <3>2. Ends(w, "stored") \/ (next # "idle" /\ GoesTo(w, next, worker[w].id)) \/ Ends(w, "unpruned")
      BY <2>9 DEF Prune
    <3>3. worker[w].pc \in Sections /\ worker[w].task \in Tasks
      BY <2>9, <2>c DEF Prune, At, Sections
    <3>4. Keeps(db, view)
      BY <1>0, PrunedHolds
    <3> HIDE DEF db
    <3>5. view' \in {db, view} /\ Keeps(view', view)
      BY <3>1, <3>4, NothingLost DEF Executes, Busy, store
    <3>6. Holds(view', worker[w].task)
      BY <3>3, <3>5 DEF StoredInv, Keeps
    <3>7. CASE Ends(w, "stored") \/ Ends(w, "unpruned")
      <4>1. /\ worker'[w].pc = "idle"
            /\ \A u \in Workers \ {w} : worker'[u] = worker[u]
            /\ \A k \in Tasks \ {worker[w].task} : outcome'[k] = outcome[k]
        BY <2>b, <3>3, <3>7
      <4> QED BY <2>0, <3>5, <3>6, <4>1, StoredByWorker DEF Sections
    <3>8. CASE GoesTo(w, next, worker[w].id)
      <4>1. /\ worker'[w].task = worker[w].task
            /\ \A u \in Workers \ {w} : worker'[u] = worker[u]
            /\ outcome' = outcome
        BY <2>a, <3>8
      <4> QED BY <2>0, <3>5, <3>6, <4>1, StoredByWorker
    <3> QED BY <3>2, <3>7, <3>8
  <2>10. CASE Prunes(w)
    BY <2>9, <2>10 DEF Prunes, Sections
  <2> QED BY <1>1, <2>1, <2>2, <2>3, <2>4, <2>5, <2>6, <2>7, <2>8, <2>10 DEF WorkerStep
<1> QED BY <1>1, StoredOthers DEF Next

(* As long as no commit was refused, and spots are kept at least until     *)
(* their day is over: what a task reported as stored, the reports of its   *)
(* run find, and so does everybody until the next run.                     *)
THEOREM WhatIsStoredStays ==
  ASSUME RunsPerDay <= Retention + 1
  PROVE  Spec => []StoredStays
<1> DEFINE Inv == TypeInv /\ ConsistentInv /\ (~refused => Own /\ StoredInv)
<1>1. Init => Inv
  BY TypeInit, NoRowsConsistent, OwnedInit, StoredInit DEF Init, SqlInit, ConsistentInv
<1>2. Inv /\ [Next]_vars => Inv'
  BY TypeStep, ConsistentStep, OwnedStep, StoredStep, RefusedStays
<1>3. Inv => StoredStays
  <2> SUFFICES ASSUME Inv, ~refused, NEW k \in Tasks, outcome[k] = "stored"
               PROVE  Holds(IF phase = "working" THEN view ELSE disk, k)
    BY DEF StoredStays
  <2>1. Holds(view, k)
    BY DEF StoredInv
  <2>2. CASE phase = "working"
    BY <2>1, <2>2
  <2>3. CASE phase # "working"
    <3>1. \A w \in Workers : worker[w].pc = "idle"
      BY <2>3 DEF StoredInv, TypeInv, TypeOK
    <3>2. txn = "none"
      BY <3>1 DEF TypeInv, TypeOK, StoreOK, SectionOK, Own
    <3>3. view = disk
      BY <3>2 DEF Own
    <3> QED BY <2>1, <2>3, <3>3
  <2> QED BY <2>2, <2>3
<1> HIDE DEF Inv
<1> QED BY <1>1, <1>2, <1>3, PTL DEF Spec
=============================================================================
