--------------------------- MODULE OptimizerCache ---------------------------
(***************************************************************************)
(* One run of the optimizer after the other (optimizer_run): it opens      *)
(* cache.db, gives the pool one electricity task per price class and two   *)
(* weather tasks per facility, waits for them, calculates and closes the   *)
(* database.  The workers fetch from the internet without the mutex and    *)
(* store under it, in more than one locked section.                        *)
(***************************************************************************)
EXTENDS SqlHelper

CONSTANTS
  NoTask,      (* the task of a worker that has none                       *)
  Faults,      (* what may go wrong, a subset of FaultKinds                *)
  MaxRuns,     (* bound: how many runs are looked at                       *)
  Configured,  (* the keys of the facilities each run finds configured     *)
  RunsPerDay   (* runs that want the same day's spots                      *)

FaultKinds ==
  { "fetch",   (* an HTTP request fails                                    *)
    "reader",  (* optiserver reads while the optimizer works               *)
    "calc",    (* calc_create_reports fails                                *)
    "crash" }  (* the optimizer is killed and started again                *)

ASSUME RunAssumption ==
  /\ NoTask \notin Classes \cup Keys
  /\ Faults \subseteq FaultKinds
  /\ MaxRuns \in Nat
  /\ Configured \in [1 .. MaxRuns -> SUBSET Keys]
  /\ RunsPerDay \in Nat \ {0}

VARIABLES
  phase,    (* "idle" or "working"                                         *)
  run,      (* runs started, and the time                                  *)
  queue,    (* tasks of the run no worker has taken                        *)
  worker,   (* worker[w]: its task, where it is, the facility id it found  *)
  outcome   (* how the tasks of the run ended                              *)

pool == <<phase, run, queue, worker, outcome>>
vars == <<store, leaked, mutex, reader, pool>>

Tasks  == Classes \cup Keys
Resting == [pc |-> "idle", task |-> NoTask, id |-> 0]
Sections == {"commit", "prune1", "prune2", "prune3"}
Steps == {"check", "fetch", "lookup", "insert"} \cup Sections
WorkerStates == [pc : Steps \cup {"idle"}, task : Tasks \cup {NoTask}, id : Nat]
Outcomes == {"none", "cached", "unfetched", "lost", "stored", "unpruned"}

Init ==
  /\ SqlInit
  /\ phase = "idle"
  /\ run = 0
  /\ queue = {}
  /\ worker = [w \in Workers |-> Resting]
  /\ outcome = [k \in Tasks |-> "none"]

-----------------------------------------------------------------------------
(* optimizer_run.                                                          *)

(* sql_helper_open, sql_helper_init_schema and the tasks.                  *)
StartRun ==
  /\ phase = "idle"
  /\ ~leaked
  /\ run < MaxRuns
  /\ run' = run + 1
  /\ phase' = "working"
  /\ queue' = Classes \cup Configured[run + 1]
  /\ outcome' = [k \in Tasks |-> "none"]
  /\ UNCHANGED <<store, leaked, mutex, reader, worker>>

(* The schema cannot be read while a leaked handle holds its lock.         *)
StartRunFails ==
  /\ phase = "idle"
  /\ leaked
  /\ run < MaxRuns
  /\ run' = run + 1
  /\ outcome' = [k \in Tasks |-> "none"]
  /\ UNCHANGED <<store, leaked, mutex, reader, phase, queue, worker>>

(* tp_wait.                                                                *)
AllDone == queue = {} /\ \A w \in Workers : worker[w] = Resting

(* The reports are written and the database is closed.                     *)
EndRun ==
  /\ phase = "working"
  /\ AllDone
  /\ phase' = "idle"
  /\ Closes
  /\ UNCHANGED <<mutex, reader, run, queue, worker, outcome>>

(* calc_create_reports fails: the handle is forgotten, not closed.         *)
CalcFails ==
  /\ "calc" \in Faults
  /\ phase = "working"
  /\ AllDone
  /\ phase' = "idle"
  /\ leaked' = (leaked \/ txn = "stuck")
  /\ view' = disk
  /\ txn' = "none"
  /\ UNCHANGED <<disk, refused, mutex, reader, run, queue, worker, outcome>>

(* The process dies: what was not committed is gone, so are its locks.     *)
Crash ==
  /\ "crash" \in Faults
  /\ phase' = "idle"
  /\ queue' = {}
  /\ worker' = [w \in Workers |-> Resting]
  /\ outcome' = [k \in Tasks |-> "none"]
  /\ mutex' = NoWorker
  /\ view' = disk
  /\ txn' = "none"
  /\ leaked' = FALSE
  /\ UNCHANGED <<disk, refused, reader, run>>

-----------------------------------------------------------------------------
(* The workers.                                                            *)

At(w, pc) == phase = "working" /\ worker[w].pc = pc

(* Worker w goes on to pc, having found facility id.                       *)
GoesTo(w, pc, id) ==
  /\ worker' = [worker EXCEPT ![w].pc = pc, ![w].id = id]
  /\ UNCHANGED <<reader, phase, run, queue, outcome>>

(* Worker w is done with its task, which ended so.                         *)
Ends(w, how) ==
  /\ outcome' = [outcome EXCEPT ![worker[w].task] = how]
  /\ worker' = [worker EXCEPT ![w] = Resting]
  /\ UNCHANGED <<reader, phase, run, queue>>

(* A task is taken from the pool's queue.                                  *)
Take(w) ==
  /\ At(w, "idle")
  /\ \E k \in queue :
       /\ queue' = queue \ {k}
       /\ worker' = [worker EXCEPT ![w] =
            [pc |-> IF k \in Classes THEN "check" ELSE "fetch", task |-> k, id |-> 0]]
  /\ UNCHANGED <<store, leaked, mutex, reader, phase, run, outcome>>

(* The day whose spots the run wants, and the times its weather is for.    *)
Day == run - (run % RunsPerDay)
Times(k) == IF k \in Forecasts THEN run .. (run + Horizon) ELSE {run}

(* ech_update_cache looks for spots of the day in the cache first.         *)
Check(w) ==
  /\ At(w, "check")
  /\ mutex = NoWorker
  /\ IF [class |-> worker[w].task, t |-> Day] \in view.spots
     THEN Ends(w, "cached")
     ELSE GoesTo(w, "fetch", 0)
  /\ UNCHANGED <<store, leaked, mutex>>

(* epjn_update and epjn_parse, meteo_get_15_minutely or meteo_get_current. *)
Fetch(w) ==
  /\ At(w, "fetch")
  /\ GoesTo(w, IF worker[w].task \in Classes THEN "insert" ELSE "lookup", 0)
  /\ UNCHANGED <<store, leaked, mutex>>

FetchFails(w) ==
  /\ "fetch" \in Faults
  /\ At(w, "fetch")
  /\ Ends(w, "unfetched")
  /\ UNCHANGED <<store, leaked, mutex>>

(* sql_helper_get_or_create_facility, a locked section of its own.         *)
Lookup(w) ==
  /\ At(w, "lookup")
  /\ mutex = NoWorker
  /\ LET db == WithFacility(view, worker[w].task) IN
       /\ Executes(db, TRUE)
       /\ \E id \in IdsOf(db, worker[w].task) : GoesTo(w, "insert", id)
  /\ UNCHANGED mutex

LookupBusy(w) ==
  /\ At(w, "lookup")
  /\ mutex = NoWorker
  /\ Busy(TRUE)
  /\ Ends(w, "lost")
  /\ UNCHANGED mutex

(* sql_helper_insert_spots takes the mutex and inserts, ...                *)
InsertSpots(w) ==
  /\ At(w, "insert")
  /\ worker[w].task \in Classes
  /\ mutex = NoWorker
  /\ Begins(WithSpots(view, worker[w].task, Day))
  /\ mutex' = w
  /\ GoesTo(w, "commit", 0)

(* Mutant: no facility has to exist (foreign_keys is off).                 *)
Unchecked(db, id) == TRUE

(* FOREIGN KEY(facility_id) REFERENCES facility(id).                       *)
References(db, id) == \E f \in db.facility : f.id = id

(* ... sql_helper_insert_weather the same, ...                             *)
InsertWeather(w) ==
  /\ At(w, "insert")
  /\ worker[w].task \in Keys
  /\ mutex = NoWorker
  /\ References(view, worker[w].id)
  /\ Begins(WithWeather(view, worker[w].id, Times(worker[w].task),
                        [key |-> worker[w].task, run |-> run]))
  /\ mutex' = w
  /\ GoesTo(w, "commit", worker[w].id)

(* ... or rolls back when the facility is no longer there.                 *)
InsertWeatherFails(w) ==
  /\ At(w, "insert")
  /\ worker[w].task \in Keys
  /\ mutex = NoWorker
  /\ ~References(view, worker[w].id)
  /\ RollsBack
  /\ Ends(w, "lost")
  /\ UNCHANGED mutex

(* Mutant: the mutex is let go of before the prune.                        *)
CommitUnlocks(w) ==
  /\ At(w, "commit")
  /\ Commits
  /\ GoesTo(w, "prune1", worker[w].id)
  /\ mutex' = NoWorker

Commit(w) ==
  /\ At(w, "commit")
  /\ Commits
  /\ GoesTo(w, "prune1", worker[w].id)
  /\ UNCHANGED mutex

(* Mutant: a prune that fails leaves the mutex locked.                     *)
PruneKeepsMutex(w, i, pc, next) ==
  LET db == Pruned(view, i, run) IN
  /\ At(w, pc)
  /\ \/ /\ Executes(db, db # view)
        /\ IF next = "idle"
           THEN Ends(w, "stored") /\ mutex' = NoWorker
           ELSE GoesTo(w, next, worker[w].id) /\ UNCHANGED mutex
     \/ /\ Busy(db # view)
        /\ Ends(w, "unpruned")
        /\ UNCHANGED mutex

(* The statements of the prune; the last one lets go of the mutex.         *)
Prune(w, i, pc, next) ==
  LET db == Pruned(view, i, run) IN
  /\ At(w, pc)
  /\ \/ /\ Executes(db, db # view)
        /\ IF next = "idle"
           THEN Ends(w, "stored") /\ mutex' = NoWorker
           ELSE GoesTo(w, next, worker[w].id) /\ UNCHANGED mutex
     \/ /\ Busy(db # view)
        /\ Ends(w, "unpruned")
        /\ mutex' = NoWorker

Prunes(w) ==
  \/ Prune(w, 1, "prune1", "prune2")
  \/ Prune(w, 2, "prune2", "prune3")
  \/ Prune(w, 3, "prune3", "idle")

WorkerStep(w) ==
  \/ Take(w)
  \/ Check(w)
  \/ Fetch(w)
  \/ FetchFails(w)
  \/ Lookup(w)
  \/ LookupBusy(w)
  \/ InsertSpots(w)
  \/ InsertWeather(w)
  \/ InsertWeatherFails(w)
  \/ Commit(w)
  \/ Prunes(w)

Reads == /\ "reader" \in Faults
         /\ StartRead \/ EndRead
         /\ UNCHANGED pool

(* Every run that is looked at is over.                                    *)
Finished == phase = "idle" /\ run = MaxRuns /\ UNCHANGED vars

Next ==
  \/ StartRun
  \/ StartRunFails
  \/ EndRun
  \/ CalcFails
  \/ Crash
  \/ \E w \in Workers : WorkerStep(w)
  \/ Reads
  \/ Finished

Spec == Init /\ [][Next]_vars

(* The threads are scheduled, HTTP requests time out, tp_wait returns.     *)
FairSpec ==
  /\ Spec
  /\ WF_vars(EndRun)
  /\ \A w \in Workers : WF_vars(WorkerStep(w))

-----------------------------------------------------------------------------
(* Properties.                                                             *)

StoreOK ==
  /\ disk \in Tables
  /\ view \in Tables
  /\ txn \in {"none", "open", "stuck"}
  /\ refused \in BOOLEAN
  /\ leaked \in BOOLEAN

(* The mutex is held exactly by the worker in the middle of a locked       *)
(* section, and a transaction that is merely open belongs to that section. *)
SectionOK ==
  /\ mutex \in Workers \cup {NoWorker}
  /\ \A w \in Workers : worker[w].pc \in Sections <=> mutex = w
  /\ txn = "open" => \E w \in Workers : worker[w].pc = "commit"
  /\ txn = "none" => \A w \in Workers : worker[w].pc # "commit"

(* The variables hold values of their kind, and no section of the store is *)
(* entered by two workers.                                                 *)
TypeOK ==
  /\ StoreOK
  /\ SectionOK
  /\ reader \in {"idle", "reading", "refused"}
  /\ phase \in {"idle", "working"}
  /\ run \in Nat
  /\ queue \subseteq Tasks
  /\ worker \in [Workers -> WorkerStates]
  /\ outcome \in [Tasks -> Outcomes]

(* In what is committed and in what the optimizer sees, every weather row  *)
(* has its facility, and a facility has one row and one id.                *)
TablesConsistent ==
  \A db \in {disk, view} :
    /\ \A x \in db.weather : \E f \in db.facility : f.id = x.id
    /\ \A f, g \in db.facility : f.key = g.key \/ f.id = g.id => f = g

(* The weather stored under the id of a facility was fetched for that one, *)
(* or for one the code does not tell from it, though the id found in one   *)
(* locked section is used in another and prunes run in between: as long as *)
(* no commit was refused, whose rollback would give the ids away again.    *)
RowsOfTheirFacility ==
  ~refused =>
    \A db \in {disk, view} : \A x \in db.weather, f \in db.facility :
      x.id = f.id => <<x.v.key, f.key>> \in Near

(* The times the fetch of the values v brought, as far as they are not yet *)
(* to be pruned.                                                           *)
Due(v) == {t \in v.run .. v.run + (IF v.key \in Forecasts THEN Horizon ELSE 0) :
             t + Retention >= run}

(* No row that is stored under the id of x was fetched later.              *)
Latest(x) == \A y \in disk.weather : y.id = x.id => y.v.run <= x.v.run

(* A reader sees the latest fetch of a facility whole, however the workers *)
(* interleave and wherever the optimizer is killed: no time of it that is  *)
(* not yet to be pruned is missing or has other values, be it those of     *)
(* another facility near enough to be stored under the same id; as long as *)
(* no commit was refused.                                                  *)
LatestFetchWhole ==
  ~refused =>
    \A x \in disk.weather : Latest(x) =>
      \A t \in Due(x.v) : [id |-> x.id, t |-> t, v |-> x.v] \in disk.weather

(* Even while optiserver reads and commits are refused and rolled back: no *)
(* time of the latest fetch is missing, or left with values of an earlier  *)
(* run.                                                                    *)
LatestTimesFresh ==
  \A x \in disk.weather : Latest(x) =>
    \A t \in Due(x.v) : \E y \in disk.weather :
      y.id = x.id /\ y.t = t /\ y.v.run = x.v.run

(* What a task of this run stored, db holds: the spots of the day, or      *)
(* weather of this run for every time, under the id of a facility that is  *)
(* near enough.                                                            *)
Holds(db, k) ==
  IF k \in Classes THEN [class |-> k, t |-> Day] \in db.spots
  ELSE \E f \in db.facility :
         /\ <<k, f.key>> \in Near
         /\ \A t \in Times(k) : \E x \in db.weather :
              x.id = f.id /\ x.t = t /\ x.v.run = run

(* What a task reported as stored stays: the reports of the run find it    *)
(* and so does everybody after the run; as long as no commit was refused.  *)
StoredStays ==
  ~refused =>
    \A k \in Tasks : outcome[k] = "stored" =>
      Holds(IF phase = "working" THEN view ELSE disk, k)

(* "fetches, calculates, and stores energy/weather data" (README.md): what *)
(* was fetched is not lost on its way into the database.                   *)
FetchedIsStored == \A k \in Tasks : outcome[k] # "lost"

(* Every run comes to its end.                                             *)
RunEnds == phase = "working" ~> phase = "idle"
=============================================================================
