------------------------------ MODULE SqlHelper ------------------------------
(***************************************************************************)
(* SqlHelper (optimizer/src/sqlite_helpers.c): one SQLite handle on        *)
(* cache.db behind one mutex, used by every worker of the optimizer, and   *)
(* the handle of optiserver, which only reads.                             *)
(*                                                                         *)
(* SQLite is the vendored one in rollback-journal mode with no busy        *)
(* timeout: a reader holds a shared lock while it steps through its rows,  *)
(* a commit needs all readers gone, and a COMMIT that finds one fails,     *)
(* leaves the transaction open and keeps new readers out.  The code        *)
(* ignores the results of BEGIN and COMMIT.                                *)
(*                                                                         *)
(* Time is the number of the run; a fetch of run r brings weather for the  *)
(* times r .. r + Horizon, or for r alone.                                 *)
(***************************************************************************)
EXTENDS Naturals

CONSTANTS
  Workers,      (* threads of the pool                                     *)
  NoWorker,     (* nobody holds the mutex                                  *)
  Classes,      (* price classes, one electricity task each                *)
  Keys,         (* facility rows' keys: place, panel, forecast or current  *)
  Forecasts,    (* the keys of forecasts                                   *)
  Near,         (* pairs of keys whose places are less than 0.0001 degrees *)
                (* apart and whose panel and forecast are the same         *)
  Horizon,      (* how many times ahead a forecast reaches                 *)
  Retention     (* SQL_HELPER_CACHE_RETENTION_DAYS                         *)

ASSUME SqlAssumption ==
  /\ NoWorker \notin Workers
  /\ Forecasts \subseteq Keys
  /\ Near \subseteq Keys \X Keys
  /\ \A k \in Keys : <<k, k>> \in Near
  /\ \A pair \in Near : /\ <<pair[2], pair[1]>> \in Near
                        /\ pair[1] \in Forecasts <=> pair[2] \in Forecasts
  /\ Classes \cap Keys = {}
  /\ Horizon \in Nat
  /\ Retention \in Nat

VARIABLES
  disk,    (* what is committed: what a reader sees                        *)
  view,    (* what the optimizer's handle sees                             *)
  txn,     (* its transaction: "none", "open", or "stuck" after a COMMIT   *)
           (* that failed                                                  *)
  refused, (* history: a COMMIT has failed                                 *)
  leaked,  (* a handle nobody closed holds the lock of a stuck transaction *)
  mutex,   (* the worker in a locked section                               *)
  reader   (* optiserver: "idle", "reading" or "refused"                   *)

store == <<disk, view, txn, refused>>

(* The tables: facility rows, weather rows (values v that were fetched for *)
(* a key in a run), spots, and the counter of AUTOINCREMENT.               *)
Values == [key : Keys, run : Nat]
Tables == [facility : SUBSET [id : Nat \ {0}, key : Keys],
           weather  : SUBSET [id : Nat \ {0}, t : Nat, v : Values],
           spots    : SUBSET [class : Classes, t : Nat],
           seq      : Nat]

NoRows == [facility |-> {}, weather |-> {}, spots |-> {}, seq |-> 0]

SqlInit ==
  /\ disk = NoRows
  /\ view = NoRows
  /\ txn = "none"
  /\ refused = FALSE
  /\ leaked = FALSE
  /\ mutex = NoWorker
  /\ reader = "idle"

-----------------------------------------------------------------------------
(* What the statements compute from the tables db.                         *)

Has(db, key) == \E f \in db.facility : f.key = key

(* Mutant: sqlite3_last_insert_rowid instead of the SELECT.                *)
LastRowid(db, key) == {db.seq}

(* SELECT id FROM facility ...: the first row there is of a place near     *)
(* enough, in no order that is asked for.                                  *)
IdsOf(db, key) == {f.id : f \in {g \in db.facility : <<key, g.key>> \in Near}}

(* INSERT INTO facility ... ON CONFLICT DO UPDATE: keys are told apart     *)
(* exactly.                                                                *)
WithFacility(db, key) ==
  IF Has(db, key) THEN db
  ELSE [db EXCEPT !.seq = @ + 1,
                  !.facility = @ \cup {[id |-> db.seq + 1, key |-> key]}]

(* The upsert of the values of one fetch.                                  *)
WithWeather(db, id, times, v) ==
  [db EXCEPT !.weather = {w \in @ : w.id # id \/ w.t \notin times}
                           \cup {[id |-> id, t |-> t, v |-> v] : t \in times}]

WithSpots(db, class, t) ==
  [db EXCEPT !.spots = @ \cup {[class |-> class, t |-> t]}]

(* The three DELETEs of sql_helper_prune_cache_locked.                     *)
Pruned(db, statement, now) ==
  CASE statement = 1 -> [db EXCEPT !.spots = {s \in @ : s.t + Retention >= now}]
    [] statement = 2 -> [db EXCEPT !.weather = {w \in @ : w.t + Retention >= now}]
    [] statement = 3 -> [db EXCEPT !.facility =
         {f \in @ : \E w \in db.weather : w.id = f.id}]

-----------------------------------------------------------------------------
(* How a statement that leaves db in the tables ends.                      *)

(* It joins the transaction that is stuck, or is committed by itself: if   *)
(* it writes, only while nobody reads.                                     *)
Executes(db, writes) ==
  /\ view' = db
  /\ \/ txn = "stuck" /\ UNCHANGED disk
     \/ txn = "none" /\ (writes => reader # "reading") /\ disk' = db
  /\ UNCHANGED <<txn, refused, leaked>>

(* SQLITE_BUSY: the statement is rolled back.                              *)
Busy(writes) ==
  /\ txn = "none"
  /\ writes
  /\ reader = "reading"
  /\ UNCHANGED <<store, leaked>>

(* Mutant: without BEGIN every row is committed by itself, the first now.  *)
BeginsNothing(db) ==
  /\ view' = db
  /\ txn' = IF txn = "stuck" THEN "stuck" ELSE "open"
  /\ disk' = IF txn = "stuck" THEN disk
                     ELSE [db EXCEPT !.weather = {w \in @ : w \in view.weather \/ w.t = w.v.run}]
  /\ UNCHANGED <<refused, leaked>>

(* BEGIN, which does nothing in a stuck transaction, and the inserts.      *)
Begins(db) ==
  /\ view' = db
  /\ txn' = IF txn = "stuck" THEN "stuck" ELSE "open"
  /\ UNCHANGED <<disk, refused, leaked>>

(* ROLLBACK: of everything not committed, whoever wrote it.                *)
RollsBack ==
  /\ view' = disk
  /\ txn' = "none"
  /\ UNCHANGED <<disk, refused, leaked>>

(* COMMIT, whose result is ignored.                                        *)
Commits ==
  /\ IF reader = "reading"
     THEN txn' = "stuck" /\ refused' = TRUE /\ UNCHANGED disk
     ELSE txn' = "none" /\ disk' = view /\ UNCHANGED refused
  /\ UNCHANGED <<view, leaked>>

(* sqlite3_close rolls back.                                               *)
Closes == RollsBack

-----------------------------------------------------------------------------
(* optiserver's reads: refused while a commit is stuck, and then answered  *)
(* as if there were no rows.                                               *)

Locked == txn = "stuck" \/ leaked

StartRead ==
  /\ reader # "reading"
  /\ reader' = IF Locked THEN "refused" ELSE "reading"
  /\ UNCHANGED <<store, leaked, mutex>>

EndRead ==
  /\ reader = "reading"
  /\ reader' = "idle"
  /\ UNCHANGED <<store, leaked, mutex>>
=============================================================================
