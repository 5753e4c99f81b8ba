----------------------------- MODULE MeterIngest -----------------------------
(* Meter readings, from POST /ingest to the consumption profile: optiserver *)
(* answers POST /ingest and GET /power/current (opti_instance.c) and keeps  *)
(* the readings in the meter store (meter_reading_store.c), a SQLite file   *)
(* in WAL mode; the optimizer opens the file read-only in every run and     *)
(* adds up what was used (consumption_analysis.c).                          *)
(*                                                                          *)
(* A reading keeps the fields the analysis uses: the import register        *)
(* (energy_import_kwh, or Absent) and the power (average_power_15m_w where  *)
(* the meter sent it, else power_w). A tick of the clock is the unit of     *)
(* received_at, and a watt is what uses one unit of energy in a tick.       *)
(* BEGIN takes nothing but the connection, which no one else uses, so it    *)
(* is part of the INSERT. A COMMIT that fails rolls the transaction back    *)
(* (sqlite3VdbeHalt), and the code does not look at its result.             *)
EXTENDS Integers, Sequences, FiniteSets, FiniteSetsExt, SequencesExt

CONSTANTS
  Absent,       \* the import register of a reading that has none
  NoReading,    \* osi_has_latest_meter_reading = 0
  Faults,       \* which of "insert", "commit" (the disk is full) and "crash" happen
  Watts,        \* the powers a meter may send
  Uses,         \* what may be used in a tick
  Day,          \* ticks in a day: 86400 s
  LoadDays,     \* PROFILE_HISTORY_MAX_DAYS
  HistoryDays,  \* PROFILE_HISTORY_DEFAULT_DAYS
  MaxGap,       \* 7200 s
  MaxStep,      \* 50 kWh
  MaxClock,     \* bound: ticks of a behaviour
  MaxReadings   \* bound: readings accepted in a behaviour

\* A reading: its number, its time, the two fields, and what was used before it.
Stamped == [nr : 1..MaxReadings, at : 0..MaxClock, energy : Nat \cup {Absent},
            watts : Watts, used : Nat]

ASSUME MeterConstants ==
  /\ Faults \subseteq {"insert", "commit", "crash"}
  /\ Watts \subseteq Nat /\ Uses \subseteq Nat
  /\ {MaxClock, MaxReadings} \subseteq Nat
  /\ {Day, LoadDays, HistoryDays, MaxGap, MaxStep} \subseteq Nat \ {0}
  /\ HistoryDays <= LoadDays
  /\ Absent \notin Int
  /\ NoReading \notin Stamped

VARIABLES
  clock,     \* time(NULL), of both processes
  meter,     \* the import register of the meter
  used,      \* history: what the house has used
  server,    \* where optiserver is: "down", "idle", "insert", "commit" or "answer"
  latest,    \* osi_latest_meter_reading, NoReading before the first
  accepted,  \* readings accepted so far
  tx,        \* rows of the open transaction
  rows,      \* meter_readings, in the order of their ids
  told,      \* history: what each accepted reading was answered, if anything
  uncommitted,  \* history: the readings whose COMMIT failed
  analysis   \* the optimizer: "idle", "loaded" or "built", its rows and profile

world  == <<clock, meter, used>>
answers == <<told, uncommitted>>
vars == <<clock, meter, used, server, latest, accepted, tx, rows, told, uncommitted, analysis>>

Nothing == [state |-> "idle", rows |-> <<>>, day |-> 0, today |-> 0, history |-> 0]

Init ==
  /\ clock = 0 /\ meter = 0 /\ used = 0
  /\ server = "down" /\ latest = NoReading /\ accepted = 0
  /\ tx = <<>> /\ rows = <<>> /\ told = <<>> /\ uncommitted = {}
  /\ analysis = Nothing

-----------------------------------------------------------------------------
(* The house and its meter.                                                 *)

Tick ==
  /\ clock < MaxClock
  /\ clock' = clock + 1
  /\ \E use \in Uses : meter' = meter + use /\ used' = used + use
  /\ UNCHANGED <<server, latest, accepted, tx, rows, answers, analysis>>

\* A new meter starts from zero.
ExchangeMeter ==
  /\ meter > 0
  /\ meter' = 0
  /\ UNCHANGED <<clock, used, server, latest, accepted, tx, rows, answers, analysis>>

-----------------------------------------------------------------------------
(* optiserver, which answers one request at a time.                         *)

\* The store is opened and its table made; a new process has no latest reading.
Start ==
  /\ server = "down"
  /\ server' = "idle" /\ latest' = NoReading
  /\ UNCHANGED <<world, accepted, tx, rows, answers, analysis>>

\* What the meter sends: only a reading with a power is accepted.
Reading ==
  [nr : {accepted + 1}, at : {clock}, energy : {meter, Absent}, watts : Watts, used : {used}]

\* POST /ingest that parses: the reading is the latest before it is stored.
\* One that does not is answered 400 and changes nothing.
PostIngest ==
  /\ server = "idle" /\ accepted < MaxReadings
  /\ latest' \in Reading
  /\ accepted' = accepted + 1
  /\ told' = Append(told, "nothing")
  /\ server' = "insert"
  /\ UNCHANGED <<world, tx, rows, uncommitted, analysis>>

\* Mutants: a failing INSERT leaves its transaction open; the client is
\* answered before the COMMIT.
InsertFailsInTx ==
  /\ server = "insert" /\ "insert" \in Faults
  /\ tx' = <<[latest EXCEPT !.at = clock]>>
  /\ told' = [told EXCEPT ![latest.nr] = "error"]
  /\ server' = "idle"
  /\ UNCHANGED <<world, latest, accepted, rows, uncommitted, analysis>>
InsertAndAnswer ==
  /\ server = "insert"
  /\ tx' = <<[latest EXCEPT !.at = clock]>>
  /\ told' = [told EXCEPT ![latest.nr] = "ok"]
  /\ server' = "commit"
  /\ UNCHANGED <<world, latest, accepted, rows, uncommitted, analysis>>

\* BEGIN and INSERT: the row has the time of its own insertion.
InsertReading ==
  /\ server = "insert"
  /\ tx' = <<[latest EXCEPT !.at = clock]>>
  /\ server' = "commit"
  /\ UNCHANGED <<world, latest, accepted, rows, answers, analysis>>

\* The step fails: ROLLBACK, and the client is told.
InsertFails ==
  /\ server = "insert" /\ "insert" \in Faults
  /\ told' = [told EXCEPT ![latest.nr] = "error"]
  /\ server' = "idle"
  /\ UNCHANGED <<world, latest, accepted, tx, rows, uncommitted, analysis>>

Commit ==
  /\ server = "commit"
  /\ rows' = rows \o tx /\ tx' = <<>>
  /\ server' = "answer"
  /\ UNCHANGED <<world, latest, accepted, answers, analysis>>

\* COMMIT fails, unnoticed: meter_store_insert_reading returns SUCCESS.
CommitFails ==
  /\ server = "commit" /\ "commit" \in Faults
  /\ tx' = <<>> /\ uncommitted' = uncommitted \cup {latest.nr}
  /\ server' = "answer"
  /\ UNCHANGED <<world, latest, accepted, rows, told, analysis>>

\* The client is told that all is well.
AnswerOk ==
  /\ server = "answer"
  /\ told' = [told EXCEPT ![latest.nr] = "ok"]
  /\ server' = "idle"
  /\ UNCHANGED <<world, latest, accepted, tx, rows, uncommitted, analysis>>

\* Killed at any point, also between the COMMIT and the answer; SQLite drops
\* the transaction that was open.
Crash ==
  /\ server # "down" /\ "crash" \in Faults
  /\ server' = "down" /\ latest' = NoReading /\ tx' = <<>>
  /\ UNCHANGED <<world, accepted, rows, answers, analysis>>

\* GET /power/current: the reading that is shown, 0 for 404.
PowerCurrent == IF latest = NoReading THEN 0 ELSE latest.nr

-----------------------------------------------------------------------------
(* The consumption analysis of an optimizer run.                            *)

DayStart == (clock \div Day) * Day

\* Rows with from <= received_at < to, by received_at: the index gives those
\* of one second in the order of their ids.
ReadRange(from, to) ==
  LET found == {i \in DOMAIN rows : from <= rows[i].at /\ rows[i].at < to}
      Before(i, j) == rows[i].at < rows[j].at \/ (rows[i].at = rows[j].at /\ i < j)
      Nth(k) == CHOOSE i \in found : Cardinality({j \in found : Before(j, i)}) = k - 1
  IN  [k \in 1..Cardinality(found) |-> rows[Nth(k)]]

\* WAL: the rows are those of one moment, whatever optiserver is doing. A run
\* with fewer than two rows ends here.
LoadGlobalMeterRows ==
  LET found == ReadRange(DayStart - LoadDays * Day, DayStart + Day)
  IN  /\ analysis.state = "idle" /\ Len(found) >= 2
      /\ analysis' = [Nothing EXCEPT !.state = "loaded", !.rows = found]
      /\ UNCHANGED <<world, server, latest, accepted, tx, rows, answers>>

\* What was used between two rows.
Kwh(prev, cur) ==
  IF prev.energy # Absent /\ cur.energy # Absent
  THEN cur.energy - prev.energy
  ELSE cur.watts * (cur.at - prev.at)

\* Mutant: two hours are one second too many.
CountsShortGaps(seq, i) ==
  LET prev == seq[i - 1]
      cur  == seq[i]
  IN  /\ cur.at > prev.at /\ cur.at - prev.at < MaxGap
      /\ prev.energy # Absent /\ cur.energy # Absent => Kwh(prev, cur) \in 0..MaxStep

\* Whether the pair that ends at row i counts at all.
Counts(seq, i) ==
  LET prev == seq[i - 1]
      cur  == seq[i]
  IN  /\ cur.at > prev.at /\ cur.at - prev.at <= MaxGap
      /\ prev.energy # Absent /\ cur.energy # Absent => Kwh(prev, cur) \in 0..MaxStep

\* The day of the profile a row belongs to. C divides towards zero: what is
\* less than a day too old has index 0, like the first day.
DayIndex(r, today) ==
  LET age == r.at - (today - HistoryDays * Day)
  IN  IF age >= 0 THEN age \div Day ELSE -((-age) \div Day)

IsToday(r, today)   == today <= r.at /\ r.at < today + Day
\* Mutant: midnight is in both days.
HistoryToMidnight(r, today) ==
  r.at <= today /\ DayIndex(r, today) \in 0..HistoryDays
IsHistory(r, today) == r.at < today /\ DayIndex(r, today) \in 0..(HistoryDays - 1)

\* The pairs that count at all, as today's or as one of the days before it.
Pairs(seq) == {i \in 2..Len(seq) : Counts(seq, i)}
Today(seq, today)   == {i \in Pairs(seq) : IsToday(seq[i], today)}
History(seq, today) == {i \in Pairs(seq) : IsHistory(seq[i], today)}

Total(seq, pairs) == MapThenSumSet(LAMBDA i : Kwh(seq[i - 1], seq[i]), pairs)

\* The profile's two totals, the second before it is divided by its days; the
\* day is looked at again and may have changed since the rows were read. A
\* profile of nothing ends the run.
BuildProfile ==
  LET seq     == analysis.rows
      today   == Total(seq, Today(seq, DayStart))
      history == Total(seq, History(seq, DayStart))
  IN  /\ analysis.state = "loaded"
      /\ analysis' = IF today > 0 \/ history > 0
                     THEN [state |-> "built", rows |-> seq, day |-> DayStart,
                           today |-> today, history |-> history]
                     ELSE Nothing
      /\ UNCHANGED <<world, server, latest, accepted, tx, rows, answers>>

\* The reports are written and the rows disposed of.
WriteReports ==
  /\ analysis.state = "built"
  /\ analysis' = Nothing
  /\ UNCHANGED <<world, server, latest, accepted, tx, rows, answers>>

Next ==
  \/ Tick \/ ExchangeMeter
  \/ Start \/ PostIngest \/ InsertReading \/ InsertFails
  \/ Commit \/ CommitFails \/ AnswerOk \/ Crash
  \/ LoadGlobalMeterRows \/ BuildProfile \/ WriteReports

Spec == Init /\ [][Next]_vars

-----------------------------------------------------------------------------
(* Properties.                                                              *)

\* The types; a transaction is open only between the INSERT and its COMMIT,
\* and holds the reading being answered (meter_store_insert_reading ends the
\* transaction on every path).
TypeOK ==
  /\ clock \in 0..MaxClock /\ {meter, used} \subseteq Nat /\ meter <= used
  /\ server \in {"down", "idle", "insert", "commit", "answer"}
  /\ latest \in Stamped \cup {NoReading}
  /\ server = "down" => latest = NoReading
  /\ server \in {"insert", "commit", "answer"} => latest # NoReading /\ latest.nr = accepted
  /\ accepted \in 0..MaxReadings
  /\ rows \in Seq(Stamped)
  /\ IF server = "commit" THEN Len(tx) = 1 /\ tx[1].nr = latest.nr ELSE tx = <<>>
  /\ told \in [1..accepted -> {"nothing", "ok", "error"}]
  /\ uncommitted \subseteq 1..accepted
  /\ analysis.state \in {"idle", "loaded", "built"}
  /\ {analysis.day, analysis.today, analysis.history} \subseteq Int

Stored == {r.nr : r \in Range(rows)}

\* What a meter was told of a reading is what became of it, whenever optiserver
\* crashed or restarted: an error and it is not stored; 200 and it is stored,
\* now and ever after, or its own COMMIT failed, whose result the code does not
\* look at, and then it is not (see AcceptedStays). What GET /power/current
\* shows between two requests is one of these, or its INSERT failed:
\* osi_post_ingest sets the latest reading before it stores it.
AnswersAreTrue ==
  /\ Stored \cap uncommitted = {}
  /\ \A n \in 1..accepted :
       /\ told[n] = "ok" => n \in Stored \cup uncommitted
       /\ told[n] = "error" => n \notin Stored \cup uncommitted
  /\ server = "idle" /\ PowerCurrent # 0 =>
       PowerCurrent \in Stored \cup uncommitted \/ told[PowerCurrent] = "error"

\* What the ingest guide promises of a reading that was answered 200: it is in
\* the database, after any restart (docs/p1-ingest-testing.md:13 and 26).
AcceptedStays == \A n \in 1..accepted : told[n] = "ok" => n \in Stored

FirstRow == Head(analysis.rows)
LastRow  == Last(analysis.rows)
AllHaveEnergy == \A r \in Range(analysis.rows) : r.energy # Absent

\* No profile counts more than the house used between its first and its last
\* row, whatever readings were lost, the meter was exchanged or the midnight
\* that passed between reading the rows and adding them up.
NothingCountedTwice ==
  analysis.state = "built" /\ AllHaveEnergy =>
    analysis.today + analysis.history <= LastRow.used - FirstRow.used

\* The rows the profile is about: those that follow each other closely enough,
\* within the days it covers, from one meter.
Regular ==
  \A i \in 2..Len(analysis.rows) :
    LET prev == analysis.rows[i - 1]
        cur  == analysis.rows[i]
    IN  /\ cur.at - prev.at \in 1..MaxGap
        /\ cur.energy - prev.energy \in 0..MaxStep
        /\ cur.at >= analysis.day - HistoryDays * Day

\* While the readings keep coming, nothing is missing from the profile: a
\* reading that was refused or lost costs nothing, the next one makes up for it.
NothingMissed ==
  analysis.state = "built" /\ AllHaveEnergy =>
    (Regular => analysis.today + analysis.history = LastRow.energy - FirstRow.energy)
=============================================================================
