------------------------------ MODULE Reports -------------------------------
(* The reports of an optimizer run: calc_create_reports and then            *)
(* consumption_analysis_create_reports, at the end of optimizer_run. The    *)
(* tasks of the thread pool run one after the other, since tp_wait is       *)
(* called in the loop. What the run before it stores, ech_update_cache for  *)
(* the day it is after, is one step here and the subject of OptimizerCache. *)
(*                                                                          *)
(* There are two days: files are named by the local date, prices are looked *)
(* for by epoch_now_day, midnight UTC, which is the day before for an hour  *)
(* or two after every local midnight. Time is counted in slots. The prices  *)
(* of a day begin at local midnight; the code takes them to begin an hour   *)
(* before epoch_now_day, which they do in winter: lead is the number of     *)
(* hours by which they begin earlier than that. A report is what it is      *)
(* computed from, SpotPrices says what it shows. The files are those of the *)
(* current date; the energy that was used, and its cost, are left out.      *)
EXTENDS SpotPrices, TLC

CONSTANTS
  Facilities,  \* config.facility_configs, a sequence
  Panels,      \* the facilities that have solar panels
  Patterns,    \* prices to choose a day's from: [every |-> slots of one, prices]
  Calendars,   \* the possible leads of the days
  Pasts,       \* the prices of a week and of two weeks before tomorrow, with
               \* the weights that weather_similarity gives them
  Trends,      \* trend_kwh
  Garbage,     \* what may lie behind the prices in memory
  Faults,      \* which of FaultKinds happen
  NoFile, Broken,
  MaxDay,      \* bound: the last date, in whose morning a behaviour ends; the first is 0
  MaxFaults    \* bound: faults of a behaviour

FaultKinds == {"fetch", "task", "weather", "write", "open", "meter", "crash"}
HistoryDays == 1..2  \* PRICE_ESTIMATE_HISTORY_DAYS

ASSUME ReportConstants ==
  /\ {MaxDay, MaxFaults} \subseteq Nat
  /\ Facilities \in Seq({Facilities[i] : i \in DOMAIN Facilities}) /\ Facilities # <<>>
  /\ Faults \subseteq FaultKinds
  /\ Calendars \subseteq [0..(MaxDay + 3) -> 0..1]
  /\ Patterns \subseteq [every : {1, PerHour}, prices : Seq(Int)]
  /\ \A pattern \in Patterns : Len(pattern.prices) * pattern.every >= Buckets + PerHour
  /\ Pasts \subseteq [prices : [HistoryDays -> Seq(Int)], weights : [HistoryDays -> Nat \ {0}]]
  /\ Trends \subseteq [0..(Buckets - 1) -> Nat]
  /\ Garbage \subseteq Int

VARIABLES
  clock,     \* thirds of a date: they begin at local midnight, at midnight UTC, and
             \* at 13, from when on tomorrow is fetched
  lead,      \* see above, of each day
  stored,    \* electricity_spots: the prices of each day
  at,        \* where the run is, and with which task or facility
  data,      \* what the task, or the analysis of the facility, has loaded
  lock,      \* mutex_global, "left" when a task has returned with it
  files,     \* the date's reports of each facility: the prices they show
  faults,    \* faults so far
  disturbed, \* history: no run has ended on this day, or a fault hit the last one
  unopened   \* history: a task of this process could not open its summary

vars == <<clock, lead, stored, at, data, lock, files, faults, disturbed, unopened>>
ghosts == <<faults, disturbed, unopened>>

NoPrices == [every |-> 1, prices |-> <<>>]
Idle == [step |-> "idle", n |-> 0]
Nothing == [prices |-> <<>>]

\* The files of a facility: an average of each kind, and the consumption.
Names == (Kinds \X {"json", "txt"})
           \cup ({"consumption"} \X {"json", "display", "txt", "display-7d", "display-30d"})
NoReports == [f \in {Facilities[i] : i \in DOMAIN Facilities} |-> [name \in Names |-> NoFile]]

\* localtime(time(NULL)), and epoch_now_day.
Date == clock \div 3
Day  == IF clock % 3 = 0 THEN Date - 1 ELSE Date

Init ==
  /\ clock = 1 /\ lead \in Calendars
  /\ stored = [day \in 0..(MaxDay + 2) |-> NoPrices]
  /\ at = Idle /\ data = Nothing
  /\ lock = "free" /\ files = NoReports /\ faults = 0 /\ disturbed = TRUE /\ unopened = FALSE

-----------------------------------------------------------------------------
(* Prices.                                                                  *)

\* The slots from the start of a day to the start of the next.
Length(day) == Buckets - (lead[day + 1] - lead[day]) * PerHour

StartOf(day, i) == day * Buckets - lead[day] * PerHour + (i - 1) * stored[day].every

\* The stored prices of a day that begin in the window of another.
Part(day, window) ==
  LET in == {i \in DOMAIN stored[day].prices :
               StartOf(day, i) \in (window * Buckets)..((window + 1) * Buckets - 1)}
  IN  IF in = {} THEN <<>> ELSE SubSeq(stored[day].prices, Min(in), Max(in))

\* sql_helper_read_spots of [epoch_now_day - 3600, that + 86400).
Spots(day) == Part(day, day) \o (IF day + 1 \in DOMAIN stored THEN Part(day + 1, day) ELSE <<>>)

\* Mutant: today's prices are preferred.
TodaysFirst(day) == IF Spots(day) # <<>> THEN Spots(day) ELSE Spots(day + 1)

\* calc_fetch_input_data: tomorrow's if there are any, else today's.
Newest(day) == IF Spots(day + 1) # <<>> THEN Spots(day + 1) ELSE Spots(day)

\* ech_update_cache, which looks at one day only.
FetchPrices ==
  LET target == IF clock % 3 = 2 THEN Day + 1 ELSE Day IN
  \/ /\ Spots(target) # <<>> \/ "fetch" \in Faults
     /\ UNCHANGED stored
  \/ /\ Spots(target) = <<>>
     /\ \E pattern \in Patterns :
          stored' = [stored EXCEPT ![target] =
            [pattern EXCEPT !.prices = SubSeq(@, 1, Length(target) \div pattern.every)]]

-----------------------------------------------------------------------------
(* Steps.                                                                   *)

FacilityOf(task) == Facilities[(task + 1) \div 2]
KindOf(task) == IF task % 2 = 1 THEN "quarterly" ELSE "hourly"

\* Mutant: one task too many.
AfterTaskOneMore(task) ==
  IF task <= 2 * Len(Facilities) THEN [step |-> "load", n |-> task + 1] ELSE [step |-> "meter", n |-> 0]

AfterTask(task) ==
  IF task < 2 * Len(Facilities) THEN [step |-> "load", n |-> task + 1] ELSE [step |-> "meter", n |-> 0]

AfterFacility(n) == IF n < Len(Facilities) THEN [step |-> "facility", n |-> n + 1] ELSE Idle

Goes(step) == at' = [at EXCEPT !.step = step]
Fault(kind) ==
  /\ kind \in Faults /\ faults < MaxFaults
  /\ faults' = faults + 1 /\ disturbed' = TRUE
  /\ unopened' = CASE kind = "open" -> TRUE [] kind = "crash" -> FALSE [] OTHER -> unopened

\* The file a step writes, and its facility.
Extension == [json |-> "json", summary |-> "txt", report |-> "json", display |-> "display",
              text |-> "txt", week |-> "display-7d", month |-> "display-30d"]
Writing == at.step \in DOMAIN Extension
InTask == at.step \in {"json", "summary"}
Facility == IF InTask THEN FacilityOf(at.n) ELSE Facilities[at.n]
File == <<IF InTask THEN KindOf(at.n) ELSE "consumption", Extension[at.step]>>

\* What a file says is told by the prices it shows.
Shows ==
  IF InTask THEN data.prices
  ELSE [today |-> data.today, tomorrow |-> data.tomorrow, source |-> data.source]

\* An analysis names its files by the date it began on (consumption_analysis.c:
\* 191), a task and a history report theirs by that of the write.
OfToday == at.step \in {"report", "display", "text"} => data.date = Date

Put(content) ==
  files' = IF OfToday THEN [files EXCEPT ![Facility][File] = content] ELSE files

\* write_string_to_file: when it fails it may have truncated the file.
PutFails == Fault("write") /\ \E left \in {files[Facility][File], Broken} : Put(left)

StartRun ==
  /\ at = Idle
  /\ FetchPrices
  /\ at' = [step |-> "load", n |-> 1]
  /\ disturbed' = FALSE
  /\ UNCHANGED <<clock, lead, data, lock, files, faults, unopened>>

-----------------------------------------------------------------------------
(* calc_daily_averages_threadtask.                                          *)

Load ==
  /\ at.step = "load"
  /\ LET prices == Newest(Day) IN
     IF Fits(prices, KindOf(at.n))
     THEN /\ \E behind \in IF OverReads(prices) THEN Garbage ELSE {0} :
               data' = [prices |-> prices, behind |-> behind]
          /\ Goes("json")
     ELSE at' = AfterTask(at.n) /\ UNCHANGED data
  /\ UNCHANGED <<clock, lead, stored, lock, files, ghosts>>

\* calc_create_reports finds no memory for its threads, and optimizer_run returns.
CreateReportsFails ==
  /\ at = [step |-> "load", n |-> 1]
  /\ Fault("task")
  /\ at' = Idle
  /\ UNCHANGED <<clock, lead, stored, data, lock, files>>

\* tp_task_add runs out of memory, or there is no weather for the panels.
LoadFails ==
  /\ at.step = "load"
  /\ \/ Fault("task")
     \/ FacilityOf(at.n) \in Panels /\ Fault("weather")
  /\ at' = AfterTask(at.n)
  /\ UNCHANGED <<clock, lead, stored, data, lock, files>>

\* Mutant: a failed write returns with the lock.
WriteJsonKeepsLock ==
  /\ at.step = "json" /\ lock = "free"
  /\ \/ Put(Shows) /\ UNCHANGED <<lock, ghosts>>
     \/ PutFails /\ lock' = "left"
  /\ Goes("summary")
  /\ UNCHANGED <<clock, lead, stored, data>>

\* calc_results_json_create: that the file cannot be written is only logged.
WriteJson ==
  /\ at.step = "json" /\ lock = "free"
  /\ (Put(Shows) /\ UNCHANGED ghosts) \/ PutFails
  /\ Goes("summary")
  /\ UNCHANGED <<clock, lead, stored, data, lock>>

EndTask == at' = AfterTask(at.n) /\ data' = Nothing

\* calc_summary_create; the results of fprintf and fclose are not looked at.
WriteSummary ==
  /\ at.step = "summary" /\ lock = "free"
  /\ (Put(Shows) /\ UNCHANGED ghosts) \/ (Put(Broken) /\ Fault("write"))
  /\ EndTask
  /\ UNCHANGED <<clock, lead, stored, lock>>

\* fopen fails, and the task returns before it unlocks.
SummaryUnopened ==
  /\ at.step = "summary" /\ lock = "free"
  /\ Fault("open")
  /\ lock' = "left"
  /\ EndTask
  /\ UNCHANGED <<clock, lead, stored, files>>

-----------------------------------------------------------------------------
(* consumption_analysis_create_reports.                                     *)

ReadMeter ==
  /\ at.step = "meter"
  /\ at' = [step |-> "facility", n |-> 1]
  /\ UNCHANGED <<clock, lead, stored, data, lock, files, ghosts>>

\* There is no store, no use in it, or it is locked: the analysis is skipped.
ReadMeterFails ==
  /\ at.step = "meter"
  /\ Fault("meter")
  /\ at' = Idle
  /\ UNCHANGED <<clock, lead, stored, data, lock, files>>

NoPast == [prices |-> [h \in HistoryDays |-> <<>>], weights |-> [h \in HistoryDays |-> 1]]

Sources == {"actual", "estimated", "today"}

\* Where create_facility_report has tomorrow's prices from: they are known, or
\* estimated from those of the past if there are any, or today's.
SourceOf(tomorrow, past) ==
  CASE tomorrow # <<>>                              -> "actual"
    [] tomorrow = <<>> /\ Used(past.prices) # {}    -> "estimated"
    [] OTHER                                        -> "today"

LoadFacility ==
  /\ at.step = "facility"
  /\ LET today == Spots(Day)
         tomorrow == Spots(Day + 1)
     IN  IF today = <<>>
         THEN at' = AfterFacility(at.n) /\ UNCHANGED data
         ELSE /\ \E past \in IF tomorrow = <<>> THEN Pasts ELSE {NoPast}, trend \in Trends :
                   data' = [date |-> Date, day |-> Day, today |-> today, tomorrow |-> tomorrow,
                            past |-> past, source |-> SourceOf(tomorrow, past), trend |-> trend]
              /\ Goes("report")
  /\ UNCHANGED <<clock, lead, stored, lock, files, ghosts>>

\* The prices of tomorrow that a report shows, in parts of unit.
Tomorrow(d) ==
  CASE d.source = "actual"    -> [unit |-> 1, prices |-> d.tomorrow]
    [] d.source = "estimated" -> Estimate(d.today, d.past.prices, d.past.weights)
    [] d.source = "today"     -> [unit |-> 1, prices |-> d.today]

\* apply_spot_costs
Recommended(d) == BestWindow(Tomorrow(d).prices, Tomorrow(d).unit, d.trend)

EndFacility == at' = AfterFacility(at.n) /\ data' = Nothing

\* write_json_report, write_display_json_report and write_txt_report: one that
\* fails ends the facility, but the text looks at fopen only.
WriteReport ==
  \E next \in {<<"report", "display">>, <<"display", "text">>, <<"text", "week">>} :
    /\ at.step = next[1]
    /\ \/ Put(Shows) /\ Goes(next[2]) /\ UNCHANGED <<data, ghosts>>
       \/ next[1] # "text" /\ PutFails /\ EndFacility
       \/ next[1] = "text" /\ Fault("write") /\ UNCHANGED files /\ EndFacility
       \/ next[1] = "text" /\ Fault("write") /\ Put(Broken) /\ Goes("week") /\ UNCHANGED data
    /\ UNCHANGED <<clock, lead, stored, lock>>

\* write_history_display_report, 7 days and 30 days; one that fails, or has no
\* use to show, is only logged.
WriteHistory ==
  /\ at.step \in {"week", "month"}
  /\ ((Put("series") \/ UNCHANGED files) /\ UNCHANGED ghosts) \/ PutFails
  /\ IF at.step = "week" THEN Goes("month") /\ UNCHANGED data ELSE EndFacility
  /\ UNCHANGED <<clock, lead, stored, lock>>

-----------------------------------------------------------------------------
(* The world.                                                               *)

\* A new date begins without files; midnight UTC leaves them.
Tick ==
  /\ clock < 3 * MaxDay + 1
  /\ clock' = clock + 1
  /\ files' = IF Date' = Date THEN files ELSE NoReports
  /\ disturbed' = (disturbed \/ Date' # Date \/ Day' # Day)
  /\ UNCHANGED <<lead, stored, at, data, lock, faults, unopened>>

\* The process is killed, in the middle of a write or not, and started again;
\* one that hangs is killed some time, whatever the bound.
Crash ==
  /\ at # Idle
  /\ \/ Fault("crash") /\ (UNCHANGED files \/ (Writing /\ Put(Broken)))
     \/ lock = "left" /\ disturbed' = TRUE /\ unopened' = FALSE /\ UNCHANGED <<files, faults>>
  /\ at' = Idle /\ data' = Nothing /\ lock' = "free"
  /\ UNCHANGED <<clock, lead, stored>>

RunStep ==
  \/ CreateReportsFails \/ Load \/ LoadFails \/ WriteJson \/ WriteSummary \/ SummaryUnopened
  \/ ReadMeter \/ ReadMeterFails \/ LoadFacility
  \/ WriteReport \/ WriteHistory

Next == StartRun \/ RunStep \/ Tick \/ Crash

\* The run is one thread of control, which the system schedules.
Spec == Init /\ [][Next]_vars /\ WF_vars(RunStep)
-----------------------------------------------------------------------------
(* Properties.                                                              *)

\* What an analysis loads.
IsAnalysis(d) ==
  /\ DOMAIN d = {"date", "day", "today", "tomorrow", "past", "source", "trend"}
  /\ d.today # <<>> /\ d.source \in Sources /\ (d.tomorrow # <<>>) = (d.source = "actual")

\* The state of a run. A task that loads and one that writes have a place in
\* the list of tasks, an analysis has one in the list of facilities.
TypeOK ==
  /\ clock \in 1..(3 * MaxDay + 1) /\ lead \in Calendars
  /\ DOMAIN stored = 0..(MaxDay + 2)
  /\ \/ at = Idle
     \/ at.step = "load" /\ at.n \in 1..(2 * Len(Facilities))
     \/ InTask /\ at.n \in 1..(2 * Len(Facilities)) /\ data.prices # <<>> /\ data.behind \in Int
     \/ at = [step |-> "meter", n |-> 0]
     \/ at.step = "facility" /\ at.n \in DOMAIN Facilities
     \/ Writing /\ ~InTask /\ at.n \in DOMAIN Facilities /\ IsAnalysis(data)
  /\ lock \in {"free", "left"} /\ {disturbed, unopened} \subseteq BOOLEAN

\* What is about to be reported: an hourly report, and a consumption report.
HourlyReports == IF at.step = "json" /\ KindOf(at.n) = "hourly" THEN {data} ELSE {}
Analyses == IF at.step = "report" THEN {data} ELSE {}

(* A run that nothing disturbs, neither a fault nor one of the midnights,   *)
(* leaves for every facility all reports of the date, with the prices that  *)
(* are stored: the averages with those of the day after Day if there are    *)
(* any (where that is not too short for them), else with those of Day; the  *)
(* consumption with those of Day, and of the day after or an estimate.      *)
(* Whatever happened before: crashes, failed writes, reports of the morning *)
(* or of before midnight UTC. Day is the date from midnight UTC on; before  *)
(* it the consumption of the new date shows the prices of the day before as *)
(* today's, and those of its own date as tomorrow's, which is what the code *)
(* does.                                                                    *)
FreshAfterRun ==
  at = Idle /\ ~disturbed =>
    LET newest == IF Spots(Day + 1) # <<>> THEN Spots(Day + 1) ELSE Spots(Day) IN
    \A f \in DOMAIN files :
      /\ \A kind \in Kinds, ext \in {"json", "txt"} :
           Count(kind) <= Len(newest) =>
             files[f][<<kind, ext>>] = newest
      /\ \A ext \in {"json", "display", "txt"} :
           Spots(Day) # <<>> =>
             \E source \in Sources :
               files[f][<<"consumption", ext>>] =
                 [today |-> Spots(Day), tomorrow |-> Spots(Day + 1), source |-> source]

(* A run ends, unless a task could not open its summary: then it, or the    *)
(* next run of the process, waits for ever for the lock that was left.      *)
RunEnds == at # Idle ~> at = Idle \/ unopened

(* The hourly and the quarterly report of the same day agree: an hour is    *)
(* marked only if a quarter of it is marked so. And what is marked is on    *)
(* the side of the average its mark says, unless the average is negative:   *)
(* then equal prices are all EXPENSIVE. Where a day has too few prices the  *)
(* average is not one of them, and nothing is promised.                     *)
MarksAgree ==
  \A hours \in HourlyReports :
    LET p == hours.prices
        sum == SumOf(p, 1..Buckets)
        Mark(kind, i) == Cheapness(p, sum + hours.behind, kind, i)
    IN  ~OverReads(p) =>
          \A hour \in Entries("hourly") :
            LET quarters == (hour * PerHour)..((hour + 1) * PerHour - 1)
                sides == Buckets * EntrySum(p, "hourly", hour) - PerHour * sum
            IN  /\ \A mark \in {"expensive", "cheap"} :
                     Mark("hourly", hour) = mark => \E q \in quarters : Mark("quarterly", q) = mark
                /\ sum >= 0 =>
                     /\ Mark("hourly", hour) = "expensive" => sides > 0
                     /\ Mark("hourly", hour) = "cheap" => sides < 0

(* The recommended start is that of the first of the cheapest windows of    *)
(* tomorrow, the last of the day among them.                                *)
WindowIsBest ==
  \A report \in Analyses :
    LET tomorrow == Tomorrow(report)
        best == Recommended(report)
        Cost(s) == Score(tomorrow.prices, tomorrow.unit, report.trend, s)
    IN  \A s \in 0..(Buckets - Window) :
          IF s < best THEN Cost(s) > Cost(best) ELSE Cost(s) >= Cost(best)

(* An estimate is sensible: where the history has prices as many as today,  *)
(* and a positive level, its average is today's; and a slot that was never  *)
(* dearer than another, neither today nor in the history, is not estimated  *)
(* dearer, unless today's average is negative.                              *)
EstimateKeepsLevel ==
  \A report \in {r \in Analyses : r.source = "estimated"} :
    LET days == {report.past.prices[h] : h \in Used(report.past.prices)}
        guess == Tomorrow(report)
    IN  (\A d \in days : Len(d) = Len(report.today) /\ Total(d) > 0) =>
          /\ Total(guess.prices) = guess.unit * Total(report.today)
          /\ Total(report.today) >= 0 =>
               \A i, j \in DOMAIN report.today :
                 (\A d \in days \cup {report.today} : d[i] <= d[j])
                   => guess.prices[i] <= guess.prices[j]

(* The periods of the highest and of the lowest price, where the day has a  *)
(* price an hour: the price printed for a period, that of the first bucket  *)
(* of its first hour, is near the extreme, and so is every price in it. Of  *)
(* quarters "start_hour" is the number of a quarter, and the price printed  *)
(* that of another time.                                                    *)
PeriodsExtreme(report) ==
  LET p == report.today
      all == {p[i] : i \in DOMAIN p}
  IN  Len(p) = Hours =>
        \A extreme \in {<<Max(all), MaxPeriod(p)>>, <<Min(all), MinPeriod(p)>>} :
          \A hour \in extreme[2].start..(extreme[2].end - 1) :
            SpotAtBucket(p, hour * PerHour) - extreme[1] \in (1 - Near)..(Near - 1)

(* The price of a time slot is its own: what spot_at_bucket gives for a     *)
(* bucket of the report's day, a quarter of local time, is the price stored *)
(* for it. On a day of 24 hours that begins where the code takes it to      *)
(* begin: in summer a bucket has the price of an hour later, or, while the  *)
(* next day's are not known, of a part of the day stretched to the whole.   *)
(* Nothing is said of costs: what was used between two midnights UTC is     *)
(* charged at these prices, the first hour of the next date included.       *)
SlotHasItsPrice(report) ==
  LET day == stored[report.day] IN
  day.prices # <<>> /\ lead[report.day] = 0 /\ lead[report.day + 1] = 0 =>
    \A bucket \in 0..(Buckets - 1) :
      SpotAtBucket(report.today, bucket) = day.prices[(bucket \div day.every) + 1]

(* Where a report shows a price of its day for a time, it is that of the time. *)
ShowsRightPrices ==
  \A report \in Analyses : SlotHasItsPrice(report) /\ PeriodsExtreme(report)
=============================================================================
