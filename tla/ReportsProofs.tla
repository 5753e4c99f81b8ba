----------------------------- MODULE ReportsProofs -----------------------------
(* A run of the optimizer is where its tasks and facilities say it is, and    *)
(* leaves fresh reports if nothing disturbs it: for any number of facilities, *)
(* any calendar and prices, and whatever failed or crashed before. And what   *)
(* the reports show is right for any prices: the cost of a slot, the periods  *)
(* of extreme prices, the recommended window, the estimate of tomorrow and    *)
(* the marks.                                                                 *)
EXTENDS Reports, FiniteLemmas

(***************************************************************************)
(* Where a run is.                                                         *)
(***************************************************************************)

LEMMA IdleFacts == Idle.step = "idle" /\ Idle = [step |-> "idle", n |-> 0]
BY DEF Idle

LEMMA FacilityFacts == Len(Facilities) \in Nat \ {0} /\ DOMAIN Facilities = 1..Len(Facilities)
<1>1. Facilities \in Seq({Facilities[i] : i \in DOMAIN Facilities}) /\ Facilities # <<>>
  BY ReportConstants
<1> QED BY <1>1

\* A report has at least one entry, so that a sequence that fits is not empty.
LEMMA CountFacts ==
  ASSUME NEW kind \in Kinds
  PROVE  Count(kind) >= 1 /\ Count(kind) \in Nat
<1>1. Hours \in Nat /\ Hours >= 1 /\ PerHour \in Nat /\ PerHour >= 1
  BY PriceConstants
<1>2. Buckets \in Nat /\ Buckets >= PerHour /\ Buckets >= 1
  BY <1>1 DEF Buckets
<1>3. \A b, p \in Nat : p >= 1 /\ b >= p => b \div p \in Nat /\ b \div p >= 1
  OBVIOUS
<1>4. Interval(kind) \in Nat /\ Interval(kind) >= 1 /\ Buckets >= Interval(kind)
  BY <1>1, <1>2 DEF Kinds, Interval
<1> HIDE DEF Buckets
<1> QED BY <1>2, <1>3, <1>4 DEF Count

\* Newest and Spots depend on the prices and the calendar only.
LEMMA SpotsStay ==
  ASSUME UNCHANGED <<stored, lead>>
  PROVE  \A day : Spots(day)' = Spots(day)
<1>1. stored' = stored /\ lead' = lead
  OBVIOUS
<1>2. \A day, window : Part(day, window)' = Part(day, window)
  BY <1>1, ZenonT(30) DEF Part, StartOf
<1> QED BY <1>1, <1>2, Zenon DEF Spots

TaskSteps == {"load", "json", "summary"}
AnalysisSteps == {"facility", "report", "display", "text", "week", "month"}

\* Where a run is, and what the task or the analysis has loaded.
Place ==
  /\ at = [step |-> at.step, n |-> at.n]
  /\ at.step \in {"idle", "meter"} \cup TaskSteps \cup AnalysisSteps
  /\ at.step \in {"idle", "meter"} => at.n = 0
  /\ at.step \in TaskSteps => at.n \in 1..(2 * Len(Facilities))
  /\ at.step \in {"json", "summary"} => data.prices # <<>> /\ data.behind \in Int
  /\ at.step \in AnalysisSteps => at.n \in 1..Len(Facilities)
  /\ at.step \in AnalysisSteps \ {"facility"} => IsAnalysis(data)

TypeInv ==
  /\ clock \in 1..(3 * MaxDay + 1) /\ lead \in Calendars
  /\ DOMAIN stored = 0..(MaxDay + 2)
  /\ lock \in {"free", "left"} /\ {disturbed, unopened} \subseteq BOOLEAN
  /\ Place

LEMMA ExtensionFacts ==
  /\ DOMAIN Extension = {"json", "summary", "report", "display", "text", "week", "month"}
  /\ Extension["json"] = "json" /\ Extension["summary"] = "txt"
  /\ Extension["report"] = "json" /\ Extension["display"] = "display"
  /\ Extension["text"] = "txt" /\ Extension["week"] = "display-7d"
  /\ Extension["month"] = "display-30d"
BY DEF Extension

\* To be in the steps of the tasks, or of the analysis, is to be in a step of
\* one of them.
LEMMA PlaceIsTyped == TypeInv => TypeOK
<1> SUFFICES ASSUME TypeInv PROVE TypeOK
  OBVIOUS
<1>1. DOMAIN Facilities = 1..Len(Facilities)
  BY FacilityFacts
<1>2. \/ at = Idle
      \/ at.step = "load" /\ at.n \in 1..(2 * Len(Facilities))
      \/ InTask /\ at.n \in 1..(2 * Len(Facilities)) /\ data.prices # <<>> /\ data.behind \in Int
      \/ at = [step |-> "meter", n |-> 0]
      \/ at.step = "facility" /\ at.n \in DOMAIN Facilities
      \/ Writing /\ ~InTask /\ at.n \in DOMAIN Facilities /\ IsAnalysis(data)
  <2>1. CASE at.step = "idle"
    BY <2>1, IdleFacts DEF TypeInv, Place
  <2>2. CASE at.step = "meter"
    BY <2>2 DEF TypeInv, Place
  <2>3. CASE at.step \in TaskSteps
    BY <2>3 DEF TypeInv, Place, TaskSteps, InTask
  <2>4. CASE at.step \in AnalysisSteps
    BY <1>1, <2>4, ExtensionFacts DEF TypeInv, Place, AnalysisSteps, InTask, Writing
  <2> QED BY <2>1, <2>2, <2>3, <2>4 DEF TypeInv, Place
<1> QED BY <1>2, Zenon DEF TypeInv, TypeOK

\* The places a run goes to next.
LEMMA NextPlaces ==
  /\ \A n \in 1..(2 * Len(Facilities)) :
       AfterTask(n) \in {[step |-> "load", n |-> k] : k \in 1..(2 * Len(Facilities))}
                          \cup {[step |-> "meter", n |-> 0]}
  /\ \A n \in 1..Len(Facilities) :
       AfterFacility(n) \in {[step |-> "facility", n |-> k] : k \in 1..Len(Facilities)}
                              \cup {[step |-> "idle", n |-> 0]}
  /\ 1 \in 1..Len(Facilities) /\ 1 \in 1..(2 * Len(Facilities))
<1> DEFINE N == Len(Facilities)
<1>1. N \in Nat /\ N >= 1
  BY FacilityFacts
<1> HIDE DEF N
<1>2. 1 \in 1..N /\ 1 \in 1..(2 * N)
  BY <1>1
<1>3. \A n \in 1..(2 * N) : n < 2 * N => n + 1 \in 1..(2 * N)
  BY <1>1
<1>4. \A n \in 1..N : n < N => n + 1 \in 1..N
  BY <1>1
<1>5. \A n : AfterTask(n) = IF n < 2 * N THEN [step |-> "load", n |-> n + 1]
                            ELSE [step |-> "meter", n |-> 0]
  BY DEF AfterTask, N
<1>6. \A n : AfterFacility(n) = IF n < N THEN [step |-> "facility", n |-> n + 1]
                                ELSE [step |-> "idle", n |-> 0]
  BY IdleFacts DEF AfterFacility, N
<1> QED BY <1>2, <1>3, <1>4, <1>5, <1>6, Zenon DEF N

\* A place to which nothing has to be loaded.
LEMMA NewPlace ==
  ASSUME \/ at' = [step |-> "idle", n |-> 0]
         \/ at' = [step |-> "meter", n |-> 0]
         \/ \E k \in 1..(2 * Len(Facilities)) : at' = [step |-> "load", n |-> k]
         \/ \E k \in 1..Len(Facilities) : at' = [step |-> "facility", n |-> k]
  PROVE  Place'
BY DEF Place, TaskSteps, AnalysisSteps

\* A place in the same task, or in the same analysis.
LEMMA SamePlace ==
  ASSUME Place, NEW step, at' = [at EXCEPT !.step = step],
         \/ at.step = "load" /\ step = "json" /\ data'.prices # <<>> /\ data'.behind \in Int
         \/ at.step = "json" /\ step = "summary" /\ UNCHANGED data
         \/ at.step = "facility" /\ step = "report" /\ IsAnalysis(data')
         \/ at.step \in AnalysisSteps \ {"facility"} /\ step \in AnalysisSteps \ {"facility"}
              /\ UNCHANGED data
  PROVE  Place'
<1>1. at' = [step |-> step, n |-> at.n]
  BY DEF Place
<1>2. at'.step = step /\ at'.n = at.n /\ at' = [step |-> at'.step, n |-> at'.n]
  BY <1>1
<1>3. CASE at.step \in {"load", "json"} /\ step \in {"json", "summary"}
  BY <1>2, <1>3 DEF Place, TaskSteps, AnalysisSteps
<1>4. CASE at.step = "facility" /\ step = "report" /\ IsAnalysis(data')
  <2>1. IsAnalysis(data)'
    BY <1>4 DEF IsAnalysis
  <2> QED BY <1>2, <1>4, <2>1 DEF Place, TaskSteps, AnalysisSteps
<1>5. CASE at.step \in AnalysisSteps \ {"facility"} /\ step \in AnalysisSteps \ {"facility"}
             /\ UNCHANGED data
  <2>1. IsAnalysis(data)'
    BY <1>5 DEF IsAnalysis, Place
  <2> QED BY <1>2, <1>5, <2>1 DEF Place, TaskSteps, AnalysisSteps
<1> QED BY <1>3, <1>4, <1>5

\* Prices that fit a report are not none.
LEMMA FitsIsSomething == \A prices, kind : kind \in Kinds /\ Fits(prices, kind) => prices # <<>>
<1> SUFFICES ASSUME NEW kind \in Kinds, Fits(<<>>, kind) PROVE FALSE
  OBVIOUS
<1>1. Len(<<>>) = 0 /\ Count(kind) <= Len(<<>>)
  BY DEF Fits
<1> QED BY <1>1, CountFacts

LEMMA PlaceStep ==
  ASSUME Place, [Next]_vars
  PROVE  Place'
<1>1. CASE StartRun
  <2>1. at' = [step |-> "load", n |-> 1]
    BY <1>1 DEF StartRun
  <2> QED BY <2>1, NextPlaces, NewPlace
<1>2. CASE Load
  <2>1. at.step = "load" /\ at.n \in 1..(2 * Len(Facilities))
    BY <1>2 DEF Load, Place, TaskSteps
  <2>2. CASE Fits(Newest(Day), KindOf(at.n))
    <3>1. PICK behind \in IF OverReads(Newest(Day)) THEN Garbage ELSE {0} :
            data' = [prices |-> Newest(Day), behind |-> behind]
      BY <1>2, <2>2 DEF Load
    <3>2. behind \in Int
      BY <3>1, ReportConstants
    <3>3. KindOf(at.n) \in Kinds
      BY DEF KindOf, Kinds
    <3>4. data'.prices # <<>> /\ data'.behind \in Int
      BY <2>2, <3>1, <3>2, <3>3, FitsIsSomething
    <3>5. at' = [at EXCEPT !.step = "json"]
      BY <1>2, <2>2 DEF Load, Goes
    <3> QED BY <2>1, <3>4, <3>5, SamePlace
  <2>3. CASE ~Fits(Newest(Day), KindOf(at.n))
    <3>1. at' = AfterTask(at.n)
      BY <1>2, <2>3 DEF Load
    <3> QED BY <2>1, <3>1, NextPlaces, NewPlace
  <2> QED BY <2>2, <2>3
<1>3. CASE LoadFails \/ WriteSummary \/ SummaryUnopened
  <2>1. at.n \in 1..(2 * Len(Facilities)) /\ at' = AfterTask(at.n)
    BY <1>3 DEF LoadFails, WriteSummary, SummaryUnopened, EndTask, Place, TaskSteps
  <2> QED BY <2>1, NextPlaces, NewPlace
<1>4. CASE WriteJson
  <2>1. at.step = "json" /\ at' = [at EXCEPT !.step = "summary"] /\ UNCHANGED data
    BY <1>4 DEF WriteJson, Goes
  <2> QED BY <2>1, SamePlace
<1>5. CASE ReadMeter
  BY <1>5, NextPlaces, NewPlace DEF ReadMeter
<1>6. CASE CreateReportsFails \/ ReadMeterFails \/ Crash
  BY <1>6, IdleFacts, NewPlace DEF CreateReportsFails, ReadMeterFails, Crash
<1>7. CASE LoadFacility
  <2>1. at.step = "facility" /\ at.n \in 1..Len(Facilities)
    BY <1>7 DEF LoadFacility, Place, AnalysisSteps
  <2>2. CASE Spots(Day) = <<>>
    <3>1. at' = AfterFacility(at.n)
      BY <1>7, <2>2 DEF LoadFacility
    <3> QED BY <2>1, <3>1, NextPlaces, NewPlace
  <2>3. CASE Spots(Day) # <<>>
    <3>1. PICK past, trend :
            data' = [date |-> Date, day |-> Day, today |-> Spots(Day), tomorrow |-> Spots(Day + 1), past |-> past,
                     source |-> SourceOf(Spots(Day + 1), past), trend |-> trend]
      BY <1>7, <2>3 DEF LoadFacility
    <3>2. \A tomorrow : /\ SourceOf(tomorrow, past) \in Sources
                        /\ (tomorrow # <<>>) = (SourceOf(tomorrow, past) = "actual")
      <4> TAKE tomorrow
      <4>1. CASE tomorrow # <<>>
        <5>1. SourceOf(tomorrow, past) = "actual"
          BY <4>1 DEF SourceOf
        <5> QED BY <4>1, <5>1 DEF Sources
      <4>2. CASE tomorrow = <<>>
        <5>1. SourceOf(tomorrow, past) \in {"estimated", "today"}
          BY <4>2 DEF SourceOf
        <5> QED BY <4>2, <5>1 DEF Sources
      <4> QED BY <4>1, <4>2
    <3>3. IsAnalysis(data')
      BY <2>3, <3>1, <3>2 DEF IsAnalysis
    <3>4. at' = [at EXCEPT !.step = "report"]
      BY <1>7, <2>3 DEF LoadFacility, Goes
    <3> QED BY <2>1, <3>3, <3>4, SamePlace
  <2> QED BY <2>2, <2>3
<1>8. CASE WriteReport \/ WriteHistory
  <2>1. at.step \in AnalysisSteps \ {"facility"} /\ at.n \in 1..Len(Facilities)
    BY <1>8 DEF WriteReport, WriteHistory, Place, AnalysisSteps
  <2>2. \/ at' = AfterFacility(at.n)
        \/ \E step \in AnalysisSteps \ {"facility"} :
             at' = [at EXCEPT !.step = step] /\ UNCHANGED data
    BY <1>8 DEF WriteReport, WriteHistory, EndFacility, Goes, AnalysisSteps
  <2> QED BY <2>1, <2>2, NextPlaces, NewPlace, SamePlace
<1>9. CASE Tick \/ UNCHANGED vars
  <2>1. at' = at /\ data' = data
    BY <1>9 DEF Tick, vars
  <2>2. IsAnalysis(data)' = IsAnalysis(data)
    BY <2>1 DEF IsAnalysis
  <2> QED BY <2>1, <2>2 DEF Place
<1> QED BY <1>1, <1>2, <1>3, <1>4, <1>5, <1>6, <1>7, <1>8, <1>9 DEF Next, RunStep

\* The rest of the state keeps its type.
LEMMA TypeStep == TypeInv /\ [Next]_vars => TypeInv'
<1> SUFFICES ASSUME TypeInv, [Next]_vars PROVE TypeInv'
  OBVIOUS
<1>1. Place'
  BY PlaceStep DEF TypeInv
<1>2. MaxDay \in Nat
  BY ReportConstants
<1>3. clock' \in 1..(3 * MaxDay + 1) /\ lead' \in Calendars
  <2>1. CASE Tick
    BY <1>2, <2>1 DEF Tick, TypeInv
  <2>2. CASE ~Tick
    <3>1. clock' = clock /\ lead' = lead
      BY <2>2 DEF Next, RunStep, vars, StartRun, Load, CreateReportsFails, LoadFails, WriteJson, WriteSummary,
                  SummaryUnopened, ReadMeter, ReadMeterFails, LoadFacility, WriteReport,
                  WriteHistory, Crash
    <3> QED BY <3>1 DEF TypeInv
  <2> QED BY <2>1, <2>2
<1>4. DOMAIN stored' = 0..(MaxDay + 2)
  <2>1. CASE StartRun
    <3>1. FetchPrices
      BY <2>1 DEF StartRun
    <3>2. \/ stored' = stored
          \/ \E target, prices : stored' = [stored EXCEPT ![target] = prices]
      BY <3>1 DEF FetchPrices
    <3> QED BY <3>2 DEF TypeInv
  <2>2. CASE ~StartRun
    <3>1. stored' = stored
      BY <2>2 DEF Next, RunStep, vars, Tick, Load, CreateReportsFails, LoadFails, WriteJson, WriteSummary,
                  SummaryUnopened, ReadMeter, ReadMeterFails, LoadFacility, WriteReport,
                  WriteHistory, Crash
    <3> QED BY <3>1 DEF TypeInv
  <2> QED BY <2>1, <2>2
<1>5. \A kind : Fault(kind) => disturbed' = TRUE /\ unopened' \in {unopened, TRUE, FALSE}
  BY DEF Fault
<1>6. /\ lock' \in {lock, "free", "left"}
      /\ disturbed' \in {disturbed, TRUE, FALSE} /\ unopened' \in {unopened, TRUE, FALSE}
  BY <1>5 DEF Next, RunStep, vars, ghosts, StartRun, Tick, Load, CreateReportsFails, LoadFails, WriteJson, PutFails,
              WriteSummary, SummaryUnopened, ReadMeter, ReadMeterFails, LoadFacility, WriteReport,
              WriteHistory, Crash
<1> QED BY <1>1, <1>3, <1>4, <1>6 DEF TypeInv

LEMMA TypeInit == Init => TypeInv
<1> SUFFICES ASSUME Init PROVE TypeInv
  OBVIOUS
<1>1. MaxDay \in Nat
  BY ReportConstants
<1>2. clock \in 1..(3 * MaxDay + 1) /\ lead \in Calendars /\ DOMAIN stored = 0..(MaxDay + 2)
  BY <1>1 DEF Init
<1>3. Place
  BY IdleFacts DEF Init, Place, TaskSteps, AnalysisSteps
<1> QED BY <1>2, <1>3 DEF Init, TypeInv

LEMMA AlwaysTyped == Spec => []TypeInv
BY TypeInit, TypeStep, PTL DEF Spec

(* A task that loads and one that writes have a place in the list of tasks,   *)
(* an analysis one in the list of facilities, and each what it has loaded.    *)
THEOREM TypeCorrect == Spec => []TypeOK
BY AlwaysTyped, PlaceIsTyped, PTL

(***************************************************************************)
(* What a run leaves.                                                      *)
(***************************************************************************)

Owners == {Facilities[i] : i \in DOMAIN Facilities}
Tasks == 1..(2 * Len(Facilities))
TaskFiles == {"json", "txt"}
AnalysisFiles == {"json", "display", "txt"}

HasFiles == DOMAIN files = Owners /\ \A f \in Owners : DOMAIN files[f] = Names

\* A file of a task, or of an analysis, is what the prices stored make it.
Reported(k, ext) ==
  Count(KindOf(k)) <= Len(Newest(Day)) =>
    files[FacilityOf(k)][<<KindOf(k), ext>>] = Newest(Day)
Analysed(i, ext) ==
  Spots(Day) # <<>> =>
    \E source \in Sources :
      files[Facilities[i]][<<"consumption", ext>>] =
        [today |-> Spots(Day), tomorrow |-> Spots(Day + 1), source |-> source]

\* The tasks and the analyses that are behind the run have left what they
\* should, and the one that is at work what it has written so far, out of the
\* prices that are stored.
TasksFresh ==
  \A k \in Tasks : (at.step \in TaskSteps => k < at.n) => \A ext \in TaskFiles : Reported(k, ext)
FacilitiesFresh ==
  at.step \in AnalysisSteps \cup {"idle"} =>
    \A i \in 1..Len(Facilities) :
      (at.step \in AnalysisSteps => i < at.n) => \A ext \in AnalysisFiles : Analysed(i, ext)
DataFresh ==
  /\ at.step \in {"json", "summary"} => data.prices = Newest(Day)
  /\ at.step \in AnalysisSteps \ {"facility"} =>
       data.today = Spots(Day) /\ data.tomorrow = Spots(Day + 1) /\ data.source \in Sources
  /\ at.step \in {"report", "display", "text"} => data.date = Date
WritesFresh ==
  /\ at.step = "summary" => Reported(at.n, "json")
  /\ at.step \in {"display", "text", "week", "month"} => Analysed(at.n, "json")
  /\ at.step \in {"text", "week", "month"} => Analysed(at.n, "display")
  /\ at.step \in {"week", "month"} => Analysed(at.n, "txt")

FreshInv ==
  /\ HasFiles
  /\ ~disturbed => TasksFresh /\ FacilitiesFresh /\ DataFresh /\ WritesFresh

\* Every task has a facility and a kind of report, and every facility has the
\* two tasks of its kinds.
LEMMA TaskFacts ==
  /\ \A k \in Tasks : FacilityOf(k) \in Owners /\ KindOf(k) \in Kinds
  /\ \A f \in Owners, kind \in Kinds : \E k \in Tasks : FacilityOf(k) = f /\ KindOf(k) = kind
  /\ \A i \in 1..Len(Facilities) : Facilities[i] \in Owners
<1> DEFINE N == Len(Facilities)
<1>1. N \in Nat /\ N >= 1 /\ DOMAIN Facilities = 1..N
  BY FacilityFacts
<1> HIDE DEF N
<1>2. \A k \in 1..(2 * N) : (k + 1) \div 2 \in 1..N
  BY <1>1
<1>3. \A k : KindOf(k) \in Kinds
  BY DEF KindOf, Kinds
<1>4. \A k \in 1..(2 * N) : FacilityOf(k) \in Owners
  BY <1>1, <1>2 DEF FacilityOf, Owners
<1>5. \A i \in 1..N : /\ 2 * i \in 1..(2 * N) /\ (2 * i + 1) \div 2 = i /\ (2 * i) % 2 # 1
                      /\ 2 * i - 1 \in 1..(2 * N) /\ ((2 * i - 1) + 1) \div 2 = i
                      /\ (2 * i - 1) % 2 = 1
  BY <1>1
<1>6. ASSUME NEW f \in Owners, NEW kind \in Kinds
      PROVE  \E k \in 1..(2 * N) : FacilityOf(k) = f /\ KindOf(k) = kind
  <2>1. PICK i \in 1..N : Facilities[i] = f
    BY <1>1 DEF Owners
  <2>2. CASE kind = "quarterly"
    <3>1. FacilityOf(2 * i - 1) = f /\ KindOf(2 * i - 1) = kind
      BY <1>5, <2>1, <2>2 DEF FacilityOf, KindOf
    <3> QED BY <1>5, <3>1
  <2>3. CASE kind = "hourly"
    <3>1. FacilityOf(2 * i) = f /\ KindOf(2 * i) = kind
      BY <1>5, <2>1, <2>3 DEF FacilityOf, KindOf
    <3> QED BY <1>5, <3>1
  <2> QED BY <2>2, <2>3 DEF Kinds
<1>7. \A i \in 1..N : Facilities[i] \in Owners
  BY <1>1 DEF Owners
<1> QED BY <1>3, <1>4, <1>6, <1>7 DEF Tasks, N

LEMMA NameFacts ==
  /\ \A kind \in Kinds, ext \in TaskFiles : <<kind, ext>> \in Names
  /\ \A ext \in AnalysisFiles \cup {"display-7d", "display-30d"} : <<"consumption", ext>> \in Names
  /\ "consumption" \notin Kinds
BY DEF Names, Kinds, TaskFiles, AnalysisFiles

\* A write changes one file of one facility.
Written(f, name, content) == files' = [files EXCEPT ![f][name] = content]

LEMMA PutFacts ==
  ASSUME HasFiles, NEW f \in Owners, NEW name \in Names, NEW content,
         Written(f, name, content)
  PROVE  /\ HasFiles'
         /\ files'[f][name] = content
         /\ \A g \in Owners, other \in Names :
              g # f \/ other # name => files'[g][other] = files[g][other]
<1>1. DOMAIN files = Owners /\ \A g \in Owners : DOMAIN files[g] = Names
  BY DEF HasFiles
<1>2. files' = [g \in Owners |-> IF g = f THEN [files[f] EXCEPT ![name] = content] ELSE files[g]]
  BY <1>1 DEF Written
<1>3. [files[f] EXCEPT ![name] = content]
        = [other \in Names |-> IF other = name THEN content ELSE files[f][other]]
  BY <1>1
<1>4. DOMAIN files' = Owners
      /\ \A g \in Owners : files'[g] = IF g = f THEN [files[f] EXCEPT ![name] = content] ELSE files[g]
  BY <1>2
<1>5. \A g \in Owners : DOMAIN files'[g] = Names
  BY <1>1, <1>3, <1>4
<1>6. HasFiles'
  BY <1>4, <1>5 DEF HasFiles
<1> QED BY <1>3, <1>4, <1>6

\* The prices of today and the newest stay while the day, and what is stored,
\* does.
LEMMA DayStays ==
  ASSUME UNCHANGED <<stored, lead>>, Day' = Day
  PROVE  /\ Newest(Day)' = Newest(Day) /\ Spots(Day)' = Spots(Day)
         /\ Spots(Day + 1)' = Spots(Day + 1)
<1>1. \A day : Spots(day)' = Spots(day)
  BY SpotsStay
<1>2. \A day : Newest(day)' = Newest(day)
  BY <1>1 DEF Newest
<1> QED BY <1>1, <1>2

\* What stays reported, or analysed, over a step of a day: all of it, if a task
\* writes the newest prices, an analysis its own, or nobody what is looked at.
Stays ==
  /\ \A k \in Tasks, ext \in TaskFiles : Reported(k, ext) => Reported(k, ext)'
  /\ \A i \in 1..Len(Facilities), ext \in AnalysisFiles : Analysed(i, ext) => Analysed(i, ext)'

LEMMA NothingWritten ==
  ASSUME UNCHANGED <<stored, lead, files>>, Day' = Day
  PROVE  Stays
<1>1. files' = files
  OBVIOUS
<1>2. /\ Newest(Day)' = Newest(Day) /\ Spots(Day)' = Spots(Day)
      /\ Spots(Day + 1)' = Spots(Day + 1)
  BY DayStays
<1>3. \A k, ext : Reported(k, ext)' = Reported(k, ext)
  BY <1>1, <1>2 DEF Reported
<1>4. \A i, ext : Analysed(i, ext)' = Analysed(i, ext)
  BY <1>1, <1>2 DEF Analysed
<1> QED BY <1>3, <1>4, Zenon DEF Stays

LEMMA TaskWrites ==
  ASSUME HasFiles, UNCHANGED <<stored, lead>>, Day' = Day, NEW n \in Tasks, NEW ext \in TaskFiles,
         files' = [files EXCEPT ![FacilityOf(n)][<<KindOf(n), ext>>] = Newest(Day)]
  PROVE  HasFiles' /\ Stays /\ Reported(n, ext)'
<1>1. /\ Newest(Day)' = Newest(Day) /\ Spots(Day)' = Spots(Day)
      /\ Spots(Day + 1)' = Spots(Day + 1)
  BY DayStays
<1> DEFINE f == FacilityOf(n)
           name == <<KindOf(n), ext>>
<1>2. f \in Owners /\ name \in Names /\ KindOf(n) \in Kinds
  BY TaskFacts, NameFacts
<1>3. Written(f, name, Newest(Day))
  BY DEF Written
<1> HIDE DEF f, name
<1>4. /\ HasFiles'
      /\ files'[f][name] = Newest(Day)
      /\ \A g \in Owners, other \in Names :
           g # f \/ other # name => files'[g][other] = files[g][other]
  BY <1>2, <1>3, PutFacts
<1>5. ASSUME NEW k \in Tasks, NEW e \in TaskFiles, Reported(k, e)
      PROVE  Reported(k, e)'
  <2>1. FacilityOf(k) \in Owners /\ <<KindOf(k), e>> \in Names
    BY TaskFacts, NameFacts
  <2>2. \/ files'[FacilityOf(k)][<<KindOf(k), e>>] = Newest(Day)
        \/ files'[FacilityOf(k)][<<KindOf(k), e>>] = files[FacilityOf(k)][<<KindOf(k), e>>]
    BY <1>4, <2>1, Zenon
  <2> QED BY <1>1, <1>5, <2>2 DEF Reported
<1>6. ASSUME NEW i \in 1..Len(Facilities), NEW e \in AnalysisFiles, Analysed(i, e)
      PROVE  Analysed(i, e)'
  <2>1. Facilities[i] \in Owners /\ <<"consumption", e>> \in Names
    BY TaskFacts, NameFacts
  <2>2. <<"consumption", e>> # name
    BY <1>2, NameFacts DEF name
  <2>3. files'[Facilities[i]][<<"consumption", e>>] = files[Facilities[i]][<<"consumption", e>>]
    BY <1>4, <2>1, <2>2
  <2> QED BY <1>1, <1>6, <2>3 DEF Analysed
<1>7. Reported(n, ext)'
  BY <1>1, <1>4 DEF Reported, f, name
<1> QED BY <1>4, <1>5, <1>6, <1>7 DEF Stays

LEMMA AnalysisWrites ==
  ASSUME HasFiles, UNCHANGED <<stored, lead>>, Day' = Day, NEW n \in 1..Len(Facilities),
         NEW ext \in AnalysisFiles \cup {"display-7d", "display-30d"}, NEW content,
         files' = [files EXCEPT ![Facilities[n]][<<"consumption", ext>>] = content],
         ext \in AnalysisFiles =>
           \E source \in Sources :
             content = [today |-> Spots(Day), tomorrow |-> Spots(Day + 1), source |-> source]
  PROVE  HasFiles' /\ Stays /\ (ext \in AnalysisFiles => Analysed(n, ext)')
<1>1. /\ Newest(Day)' = Newest(Day) /\ Spots(Day)' = Spots(Day)
      /\ Spots(Day + 1)' = Spots(Day + 1)
  BY DayStays
<1> DEFINE f == Facilities[n]
           name == <<"consumption", ext>>
<1>2. f \in Owners /\ name \in Names
  BY TaskFacts, NameFacts
<1>3. Written(f, name, content)
  BY DEF Written
<1> HIDE DEF f, name
<1>4. /\ HasFiles'
      /\ files'[f][name] = content
      /\ \A g \in Owners, other \in Names :
           g # f \/ other # name => files'[g][other] = files[g][other]
  BY <1>2, <1>3, PutFacts
<1>5. ASSUME NEW k \in Tasks, NEW e \in TaskFiles, Reported(k, e)
      PROVE  Reported(k, e)'
  <2>1. FacilityOf(k) \in Owners /\ <<KindOf(k), e>> \in Names /\ <<KindOf(k), e>> # name
    <3>1. FacilityOf(k) \in Owners /\ <<KindOf(k), e>> \in Names /\ KindOf(k) \in Kinds
      BY TaskFacts, NameFacts
    <3>2. <<KindOf(k), e>> # name
      BY <3>1, NameFacts DEF name
    <3> QED BY <3>1, <3>2
  <2>2. files'[FacilityOf(k)][<<KindOf(k), e>>] = files[FacilityOf(k)][<<KindOf(k), e>>]
    BY <1>4, <2>1
  <2> QED BY <1>1, <1>5, <2>2 DEF Reported
<1>6. ASSUME NEW i \in 1..Len(Facilities), NEW e \in AnalysisFiles, Analysed(i, e)
      PROVE  Analysed(i, e)'
  <2>1. Facilities[i] \in Owners /\ <<"consumption", e>> \in Names
    BY TaskFacts, NameFacts
  <2>2. CASE <<"consumption", e>> = name /\ Facilities[i] = f
    <3>1. e = ext
      BY <2>2 DEF name
    <3>2. files'[Facilities[i]][<<"consumption", e>>] = content
      BY <1>4, <2>2
    <3> QED BY <1>1, <3>1, <3>2 DEF Analysed
  <2>3. CASE ~(<<"consumption", e>> = name /\ Facilities[i] = f)
    <3>1. files'[Facilities[i]][<<"consumption", e>>] = files[Facilities[i]][<<"consumption", e>>]
      BY <1>4, <2>1, <2>3
    <3> QED BY <1>1, <1>6, <3>1 DEF Analysed
  <2> QED BY <2>2, <2>3
<1>7. ext \in AnalysisFiles => Analysed(n, ext)'
  BY <1>1, <1>4 DEF Analysed, f, name
<1> QED BY <1>4, <1>5, <1>6, <1>7 DEF Stays

\* The tasks that are behind the run when it goes on.
LEMMA TaskEnds ==
  ASSUME Place, at.step \in TaskSteps, TasksFresh, Stays, NEW n, n = at.n,
         at' = AfterTask(n), \A ext \in TaskFiles : Reported(n, ext)'
  PROVE  TasksFresh' /\ FacilitiesFresh' /\ DataFresh' /\ WritesFresh'
<1> DEFINE N == Len(Facilities)
<1>1. N \in Nat /\ n \in 1..(2 * N)
  BY FacilityFacts DEF Place
<1>2. at' = IF n < 2 * N THEN [step |-> "load", n |-> n + 1] ELSE [step |-> "meter", n |-> 0]
  BY DEF AfterTask
<1>3. at'.step \in {"load", "meter"} /\ (at'.step = "load" => at'.n = n + 1)
      /\ (at'.step = "meter" => ~ (n < 2 * N))
  BY <1>2
<1>4. \A k \in Tasks : k < n => \A ext \in TaskFiles : Reported(k, ext)'
  BY Zenon DEF TasksFresh, Stays
<1> HIDE DEF N
<1>5. ASSUME NEW k \in Tasks, at'.step \in TaskSteps => k < at'.n
      PROVE  \A ext \in TaskFiles : Reported(k, ext)'
  <2>1. k \in 1..(2 * N)
    BY DEF Tasks, N
  <2>2. k < n \/ k = n
    <3>1. CASE at'.step = "load"
      <4>1. k < n + 1
        BY <1>3, <1>5, <3>1 DEF TaskSteps
      <4> QED BY <1>1, <2>1, <4>1
    <3>2. CASE at'.step = "meter"
      BY <1>1, <1>3, <2>1, <3>2
    <3> QED BY <1>3, <3>1, <3>2
  <2>3. CASE k < n
    BY <1>4, <2>3
  <2>4. CASE k = n
    BY <2>4, Zenon
  <2> QED BY <2>2, <2>3, <2>4
<1>6. TasksFresh'
  BY <1>5, Zenon DEF TasksFresh
<1>7. FacilitiesFresh' /\ DataFresh' /\ WritesFresh'
  BY <1>3 DEF FacilitiesFresh, DataFresh, WritesFresh, AnalysisSteps
<1> QED BY <1>6, <1>7

\* The analyses that are behind it.
LEMMA AnalysisEnds ==
  ASSUME Place, at.step \in AnalysisSteps, TasksFresh, FacilitiesFresh, Stays,
         NEW n, n = at.n, at' = AfterFacility(n), \A ext \in AnalysisFiles : Analysed(n, ext)'
  PROVE  TasksFresh' /\ FacilitiesFresh' /\ DataFresh' /\ WritesFresh'
<1> DEFINE N == Len(Facilities)
<1>1. N \in Nat /\ n \in 1..N
  BY FacilityFacts DEF Place
<1>2. at' = IF n < N THEN [step |-> "facility", n |-> n + 1] ELSE [step |-> "idle", n |-> 0]
  BY IdleFacts DEF AfterFacility
<1>3. at'.step \in {"facility", "idle"} /\ (at'.step = "facility" => at'.n = n + 1)
      /\ (at'.step = "idle" => ~ (n < N))
  BY <1>2
<1>4. \A i \in 1..N : i < n => \A ext \in AnalysisFiles : Analysed(i, ext)'
  BY Zenon DEF FacilitiesFresh, Stays
<1>5. \A k \in Tasks : \A ext \in TaskFiles : Reported(k, ext)'
  <2>1. at.step \notin TaskSteps
    BY DEF TaskSteps, AnalysisSteps
  <2> QED BY <2>1, Zenon DEF TasksFresh, Stays
<1> HIDE DEF N
<1>6. ASSUME NEW i \in 1..N, at'.step \in AnalysisSteps => i < at'.n
      PROVE  \A ext \in AnalysisFiles : Analysed(i, ext)'
  <2>1. i < n \/ i = n
    <3>1. CASE at'.step = "facility"
      <4>1. i < n + 1
        BY <1>3, <1>6, <3>1 DEF AnalysisSteps
      <4> QED BY <1>1, <4>1
    <3>2. CASE at'.step = "idle"
      BY <1>1, <1>3, <3>2
    <3> QED BY <1>3, <3>1, <3>2
  <2>2. CASE i < n
    BY <1>4, <2>2
  <2>3. CASE i = n
    BY <2>3, Zenon
  <2> QED BY <2>1, <2>2, <2>3
<1>7. TasksFresh'
  BY <1>5, Zenon DEF TasksFresh
<1>8. FacilitiesFresh'
  BY <1>6, Zenon DEF FacilitiesFresh, N
<1>9. DataFresh' /\ WritesFresh'
  BY <1>3 DEF DataFresh, WritesFresh, AnalysisSteps
<1> QED BY <1>7, <1>8, <1>9

\* Who writes, and what it is called.
LEMMA WhatIsWritten ==
  ASSUME Place
  PROVE  /\ at.step = "json" =>
              at.n \in Tasks /\ Facility = FacilityOf(at.n) /\ File = <<KindOf(at.n), "json">>
         /\ at.step = "summary" =>
              at.n \in Tasks /\ Facility = FacilityOf(at.n) /\ File = <<KindOf(at.n), "txt">>
         /\ \A e \in {<<"report", "json">>, <<"display", "display">>, <<"text", "txt">>,
                      <<"week", "display-7d">>, <<"month", "display-30d">>} :
              at.step = e[1] =>
                /\ at.n \in 1..Len(Facilities)
                /\ Facility = Facilities[at.n] /\ File = <<"consumption", e[2]>>
         /\ at.step \in {"json", "summary"} =>
              InTask /\ Shows = data.prices
         /\ at.step \in AnalysisSteps =>
              Shows = [today |-> data.today, tomorrow |-> data.tomorrow, source |-> data.source]
<1>1. at.step \in {"json", "summary"} => at.n \in Tasks
  BY DEF Place, Tasks, TaskSteps
<1>2. at.step \in AnalysisSteps => at.n \in 1..Len(Facilities) /\ ~InTask
  BY DEF Place, AnalysisSteps, InTask
<1>3. at.step \in {"json", "summary"} => InTask
  BY DEF InTask
<1>4. at.step = "json" => Facility = FacilityOf(at.n) /\ File = <<KindOf(at.n), "json">>
  BY <1>3, ExtensionFacts DEF Facility, File
<1>5. at.step = "summary" => Facility = FacilityOf(at.n) /\ File = <<KindOf(at.n), "txt">>
  BY <1>3, ExtensionFacts DEF Facility, File
<1>6. at.step \in AnalysisSteps =>
        Facility = Facilities[at.n] /\ File = <<"consumption", Extension[at.step]>>
  BY <1>2 DEF Facility, File
<1>7. /\ at.step = "report" => File = <<"consumption", "json">>
      /\ at.step = "display" => File = <<"consumption", "display">>
      /\ at.step = "text" => File = <<"consumption", "txt">>
      /\ at.step = "week" => File = <<"consumption", "display-7d">>
      /\ at.step = "month" => File = <<"consumption", "display-30d">>
  BY <1>6, ExtensionFacts DEF AnalysisSteps
<1>8. \A e \in {<<"report", "json">>, <<"display", "display">>, <<"text", "txt">>,
                <<"week", "display-7d">>, <<"month", "display-30d">>} :
        at.step = e[1] =>
          /\ at.n \in 1..Len(Facilities)
          /\ Facility = Facilities[at.n] /\ File = <<"consumption", e[2]>>
  BY <1>2, <1>6, <1>7 DEF AnalysisSteps
<1>9. at.step \in {"json", "summary"} => Shows = data.prices
  BY <1>3 DEF Shows
<1>10. at.step \in AnalysisSteps =>
         Shows = [today |-> data.today, tomorrow |-> data.tomorrow, source |-> data.source]
  BY <1>2 DEF Shows
<1> QED BY <1>1, <1>3, <1>4, <1>5, <1>8, <1>9, <1>10

\* Whatever is written, and whatever fails, the files are those they were.
LEMMA FilesStep ==
  ASSUME Place, HasFiles, [Next]_vars
  PROVE  HasFiles'
<1>1. Writing => Facility \in Owners /\ File \in Names
  <2> SUFFICES ASSUME Writing PROVE Facility \in Owners /\ File \in Names
    OBVIOUS
  <2>1. at.step \in {"json", "summary", "report", "display", "text", "week", "month"}
    BY ExtensionFacts DEF Writing
  <2>2. CASE at.step \in {"json", "summary"}
    BY <2>2, WhatIsWritten, TaskFacts, NameFacts DEF TaskFiles
  <2>3. CASE at.step \in {"report", "display", "text", "week", "month"}
    <3>1. PICK e \in {<<"report", "json">>, <<"display", "display">>, <<"text", "txt">>,
                      <<"week", "display-7d">>, <<"month", "display-30d">>} : at.step = e[1]
      BY <2>3
    <3>2. at.n \in 1..Len(Facilities) /\ Facility = Facilities[at.n] /\ File = <<"consumption", e[2]>>
      BY <3>1, WhatIsWritten
    <3>3. e[2] \in AnalysisFiles \cup {"display-7d", "display-30d"}
      BY DEF AnalysisFiles
    <3> QED BY <3>2, <3>3, TaskFacts, NameFacts
  <2> QED BY <2>1, <2>2, <2>3
<1>2. ASSUME Writing, NEW content, Put(content)
      PROVE  HasFiles'
  <2>1. Written(Facility, File, content) \/ UNCHANGED files
    BY <1>2 DEF Put, Written
  <2> QED BY <1>1, <1>2, <2>1, PutFacts DEF HasFiles
<1>3. CASE UNCHANGED files
  BY <1>3 DEF HasFiles
<1>4. CASE files' = NoReports
  BY <1>4 DEF HasFiles, NoReports, Owners
<1>5. UNCHANGED files \/ files' = NoReports \/ (Writing /\ \E content : Put(content))
  BY ExtensionFacts
     DEF Next, RunStep, vars, ghosts, Writing, StartRun, Tick, Load, CreateReportsFails, LoadFails, WriteJson, PutFails,
         WriteSummary, SummaryUnopened, ReadMeter, ReadMeterFails, LoadFacility, WriteReport,
         WriteHistory, Crash
<1> QED BY <1>2, <1>3, <1>4, <1>5

\* A step that leaves the run undisturbed: the day is as it was, and nothing
\* failed.
LEMMA Undisturbed ==
  ASSUME TypeInv, [Next]_vars, ~disturbed', ~StartRun
  PROVE  /\ ~disturbed /\ Date' = Date /\ Day' = Day /\ UNCHANGED <<stored, lead>>
         /\ \/ UNCHANGED <<at, data, files>>
            \/ Load \/ WriteJson \/ WriteSummary \/ ReadMeter \/ LoadFacility
            \/ WriteReport \/ WriteHistory
         /\ \A kind : ~Fault(kind)
<1>1. \A kind : ~Fault(kind)
  BY DEF Fault
<1>2. ~CreateReportsFails /\ ~LoadFails /\ ~SummaryUnopened /\ ~ReadMeterFails /\ ~Crash
  BY <1>1 DEF CreateReportsFails, LoadFails, SummaryUnopened, ReadMeterFails, Crash
<1>3. CASE Tick
  <2>1. ~disturbed /\ Date' = Date /\ Day' = Day
    BY <1>3 DEF Tick
  <2>2. UNCHANGED files
    BY <1>3, <2>1 DEF Tick
  <2> QED BY <1>1, <1>3, <2>1, <2>2 DEF Tick
<1>4. CASE UNCHANGED vars
  <2>1. Date' = Date /\ Day' = Day
    BY <1>4 DEF vars, Day, Date
  <2> QED BY <1>1, <1>4, <2>1 DEF vars
<1>5. CASE Load \/ WriteJson \/ WriteSummary \/ ReadMeter \/ LoadFacility \/ WriteReport \/ WriteHistory
  <2>1. /\ clock' = clock /\ stored' = stored /\ lead' = lead
    BY <1>5 DEF Load, WriteJson, WriteSummary, ReadMeter, LoadFacility, WriteReport, WriteHistory
  <2>2. disturbed' = disturbed
    BY <1>1, <1>5 DEF Load, WriteJson, WriteSummary, ReadMeter, LoadFacility, WriteReport,
                      WriteHistory, ghosts, PutFails
  <2>3. Date' = Date /\ Day' = Day
    BY <2>1 DEF Day, Date
  <2> QED BY <1>1, <1>5, <2>1, <2>2, <2>3
<1> QED BY <1>2, <1>3, <1>4, <1>5 DEF Next, RunStep

\* A step of an analysis: what it writes is its own, so that what is behind the
\* run stays, and what it has written so far is fresh.
LEMMA AnalysisWritesOn ==
  ASSUME Place, HasFiles, TasksFresh, FacilitiesFresh, DataFresh, WritesFresh,
         UNCHANGED <<stored, lead>>, Date' = Date, Day' = Day,
         \A kind : ~Fault(kind), WriteReport
  PROVE  TasksFresh' /\ FacilitiesFresh' /\ DataFresh' /\ WritesFresh'
<1>1. PICK next \in {<<"report", "display">>, <<"display", "text">>, <<"text", "week">>} :
        at.step = next[1] /\ Put(Shows) /\ Goes(next[2]) /\ UNCHANGED data
  BY DEF WriteReport, PutFails
<1>2. PICK ext \in AnalysisFiles :
        \/ at.step = "report" /\ next[2] = "display" /\ ext = "json"
        \/ at.step = "display" /\ next[2] = "text" /\ ext = "display"
        \/ at.step = "text" /\ next[2] = "week" /\ ext = "txt"
  BY <1>1 DEF AnalysisFiles
<1> DEFINE n == at.n
<1>3. /\ n \in 1..Len(Facilities) /\ Facility = Facilities[n] /\ File = <<"consumption", ext>>
      /\ Shows = [today |-> data.today, tomorrow |-> data.tomorrow, source |-> data.source]
      /\ at.step \in AnalysisSteps \ {"facility"}
  BY <1>1, <1>2, WhatIsWritten DEF AnalysisSteps
<1>4. Shows = [today |-> Spots(Day), tomorrow |-> Spots(Day + 1), source |-> data.source]
      /\ data.source \in Sources
  BY <1>3 DEF DataFresh
<1>5. files' = [files EXCEPT ![Facilities[n]][<<"consumption", ext>>] = Shows]
  <2>1. OfToday
    BY DEF OfToday, DataFresh
  <2> QED BY <1>1, <1>3, <2>1 DEF Put
<1>6. PICK m \in 1..Len(Facilities) : m = n
  BY <1>3
<1>7. Stays /\ Analysed(m, ext)'
  BY <1>4, <1>5, <1>6, AnalysisWrites
<1>8. at' = [step |-> next[2], n |-> n]
  BY <1>1 DEF Goes, Place
<1>9. at'.step = next[2] /\ at'.n = m /\ at.n = m
  BY <1>6, <1>8
<1>10. at.step \in AnalysisSteps /\ at'.step \in AnalysisSteps \ {"facility"}
       /\ at.step \notin TaskSteps /\ at'.step \notin TaskSteps
  BY <1>1, <1>9 DEF AnalysisSteps, TaskSteps
<1>11. TasksFresh'
  BY <1>7, <1>10, Zenon DEF TasksFresh, Stays
<1>12. FacilitiesFresh'
  <2>1. \A i \in 1..Len(Facilities) : i < m => \A e \in AnalysisFiles : Analysed(i, e)
    BY <1>9, <1>10 DEF FacilitiesFresh
  <2>2. \A i \in 1..Len(Facilities) : i < m => \A e \in AnalysisFiles : Analysed(i, e)'
    BY <1>7, <2>1, Zenon DEF Stays
  <2> QED BY <1>9, <1>10, <2>2 DEF FacilitiesFresh
<1>13. DataFresh'
  <2>1. /\ Spots(Day)' = Spots(Day) /\ Spots(Day + 1)' = Spots(Day + 1) /\ data' = data
        /\ at'.step \in {"report", "display", "text"} => data.date = Date
    BY <1>1, <1>2, DayStays DEF DataFresh
  <2>2. at'.step \notin {"json", "summary"}
    BY <1>10 DEF AnalysisSteps
  <2> QED BY <1>3, <2>1, <2>2 DEF DataFresh
<1>14. WritesFresh'
  <2>1. /\ at.step \in {"display", "text"} => Analysed(m, "json")'
        /\ at.step = "text" => Analysed(m, "display")'
    <3>1. /\ at.step \in {"display", "text"} => Analysed(m, "json")
          /\ at.step = "text" => Analysed(m, "display")
      BY <1>9 DEF WritesFresh
    <3> QED BY <1>6, <1>7, <3>1 DEF Stays, AnalysisFiles
  <2>2. Analysed(at.n, "json")' = Analysed(m, "json")'
        /\ Analysed(at.n, "display")' = Analysed(m, "display")'
        /\ Analysed(at.n, "txt")' = Analysed(m, "txt")'
    BY <1>9 DEF Analysed
  <2> QED BY <1>2, <1>7, <1>9, <2>1, <2>2 DEF WritesFresh
<1> QED BY <1>11, <1>12, <1>13, <1>14

LEMMA FreshStep == TypeInv /\ FreshInv /\ [Next]_vars => FreshInv'
<1> SUFFICES ASSUME TypeInv, FreshInv, [Next]_vars PROVE FreshInv'
  OBVIOUS
<1>1. HasFiles'
  BY FilesStep DEF TypeInv, FreshInv
<1> DEFINE Fresh == TasksFresh /\ FacilitiesFresh /\ DataFresh /\ WritesFresh
<1>2. CASE disturbed'
  BY <1>1, <1>2 DEF FreshInv
<1>3. CASE StartRun
  <2>1. at'.step = "load" /\ at'.n = 1
    BY <1>3 DEF StartRun
  <2>2. \A k \in Tasks : ~ (k < 1)
    <3>1. Len(Facilities) \in Nat
      BY FacilityFacts
    <3> QED BY <3>1 DEF Tasks
  <2>3. TasksFresh'
    BY <2>1, <2>2 DEF TasksFresh, TaskSteps
  <2>4. FacilitiesFresh' /\ DataFresh' /\ WritesFresh'
    BY <2>1 DEF FacilitiesFresh, DataFresh, WritesFresh, AnalysisSteps
  <2> QED BY <1>1, <2>3, <2>4 DEF FreshInv
<1>4. ASSUME ~disturbed', ~StartRun
      PROVE  Fresh'
  <2>1. /\ ~disturbed /\ Date' = Date /\ Day' = Day /\ UNCHANGED <<stored, lead>>
        /\ \/ UNCHANGED <<at, data, files>>
           \/ Load \/ WriteJson \/ WriteSummary \/ ReadMeter \/ LoadFacility
           \/ WriteReport \/ WriteHistory
        /\ \A kind : ~Fault(kind)
    BY <1>4, Undisturbed
  <2>2. Place /\ HasFiles /\ TasksFresh /\ FacilitiesFresh /\ DataFresh /\ WritesFresh
    BY <2>1 DEF TypeInv, FreshInv
  <2>3. /\ Newest(Day)' = Newest(Day) /\ Spots(Day)' = Spots(Day)
        /\ Spots(Day + 1)' = Spots(Day + 1)
    BY <2>1, DayStays
  <2>4. UNCHANGED files => Stays
    BY <2>1, NothingWritten
  <2>5. CASE UNCHANGED <<at, data, files>>
    <3>1. at' = at /\ data' = data
      BY <2>5
    <3>2. TasksFresh' /\ FacilitiesFresh'
      BY <2>2, <2>4, <2>5, <3>1, Zenon DEF TasksFresh, FacilitiesFresh, Stays
    <3>3. DataFresh'
      BY <2>1, <2>2, <2>3, <3>1 DEF DataFresh
    <3>4. WritesFresh'
      <4>1. /\ Reported(at.n, "json")' = Reported(at.n, "json")
            /\ Analysed(at.n, "json")' = Analysed(at.n, "json")
            /\ Analysed(at.n, "display")' = Analysed(at.n, "display")
            /\ Analysed(at.n, "txt")' = Analysed(at.n, "txt")
        BY <2>3, <2>5, <3>1 DEF Reported, Analysed
      <4> QED BY <2>2, <3>1, <4>1 DEF WritesFresh
    <3> QED BY <3>2, <3>3, <3>4
  <2>6. CASE Load
    <3>1. at.step = "load" /\ Stays /\ at.step \in TaskSteps
      BY <2>4, <2>6 DEF Load, TaskSteps
    <3>2. CASE Fits(Newest(Day), KindOf(at.n))
      <4>1. at' = [step |-> "json", n |-> at.n] /\ data'.prices = Newest(Day)
        BY <2>2, <2>6, <3>2 DEF Load, Goes, Place
      <4>2. at'.step = "json" /\ at'.n = at.n /\ at'.step \in TaskSteps
        BY <4>1 DEF TaskSteps
      <4>3. TasksFresh'
        BY <2>2, <3>1, <4>2, Zenon DEF TasksFresh, Stays
      <4>4. FacilitiesFresh' /\ DataFresh' /\ WritesFresh'
        BY <2>3, <4>1, <4>2 DEF FacilitiesFresh, DataFresh, WritesFresh, AnalysisSteps
      <4> QED BY <4>3, <4>4
    <3>3. CASE ~Fits(Newest(Day), KindOf(at.n))
      <4>1. PICK n \in Tasks : n = at.n
        BY <2>2, <3>1 DEF Place, Tasks
      <4>2. at' = AfterTask(n)
        BY <2>6, <3>3, <4>1 DEF Load
      <4>3. \A ext \in TaskFiles : Reported(n, ext)'
        BY <2>3, <3>3, <4>1 DEF Reported, Fits
      <4> QED BY <2>2, <3>1, <4>1, <4>2, <4>3, TaskEnds
    <3> QED BY <3>2, <3>3
  <2>7. CASE WriteJson
    <3>1. at.step = "json" /\ Put(Shows) /\ Goes("summary") /\ UNCHANGED data
      BY <2>1, <2>7 DEF WriteJson, PutFails
    <3>2. PICK n \in Tasks : n = at.n
      BY <2>2, <3>1, WhatIsWritten
    <3>3. files' = [files EXCEPT ![FacilityOf(n)][<<KindOf(n), "json">>] = Newest(Day)]
      BY <2>2, <3>1, <3>2, WhatIsWritten DEF Put, OfToday, DataFresh
    <3>4. Stays /\ Reported(n, "json")'
      BY <2>1, <2>2, <3>3, TaskWrites DEF TaskFiles
    <3>5. at' = [step |-> "summary", n |-> at.n]
      BY <2>2, <3>1 DEF Goes, Place
    <3>6. at'.step = "summary" /\ at'.n = n /\ at.n = n
      BY <3>2, <3>5
    <3>7. at.step \in TaskSteps /\ at'.step \in TaskSteps
      BY <3>1, <3>6 DEF TaskSteps
    <3>8. TasksFresh'
      BY <2>2, <3>4, <3>6, <3>7, Zenon DEF TasksFresh, Stays
    <3>9. Reported(at.n, "json")' = Reported(n, "json")'
      BY <3>6 DEF Reported
    <3>10. FacilitiesFresh' /\ DataFresh' /\ WritesFresh'
      BY <2>2, <2>3, <3>1, <3>4, <3>6, <3>9
         DEF FacilitiesFresh, DataFresh, WritesFresh, AnalysisSteps
    <3> QED BY <3>8, <3>10
  <2>8. CASE WriteSummary
    <3>1. at.step = "summary" /\ Put(Shows) /\ at' = AfterTask(at.n)
      BY <2>1, <2>8 DEF WriteSummary, EndTask
    <3>2. PICK n \in Tasks : n = at.n
      BY <2>2, <3>1, WhatIsWritten
    <3>3. files' = [files EXCEPT ![FacilityOf(n)][<<KindOf(n), "txt">>] = Newest(Day)]
      BY <2>2, <3>1, <3>2, WhatIsWritten DEF Put, OfToday, DataFresh
    <3>4. Stays /\ Reported(n, "txt")'
      BY <2>1, <2>2, <3>3, TaskWrites DEF TaskFiles
    <3>5. Reported(n, "json")
      BY <2>2, <3>1, <3>2 DEF WritesFresh
    <3>6. \A ext \in TaskFiles : Reported(n, ext)'
      BY <3>4, <3>5 DEF Stays, TaskFiles
    <3>7. at.step \in TaskSteps
      BY <3>1 DEF TaskSteps
    <3>8. at' = AfterTask(n)
      BY <3>1, <3>2
    <3> QED BY <2>2, <3>2, <3>4, <3>6, <3>7, <3>8, TaskEnds
  <2>9. CASE ReadMeter
    <3>1. at.step = "meter" /\ at'.step = "facility" /\ at'.n = 1 /\ Stays
      BY <2>4, <2>9 DEF ReadMeter
    <3>2. TasksFresh'
      <4>1. at.step \notin TaskSteps
        BY <3>1 DEF TaskSteps
      <4> QED BY <2>2, <3>1, <4>1, Zenon DEF TasksFresh, Stays
    <3>3. \A i \in 1..Len(Facilities) : ~ (i < 1)
      BY FacilityFacts
    <3>4. FacilitiesFresh' /\ DataFresh' /\ WritesFresh'
      BY <3>1, <3>3 DEF FacilitiesFresh, DataFresh, WritesFresh, AnalysisSteps
    <3> QED BY <3>2, <3>4
  <2>10. CASE LoadFacility
    <3>1. at.step = "facility" /\ Stays /\ at.step \in AnalysisSteps
      BY <2>4, <2>10 DEF LoadFacility, AnalysisSteps
    <3>2. PICK n \in 1..Len(Facilities) : n = at.n
      BY <2>2, <3>1 DEF Place
    <3>3. CASE Spots(Day) = <<>>
      <4>1. at' = AfterFacility(n)
        BY <2>10, <3>2, <3>3 DEF LoadFacility
      <4>2. \A ext \in AnalysisFiles : Analysed(n, ext)'
        BY <2>3, <3>3 DEF Analysed
      <4> QED BY <2>2, <3>1, <3>2, <4>1, <4>2, AnalysisEnds
    <3>4. CASE Spots(Day) # <<>>
      <4>1. /\ at' = [step |-> "report", n |-> at.n]
            /\ \E past, trend :
                 data' = [date |-> Date, day |-> Day, today |-> Spots(Day), tomorrow |-> Spots(Day + 1),
                          past |-> past, source |-> SourceOf(Spots(Day + 1), past), trend |-> trend]
        BY <2>2, <2>10, <3>4 DEF LoadFacility, Goes, Place
      <4>2. at'.step = "report" /\ at'.n = n /\ at.n = n
        BY <3>2, <4>1
      <4>3. TasksFresh'
        <5>1. at.step \notin TaskSteps
          BY <3>1 DEF TaskSteps
        <5> QED BY <2>2, <3>1, <5>1, Zenon DEF TasksFresh, Stays
      <4>4. FacilitiesFresh'
        <5>1. \A i \in 1..Len(Facilities) : i < n => \A e \in AnalysisFiles : Analysed(i, e)'
          BY <2>2, <3>1, <4>2, Zenon DEF FacilitiesFresh, Stays
        <5> QED BY <4>2, <5>1 DEF FacilitiesFresh, AnalysisSteps
      <4>5. DataFresh'
        <5>1. \A tomorrow, past : SourceOf(tomorrow, past) \in Sources
          BY DEF SourceOf, Sources
        <5>2. /\ data'.today = Spots(Day) /\ data'.tomorrow = Spots(Day + 1)
              /\ data'.source \in Sources /\ data'.date = Date
          BY <4>1, <5>1
        <5> QED BY <2>1, <2>3, <4>2, <5>2 DEF DataFresh
      <4>6. WritesFresh'
        BY <4>2 DEF WritesFresh
      <4> QED BY <4>3, <4>4, <4>5, <4>6
    <3> QED BY <3>3, <3>4
  <2>11. CASE WriteReport
    BY <2>1, <2>2, <2>11, AnalysisWritesOn
  <2>12. CASE WriteHistory
    <3>1. /\ at.step \in {"week", "month"} /\ (Put("series") \/ UNCHANGED files)
          /\ IF at.step = "week" THEN Goes("month") /\ UNCHANGED data ELSE EndFacility
      BY <2>1, <2>12 DEF WriteHistory, PutFails
    <3>2. PICK n \in 1..Len(Facilities) : n = at.n
      BY <2>2, <3>1 DEF Place, AnalysisSteps
    <3>3. Stays
      <4>1. CASE UNCHANGED files
        BY <2>4, <4>1
      <4>2. CASE Put("series")
        <5>1. PICK ext \in {"display-7d", "display-30d"} :
                files' = [files EXCEPT ![Facilities[n]][<<"consumption", ext>>] = "series"]
          <6>1. CASE at.step = "week"
            <7>1. Facility = Facilities[n] /\ File = <<"consumption", "display-7d">>
              BY <2>2, <3>2, <6>1, WhatIsWritten
            <7> QED BY <4>2, <6>1, <7>1 DEF Put, OfToday
          <6>2. CASE at.step = "month"
            <7>1. Facility = Facilities[n] /\ File = <<"consumption", "display-30d">>
              BY <2>2, <3>2, <6>2, WhatIsWritten
            <7> QED BY <4>2, <6>2, <7>1 DEF Put, OfToday
          <6> QED BY <3>1, <6>1, <6>2
        <5>2. ext \notin AnalysisFiles
          BY DEF AnalysisFiles
        <5> QED BY <2>1, <2>2, <5>1, <5>2, AnalysisWrites
      <4> QED BY <3>1, <4>1, <4>2
    <3>4. at.step \in AnalysisSteps \ {"facility"} /\ at.step \notin TaskSteps
      BY <3>1 DEF AnalysisSteps, TaskSteps
    <3>5. \A ext \in AnalysisFiles : Analysed(n, ext)'
      <4>1. \A ext \in AnalysisFiles : Analysed(n, ext)
        BY <2>2, <3>1, <3>2 DEF WritesFresh, AnalysisFiles
      <4> QED BY <3>3, <4>1, Zenon DEF Stays
    <3>6. CASE at.step = "week"
      <4>1. at' = [step |-> "month", n |-> at.n] /\ data' = data
        BY <2>2, <3>1, <3>6 DEF Goes, Place
      <4>2. at'.step = "month" /\ at'.n = n /\ at.n = n
        BY <3>2, <4>1
      <4>3. TasksFresh'
        BY <2>2, <3>3, <3>4, <4>2, Zenon DEF TasksFresh, Stays, TaskSteps
      <4>4. FacilitiesFresh'
        <5>1. \A i \in 1..Len(Facilities) : i < n => \A e \in AnalysisFiles : Analysed(i, e)'
          BY <2>2, <3>3, <3>4, <4>2, Zenon DEF FacilitiesFresh, Stays
        <5> QED BY <4>2, <5>1 DEF FacilitiesFresh, AnalysisSteps
      <4>5. DataFresh'
        BY <2>2, <2>3, <3>4, <4>1, <4>2 DEF DataFresh
      <4>6. WritesFresh'
        <5>1. /\ Analysed(at.n, "json")' = Analysed(n, "json")'
              /\ Analysed(at.n, "display")' = Analysed(n, "display")'
              /\ Analysed(at.n, "txt")' = Analysed(n, "txt")'
          BY <4>2 DEF Analysed
        <5> QED BY <3>5, <4>2, <5>1 DEF WritesFresh, AnalysisFiles
      <4> QED BY <4>3, <4>4, <4>5, <4>6
    <3>7. CASE at.step # "week"
      <4>1. at' = AfterFacility(n)
        BY <3>1, <3>2, <3>7 DEF EndFacility
      <4> QED BY <2>2, <3>2, <3>3, <3>4, <3>5, <4>1, AnalysisEnds
    <3> QED BY <3>6, <3>7
  <2> QED BY <2>1, <2>5, <2>6, <2>7, <2>8, <2>9, <2>10, <2>11, <2>12
<1> QED BY <1>1, <1>2, <1>3, <1>4 DEF FreshInv

LEMMA FreshInit == Init => FreshInv
BY DEF Init, FreshInv, HasFiles, NoReports, Owners

LEMMA AlwaysFresh == Spec => [](TypeInv /\ FreshInv)
<1>1. Init => TypeInv /\ FreshInv
  BY TypeInit, FreshInit
<1>2. (TypeInv /\ FreshInv) /\ [Next]_vars => (TypeInv /\ FreshInv)'
  BY TypeStep, FreshStep
<1> QED BY <1>1, <1>2, PTL DEF Spec

(* A run that neither a fault nor a midnight disturbs leaves for every        *)
(* facility all reports of the date, with the prices that are stored of       *)
(* epoch_now_day and of the day after, whatever happened before it and        *)
(* whatever other facilities there are. From local midnight to midnight UTC   *)
(* the first of these days is the one before the date of the files.           *)
THEOREM RunsLeaveFreshReports == Spec => []FreshAfterRun
<1>1. TypeInv /\ FreshInv => FreshAfterRun
  <2> SUFFICES ASSUME TypeInv, FreshInv, at = Idle, ~disturbed
               PROVE  \A f \in DOMAIN files :
                        /\ \A kind \in Kinds, ext \in {"json", "txt"} :
                             Count(kind) <= Len(Newest(Day)) =>
                               files[f][<<kind, ext>>] = Newest(Day)
                        /\ \A ext \in {"json", "display", "txt"} :
                             Spots(Day) # <<>> =>
                               \E source \in Sources :
                                 files[f][<<"consumption", ext>>] =
                                   [today |-> Spots(Day), tomorrow |-> Spots(Day + 1),
                                    source |-> source]
    BY Zenon DEF FreshAfterRun, Newest
  <2>1. at.step = "idle" /\ at.step \notin TaskSteps /\ at.step \notin AnalysisSteps
    BY IdleFacts DEF TaskSteps, AnalysisSteps
  <2>2. \A k \in Tasks, ext \in TaskFiles : Reported(k, ext)
    BY <2>1, Zenon DEF FreshInv, TasksFresh
  <2>3. \A i \in 1..Len(Facilities), ext \in AnalysisFiles : Analysed(i, ext)
    BY <2>1 DEF FreshInv, FacilitiesFresh
  <2>4. TAKE f \in DOMAIN files
  <2>5. f \in Owners
    BY DEF FreshInv, HasFiles
  <2>6. ASSUME NEW kind \in Kinds, NEW ext \in {"json", "txt"}, Count(kind) <= Len(Newest(Day))
        PROVE  files[f][<<kind, ext>>] = Newest(Day)
    <3>1. PICK k \in Tasks : FacilityOf(k) = f /\ KindOf(k) = kind
      BY <2>5, TaskFacts
    <3>2. Reported(k, ext)
      BY <2>2, <3>1 DEF TaskFiles
    <3> QED BY <2>6, <3>1, <3>2 DEF Reported
  <2>7. ASSUME NEW ext \in {"json", "display", "txt"}, Spots(Day) # <<>>
        PROVE  \E source \in Sources :
                 files[f][<<"consumption", ext>>] =
                   [today |-> Spots(Day), tomorrow |-> Spots(Day + 1), source |-> source]
    <3>1. PICK i \in 1..Len(Facilities) : Facilities[i] = f
      BY <2>5, FacilityFacts DEF Owners
    <3>2. Analysed(i, ext)
      BY <2>3, <3>1 DEF AnalysisFiles
    <3> QED BY <2>7, <3>1, <3>2 DEF Analysed
  <2> QED BY <2>6, <2>7
<1> QED BY <1>1, AlwaysFresh, PTL

(***************************************************************************)
(* The prices a report is made from.                                       *)
(***************************************************************************)

LEMMA Extremes ==
  ASSUME NEW n \in Nat, NEW S \in SUBSET (1..n), S # {}
  PROVE  /\ Min(S) \in S /\ \A j \in S : Min(S) <= j
         /\ Max(S) \in S /\ \A j \in S : Max(S) >= j
<1>1. PICK least \in S : \A j \in S : least <= j
  BY LeastOfThem
<1>2. PICK last \in S : \A j \in S : j <= last
  BY LastOfThem
<1>3. \A j \in S : last >= j
  BY <1>2
<1>4. Min(S) \in S /\ \A j \in S : Min(S) <= j
  BY <1>1, Zenon DEF Min
<1>5. Max(S) \in S /\ \A j \in S : Max(S) >= j
  BY <1>3, Zenon DEF Max
<1> QED BY <1>4, <1>5

LEMMA PriceFacts ==
  /\ Hours \in Nat /\ Hours >= 1 /\ PerHour \in Nat /\ PerHour >= 1
  /\ Window \in Nat /\ Window >= 1 /\ Near \in Nat /\ Near >= 1
  /\ Buckets \in Nat /\ Buckets >= PerHour /\ Buckets >= Window /\ Buckets >= 1
<1>1. /\ Hours \in Nat /\ Hours >= 1 /\ PerHour \in Nat /\ PerHour >= 1
      /\ Window \in Nat /\ Window >= 1 /\ Near \in Nat /\ Near >= 1
      /\ Window <= Hours * PerHour
  BY PriceConstants
<1> QED BY <1>1 DEF Buckets

\* The prices of each day are none, or as many as the day is long.
StoredOk ==
  \A day \in 0..(MaxDay + 2) :
    /\ stored[day].every \in {1, PerHour}
    /\ stored[day].prices \in Seq(Int)
    /\ stored[day].prices # <<>> =>
         Len(stored[day].prices) = Length(day) \div stored[day].every

LEMMA PartIsPrices ==
  ASSUME StoredOk, NEW day \in 0..(MaxDay + 2), NEW window
  PROVE  Part(day, window) \in Seq(Int)
<1> DEFINE p == stored[day].prices
           in == {i \in DOMAIN p : StartOf(day, i) \in (window * Buckets)..((window + 1) * Buckets - 1)}
<1>1. p \in Seq(Int) /\ Len(p) \in Nat /\ DOMAIN p = 1..Len(p)
  BY DEF StoredOk
<1>2. in \in SUBSET (1..Len(p))
  BY <1>1
<1>3. Part(day, window) = IF in = {} THEN <<>> ELSE SubSeq(p, Min(in), Max(in))
  BY Zenon DEF Part
<1> HIDE DEF p, in
<1>4. CASE in = {}
  BY <1>3, <1>4
<1>5. CASE in # {}
  <2>1. Min(in) \in in /\ Max(in) \in in
    BY <1>1, <1>2, <1>5, Extremes
  <2>2. Min(in) \in 1..Len(p) /\ Max(in) \in 1..Len(p)
    BY <1>2, <2>1
  <2>3. SubSeq(p, Min(in), Max(in)) \in Seq(Int)
    BY <1>1, <2>2, SubSeqProperties
  <2> QED BY <1>3, <1>5, <2>3
<1> QED BY <1>4, <1>5

LEMMA SpotsArePrices ==
  ASSUME TypeInv, StoredOk, NEW day \in 0..(MaxDay + 2)
  PROVE  Spots(day) \in Seq(Int)
<1>1. Part(day, day) \in Seq(Int)
  BY PartIsPrices
<1>2. CASE day + 1 \in DOMAIN stored
  <2>1. day + 1 \in 0..(MaxDay + 2)
    BY <1>2 DEF TypeInv
  <2>2. Part(day + 1, day) \in Seq(Int)
    BY <2>1, PartIsPrices
  <2>3. Spots(day) = Part(day, day) \o Part(day + 1, day)
    BY <1>2, Zenon DEF Spots
  <2> QED BY <1>1, <2>2, <2>3, ConcatProperties
<1>3. CASE day + 1 \notin DOMAIN stored
  <2>1. Spots(day) = Part(day, day) \o <<>>
    BY <1>3, Zenon DEF Spots
  <2>2. <<>> \in Seq(Int)
    OBVIOUS
  <2> QED BY <1>1, <2>1, <2>2, ConcatProperties
<1> QED BY <1>2, <1>3

\* The present and the next day, whatever the clock says.
LEMMA DayFacts ==
  ASSUME TypeInv
  PROVE  /\ MaxDay \in Nat /\ Day \in 0..MaxDay /\ Day + 1 \in 0..(MaxDay + 2)
         /\ Day \in 0..(MaxDay + 2)
<1>1. MaxDay \in Nat /\ clock \in Nat /\ 1 <= clock /\ clock <= 3 * MaxDay + 1
  BY ReportConstants DEF TypeInv
<1>2. Date \in 0..MaxDay /\ (clock % 3 = 0 => Date >= 1)
  BY <1>1 DEF Date
<1> QED BY <1>1, <1>2 DEF Day

\* An hour more or less than Hours.
LEMMA LengthFacts ==
  ASSUME lead \in Calendars, NEW day \in 0..(MaxDay + 2)
  PROVE  Length(day) \in Nat /\ Length(day) <= Buckets + PerHour
<1>1. MaxDay \in Nat /\ lead \in [0..(MaxDay + 3) -> 0..1]
  BY ReportConstants
<1>2. lead[day] \in 0..1 /\ lead[day + 1] \in 0..1
  BY <1>1
<1>3. (lead[day + 1] - lead[day]) * PerHour \in {0 - PerHour, 0, PerHour}
  <2>1. lead[day + 1] - lead[day] \in {-1, 0, 1}
    BY <1>2
  <2> QED BY <2>1, PriceFacts
<1> HIDE DEF Buckets
<1> QED BY <1>3, PriceFacts DEF Length

LEMMA EnoughPrices ==
  ASSUME NEW n \in Nat, NEW every \in Nat, every >= 1, NEW length \in Nat, n * every >= length
  PROVE  length \div every \in 0..n
<1>1. length \div every \in Nat /\ (length \div every) * every <= length
  OBVIOUS
<1>2. \A m \in Nat : m >= n + 1 => m * every >= (n + 1) * every
  OBVIOUS
<1>3. (n + 1) * every = n * every + every /\ n * every \in Nat
  OBVIOUS
<1> QED BY <1>1, <1>2, <1>3

\* What is about to be reported: prices, and what was known of the day.
HourlyOk ==
  at.step = "json" =>
    data.prices \in Seq(Int) /\ (OverReads(data.prices) \/ data.behind = 0)

ReportOk ==
  at.step = "report" =>
    /\ data.day \in 0..MaxDay
    /\ data.today = Spots(data.day)
    /\ data.tomorrow \in Seq(Int)
    /\ data.past \in Pasts \cup {NoPast}
    /\ data.trend \in Trends
    /\ data.source = SourceOf(data.tomorrow, data.past)

PriceInv == StoredOk /\ HourlyOk /\ ReportOk

\* A fetch stores as many prices as the day is long.
LEMMA FetchStep ==
  ASSUME TypeInv, StoredOk, FetchPrices, UNCHANGED lead
  PROVE  StoredOk'
<1> DEFINE target == IF clock % 3 = 2 THEN Day + 1 ELSE Day
<1>0. target \in 0..(MaxDay + 2) /\ DOMAIN stored = 0..(MaxDay + 2) /\ lead \in Calendars
  BY DayFacts DEF TypeInv
<1>1. \A day : Length(day)' = Length(day)
  BY DEF Length
<1>2. CASE UNCHANGED stored
  BY <1>1, <1>2 DEF StoredOk
<1>3. CASE \E pattern \in Patterns :
             stored' = [stored EXCEPT ![target] =
               [pattern EXCEPT !.prices = SubSeq(@, 1, Length(target) \div pattern.every)]]
  <2>1. PICK pattern \in Patterns :
             stored' = [stored EXCEPT ![target] =
               [pattern EXCEPT !.prices = SubSeq(@, 1, Length(target) \div pattern.every)]]
    BY <1>3
  <2> DEFINE n == Length(target) \div pattern.every
             new == [pattern EXCEPT !.prices = SubSeq(@, 1, n)]
  <2>2. /\ pattern \in [every : {1, PerHour}, prices : Seq(Int)]
        /\ Len(pattern.prices) * pattern.every >= Buckets + PerHour
    BY ReportConstants
  <2>3. /\ pattern.every \in {1, PerHour} /\ pattern.every \in Nat /\ pattern.every >= 1
        /\ pattern.prices \in Seq(Int) /\ Len(pattern.prices) \in Nat
    BY <2>2, PriceFacts
  <2>4. Length(target) \in Nat /\ Len(pattern.prices) * pattern.every >= Length(target)
    <3>1. Length(target) \in Nat /\ Length(target) <= Buckets + PerHour
      BY <1>0, LengthFacts
    <3>2. Len(pattern.prices) * pattern.every \in Int
      BY <2>3
    <3> QED BY <2>2, <3>1, <3>2, PriceFacts
  <2>5. n \in 0..Len(pattern.prices)
    BY <2>3, <2>4, EnoughPrices
  <2> HIDE DEF n
  <2>6. SubSeq(pattern.prices, 1, n) \in Seq(Int) /\ Len(SubSeq(pattern.prices, 1, n)) = n
    BY <2>3, <2>5, SubSeqProperties
  <2>7. new.every = pattern.every /\ new.prices = SubSeq(pattern.prices, 1, n)
    BY <2>2
  <2>8. \A day \in 0..(MaxDay + 2) : stored'[day] = IF day = target THEN new ELSE stored[day]
    BY <1>0, <2>1, Zenon DEF n
  <2> HIDE DEF new, target
  <2>9. ASSUME NEW day \in 0..(MaxDay + 2)
        PROVE  /\ stored'[day].every \in {1, PerHour}
               /\ stored'[day].prices \in Seq(Int)
               /\ stored'[day].prices # <<>> =>
                    Len(stored'[day].prices) = Length(day)' \div stored'[day].every
    <3>1. CASE day = target
      BY <1>1, <2>3, <2>6, <2>7, <2>8, <3>1 DEF n
    <3>2. CASE day # target
      BY <1>1, <2>8, <3>2 DEF StoredOk
    <3> QED BY <3>1, <3>2
  <2> QED BY <2>9, Zenon DEF StoredOk
<1> QED BY <1>2, <1>3 DEF FetchPrices

\* The prices change at the start of a run only.
LEMMA PricesChange ==
  ASSUME [Next]_vars
  PROVE  /\ UNCHANGED lead
         /\ \/ UNCHANGED stored
            \/ StartRun
BY Zenon DEF Next, vars, RunStep, StartRun, Load, CreateReportsFails, LoadFails, WriteJson, WriteSummary,
       SummaryUnopened, ReadMeter, ReadMeterFails, LoadFacility, WriteReport, WriteHistory,
       Tick, Crash

LEMMA StoredStep ==
  ASSUME TypeInv, StoredOk, [Next]_vars
  PROVE  StoredOk'
<1>1. UNCHANGED lead
  BY PricesChange
<1>2. CASE StartRun
  BY <1>1, <1>2, FetchStep DEF StartRun
<1>3. CASE UNCHANGED stored
  <2>1. \A day : Length(day)' = Length(day)
    BY <1>1 DEF Length
  <2> QED BY <1>3, <2>1 DEF StoredOk
<1> QED BY <1>2, <1>3, PricesChange

\* Only a task that loads goes to the hourly report, only an analysis that
\* loads to the consumption report.
LEMMA ReportsComeFromLoads ==
  ASSUME TypeInv, [Next]_vars
  PROVE  /\ at'.step = "json" => Load \/ UNCHANGED <<at, data>>
         /\ at'.step = "report" => LoadFacility \/ (UNCHANGED <<at, data, stored>>)
<1>0. Place
  BY DEF TypeInv
<1>1. CASE Load
  <2>1. at.step = "load" /\ at.n \in 1..(2 * Len(Facilities))
    BY <1>0, <1>1 DEF Load, Place, TaskSteps
  <2>2. AfterTask(at.n).step # "report"
    BY <2>1, NextPlaces
  <2>3. at' = AfterTask(at.n) \/ at' = [step |-> "json", n |-> at.n]
    BY <1>0, <1>1 DEF Load, Goes, Place
  <2> QED BY <1>1, <2>2, <2>3
<1>2. CASE LoadFacility
  <2>1. at.step = "facility" /\ at.n \in 1..Len(Facilities)
    BY <1>0, <1>2 DEF LoadFacility, Place, AnalysisSteps
  <2>2. AfterFacility(at.n).step # "json"
    BY <2>1, NextPlaces
  <2>3. at' = AfterFacility(at.n) \/ at' = [step |-> "report", n |-> at.n]
    BY <1>0, <1>2 DEF LoadFacility, Goes, Place
  <2> QED BY <1>2, <2>2, <2>3
<1>3. CASE LoadFails \/ WriteSummary \/ SummaryUnopened
  <2>1. at.n \in 1..(2 * Len(Facilities)) /\ at' = AfterTask(at.n)
    BY <1>0, <1>3 DEF LoadFails, WriteSummary, SummaryUnopened, EndTask, Place, TaskSteps
  <2> QED BY <2>1, NextPlaces
<1>4. CASE WriteJson
  BY <1>0, <1>4 DEF WriteJson, Goes, Place
<1>5. CASE ReadMeter \/ ReadMeterFails \/ CreateReportsFails \/ StartRun \/ Crash
  BY <1>5, IdleFacts DEF ReadMeter, ReadMeterFails, CreateReportsFails, StartRun, Crash
<1>6. CASE WriteReport
  <2>1. at.step \in AnalysisSteps /\ at.n \in 1..Len(Facilities)
    BY <1>0, <1>6 DEF WriteReport, Place, AnalysisSteps
  <2>2. at' = AfterFacility(at.n) \/ \E step \in {"display", "text", "week"} :
                                       at' = [step |-> step, n |-> at.n]
    BY <1>0, <1>6 DEF WriteReport, Goes, EndFacility, Place
  <2> QED BY <2>1, <2>2, NextPlaces
<1>7. CASE WriteHistory
  <2>1. at.step \in AnalysisSteps /\ at.n \in 1..Len(Facilities)
    BY <1>0, <1>7 DEF WriteHistory, Place, AnalysisSteps
  <2>2. at' = AfterFacility(at.n) \/ at' = [step |-> "month", n |-> at.n]
    BY <1>0, <1>7 DEF WriteHistory, Goes, EndFacility, Place
  <2> QED BY <2>1, <2>2, NextPlaces
<1>8. CASE Tick \/ UNCHANGED vars
  BY <1>8 DEF Tick, vars
<1> QED BY <1>1, <1>2, <1>3, <1>4, <1>5, <1>6, <1>7, <1>8 DEF Next, RunStep

LEMMA PriceStep == TypeInv /\ PriceInv /\ [Next]_vars => PriceInv'
<1> SUFFICES ASSUME TypeInv, PriceInv, [Next]_vars PROVE PriceInv'
  OBVIOUS
<1>0. StoredOk /\ HourlyOk /\ ReportOk
  BY DEF PriceInv
<1>1. StoredOk'
  BY <1>0, StoredStep
<1>2. Spots(Day) \in Seq(Int) /\ Spots(Day + 1) \in Seq(Int)
  BY <1>0, DayFacts, SpotsArePrices
<1>3. HourlyOk'
  <2>1. CASE Load
    <3>1. Newest(Day) \in Seq(Int)
      BY <1>2 DEF Newest
    <3>2. ASSUME at'.step = "json" PROVE data'.prices = Newest(Day) /\ (OverReads(Newest(Day)) \/ data'.behind = 0)
      <4>1. at.step = "load" /\ at.n \in 1..(2 * Len(Facilities))
        BY <2>1 DEF Load, TypeInv, Place, TaskSteps
      <4>2. at' # AfterTask(at.n)
        BY <3>2, <4>1, NextPlaces
      <4>3. \E behind \in IF OverReads(Newest(Day)) THEN Garbage ELSE {0} :
              data' = [prices |-> Newest(Day), behind |-> behind]
        BY <2>1, <4>2, Zenon DEF Load
      <4> QED BY <4>3
    <3> QED BY <3>1, <3>2 DEF HourlyOk
  <2>2. CASE UNCHANGED <<at, data>>
    BY <1>0, <2>2 DEF HourlyOk
  <2> QED BY <2>1, <2>2, ReportsComeFromLoads DEF HourlyOk
<1>4. ReportOk'
  <2>1. CASE LoadFacility
    <3>1. UNCHANGED <<stored, lead>> /\ MaxDay' = MaxDay
      BY <2>1 DEF LoadFacility
    <3>2. \A day : Spots(day)' = Spots(day)
      BY <3>1, SpotsStay
    <3>3. ASSUME at'.step = "report"
          PROVE  \E past \in Pasts \cup {NoPast}, trend \in Trends :
                   data' = [date |-> Date, day |-> Day, today |-> Spots(Day), tomorrow |-> Spots(Day + 1),
                            past |-> past, source |-> SourceOf(Spots(Day + 1), past),
                            trend |-> trend]
      <4>1. at.step = "facility" /\ at.n \in 1..Len(Facilities)
        BY <2>1 DEF LoadFacility, TypeInv, Place, AnalysisSteps
      <4>2. at' # AfterFacility(at.n)
        BY <3>3, <4>1, NextPlaces
      <4>3. \E past \in IF Spots(Day + 1) = <<>> THEN Pasts ELSE {NoPast}, trend \in Trends :
                   data' = [date |-> Date, day |-> Day, today |-> Spots(Day), tomorrow |-> Spots(Day + 1),
                            past |-> past, source |-> SourceOf(Spots(Day + 1), past),
                            trend |-> trend]
        BY <2>1, <4>2, Zenon DEF LoadFacility
      <4> QED BY <4>3, Zenon
    <3>4. ASSUME NEW past \in Pasts \cup {NoPast}, NEW trend \in Trends,
                 data' = [date |-> Date, day |-> Day, today |-> Spots(Day), tomorrow |-> Spots(Day + 1),
                          past |-> past, source |-> SourceOf(Spots(Day + 1), past),
                          trend |-> trend]
          PROVE  /\ data'.day \in 0..MaxDay
                 /\ data'.today = Spots(data.day)'
                 /\ data'.tomorrow \in Seq(Int)
                 /\ data'.past \in Pasts \cup {NoPast}
                 /\ data'.trend \in Trends
                 /\ data'.source = SourceOf(data'.tomorrow, data'.past)
      <4>1. /\ data'.day = Day /\ data'.today = Spots(Day) /\ data'.tomorrow = Spots(Day + 1)
            /\ data'.past = past /\ data'.trend = trend
            /\ data'.source = SourceOf(Spots(Day + 1), past)
        BY <3>4
      <4>2. Spots(data.day)' = Spots(Day)
        BY <3>2, <4>1
      <4> QED BY <1>2, <3>4, <4>1, <4>2, DayFacts
    <3> QED BY <3>3, <3>4, Zenon DEF ReportOk
  <2>2. CASE UNCHANGED <<at, data, stored>>
    <3>1. UNCHANGED <<stored, lead>>
      BY <2>2, PricesChange
    <3>2. \A day : Spots(day)' = Spots(day)
      BY <3>1, SpotsStay
    <3> QED BY <1>0, <2>2, <3>2 DEF ReportOk
  <2> QED BY <2>1, <2>2, ReportsComeFromLoads DEF ReportOk
<1> QED BY <1>1, <1>3, <1>4 DEF PriceInv

LEMMA PriceInit == Init => PriceInv
<1> SUFFICES ASSUME Init PROVE PriceInv
  OBVIOUS
<1>1. at.step = "idle" /\ \A day \in 0..(MaxDay + 2) : stored[day] = NoPrices
  BY IdleFacts DEF Init
<1>2. NoPrices.every = 1 /\ NoPrices.prices = <<>> /\ <<>> \in Seq(Int)
  BY DEF NoPrices
<1> QED BY <1>1, <1>2 DEF PriceInv, StoredOk, HourlyOk, ReportOk

LEMMA AlwaysPriced == Spec => [](TypeInv /\ PriceInv)
<1>1. Init => TypeInv /\ PriceInv
  BY TypeInit, PriceInit
<1>2. (TypeInv /\ PriceInv) /\ [Next]_vars => (TypeInv /\ PriceInv)'
  BY TypeStep, PriceStep
<1> QED BY <1>1, <1>2, PTL DEF Spec

(***************************************************************************)
(* The prices of the time (ShowsRightPrices).                              *)
(***************************************************************************)

LEMMA QuotientIs ==
  ASSUME NEW a \in Int, NEW d \in Nat, d >= 1, NEW q \in Int, q * d <= a, a < q * d + d
  PROVE  a \div d = q
<1> DEFINE p == a \div d
<1>1. p \in Int /\ p * d <= a /\ a < p * d + d
  OBVIOUS
<1> HIDE DEF p
<1>2. CASE p >= q + 1
  <2>1. p * d >= (q + 1) * d /\ (q + 1) * d = q * d + d
    BY <1>1, <1>2
  <2>2. p * d \in Int /\ q * d \in Int
    BY <1>1
  <2> QED BY <1>1, <2>1, <2>2
<1>3. CASE q >= p + 1
  <2>1. q * d >= (p + 1) * d /\ (p + 1) * d = p * d + d
    BY <1>1, <1>3
  <2>2. p * d \in Int /\ q * d \in Int
    BY <1>1
  <2> QED BY <1>1, <2>1, <2>2
<1>4. p = q
  BY <1>1, <1>2, <1>3
<1> QED BY <1>4 DEF p

\* The index of a bucket among n prices of e slots each.
LEMMA IndexOfBucket ==
  ASSUME NEW n \in Nat, n >= 1, NEW e \in Nat, e >= 1, NEW b \in 0..(n * e - 1)
  PROVE  (b * n) \div (n * e) = b \div e /\ b \div e \in 0..(n - 1)
<1> DEFINE q == b \div e
<1>1. q \in Nat /\ q * e <= b /\ b < q * e + e
  OBVIOUS
<1> HIDE DEF q
<1>2. q < n
  <2>1. SUFFICES ASSUME q >= n PROVE FALSE
    BY <1>1
  <2>2. q * e >= n * e
    BY <1>1, <2>1
  <2>3. q * e \in Int /\ n * e \in Int
    BY <1>1
  <2> QED BY <1>1, <2>2, <2>3
<1> DEFINE c == q * e
<1>3. c \in Int /\ c <= b /\ b < c + e
  BY <1>1
<1>4. q * (n * e) = c * n
  BY <1>1
<1> HIDE DEF c
<1>5. c * n <= b * n
  BY <1>3
<1>6. b * n < (c + e) * n
  BY <1>3
<1>7. (c + e) * n = c * n + n * e
  BY <1>3
<1>8. n * e >= 1 /\ n * e \in Nat /\ b * n \in Int /\ c * n \in Int
  BY <1>3
<1>9. (b * n) \div (n * e) = q
  <2>1. q * (n * e) <= b * n /\ b * n < q * (n * e) + n * e
    BY <1>4, <1>5, <1>6, <1>7
  <2> DEFINE d == n * e
             a == b * n
  <2>2. d \in Nat /\ d >= 1 /\ a \in Int /\ q * d <= a /\ a < q * d + d /\ q \in Int
    BY <1>1, <1>8, <2>1
  <2> HIDE DEF d, a
  <2>3. a \div d = q
    BY <2>2, QuotientIs
  <2> QED BY <2>3 DEF a, d
<1> QED BY <1>1, <1>2, <1>9 DEF q

LEMMA Multiples ==
  ASSUME NEW n \in Nat, n >= 1, NEW e \in Nat, e >= 1, NEW i \in 1..n
  PROVE  (i - 1) * e \in 0..(n * e - 1)
<1> DEFINE k == i - 1
           l == n - i
<1>1. k \in Nat /\ l \in Nat /\ n = k + l + 1
  OBVIOUS
<1> HIDE DEF k, l
<1>2. n * e = k * e + l * e + e
  BY <1>1
<1>3. k * e \in Nat /\ l * e \in Nat
  BY <1>1
<1>4. k * e \in 0..(n * e - 1)
  BY <1>2, <1>3
<1> QED BY <1>4 DEF k

\* A day of Hours hours has Buckets prices, or one an hour.
LEMMA PricesOfADay ==
  ASSUME NEW every \in {1, PerHour}
  PROVE  \E n \in Nat : n >= 1 /\ every \in Nat /\ every >= 1 /\ Buckets = n * every /\ Buckets \div every = n
<1>1. CASE every = 1
  BY <1>1, PriceFacts
<1>2. CASE every = PerHour
  <2>1. Hours * PerHour \in Int /\ (Hours * PerHour) \div PerHour = Hours
    BY PriceFacts, QuotientIs
  <2> QED BY <1>2, <2>1, PriceFacts DEF Buckets
<1> QED BY <1>1, <1>2

\* Where the code takes a day to begin when it does, and it is a day of Hours
\* hours, the spots read for the day are all its prices and no others.
LEMMA SpotsOfTheDay ==
  ASSUME TypeInv, StoredOk, NEW day \in 0..MaxDay, stored[day].prices # <<>>,
         lead[day] = 0, lead[day + 1] = 0
  PROVE  /\ Spots(day) = stored[day].prices
         /\ Len(stored[day].prices) = Buckets \div stored[day].every
<1> DEFINE p == stored[day].prices
           e == stored[day].every
<1>1. MaxDay \in Nat /\ day \in 0..(MaxDay + 2) /\ day + 1 \in 0..(MaxDay + 2) /\ day \in Nat
  BY ReportConstants
<1>2. p \in Seq(Int) /\ e \in {1, PerHour} /\ Len(p) = Length(day) \div e /\ Len(p) \in Nat
  BY <1>1 DEF StoredOk
<1>3. Length(day) = Buckets
  BY PriceFacts DEF Length
<1>4. PICK n \in Nat : n >= 1 /\ e \in Nat /\ e >= 1 /\ Buckets = n * e /\ Buckets \div e = n
  BY <1>2, PricesOfADay
<1>5. Len(p) = n /\ DOMAIN p = 1..n
  BY <1>2, <1>3, <1>4
<1> DEFINE in(d) == {i \in DOMAIN stored[d].prices :
                      StartOf(d, i) \in (day * Buckets)..((day + 1) * Buckets - 1)}
<1>6. ASSUME NEW i \in 1..n PROVE StartOf(day, i) \in (day * Buckets)..((day + 1) * Buckets - 1)
  <2>1. (i - 1) * e \in 0..(Buckets - 1)
    BY <1>4, Multiples
  <2>2. StartOf(day, i) = day * Buckets + (i - 1) * e
    <3> DEFINE a == day * Buckets
               b == (i - 1) * e
    <3>1. a \in Int /\ b \in Int /\ 0 * PerHour = 0
      BY <1>1, <2>1, PriceFacts
    <3> HIDE DEF a, b
    <3>2. a - 0 * PerHour + b = a + b
      BY <3>1
    <3> QED BY <3>2, Zenon DEF StartOf, a, b
  <2>3. (day + 1) * Buckets = day * Buckets + Buckets /\ day * Buckets \in Int
    BY <1>1, PriceFacts
  <2> QED BY <2>1, <2>2, <2>3, PriceFacts
<1>7. Part(day, day) = p
  <2>1. in(day) = 1..n
    BY <1>5, <1>6
  <2>2. 1..n # {} /\ 1..n \in SUBSET (1..n)
    BY <1>4
  <2>3. Min(1..n) \in 1..n /\ Max(1..n) \in 1..n /\ Min(1..n) <= 1 /\ Max(1..n) >= n
    <3>1. /\ Min(1..n) \in 1..n /\ \A j \in 1..n : Min(1..n) <= j
          /\ Max(1..n) \in 1..n /\ \A j \in 1..n : Max(1..n) >= j
      BY <1>4, <2>2, Extremes
    <3>2. 1 \in 1..n /\ n \in 1..n
      BY <1>4
    <3> QED BY <3>1, <3>2, Zenon
  <2>4. Min(1..n) = 1 /\ Max(1..n) = n
    BY <2>3
  <2>5. Part(day, day) = IF in(day) = {} THEN <<>> ELSE SubSeq(p, Min(in(day)), Max(in(day)))
    BY Zenon DEF Part
  <2> HIDE DEF p, in
  <2>6. Part(day, day) = SubSeq(p, 1, Len(p))
    BY <1>5, <2>1, <2>2, <2>4, <2>5
  <2> QED BY <1>2, <2>6, SubSeqFull
<1>8. Part(day + 1, day) = <<>>
  <2> DEFINE q == stored[day + 1].prices
             f == stored[day + 1].every
  <2>1. q \in Seq(Int) /\ f \in {1, PerHour} /\ f \in Nat /\ DOMAIN q = 1..Len(q)
    BY <1>1, PriceFacts DEF StoredOk
  <2>2. ASSUME NEW i \in DOMAIN q PROVE StartOf(day + 1, i) >= (day + 1) * Buckets
                                        /\ StartOf(day + 1, i) \in Int
    <3>1. i - 1 \in Nat /\ (i - 1) * f \in Nat
      BY <2>1
    <3> DEFINE a == (day + 1) * Buckets
               b == (i - 1) * f
    <3>2. a \in Int /\ b \in Nat /\ 0 * PerHour = 0
      BY <1>1, <3>1, PriceFacts
    <3> HIDE DEF a, b
    <3>3. a - 0 * PerHour + b = a + b /\ a + b >= a /\ a + b \in Int
      BY <3>2
    <3>4. StartOf(day + 1, i) = a - 0 * PerHour + b
      BY Zenon DEF StartOf, a, b
    <3> QED BY <3>3, <3>4 DEF a
  <2>3. (day + 1) * Buckets \in Int
    BY <1>1, PriceFacts
  <2>4. in(day + 1) = {}
    BY <2>2, <2>3
  <2>5. Part(day + 1, day) = IF in(day + 1) = {} THEN <<>>
                             ELSE SubSeq(q, Min(in(day + 1)), Max(in(day + 1)))
    BY Zenon DEF Part
  <2> QED BY <2>4, <2>5, Zenon
<1>9. Spots(day) = p \o <<>>
  <2>1. day + 1 \in DOMAIN stored
    BY <1>1 DEF TypeInv
  <2> QED BY <1>7, <1>8, <2>1, Zenon DEF Spots
<1>10. p \o <<>> = p
  BY <1>2, ConcatEmptySeq
<1> QED BY <1>4, <1>5, <1>9, <1>10

LEMMA SlotsHaveTheirPrice ==
  ASSUME TypeInv, StoredOk, ReportOk, at.step = "report"
  PROVE  SlotHasItsPrice(data)
<1> DEFINE day == data.day
           p == stored[day].prices
           e == stored[day].every
<1>1. day \in 0..MaxDay /\ data.today = Spots(day) /\ day \in 0..(MaxDay + 2)
  BY ReportConstants DEF ReportOk
<1>2. SUFFICES ASSUME p # <<>>, lead[day] = 0, lead[day + 1] = 0, NEW bucket \in 0..(Buckets - 1)
               PROVE  SpotAtBucket(data.today, bucket) = p[(bucket \div e) + 1]
  BY Zenon DEF SlotHasItsPrice
<1>3. data.today = p /\ Len(p) = Buckets \div e
  BY <1>1, <1>2, SpotsOfTheDay
<1>4. e \in {1, PerHour}
  BY <1>1 DEF StoredOk
<1>5. PICK n \in Nat : n >= 1 /\ e \in Nat /\ e >= 1 /\ Buckets = n * e /\ Buckets \div e = n
  BY <1>4, PricesOfADay
<1> HIDE DEF p, e, day
<1>6. bucket \in 0..(n * e - 1)
  BY <1>5
<1>7. (bucket * n) \div (n * e) = bucket \div e /\ bucket \div e \in 0..(n - 1)
  BY <1>5, <1>6, IndexOfBucket
<1>8. ~ (bucket \div e >= n)
  BY <1>7
<1>9. (bucket * Len(p)) \div Buckets = bucket \div e /\ Len(p) = n
  BY <1>3, <1>5, <1>7
<1>10. SpotAtBucket(p, bucket) = p[(bucket \div e) + 1]
  BY <1>2, <1>8, <1>9, Zenon DEF SpotAtBucket
<1> QED BY <1>3, <1>10

\* The first of the places in T with the least value.
FirstBest(v, T, i) ==
  i \in T /\ (\A j \in T : v[i] <= v[j]) /\ (\A j \in T : j < i => v[i] < v[j])

LEMMA AddLater ==
  ASSUME NEW v, NEW U \in SUBSET Nat, NEW k \in Nat, \A j \in U : j < k,
         \A j \in U : v[j] \in Int, v[k] \in Int, NEW i, FirstBest(v, U, i)
  PROVE  FirstBest(v, U \cup {k}, IF v[k] < v[i] THEN k ELSE i)
<1>1. i \in U /\ i \in Nat /\ v[i] \in Int /\ i < k
  BY DEF FirstBest
<1>2. (\A j \in U : v[i] <= v[j]) /\ (\A j \in U : j < i => v[i] < v[j])
  BY DEF FirstBest
<1>3. CASE v[k] < v[i]
  <2>1. \A j \in U : v[k] < v[j]
    BY <1>1, <1>2, <1>3
  <2> QED BY <1>3, <2>1 DEF FirstBest
<1>4. CASE ~ (v[k] < v[i])
  <2>1. v[i] <= v[k] /\ ~ (k < i)
    BY <1>1, <1>4
  <2> QED BY <1>1, <1>2, <1>4, <2>1 DEF FirstBest
<1> QED BY <1>3, <1>4

LEMMA FirstBestExists ==
  ASSUME NEW v, NEW n \in Nat, NEW T \in SUBSET (0..n), T # {}, \A j \in T : v[j] \in Int
  PROVE  \E i \in T : FirstBest(v, T, i)
<1> DEFINE Has(U) == \E i : FirstBest(v, U, i)
           Done == {k \in Nat : \A U \in SUBSET T : U # {} /\ (\A j \in U : j <= k) => Has(U)}
<1>0. \A j \in T : j \in Nat /\ j <= n
  OBVIOUS
<1>1. ASSUME NEW U \in SUBSET T, NEW k \in T, U = {k} PROVE Has(U)
  <2>1. k \in Nat /\ v[k] \in Int
    BY <1>0
  <2>2. FirstBest(v, U, k)
    BY <1>1, <2>1 DEF FirstBest
  <2> QED BY <2>2
<1>2. 0 \in Done
  <2>1. ASSUME NEW U \in SUBSET T, U # {}, \A j \in U : j <= 0 PROVE Has(U)
    <3>1. \A j \in U : j = 0
      BY <1>0, <2>1
    <3>2. U = {0} /\ 0 \in T
      BY <2>1, <3>1
    <3> HIDE DEF Has
    <3> QED BY <1>1, <3>2
  <2> QED BY <2>1
<1>3. ASSUME NEW k \in Nat, k \in Done PROVE k + 1 \in Done
  <2>1. ASSUME NEW U \in SUBSET T, U # {}, \A j \in U : j <= k + 1 PROVE Has(U)
    <3> HIDE DEF Has
    <3>1. CASE k + 1 \notin U
      <4>1. \A j \in U : j <= k
        BY <1>0, <2>1, <3>1
      <4> QED BY <1>3, <2>1, <4>1
    <3>2. CASE k + 1 \in U /\ U = {k + 1}
      BY <1>1, <3>2
    <3>3. CASE k + 1 \in U /\ U # {k + 1}
      <4> DEFINE W == U \ {k + 1}
      <4>1. W \in SUBSET T /\ W # {} /\ U = W \cup {k + 1}
        BY <2>1, <3>3
      <4>2. \A j \in W : j \in Nat /\ j <= k /\ j < k + 1 /\ v[j] \in Int
        BY <1>0, <2>1, <4>1
      <4> HIDE DEF W
      <4>3. Has(W)
        BY <1>3, <4>1, <4>2
      <4>4. PICK i : FirstBest(v, W, i)
        BY <4>3 DEF Has
      <4>5. v[k + 1] \in Int /\ k + 1 \in Nat /\ W \in SUBSET Nat
        BY <3>3, <4>2
      <4>6. FirstBest(v, W \cup {k + 1}, IF v[k + 1] < v[i] THEN k + 1 ELSE i)
        BY <4>2, <4>4, <4>5, AddLater
      <4> QED BY <4>1, <4>6 DEF Has
    <3> QED BY <3>1, <3>2, <3>3
  <2> QED BY <2>1
<1>4. n \in Done
  <2> HIDE DEF Done
  <2>1. \A k \in Nat : k \in Done
    BY <1>2, <1>3, SetInduction
  <2> QED BY <2>1
<1>5. Has(T)
  <2>1. T \in SUBSET T
    OBVIOUS
  <2> HIDE DEF Has
  <2> QED BY <1>0, <1>4, <2>1
<1> QED BY <1>5 DEF FirstBest

LEMMA OneFirstBest ==
  ASSUME NEW v, NEW T \in SUBSET Nat, \A j \in T : v[j] \in Int,
         NEW i, NEW k, FirstBest(v, T, i), FirstBest(v, T, k)
  PROVE  i = k
<1>1. i \in Nat /\ k \in Nat /\ v[i] \in Int /\ v[k] \in Int /\ v[i] <= v[k] /\ v[k] <= v[i]
  BY DEF FirstBest
<1>2. (i < k => v[k] < v[i]) /\ (k < i => v[i] < v[k])
  BY DEF FirstBest
<1> QED BY <1>1, <1>2

-----------------------------------------------------------------------------
(* The periods.                                                             *)

Top(p, sign, i) ==
  /\ \A j \in DOMAIN p : ~ (sign * p[j] > sign * p[i])
  /\ \A j \in 1..(i - 1) : sign * p[i] > sign * p[j]

LEMMA TopExists ==
  ASSUME NEW p \in Seq(Int), p # <<>>, NEW sign \in {1, -1}
  PROVE  \E i \in DOMAIN p : Top(p, sign, i)
<1> DEFINE n == Len(p)
           v == [i \in 1..n |-> 0 - sign * p[i]]
<1>1. n \in Nat /\ n >= 1 /\ DOMAIN p = 1..n
  OBVIOUS
<1>2. \A i \in 1..n : sign * p[i] \in Int /\ v[i] = 0 - sign * p[i] /\ v[i] \in Int
  OBVIOUS
<1>3. 1..n \in SUBSET (0..n) /\ 1..n # {}
  BY <1>1
<1> HIDE DEF n, v
<1>4. PICK i \in 1..n : FirstBest(v, 1..n, i)
  BY <1>1, <1>2, <1>3, FirstBestExists
<1>5. \A j \in 1..n : ~ (sign * p[j] > sign * p[i])
  BY <1>2, <1>4 DEF FirstBest
<1>6. \A j \in 1..(i - 1) : j \in 1..n /\ j < i
  BY <1>1
<1>7. \A j \in 1..(i - 1) : v[i] < v[j]
  BY <1>4, <1>6, Zenon DEF FirstBest
<1>8. \A j \in 1..(i - 1) : sign * p[i] > sign * p[j]
  BY <1>2, <1>6, <1>7
<1> QED BY <1>1, <1>5, <1>8, Zenon DEF Top

\* The slot a period is made around, and what lies next to it and is near it.
TopOf(p, sign) == CHOOSE i \in DOMAIN p : Top(p, sign, i)
Before(p, top) == {i \in 1..top : \A j \in i..top : NearTop(p, top, j)}
After(p, top) == {i \in top..Len(p) : \A j \in top..i : NearTop(p, top, j)}

LEMMA PeriodIs ==
  \A p, sign :
    Period(p, sign) = [start |-> Min(Before(p, TopOf(p, sign))) - 1,
                       end   |-> Max(After(p, TopOf(p, sign)))]
BY Zenon DEF Period, TopOf, Top, Before, After

LEMMA NearInPeriod ==
  ASSUME NEW p \in Seq(Int), p # <<>>, NEW sign \in {1, -1}
  PROVE  /\ TopOf(p, sign) \in DOMAIN p /\ Top(p, sign, TopOf(p, sign))
         /\ \A hour \in Period(p, sign).start..(Period(p, sign).end - 1) :
              /\ hour \in 0..(Len(p) - 1)
              /\ p[hour + 1] - p[TopOf(p, sign)] \in (1 - Near)..(Near - 1)
<1> DEFINE top == TopOf(p, sign)
           n == Len(p)
<1>1. top \in DOMAIN p /\ Top(p, sign, top)
  BY TopExists, Zenon DEF TopOf
<1>2. n \in Nat /\ top \in 1..n /\ p[top] \in Int
  BY <1>1
<1> HIDE DEF top
<1>3. NearTop(p, top, top)
  BY <1>2, PriceFacts DEF NearTop
<1>4. \A j \in top..top : j = top
  BY <1>2
<1>5. top \in Before(p, top) /\ Before(p, top) \in SUBSET (1..n)
  <2>1. top \in 1..top /\ \A i \in 1..top : i \in 1..n
    BY <1>2
  <2> QED BY <1>3, <1>4, <2>1, Zenon DEF Before
<1>6. top \in After(p, top) /\ After(p, top) \in SUBSET (1..n)
  <2>1. top \in top..Len(p) /\ \A i \in top..Len(p) : i \in 1..n
    BY <1>2
  <2> QED BY <1>3, <1>4, <2>1, Zenon DEF After
<1>7. Min(Before(p, top)) \in Before(p, top) /\ Max(After(p, top)) \in After(p, top)
  <2>1. Before(p, top) # {} /\ After(p, top) # {}
    BY <1>5, <1>6
  <2> QED BY <1>2, <1>5, <1>6, <2>1, Extremes
<1> DEFINE a == Min(Before(p, top))
           b == Max(After(p, top))
<1>8. a \in 1..top /\ b \in top..n
  BY <1>7, Zenon DEF Before, After
<1>9. (\A j \in a..top : NearTop(p, top, j)) /\ (\A j \in top..b : NearTop(p, top, j))
  BY <1>7, Zenon DEF Before, After
<1>10. Period(p, sign).start = a - 1 /\ Period(p, sign).end = b
  BY PeriodIs DEF top
<1> HIDE DEF a, b, n
<1>11. ASSUME NEW hour \in (a - 1)..(b - 1)
       PROVE  hour \in 0..(n - 1) /\ p[hour + 1] - p[top] \in (1 - Near)..(Near - 1)
  <2>1. hour \in 0..(n - 1) /\ (hour + 1 \in a..top \/ hour + 1 \in top..b)
    BY <1>2, <1>8
  <2>2. NearTop(p, top, hour + 1)
    BY <1>9, <2>1
  <2> QED BY <2>1, <2>2 DEF NearTop
<1> QED BY <1>1, <1>10, <1>11 DEF top, n

\* The highest and the lowest price are those of the slots the periods are around.
LEMMA ExtremeIsTop ==
  ASSUME NEW p \in Seq(Int), p # <<>>
  PROVE  /\ Max({p[i] : i \in DOMAIN p}) = p[TopOf(p, 1)]
         /\ Min({p[i] : i \in DOMAIN p}) = p[TopOf(p, -1)]
<1> DEFINE all == {p[i] : i \in DOMAIN p}
           hi == TopOf(p, 1)
           lo == TopOf(p, -1)
<1>1. hi \in DOMAIN p /\ Top(p, 1, hi) /\ lo \in DOMAIN p /\ Top(p, -1, lo)
  BY NearInPeriod
<1>2. \A i \in DOMAIN p : p[i] \in Int
  OBVIOUS
<1> HIDE DEF hi, lo
<1>3. \A i \in DOMAIN p : p[hi] >= p[i] /\ p[lo] <= p[i]
  <2> TAKE i \in DOMAIN p
  <2>1. ~ (1 * p[i] > 1 * p[hi]) /\ ~ (-1 * p[i] > -1 * p[lo])
    BY <1>1 DEF Top
  <2> QED BY <1>1, <1>2, <2>1
<1>4. p[hi] \in all /\ p[lo] \in all
  BY <1>1
<1>5. \A x \in all : x \in Int /\ p[hi] >= x /\ p[lo] <= x
  BY <1>2, <1>3
<1> HIDE DEF all
<1>6. Max(all) \in all /\ \A y \in all : Max(all) >= y
  BY <1>4, <1>5, Zenon DEF Max
<1>7. Min(all) \in all /\ \A y \in all : Min(all) <= y
  BY <1>4, <1>5, Zenon DEF Min
<1>8. Max(all) = p[hi]
  BY <1>4, <1>5, <1>6
<1>9. Min(all) = p[lo]
  BY <1>4, <1>5, <1>7
<1> QED BY <1>8, <1>9 DEF all, hi, lo

\* The bucket at which an hour begins has its price, if there is one an hour.
LEMMA HourHasItsPrice ==
  ASSUME NEW p \in Seq(Int), Len(p) = Hours, NEW hour \in 0..(Hours - 1)
  PROVE  SpotAtBucket(p, hour * PerHour) = p[hour + 1]
<1>1. p # <<>> /\ Len(p) \in Nat
  BY PriceFacts
<1> DEFINE b == hour * PerHour
<1>2. hour + 1 \in 1..Hours
  BY PriceFacts
<1>3. (hour + 1) - 1 = hour /\ hour \in Int
  BY PriceFacts
<1>4. b \in 0..(Hours * PerHour - 1)
  BY <1>2, <1>3, Multiples, PriceFacts
<1>5. b \div PerHour = hour
  <2>1. b \in Int /\ hour * PerHour <= b /\ b < hour * PerHour + PerHour
    BY <1>3, <1>4, PriceFacts
  <2> HIDE DEF b
  <2> QED BY <1>3, <2>1, QuotientIs, PriceFacts
<1> HIDE DEF b
<1>6. (b * Hours) \div (Hours * PerHour) = hour
  BY <1>4, <1>5, IndexOfBucket, PriceFacts
<1>7. ~ (hour >= Hours)
  BY PriceFacts
<1>8. (b * Len(p)) \div Buckets = hour
  BY <1>6 DEF Buckets
<1>9. SpotAtBucket(p, b) = p[hour + 1]
  BY <1>1, <1>7, <1>8, Zenon DEF SpotAtBucket
<1> QED BY <1>9 DEF b

LEMMA PeriodsAreExtreme ==
  ASSUME TypeInv, StoredOk, ReportOk, at.step = "report"
  PROVE  PeriodsExtreme(data)
<1> DEFINE p == data.today
           all == {p[i] : i \in DOMAIN p}
<1>1. p \in Seq(Int)
  <2>1. data.day \in 0..(MaxDay + 2) /\ p = Spots(data.day)
    BY ReportConstants DEF ReportOk
  <2> QED BY <2>1, SpotsArePrices
<1>2. SUFFICES ASSUME Len(p) = Hours,
                      NEW extreme \in {<<Max(all), MaxPeriod(p)>>, <<Min(all), MinPeriod(p)>>},
                      NEW hour \in extreme[2].start..(extreme[2].end - 1)
               PROVE  SpotAtBucket(p, hour * PerHour) - extreme[1] \in (1 - Near)..(Near - 1)
  BY Zenon DEF PeriodsExtreme
<1>3. p # <<>>
  BY <1>2, PriceFacts
<1> HIDE DEF p, all
<1>4. ASSUME NEW sign \in {1, -1}, NEW value, value = p[TopOf(p, sign)],
             extreme = <<value, Period(p, sign)>>
      PROVE  SpotAtBucket(p, hour * PerHour) - extreme[1] \in (1 - Near)..(Near - 1)
  <2>1. hour \in Period(p, sign).start..(Period(p, sign).end - 1) /\ extreme[1] = value
    BY <1>2, <1>4
  <2>2. hour \in 0..(Len(p) - 1) /\ p[hour + 1] - p[TopOf(p, sign)] \in (1 - Near)..(Near - 1)
    BY <1>1, <1>3, <2>1, NearInPeriod
  <2>3. SpotAtBucket(p, hour * PerHour) = p[hour + 1]
    BY <1>1, <1>2, <2>2, HourHasItsPrice
  <2> QED BY <1>4, <2>1, <2>2, <2>3
<1>5. Max(all) = p[TopOf(p, 1)] /\ Min(all) = p[TopOf(p, -1)]
  BY <1>1, <1>3, ExtremeIsTop DEF all
<1>6. CASE extreme = <<Max(all), MaxPeriod(p)>>
  BY <1>4, <1>5, <1>6 DEF MaxPeriod
<1>7. CASE extreme = <<Min(all), MinPeriod(p)>>
  BY <1>4, <1>5, <1>7 DEF MinPeriod
<1> QED BY <1>2, <1>6, <1>7

\* Where a consumption report shows a price of its day for a time, it is that of
\* the time: the price of a slot and that of the periods of extreme prices.
THEOREM PricesAreOfTheirTime == Spec => []ShowsRightPrices
<1>1. TypeInv /\ PriceInv => ShowsRightPrices
  <2> SUFFICES ASSUME TypeInv, PriceInv, NEW report \in Analyses
               PROVE  SlotHasItsPrice(report) /\ PeriodsExtreme(report)
    BY DEF ShowsRightPrices
  <2>1. at.step = "report" /\ report = data
    BY DEF Analyses
  <2> QED BY <2>1, SlotsHaveTheirPrice, PeriodsAreExtreme DEF PriceInv
<1> QED BY <1>1, AlwaysPriced, PTL

(***************************************************************************)
(* The sums of the calculations are sums over finite sets.                 *)
(***************************************************************************)

LEMMA SumOfIsSum == \A prices, slots : SumOf(prices, slots) = Summed(prices, slots)
BY Zenon DEF SumOf, MapThenSumSet, MapThenFoldSet, Summed, Adds

BucketScores(prices, unit, trend, S) ==
  [b \in S |-> 100 * SpotAtBucket(prices, b) + unit * trend[b]]

LEMMA ScoreIsSum ==
  ASSUME NEW prices, NEW unit, NEW trend, NEW start
  PROVE  LET S == start..(start + Window - 1) IN
         Score(prices, unit, trend, start) = Summed(BucketScores(prices, unit, trend, S), S)
<1> DEFINE S == start..(start + Window - 1)
           g == BucketScores(prices, unit, trend, S)
           Step(s, f) == IF s = {} THEN 0
                         ELSE (100 * SpotAtBucket(prices, CHOOSE x \in s : TRUE)
                                 + unit * trend[CHOOSE x \in s : TRUE])
                                + f[s \ {CHOOSE x \in s : TRUE}]
           iter == CHOOSE f : f = [s \in SUBSET S |-> Step(s, f)]
<1>1. \A f : (f = [s \in SUBSET S |-> Step(s, f)]) <=> Adds(f, g, S)
  <2> TAKE f
  <2>1. \A s \in SUBSET S : s # {} => (CHOOSE x \in s : TRUE) \in S
    OBVIOUS
  <2>2. \A x \in S : g[x] = 100 * SpotAtBucket(prices, x) + unit * trend[x]
    BY Zenon DEF BucketScores
  <2> HIDE DEF g, S
  <2>3. \A s \in SUBSET S :
          Step(s, f) = IF s = {} THEN 0
                       ELSE g[CHOOSE x \in s : TRUE] + f[s \ {CHOOSE x \in s : TRUE}]
    <3> TAKE s \in SUBSET S
    <3>1. CASE s # {}
      <4>1. g[CHOOSE x \in s : TRUE] =
              100 * SpotAtBucket(prices, CHOOSE x \in s : TRUE) + unit * trend[CHOOSE x \in s : TRUE]
        BY <2>1, <2>2, <3>1, Zenon
      <4> QED BY <3>1, <4>1
    <3>2. CASE s = {}
      BY <3>2
    <3> QED BY <3>1, <3>2
  <2> HIDE DEF Step
  <2>4. [s \in SUBSET S |-> Step(s, f)] =
          [s \in SUBSET S |-> IF s = {} THEN 0
                              ELSE g[CHOOSE x \in s : TRUE] + f[s \ {CHOOSE x \in s : TRUE}]]
    BY <2>3
  <2> QED BY <2>4 DEF Adds
<1>2. Score(prices, unit, trend, start) = iter[S]
  BY Zenon DEF Score, MapThenSumSet, MapThenFoldSet
<1>3. iter = CHOOSE f : Adds(f, g, S)
  <2> HIDE DEF g, S, Step
  <2> QED BY <1>1
<1> HIDE DEF iter, g, S
<1>4. Score(prices, unit, trend, start) = Summed(g, S)
  BY <1>2, <1>3, Zenon DEF Summed
<1> QED BY <1>4 DEF g, S

LEMMA SpotIsInt ==
  ASSUME NEW prices \in Seq(Int), NEW b \in Nat
  PROVE  SpotAtBucket(prices, b) \in Int
<1> DEFINE index == (b * Len(prices)) \div Buckets
<1>1. CASE prices = <<>>
  <2>1. SpotAtBucket(prices, b) = 0
    BY <1>1, Zenon DEF SpotAtBucket
  <2> QED BY <2>1
<1>2. CASE prices # <<>>
  <2>1. Len(prices) \in Nat /\ Len(prices) >= 1 /\ DOMAIN prices = 1..Len(prices)
    BY <1>2
  <2>2. index \in Nat
    <3>1. b * Len(prices) \in Nat
      BY <2>1
    <3> QED BY <3>1, PriceFacts
  <2> HIDE DEF index
  <2>3. (IF index >= Len(prices) THEN Len(prices) ELSE index + 1) \in 1..Len(prices)
    BY <2>1, <2>2
  <2>4. SpotAtBucket(prices, b) =
          prices[IF index >= Len(prices) THEN Len(prices) ELSE index + 1]
    BY <1>2, Zenon DEF SpotAtBucket, index
  <2>5. \A i \in 1..Len(prices) : prices[i] \in Int
    OBVIOUS
  <2> QED BY <2>3, <2>4, <2>5, Zenon
<1> QED BY <1>1, <1>2

LEMMA ScoreIsInt ==
  ASSUME NEW prices \in Seq(Int), NEW unit \in Int, NEW trend \in [0..(Buckets - 1) -> Nat],
         NEW start \in 0..(Buckets - Window)
  PROVE  Score(prices, unit, trend, start) \in Int
<1> DEFINE S == start..(start + Window - 1)
           g == BucketScores(prices, unit, trend, S)
<1>1. IsFiniteSet(S)
  BY FS_Interval, PriceFacts
<1>2. ASSUME NEW x \in S PROVE g[x] \in Int
  <2>1. x \in Nat /\ x \in 0..(Buckets - 1)
    BY PriceFacts
  <2>2. SpotAtBucket(prices, x) \in Int /\ trend[x] \in Int
    BY <2>1, SpotIsInt
  <2>3. g[x] = 100 * SpotAtBucket(prices, x) + unit * trend[x]
    BY Zenon DEF BucketScores
  <2> HIDE DEF g
  <2> QED BY <2>2, <2>3
<1>3. S \in SUBSET S
  OBVIOUS
<1> HIDE DEF g, S
<1>4. Summed(g, S) \in Int
  BY <1>1, <1>2, <1>3, SumAny
<1>5. Score(prices, unit, trend, start) = Summed(g, S)
  BY ScoreIsSum DEF g, S
<1> QED BY <1>4, <1>5

(***************************************************************************)
(* The recommended window (WindowIsBest).                                  *)
(***************************************************************************)

\* f keeps the better of the best so far and the last element.
KeepsBest(f, score, m) ==
  f = [s \in SUBSET (1..m) |->
         IF s = {} THEN 0
         ELSE IF score[Max(s)] < score[f[s \ {Max(s)}]] THEN Max(s) ELSE f[s \ {Max(s)}]]

Scores(prices, unit, trend) == [start \in 0..(Buckets - Window) |-> Score(prices, unit, trend, start)]

LEMMA BestWindowIs ==
  ASSUME NEW prices, NEW unit, NEW trend
  PROVE  BestWindow(prices, unit, trend) =
           (CHOOSE f : KeepsBest(f, Scores(prices, unit, trend), Buckets - Window))[1..(Buckets - Window)]
<1> DEFINE m == Buckets - Window
           score == Scores(prices, unit, trend)
           seq == [i \in 1..m |-> i]
           Step(s, f) == IF s = {} THEN 0
                         ELSE IF score[seq[Max(s)]] < score[f[s \ {Max(s)}]]
                              THEN seq[Max(s)] ELSE f[s \ {Max(s)}]
           iter == CHOOSE f : f = [s \in SUBSET (DOMAIN seq) |-> Step(s, f)]
<1>1. BestWindow(prices, unit, trend) = iter[DOMAIN seq]
  BY Zenon DEF BestWindow, Scores, FoldLeft, MapThenFoldSet
<1>2. DOMAIN seq = 1..m
  OBVIOUS
<1>3. m \in Nat
  BY PriceFacts
<1> HIDE DEF m
<1>4. \A f : (f = [s \in SUBSET (DOMAIN seq) |-> Step(s, f)]) <=> KeepsBest(f, score, m)
  <2> TAKE f
  <2>1. \A s \in SUBSET (1..m) : s # {} => Max(s) \in 1..m /\ seq[Max(s)] = Max(s)
    <3> TAKE s \in SUBSET (1..m)
    <3>1. s # {} => Max(s) \in 1..m
      BY <1>3, Extremes
    <3> QED BY <3>1
  <2> HIDE DEF seq, score
  <2>2. \A s \in SUBSET (1..m) :
          Step(s, f) = IF s = {} THEN 0
                       ELSE IF score[Max(s)] < score[f[s \ {Max(s)}]] THEN Max(s) ELSE f[s \ {Max(s)}]
    <3> TAKE s \in SUBSET (1..m)
    <3>1. CASE s # {}
      <4>1. seq[Max(s)] = Max(s)
        BY <2>1, <3>1
      <4> QED BY <3>1, <4>1
    <3>2. CASE s = {}
      BY <3>2
    <3> QED BY <3>1, <3>2
  <2> HIDE DEF Step
  <2>3. [s \in SUBSET (1..m) |-> Step(s, f)] =
          [s \in SUBSET (1..m) |->
             IF s = {} THEN 0
             ELSE IF score[Max(s)] < score[f[s \ {Max(s)}]] THEN Max(s) ELSE f[s \ {Max(s)}]]
    BY <2>2
  <2> QED BY <1>2, <2>3 DEF KeepsBest
<1>5. iter = CHOOSE f : KeepsBest(f, score, m)
  <2> HIDE DEF seq, score, Step
  <2> QED BY <1>4
<1> HIDE DEF iter, seq, score
<1>6. BestWindow(prices, unit, trend) = (CHOOSE f : KeepsBest(f, score, m))[1..m]
  BY <1>1, <1>2, <1>5, Zenon
<1> QED BY <1>6 DEF score, m

LEMMA BestIsKept ==
  ASSUME NEW m \in Nat, NEW score, \A i \in 0..m : score[i] \in Int
  PROVE  \E f : KeepsBest(f, score, m)
<1> DEFINE U(s) == s \cup {0}
           best == [s \in SUBSET (1..m) |-> CHOOSE i : FirstBest(score, U(s), i)]
           Next1(s) == IF s = {} THEN 0
                       ELSE IF score[Max(s)] < score[best[s \ {Max(s)}]] THEN Max(s)
                            ELSE best[s \ {Max(s)}]
<1>1. ASSUME NEW s \in SUBSET (1..m) PROVE FirstBest(score, U(s), best[s])
  <2>1. U(s) \in SUBSET (0..m) /\ U(s) # {} /\ \A j \in U(s) : score[j] \in Int
    OBVIOUS
  <2> HIDE DEF U
  <2>2. \E i \in U(s) : FirstBest(score, U(s), i)
    BY <2>1, FirstBestExists
  <2>3. best[s] = CHOOSE i : FirstBest(score, U(s), i)
    OBVIOUS
  <2> QED BY <2>2, <2>3, Zenon
<1> HIDE DEF best
<1>2. ASSUME NEW s \in SUBSET (1..m) PROVE best[s] = Next1(s)
  <2>1. CASE s = {}
    <3>1. FirstBest(score, U(s), best[s])
      BY <1>1
    <3>2. best[s] = 0
      BY <2>1, <3>1 DEF FirstBest
    <3> QED BY <2>1, <3>2
  <2>2. CASE s # {}
    <3> DEFINE x == Max(s)
               r == s \ {x}
    <3>1. x \in s /\ \A j \in s : x >= j
      BY <2>2, Extremes
    <3>2. r \in SUBSET (1..m) /\ x \in 1..m
      BY <3>1
    <3>3. U(r) \in SUBSET Nat /\ (\A j \in U(r) : j < x) /\ \A j \in U(r) : score[j] \in Int
      BY <3>1, <3>2
    <3>4. U(r) \cup {x} = U(s) /\ U(s) \in SUBSET Nat /\ \A j \in U(s) : score[j] \in Int
      BY <3>1
    <3>5. FirstBest(score, U(r), best[r]) /\ FirstBest(score, U(s), best[s])
      BY <1>1, <3>2
    <3>6. score[x] \in Int /\ x \in Nat
      BY <3>2
    <3> HIDE DEF U, x, r
    <3>7. FirstBest(score, U(r) \cup {x}, IF score[x] < score[best[r]] THEN x ELSE best[r])
      BY <3>3, <3>5, <3>6, AddLater
    <3>8. best[s] = IF score[x] < score[best[r]] THEN x ELSE best[r]
      BY <3>4, <3>5, <3>7, OneFirstBest
    <3> QED BY <2>2, <3>8 DEF x, r
  <2> QED BY <2>1, <2>2
<1>3. KeepsBest(best, score, m)
  <2>1. best = [s \in SUBSET (1..m) |-> best[s]]
    BY DEF best
  <2> HIDE DEF Next1
  <2>2. best = [s \in SUBSET (1..m) |-> Next1(s)]
    BY <1>2, <2>1
  <2> QED BY <2>2 DEF KeepsBest, Next1
<1> QED BY <1>3

LEMMA KeptIsBest ==
  ASSUME NEW m \in Nat, NEW score, \A i \in 0..m : score[i] \in Int, NEW f, KeepsBest(f, score, m)
  PROVE  FirstBest(score, 0..m, f[1..m])
<1> DEFINE Done == {k \in Nat : k <= m => FirstBest(score, 0..k, f[1..k])}
<1>0. \A s \in SUBSET (1..m) :
        f[s] = IF s = {} THEN 0
               ELSE IF score[Max(s)] < score[f[s \ {Max(s)}]] THEN Max(s) ELSE f[s \ {Max(s)}]
  BY DEF KeepsBest
<1>1. 0 \in Done
  <2>1. 1..0 = {} /\ 0..0 = {0} /\ {} \in SUBSET (1..m)
    OBVIOUS
  <2>2. f[1..0] = 0
    BY <1>0, <2>1
  <2>3. score[0] \in Int
    OBVIOUS
  <2>4. FirstBest(score, {0}, 0)
    BY <2>3 DEF FirstBest
  <2> QED BY <2>1, <2>2, <2>4
<1>2. ASSUME NEW k \in Nat, k \in Done PROVE k + 1 \in Done
  <2> SUFFICES ASSUME k + 1 <= m PROVE FirstBest(score, 0..(k + 1), f[1..(k + 1)])
    OBVIOUS
  <2> DEFINE s == 1..(k + 1)
             x == Max(s)
  <2>1. s \in SUBSET (1..m) /\ s # {} /\ s \in SUBSET (1..(k + 1)) /\ k + 1 \in Nat /\ k + 1 \in s
    OBVIOUS
  <2>2. x = k + 1
    <3>1. x \in s /\ \A j \in s : x >= j
      <4> HIDE DEF s
      <4> QED BY <2>1, Extremes
    <3>2. x \in s /\ x >= k + 1
      BY <2>1, <3>1
    <3> HIDE DEF x
    <3> QED BY <3>2
  <2>3. s \ {k + 1} = 1..k
    OBVIOUS
  <2> HIDE DEF x
  <2>4. f[s] = IF score[k + 1] < score[f[1..k]] THEN k + 1 ELSE f[1..k]
    <3> HIDE DEF s
    <3>1. f[s] = IF score[x] < score[f[s \ {x}]] THEN x ELSE f[s \ {x}]
      BY <1>0, <2>1 DEF x
    <3> QED BY <2>2, <2>3, <3>1
  <2>5. FirstBest(score, 0..k, f[1..k])
    BY <1>2
  <2>6. /\ 0..k \in SUBSET Nat /\ (\A j \in 0..k : j < k + 1)
        /\ (\A j \in 0..k : score[j] \in Int) /\ score[k + 1] \in Int
    OBVIOUS
  <2>7. FirstBest(score, (0..k) \cup {k + 1}, IF score[k + 1] < score[f[1..k]] THEN k + 1 ELSE f[1..k])
    BY <2>1, <2>5, <2>6, AddLater
  <2>8. (0..k) \cup {k + 1} = 0..(k + 1)
    OBVIOUS
  <2> QED BY <2>4, <2>7, <2>8
<1>3. m \in Done
  <2> HIDE DEF Done
  <2>1. \A k \in Nat : k \in Done
    BY <1>1, <1>2, SetInduction
  <2> QED BY <2>1
<1> QED BY <1>3

LEMMA BestWindowIsBest ==
  ASSUME NEW prices \in Seq(Int), NEW unit \in Int, NEW trend \in [0..(Buckets - 1) -> Nat]
  PROVE  FirstBest(Scores(prices, unit, trend), 0..(Buckets - Window), BestWindow(prices, unit, trend))
<1> DEFINE m == Buckets - Window
           score == Scores(prices, unit, trend)
           f == CHOOSE f : KeepsBest(f, score, m)
<1>1. m \in Nat
  BY PriceFacts
<1>2. \A i \in 0..m : score[i] \in Int
  BY ScoreIsInt DEF Scores
<1>3. BestWindow(prices, unit, trend) = f[1..m]
  BY BestWindowIs
<1> HIDE DEF m, score
<1>4. KeepsBest(f, score, m)
  BY <1>1, <1>2, BestIsKept
<1> HIDE DEF f
<1>5. FirstBest(score, 0..m, f[1..m])
  BY <1>1, <1>2, <1>4, KeptIsBest
<1> QED BY <1>3, <1>5 DEF m, score

(***************************************************************************)
(* The estimate.                                                           *)
(***************************************************************************)

LevelParts(history, weights) ==
  [h \in Used(history) |->
     weights[h] * Total(history[h]) * (Lengths(history) \div Len(history[h]))]

SlotParts(history, weights, slot, count) ==
  [h \in Used(history) |->
     weights[h] * history[h][((slot * Len(history[h])) \div count) + 1]]

LEMMA LevelIsSum ==
  ASSUME NEW history, NEW weights
  PROVE  Level(history, weights) = Summed(LevelParts(history, weights), Used(history))
<1> DEFINE S == Used(history)
           g == LevelParts(history, weights)
           Part1(h) == weights[h] * Total(history[h]) * (Lengths(history) \div Len(history[h]))
           Step(s, f) == IF s = {} THEN 0
                         ELSE Part1(CHOOSE x \in s : TRUE) + f[s \ {CHOOSE x \in s : TRUE}]
           iter == CHOOSE f : f = [s \in SUBSET S |-> Step(s, f)]
<1>1. Level(history, weights) = iter[S]
  BY Zenon DEF Level, MapThenSumSet, MapThenFoldSet
<1>2. \A x \in S : g[x] = Part1(x)
  BY Zenon DEF LevelParts
<1> HIDE DEF Part1
<1>3. \A f : (f = [s \in SUBSET S |-> Step(s, f)]) <=> Adds(f, g, S)
  <2> TAKE f
  <2> HIDE DEF g, S
  <2>1. \A s \in SUBSET S :
          Step(s, f) = IF s = {} THEN 0
                       ELSE g[CHOOSE x \in s : TRUE] + f[s \ {CHOOSE x \in s : TRUE}]
    <3> TAKE s \in SUBSET S
    <3>1. CASE s # {}
      <4>1. (CHOOSE x \in s : TRUE) \in S
        BY <3>1
      <4>2. g[CHOOSE x \in s : TRUE] = Part1(CHOOSE x \in s : TRUE)
        BY <1>2, <4>1, Zenon
      <4> QED BY <3>1, <4>2
    <3>2. CASE s = {}
      BY <3>2
    <3> QED BY <3>1, <3>2
  <2> HIDE DEF Step
  <2>2. [s \in SUBSET S |-> Step(s, f)] =
          [s \in SUBSET S |-> IF s = {} THEN 0
                              ELSE g[CHOOSE x \in s : TRUE] + f[s \ {CHOOSE x \in s : TRUE}]]
    BY <2>1
  <2> QED BY <2>2 DEF Adds
<1>4. iter = CHOOSE f : Adds(f, g, S)
  <2> HIDE DEF g, S, Step
  <2> QED BY <1>3
<1> HIDE DEF iter, g, S
<1>5. Level(history, weights) = Summed(g, S)
  BY <1>1, <1>4, Zenon DEF Summed
<1> QED BY <1>5 DEF g, S

LEMMA SlotPriceIsSum ==
  ASSUME NEW history, NEW weights, NEW slot, NEW count
  PROVE  SlotPrice(history, weights, slot, count) =
           Summed(SlotParts(history, weights, slot, count), Used(history))
<1> DEFINE S == Used(history)
           g == SlotParts(history, weights, slot, count)
           Part1(h) == weights[h] * history[h][((slot * Len(history[h])) \div count) + 1]
           Step(s, f) == IF s = {} THEN 0
                         ELSE Part1(CHOOSE x \in s : TRUE) + f[s \ {CHOOSE x \in s : TRUE}]
           iter == CHOOSE f : f = [s \in SUBSET S |-> Step(s, f)]
<1>1. SlotPrice(history, weights, slot, count) = iter[S]
  BY Zenon DEF SlotPrice, MapThenSumSet, MapThenFoldSet
<1>2. \A x \in S : g[x] = Part1(x)
  BY Zenon DEF SlotParts
<1> HIDE DEF Part1
<1>3. \A f : (f = [s \in SUBSET S |-> Step(s, f)]) <=> Adds(f, g, S)
  <2> TAKE f
  <2> HIDE DEF g, S
  <2>1. \A s \in SUBSET S :
          Step(s, f) = IF s = {} THEN 0
                       ELSE g[CHOOSE x \in s : TRUE] + f[s \ {CHOOSE x \in s : TRUE}]
    <3> TAKE s \in SUBSET S
    <3>1. CASE s # {}
      <4>1. (CHOOSE x \in s : TRUE) \in S
        BY <3>1
      <4>2. g[CHOOSE x \in s : TRUE] = Part1(CHOOSE x \in s : TRUE)
        BY <1>2, <4>1, Zenon
      <4> QED BY <3>1, <4>2
    <3>2. CASE s = {}
      BY <3>2
    <3> QED BY <3>1, <3>2
  <2> HIDE DEF Step
  <2>2. [s \in SUBSET S |-> Step(s, f)] =
          [s \in SUBSET S |-> IF s = {} THEN 0
                              ELSE g[CHOOSE x \in s : TRUE] + f[s \ {CHOOSE x \in s : TRUE}]]
    BY <2>1
  <2> QED BY <2>2 DEF Adds
<1>4. iter = CHOOSE f : Adds(f, g, S)
  <2> HIDE DEF g, S, Step
  <2> QED BY <1>3
<1> HIDE DEF iter, g, S
<1>5. SlotPrice(history, weights, slot, count) = Summed(g, S)
  BY <1>1, <1>4, Zenon DEF Summed
<1> QED BY <1>5 DEF g, S

LEMMA WeightIsSum ==
  \A weights, S : (LET Weight(h) == weights[h] IN MapThenSumSet(Weight, S)) = Summed(weights, S)
BY Zenon DEF MapThenSumSet, MapThenFoldSet, Summed, Adds

\* f multiplies the lengths of some days of a history.
Multiplies(f, len, U) ==
  f = [s \in SUBSET U |->
         IF s = {} THEN 1 ELSE len[CHOOSE x \in s : TRUE] * f[s \ {CHOOSE x \in s : TRUE}]]

LEMMA LengthsAreProduct ==
  ASSUME NEW history
  PROVE  Lengths(history) =
           (CHOOSE f : Multiplies(f, [h \in Used(history) |-> Len(history[h])], Used(history)))[Used(history)]
<1> DEFINE S == Used(history)
           g == [h \in Used(history) |-> Len(history[h])]
           Step(s, f) == IF s = {} THEN 1
                         ELSE Len(history[CHOOSE x \in s : TRUE]) * f[s \ {CHOOSE x \in s : TRUE}]
           iter == CHOOSE f : f = [s \in SUBSET S |-> Step(s, f)]
<1>1. Lengths(history) = iter[S]
  BY Zenon DEF Lengths, FoldSet, MapThenFoldSet
<1>3. \A f : (f = [s \in SUBSET S |-> Step(s, f)]) <=> Multiplies(f, g, S)
  <2> TAKE f
  <2>0. \A x \in S : g[x] = Len(history[x])
    OBVIOUS
  <2> HIDE DEF g, S
  <2>1. \A s \in SUBSET S :
          Step(s, f) = IF s = {} THEN 1
                       ELSE g[CHOOSE x \in s : TRUE] * f[s \ {CHOOSE x \in s : TRUE}]
    <3> TAKE s \in SUBSET S
    <3>1. CASE s # {}
      <4>1. (CHOOSE x \in s : TRUE) \in S
        BY <3>1
      <4>2. g[CHOOSE x \in s : TRUE] = Len(history[CHOOSE x \in s : TRUE])
        BY <2>0, <4>1, Zenon
      <4> QED BY <3>1, <4>2
    <3>2. CASE s = {}
      BY <3>2
    <3> QED BY <3>1, <3>2
  <2> HIDE DEF Step
  <2>2. [s \in SUBSET S |-> Step(s, f)] =
          [s \in SUBSET S |-> IF s = {} THEN 1
                              ELSE g[CHOOSE x \in s : TRUE] * f[s \ {CHOOSE x \in s : TRUE}]]
    BY <2>1
  <2> QED BY <2>2 DEF Multiplies
<1>4. iter = CHOOSE f : Multiplies(f, g, S)
  <2> HIDE DEF g, S, Step
  <2> QED BY <1>3
<1> HIDE DEF iter, g, S
<1>5. Lengths(history) = (CHOOSE f : Multiplies(f, g, S))[S]
  BY <1>1, <1>4, Zenon
<1> QED BY <1>5 DEF g, S

LEMMA SubsetsOfTwo ==
  ASSUME NEW U \in SUBSET {1, 2}
  PROVE  U = {} \/ U = {1} \/ U = {2} \/ U = {1, 2}
OBVIOUS

LEMMA ProductOfTwo ==
  ASSUME NEW U \in SUBSET {1, 2}, NEW len, \A h \in U : len[h] \in Nat, NEW f, Multiplies(f, len, U)
  PROVE  /\ U = {} => f[U] = 1
         /\ \A a \in {1, 2} : U = {a} => f[U] = len[a]
         /\ U = {1, 2} => f[U] = len[1] * len[2]
<1>1. \A s \in SUBSET U :
        f[s] = IF s = {} THEN 1 ELSE len[CHOOSE x \in s : TRUE] * f[s \ {CHOOSE x \in s : TRUE}]
  BY DEF Multiplies
<1>2. f[{}] = 1
  BY <1>1
<1>3. ASSUME NEW a \in U PROVE f[{a}] = len[a]
  <2>1. {a} \in SUBSET U /\ {a} # {} /\ (CHOOSE x \in {a} : TRUE) = a /\ {a} \ {a} = {}
    OBVIOUS
  <2>2. f[{a}] = len[a] * f[{}]
    BY <1>1, <2>1
  <2> QED BY <1>2, <2>2
<1>4. ASSUME U = {1, 2} PROVE f[U] = len[1] * len[2]
  <2> DEFINE c == CHOOSE x \in U : TRUE
  <2>1. c \in {1, 2} /\ U # {} /\ U \in SUBSET U
    BY <1>4
  <2>2. f[U] = len[c] * f[U \ {c}]
    BY <1>1, <2>1
  <2>3. len[1] \in Nat /\ len[2] \in Nat /\ f[{1}] = len[1] /\ f[{2}] = len[2]
    BY <1>3, <1>4
  <2> HIDE DEF c
  <2>4. CASE c = 1
    <3>1. U \ {c} = {2}
      BY <1>4, <2>4
    <3> QED BY <2>2, <2>3, <2>4, <3>1
  <2>5. CASE c = 2
    <3>1. U \ {c} = {1}
      BY <1>4, <2>5
    <3>2. f[U] = len[2] * len[1]
      BY <2>2, <2>3, <2>5, <3>1
    <3> QED BY <2>3, <3>2
  <2> QED BY <2>1, <2>4, <2>5
<1> QED BY <1>2, <1>3, <1>4

LEMMA ProductExists ==
  ASSUME NEW U \in SUBSET {1, 2}, NEW len, \A h \in U : len[h] \in Nat
  PROVE  \E f : Multiplies(f, len, U)
<1> DEFINE f == [s \in SUBSET U |-> IF s = {} THEN 1
                                    ELSE IF s = {1} THEN len[1]
                                    ELSE IF s = {2} THEN len[2] ELSE len[1] * len[2]]
           Next1(s) == IF s = {} THEN 1
                       ELSE len[CHOOSE x \in s : TRUE] * f[s \ {CHOOSE x \in s : TRUE}]
<1>1. ASSUME NEW s \in SUBSET U PROVE f[s] = Next1(s)
  <2>1. CASE s = {}
    BY <2>1
  <2>2. ASSUME NEW a \in {1, 2}, s = {a} PROVE f[s] = Next1(s)
    <3>1. (CHOOSE x \in s : TRUE) = a /\ s \ {a} = {} /\ s # {} /\ {} \in SUBSET U
      BY <2>2
    <3>2. f[s] = len[a] /\ f[{}] = 1 /\ len[a] \in Nat
      BY <2>2
    <3> HIDE DEF f
    <3>3. Next1(s) = len[a] * f[{}]
      BY <3>1, Zenon
    <3> QED BY <3>2, <3>3
  <2>3. CASE s = {1, 2}
    <3> DEFINE c == CHOOSE x \in s : TRUE
    <3>1. c \in {1, 2} /\ s # {} /\ len[1] \in Nat /\ len[2] \in Nat
      BY <2>3
    <3>2. f[s] = len[1] * len[2] /\ f[{1}] = len[1] /\ f[{2}] = len[2]
      BY <2>3
    <3>3. Next1(s) = len[c] * f[s \ {c}]
      <4> HIDE DEF f
      <4> QED BY <3>1, Zenon
    <3> HIDE DEF f, c
    <3>4. CASE c = 1
      <4>1. s \ {c} = {2}
        BY <2>3, <3>4
      <4> QED BY <3>1, <3>2, <3>3, <3>4, <4>1
    <3>5. CASE c = 2
      <4>1. s \ {c} = {1}
        BY <2>3, <3>5
      <4>2. Next1(s) = len[2] * len[1]
        BY <3>2, <3>3, <3>5, <4>1
      <4>3. len[2] * len[1] = len[1] * len[2]
        BY <3>1
      <4> QED BY <3>2, <4>2, <4>3
    <3> QED BY <3>1, <3>4, <3>5
  <2>4. s = {} \/ s = {1} \/ s = {2} \/ s = {1, 2}
    OBVIOUS
  <2> HIDE DEF f, Next1
  <2> QED BY <2>1, <2>2, <2>3, <2>4
<1>2. Multiplies(f, len, U)
  <2>1. f = [s \in SUBSET U |-> f[s]]
    OBVIOUS
  <2> HIDE DEF f, Next1
  <2>2. f = [s \in SUBSET U |-> Next1(s)]
    BY <1>1, <2>1
  <2> QED BY <2>2 DEF Multiplies, Next1
<1> QED BY <1>2

\* A history is of two days, of which none, one or both have prices.
LEMMA HistoryFacts ==
  ASSUME NEW history \in [HistoryDays -> Seq(Int)]
  PROVE  /\ Used(history) \in SUBSET {1, 2} /\ IsFiniteSet(Used(history))
         /\ \A h \in Used(history) : /\ history[h] \in Seq(Int)
                                     /\ Len(history[h]) \in Nat /\ Len(history[h]) >= 1
<1>1. HistoryDays = {1, 2}
  BY DEF HistoryDays
<1>2. Used(history) \in SUBSET {1, 2}
  BY <1>1 DEF Used
<1>3. IsFiniteSet(Used(history))
  <2>1. IsFiniteSet(1..2)
    <3>1. \A a, b \in Int : IsFiniteSet(a..b)
      BY FS_Interval
    <3>2. 1 \in Int /\ 2 \in Int
      OBVIOUS
    <3> QED BY <3>1, <3>2, Zenon
  <2>2. {1, 2} = 1..2
    OBVIOUS
  <2> QED BY <1>2, <2>1, <2>2, FS_Subset
<1>4. \A h \in Used(history) : history[h] \in Seq(Int) /\ history[h] # <<>>
  BY <1>1, <1>2 DEF Used
<1> QED BY <1>2, <1>3, <1>4

\* Lengths is positive, and a multiple of the length its days have in common.
LEMMA LengthsFacts ==
  ASSUME NEW history \in [HistoryDays -> Seq(Int)]
  PROVE  /\ Lengths(history) \in Nat
         /\ \A n \in Nat :
              Used(history) # {} /\ (\A h \in Used(history) : Len(history[h]) = n) =>
                \E k \in Nat : k >= 1 /\ Lengths(history) = n * k
<1> DEFINE U == Used(history)
           len == [h \in U |-> Len(history[h])]
           f == CHOOSE g : Multiplies(g, len, U)
<1>1. U \in SUBSET {1, 2} /\ \A h \in U : len[h] = Len(history[h]) /\ len[h] \in Nat /\ len[h] >= 1
  BY HistoryFacts
<1>2. Lengths(history) = f[U]
  BY LengthsAreProduct
<1> HIDE DEF U, len
<1>3. Multiplies(f, len, U)
  BY <1>1, ProductExists
<1> HIDE DEF f
<1>4. /\ U = {} => f[U] = 1
      /\ \A a \in {1, 2} : U = {a} => f[U] = len[a]
      /\ U = {1, 2} => f[U] = len[1] * len[2]
  BY <1>1, <1>3, ProductOfTwo
<1>5. U = {} \/ U = {1} \/ U = {2} \/ U = {1, 2}
  BY <1>1, SubsetsOfTwo
<1>6. CASE U = {}
  BY <1>2, <1>4, <1>6 DEF U
<1>7. ASSUME NEW a \in {1, 2}, U = {a}
      PROVE  f[U] \in Nat /\ \A n \in Nat : (\A h \in U : Len(history[h]) = n) =>
                                              \E k \in Nat : k >= 1 /\ f[U] = n * k
  <2>1. f[U] = len[a] /\ len[a] = Len(history[a]) /\ len[a] \in Nat /\ a \in U
    BY <1>1, <1>4, <1>7
  <2>2. ASSUME NEW n \in Nat, \A h \in U : Len(history[h]) = n PROVE 1 \in Nat /\ 1 >= 1 /\ f[U] = n * 1
    BY <2>1, <2>2
  <2> QED BY <2>1, <2>2, Zenon
<1>8. ASSUME U = {1, 2}
      PROVE  f[U] \in Nat /\ \A n \in Nat : (\A h \in U : Len(history[h]) = n) =>
                                              \E k \in Nat : k >= 1 /\ f[U] = n * k
  <2>1. /\ f[U] = len[1] * len[2] /\ len[1] \in Nat /\ len[2] \in Nat
        /\ len[1] = Len(history[1]) /\ len[2] = Len(history[2]) /\ len[2] >= 1
    BY <1>1, <1>4, <1>8
  <2>2. ASSUME NEW n \in Nat, \A h \in U : Len(history[h]) = n
        PROVE  n \in Nat /\ n >= 1 /\ f[U] = n * n
    BY <1>8, <2>1, <2>2
  <2>3. \A a, b \in Nat : a * b \in Nat
    OBVIOUS
  <2>4. f[U] \in Nat
    BY <2>1, <2>3, Zenon
  <2> QED BY <2>2, <2>4, Zenon
<1> QED BY <1>2, <1>5, <1>6, <1>7, <1>8 DEF U

LEMMA TotalFacts ==
  ASSUME NEW p \in Seq(Int)
  PROVE  /\ IsFiniteSet(DOMAIN p) /\ \A i \in DOMAIN p : p[i] \in Int
         /\ Total(p) = Summed(p, DOMAIN p) /\ Total(p) \in Int
<1>1. Len(p) \in Nat /\ DOMAIN p = 1..Len(p) /\ \A i \in DOMAIN p : p[i] \in Int
  OBVIOUS
<1>2. IsFiniteSet(DOMAIN p)
  BY <1>1, FS_Interval
<1>3. Total(p) = Summed(p, DOMAIN p)
  BY SumOfIsSum, Zenon DEF Total
<1> DEFINE S == DOMAIN p
<1>4. S \in SUBSET S
  OBVIOUS
<1> HIDE DEF S
<1>5. Summed(p, S) \in Int
  BY <1>1, <1>2, <1>4, SumAny DEF S
<1> QED BY <1>1, <1>2, <1>3, <1>5 DEF S

\* A slot of today has a counterpart in a day with any number of prices.
LEMMA SlotInHistory ==
  ASSUME NEW n \in Nat, n >= 1, NEW count \in Nat, count >= 1, NEW slot \in 0..(count - 1)
  PROVE  ((slot * n) \div count) + 1 \in 1..n
<1> DEFINE q == (slot * n) \div count
<1>1. slot * n \in Nat
  OBVIOUS
<1>2. q \in Nat /\ q * count <= slot * n
  BY <1>1
<1>3. slot * n < count * n
  OBVIOUS
<1>4. q * count < n * count
  BY <1>1, <1>2, <1>3
<1> HIDE DEF q
<1>5. q < n
  <2>1. SUFFICES ASSUME q >= n PROVE FALSE
    BY <1>2
  <2>2. q * count >= n * count
    BY <1>2, <2>1
  <2>3. q * count \in Int /\ n * count \in Int
    BY <1>2
  <2> QED BY <1>4, <2>2, <2>3
<1>6. q + 1 \in 1..n
  BY <1>2, <1>5
<1> QED BY <1>6 DEF q

LEMMA Products == \A a, b, c \in Int : a * b \in Int /\ a * b * c \in Int /\ a * b + c \in Int
OBVIOUS

LEMMA QuotientType == \A a, b \in Nat : b >= 1 => (a \div b \in Int)
OBVIOUS

LEMMA PartsAreInts ==
  ASSUME NEW history \in [HistoryDays -> Seq(Int)], NEW weights \in [HistoryDays -> Nat \ {0}]
  PROVE  /\ \A h \in Used(history) : weights[h] \in Nat /\ weights[h] >= 1
         /\ \A h \in Used(history) : LevelParts(history, weights)[h] \in Int
         /\ \A count \in Nat : \A slot \in 0..(count - 1) : \A h \in Used(history) :
              count >= 1 => SlotParts(history, weights, slot, count)[h] \in Int
<1> DEFINE U == Used(history)
           L == Lengths(history)
<1>1. L \in Nat
  BY LengthsFacts
<1>2. ASSUME NEW h \in U
      PROVE  /\ weights[h] \in Nat /\ weights[h] >= 1
             /\ history[h] \in Seq(Int) /\ Len(history[h]) \in Nat /\ Len(history[h]) >= 1
  <2>1. U \in SUBSET {1, 2} /\ HistoryDays = {1, 2}
    BY HistoryFacts DEF HistoryDays
  <2>2. weights[h] \in Nat \ {0}
    BY <2>1
  <2>3. history[h] \in Seq(Int) /\ Len(history[h]) \in Nat /\ Len(history[h]) >= 1
    BY HistoryFacts
  <2> QED BY <2>2, <2>3
<1>3. ASSUME NEW h \in U PROVE LevelParts(history, weights)[h] \in Int
  <2>1. LevelParts(history, weights)[h] = weights[h] * Total(history[h]) * (L \div Len(history[h]))
    BY Zenon DEF LevelParts
  <2>2. Total(history[h]) \in Int /\ weights[h] \in Int
    BY <1>2, TotalFacts
  <2> HIDE DEF L
  <2>3. L \div Len(history[h]) \in Int
    <3>1. Len(history[h]) \in Nat /\ Len(history[h]) >= 1
      BY <1>2
    <3> HIDE DEF U
    <3> QED BY <1>1, <3>1, QuotientType
  <2> DEFINE a == weights[h]
             b == Total(history[h])
             c == L \div Len(history[h])
  <2>4. a \in Int /\ b \in Int /\ c \in Int /\ LevelParts(history, weights)[h] = a * b * c
    BY <2>1, <2>2, <2>3
  <2> HIDE DEF a, b, c
  <2> QED BY <2>4, Products
<1>4. ASSUME NEW count \in Nat, NEW slot \in 0..(count - 1), NEW h \in U, count >= 1
      PROVE  SlotParts(history, weights, slot, count)[h] \in Int
  <2> DEFINE i == ((slot * Len(history[h])) \div count) + 1
  <2>1. SlotParts(history, weights, slot, count)[h] = weights[h] * history[h][i]
    BY Zenon DEF SlotParts
  <2>2. i \in 1..Len(history[h])
    BY <1>2, <1>4, SlotInHistory
  <2> HIDE DEF i
  <2>3. history[h][i] \in Int /\ weights[h] \in Int
    BY <1>2, <2>2
  <2> QED BY <2>1, <2>3, Products, Zenon
<1> QED BY <1>2, <1>3, <1>4

LEMMA EstimateParts ==
  ASSUME NEW history \in [HistoryDays -> Seq(Int)], NEW weights \in [HistoryDays -> Nat \ {0}]
  PROVE  /\ Level(history, weights) \in Int
         /\ Summed(weights, Used(history)) \in Int
         /\ \A count \in Nat : \A slot \in 0..(count - 1) :
              SlotPrice(history, weights, slot, count) \in Int
<1> DEFINE U == Used(history)
<1>1. IsFiniteSet(U) /\ U \in SUBSET U
  BY HistoryFacts
<1>2. /\ \A h \in U : weights[h] \in Int
      /\ \A h \in U : LevelParts(history, weights)[h] \in Int
      /\ \A count \in Nat : \A slot \in 0..(count - 1) : \A h \in U :
           count >= 1 => SlotParts(history, weights, slot, count)[h] \in Int
  <2>1. \A h \in U : weights[h] \in Nat /\ weights[h] >= 1
    BY PartsAreInts, Zenon
  <2>2. \A h \in U : LevelParts(history, weights)[h] \in Int
    BY PartsAreInts, Zenon
  <2>3. \A count \in Nat : \A slot \in 0..(count - 1) : \A h \in U :
           count >= 1 => SlotParts(history, weights, slot, count)[h] \in Int
    BY PartsAreInts, Zenon
  <2> HIDE DEF U
  <2>4. \A h \in U : weights[h] \in Int
    BY <2>1
  <2> QED BY <2>2, <2>3, <2>4
<1>3. Level(history, weights) = Summed(LevelParts(history, weights), U)
  BY LevelIsSum
<1>4. \A slot, count :
        SlotPrice(history, weights, slot, count) = Summed(SlotParts(history, weights, slot, count), U)
  BY SlotPriceIsSum
<1> HIDE DEF U
<1>5. Summed(LevelParts(history, weights), U) \in Int /\ Summed(weights, U) \in Int
  BY <1>1, <1>2, SumAny
<1>6. ASSUME NEW count \in Nat, NEW slot \in 0..(count - 1)
      PROVE  SlotPrice(history, weights, slot, count) \in Int
  <2> DEFINE g == SlotParts(history, weights, slot, count)
  <2>1. count >= 1
    OBVIOUS
  <2>2. \A h \in U : g[h] \in Int
    BY <1>2, <2>1
  <2> HIDE DEF g
  <2>3. Summed(g, U) \in Int
    BY <1>1, <2>2, SumAny
  <2> QED BY <1>4, <2>3 DEF g
<1> QED BY <1>3, <1>5, <1>6 DEF U

EstimateSlot(today, history, weights, i) ==
  LET count == Len(today)
      level == Level(history, weights)
      weight == Summed(weights, Used(history))
  IN  IF level > 0
      THEN 13 * SlotPrice(history, weights, i - 1, count) * Total(today) * Lengths(history)
             + 7 * today[i] * count * level
      ELSE 13 * SlotPrice(history, weights, i - 1, count) + 7 * today[i] * weight

LEMMA EstimateIs ==
  ASSUME NEW today, NEW history, NEW weights
  PROVE  /\ Estimate(today, history, weights).unit =
              IF Level(history, weights) > 0
              THEN 20 * Len(today) * Level(history, weights)
              ELSE 20 * Summed(weights, Used(history))
         /\ Estimate(today, history, weights).prices =
              [i \in 1..Len(today) |-> EstimateSlot(today, history, weights, i)]
<1> DEFINE count == Len(today)
           level == Level(history, weights)
           weight == Summed(weights, Used(history))
           At(i) == SlotPrice(history, weights, i - 1, count)
<1>1. Estimate(today, history, weights) =
        IF level > 0
        THEN [unit |-> 20 * count * level,
              prices |-> [i \in 1..count |-> 13 * At(i) * Total(today) * Lengths(history)
                                               + 7 * today[i] * count * level]]
        ELSE [unit |-> 20 * weight,
              prices |-> [i \in 1..count |-> 13 * At(i) + 7 * today[i] * weight]]
  BY WeightIsSum, Zenon DEF Estimate
<1> HIDE DEF count, level, weight, At
<1>2. CASE level > 0
  <2>1. \A i \in 1..count : EstimateSlot(today, history, weights, i) =
                              13 * At(i) * Total(today) * Lengths(history) + 7 * today[i] * count * level
    BY <1>2, Zenon DEF EstimateSlot, count, level, At
  <2> QED BY <1>1, <1>2, <2>1 DEF count, level, weight
<1>3. CASE ~ (level > 0)
  <2>1. \A i \in 1..count : EstimateSlot(today, history, weights, i) = 13 * At(i) + 7 * today[i] * weight
    BY <1>3, Zenon DEF EstimateSlot, count, level, weight, At
  <2> QED BY <1>1, <1>3, <2>1 DEF count, level, weight
<1> QED BY <1>2, <1>3

LEMMA SlotIsInt ==
  ASSUME NEW today \in Seq(Int), NEW history \in [HistoryDays -> Seq(Int)],
         NEW weights \in [HistoryDays -> Nat \ {0}], NEW i \in 1..Len(today)
  PROVE  EstimateSlot(today, history, weights, i) \in Int
<1> DEFINE count == Len(today)
           level == Level(history, weights)
           weight == Summed(weights, Used(history))
           price == SlotPrice(history, weights, i - 1, count)
           total == Total(today)
           lengths == Lengths(history)
           now == today[i]
<1>1. count \in Nat /\ i - 1 \in 0..(count - 1) /\ now \in Int
  OBVIOUS
<1>2. level \in Int /\ weight \in Int
  BY EstimateParts, Zenon
<1>3. price \in Int
  <2>1. \A c \in Nat : \A slot \in 0..(c - 1) : SlotPrice(history, weights, slot, c) \in Int
    BY EstimateParts, Zenon
  <2> HIDE DEF count
  <2> QED BY <1>1, <2>1
<1>4. total \in Int
  BY TotalFacts
<1>5. lengths \in Int
  BY LengthsFacts
<1>6. EstimateSlot(today, history, weights, i) =
        IF level > 0 THEN 13 * price * total * lengths + 7 * now * count * level
        ELSE 13 * price + 7 * now * weight
  BY Zenon DEF EstimateSlot
<1> HIDE DEF count, level, weight, price, total, lengths, now
<1> QED BY <1>1, <1>2, <1>3, <1>4, <1>5, <1>6

LEMMA EstimateIsPrices ==
  ASSUME NEW today \in Seq(Int), NEW history \in [HistoryDays -> Seq(Int)],
         NEW weights \in [HistoryDays -> Nat \ {0}]
  PROVE  /\ Estimate(today, history, weights).prices \in Seq(Int)
         /\ Estimate(today, history, weights).unit \in Int
<1> DEFINE n == Len(today)
           level == Level(history, weights)
           weight == Summed(weights, Used(history))
           slots == [i \in 1..n |-> EstimateSlot(today, history, weights, i)]
<1>1. n \in Nat
  OBVIOUS
<1>2. level \in Int /\ weight \in Int
  BY EstimateParts, Zenon
<1>3. \A i \in 1..n : EstimateSlot(today, history, weights, i) \in Int
  BY SlotIsInt
<1>4. slots \in Seq(Int)
  <2> HIDE DEF n
  <2>1. slots \in [1..n -> Int]
    BY <1>3
  <2> HIDE DEF slots
  <2> QED BY <1>1, <2>1
<1>5. /\ Estimate(today, history, weights).unit =
           IF level > 0 THEN 20 * n * level ELSE 20 * weight
      /\ Estimate(today, history, weights).prices = slots
  <2>1. Estimate(today, history, weights).unit =
          IF Level(history, weights) > 0 THEN 20 * Len(today) * Level(history, weights)
          ELSE 20 * Summed(weights, Used(history))
    BY EstimateIs
  <2>2. Estimate(today, history, weights).prices =
          [i \in 1..Len(today) |-> EstimateSlot(today, history, weights, i)]
    BY EstimateIs
  <2> QED BY <2>1, <2>2, Zenon
<1> HIDE DEF n, level, weight, slots
<1> QED BY <1>1, <1>2, <1>4, <1>5

\* What an analysis has loaded is prices.
LEMMA ReportIsTyped ==
  ASSUME TypeInv, PriceInv, at.step = "report"
  PROVE  /\ data.today \in Seq(Int) /\ data.tomorrow \in Seq(Int)
         /\ data.past.prices \in [HistoryDays -> Seq(Int)]
         /\ data.past.weights \in [HistoryDays -> Nat \ {0}]
         /\ data.source \in {"actual", "estimated", "today"}
<1>1. /\ data.day \in 0..MaxDay /\ data.today = Spots(data.day) /\ data.tomorrow \in Seq(Int)
      /\ data.past \in Pasts \cup {NoPast}
      /\ data.source = SourceOf(data.tomorrow, data.past)
  <2>1. at.step = "report"
    OBVIOUS
  <2>2. ReportOk
    BY DEF PriceInv
  <2> QED BY <2>1, <2>2, Zenon DEF ReportOk
<1>2. data.today \in Seq(Int)
  <2>1. data.day \in 0..(MaxDay + 2)
    <3>1. MaxDay \in Nat
      BY ReportConstants
    <3> QED BY <1>1, <3>1
  <2>2. Spots(data.day) \in Seq(Int)
    BY <2>1, SpotsArePrices DEF PriceInv
  <2> QED BY <1>1, <2>2, Zenon
<1>3. data.past.prices \in [HistoryDays -> Seq(Int)] /\ data.past.weights \in [HistoryDays -> Nat \ {0}]
  <2>1. CASE data.past \in Pasts
    BY <2>1, ReportConstants
  <2>2. CASE data.past = NoPast
    BY <2>2 DEF NoPast
  <2> QED BY <1>1, <2>1, <2>2
<1>4. data.source \in {"actual", "estimated", "today"}
  BY <1>1 DEF SourceOf
<1> QED BY <1>1, <1>2, <1>3, <1>4

LEMMA TomorrowIsPrices ==
  ASSUME TypeInv, PriceInv, at.step = "report"
  PROVE  Tomorrow(data).prices \in Seq(Int) /\ Tomorrow(data).unit \in Int
<1>1. /\ data.today \in Seq(Int) /\ data.tomorrow \in Seq(Int)
      /\ data.past.prices \in [HistoryDays -> Seq(Int)]
      /\ data.past.weights \in [HistoryDays -> Nat \ {0}]
      /\ data.source \in {"actual", "estimated", "today"}
  BY ReportIsTyped, Zenon
<1>4. CASE data.source = "actual"
  <2>1. Tomorrow(data) = [unit |-> 1, prices |-> data.tomorrow]
    BY <1>4 DEF Tomorrow
  <2> QED BY <1>1, <2>1
<1>5. CASE data.source = "estimated"
  <2>1. Tomorrow(data) = Estimate(data.today, data.past.prices, data.past.weights)
    BY <1>5 DEF Tomorrow
  <2> QED BY <1>1, <2>1, EstimateIsPrices
<1>6. CASE data.source = "today"
  <2>1. Tomorrow(data) = [unit |-> 1, prices |-> data.today]
    BY <1>6 DEF Tomorrow
  <2> QED BY <1>1, <2>1
<1> QED BY <1>1, <1>4, <1>5, <1>6

(* Every recommended start is that of the first of the cheapest windows of  *)
(* tomorrow, whatever the prices and what is used: best_price_window looks  *)
(* at every window and keeps the first of equals.                           *)
THEOREM RecommendsTheBestWindow == Spec => []WindowIsBest
<1>1. TypeInv /\ PriceInv => WindowIsBest
  <2> SUFFICES ASSUME TypeInv, PriceInv, at.step = "report" PROVE WindowIsBest
    BY DEF WindowIsBest, Analyses
  <2> DEFINE prices == Tomorrow(data).prices
             unit == Tomorrow(data).unit
             trend == data.trend
             best == BestWindow(prices, unit, trend)
             last == Buckets - Window
             score == Scores(prices, unit, trend)
  <2>1. prices \in Seq(Int) /\ unit \in Int
    BY TomorrowIsPrices
  <2>2. trend \in [0..(Buckets - 1) -> Nat]
    BY ReportConstants DEF PriceInv, ReportOk
  <2>3. FirstBest(score, 0..last, best)
    <3> HIDE DEF prices, unit, trend
    <3> QED BY <2>1, <2>2, BestWindowIsBest
  <2>4. \A s \in 0..last : score[s] = Score(prices, unit, trend, s) /\ score[s] \in Int
    <3> HIDE DEF prices, unit, trend
    <3> QED BY <2>1, <2>2, ScoreIsInt DEF Scores
  <2>5. Recommended(data) = best
    BY DEF Recommended
  <2>6. last \in Nat
    BY PriceFacts
  <2>7. \A s \in 0..last : IF s < best THEN Score(prices, unit, trend, s) > Score(prices, unit, trend, best)
                            ELSE Score(prices, unit, trend, s) >= Score(prices, unit, trend, best)
    <3> HIDE DEF prices, unit, trend, best, last, score
    <3> QED BY <2>3, <2>4, <2>6 DEF FirstBest
  <2>8. \A report \in Analyses : report = data
    BY DEF Analyses
  <2> HIDE DEF best
  <2> QED BY <2>5, <2>7, <2>8, Zenon DEF WindowIsBest, best
<1> QED BY <1>1, AlwaysPriced, PTL

LEMMA SumGrows ==
  ASSUME NEW S, IsFiniteSet(S), NEW g, \A x \in S : g[x] \in Int,
         NEW T \in SUBSET S, NEW x \in S, x \notin T
  PROVE  Summed(g, {}) = 0 /\ Summed(g, T \cup {x}) = g[x] + Summed(g, T)
BY SumWith

\* The sum over one day or two.
LEMMA SumOfTwo ==
  ASSUME NEW U \in SUBSET {1, 2}, NEW g, \A x \in U : g[x] \in Int
  PROVE  /\ \A a \in {1, 2} : U = {a} => Summed(g, U) = g[a]
         /\ U = {1, 2} => Summed(g, U) = g[1] + g[2]
<1>0. IsFiniteSet({1, 2})
  <2>1. \A a, b \in Int : IsFiniteSet(a..b)
    BY FS_Interval
  <2>2. 1..2 = {1, 2} /\ 1 \in Int /\ 2 \in Int
    OBVIOUS
  <2>3. IsFiniteSet(1..2)
    BY <2>1, <2>2
  <2> QED BY <2>2, <2>3
<1>1. IsFiniteSet(U)
  BY <1>0, FS_Subset
<1>3. ASSUME NEW a \in {1, 2}, U = {a} PROVE Summed(g, U) = g[a]
  <2>1. {} \in SUBSET U /\ a \in U \ {} /\ {} \cup {a} = U
    BY <1>3
  <2>2. Summed(g, {}) = 0 /\ Summed(g, {} \cup {a}) = g[a] + Summed(g, {})
    BY <1>1, <2>1, SumGrows
  <2> QED BY <2>1, <2>2
<1>4. ASSUME U = {1, 2} PROVE Summed(g, U) = g[1] + g[2]
  <2>1. {} \in SUBSET U /\ {2} \in SUBSET U /\ 2 \in U \ {} /\ 1 \in U \ {2}
        /\ {} \cup {2} = {2} /\ {2} \cup {1} = U
    BY <1>4
  <2>2. Summed(g, {}) = 0 /\ Summed(g, {} \cup {2}) = g[2] + Summed(g, {})
    BY <1>1, <2>1, SumGrows
  <2>3. Summed(g, {2} \cup {1}) = g[1] + Summed(g, {2})
    BY <1>1, <2>1, SumGrows
  <2>4. g[1] \in Int /\ g[2] \in Int
    BY <1>4
  <2> QED BY <2>1, <2>2, <2>3, <2>4
<1> QED BY <1>3, <1>4

LEMMA Divides == \A n \in Nat, m \in Nat : n >= 1 => (m * n) \div n = m
<1> TAKE n \in Nat, m \in Nat
<1>1. CASE n >= 1
  <2> DEFINE q == (m * n) \div n
  <2>1. m * n \in Nat
    OBVIOUS
  <2>2. m * n = n * m + 0
    OBVIOUS
  <2>3. 0 \in 0..(n - 1)
    BY <1>1
  <2> QED BY <1>1, <2>1, <2>2, <2>3, QuotientIs
<1> QED BY <1>1

\* Where the days of the history have as many prices as today: the parts of
\* its level, and of the price of a slot.
LEMMA PartsOfOneLength ==
  ASSUME NEW history \in [HistoryDays -> Seq(Int)], NEW weights \in [HistoryDays -> Nat \ {0}],
         NEW n \in Nat, Used(history) # {}, \A h \in Used(history) : Len(history[h]) = n
  PROVE  /\ n >= 1
         /\ \E k \in Nat :
              /\ k >= 1 /\ Lengths(history) = n * k
              /\ \A h \in Used(history) :
                   LevelParts(history, weights)[h] = weights[h] * Total(history[h]) * k
         /\ \A i \in 1..n : \A h \in Used(history) :
              SlotParts(history, weights, i - 1, n)[h] = weights[h] * history[h][i]
<1> DEFINE U == Used(history)
<1>1. n >= 1
  BY HistoryFacts
<1>2. PICK k \in Nat : k >= 1 /\ Lengths(history) = n * k
  BY LengthsFacts
<1>3. Lengths(history) \div n = k
  <2>1. n * k = k * n
    OBVIOUS
  <2> QED BY <1>1, <1>2, <2>1, Divides
<1>4. \A h \in U : LevelParts(history, weights)[h] = weights[h] * Total(history[h]) * k
  BY <1>3, Zenon DEF LevelParts
<1>5. ASSUME NEW i \in 1..n, NEW h \in U
      PROVE  SlotParts(history, weights, i - 1, n)[h] = weights[h] * history[h][i]
  <2>1. ((i - 1) * n) \div n = i - 1
    BY <1>1, Divides
  <2>2. (i - 1) + 1 = i
    OBVIOUS
  <2>3. SlotParts(history, weights, i - 1, n)[h]
          = weights[h] * history[h][(((i - 1) * n) \div n) + 1]
    BY Zenon DEF SlotParts
  <2> QED BY <2>1, <2>2, <2>3
<1> QED BY <1>1, <1>2, <1>4, <1>5

LEMMA TimesZero == \A a, b, c, k \in Int : /\ a * b * k = (a * b + 0 * c) * k /\ a * b = a * b + 0 * c
                                           /\ a * b \in Int /\ a * b * k \in Int
OBVIOUS

LEMMA TwoPositive ==
  \A a, b, c, e, k \in Nat : a >= 1 /\ b >= 1 /\ k >= 1 => (a * b + c * e) * k > 0
<1> TAKE a, b, c, e, k \in Nat
<1> SUFFICES ASSUME a >= 1, b >= 1, k >= 1 PROVE (a * b + c * e) * k > 0
  OBVIOUS
<1> DEFINE s == a * b + c * e
<1>1. a * b \in Nat /\ a * b >= 1 /\ c * e \in Nat
  OBVIOUS
<1>2. s \in Nat /\ s >= 1
  BY <1>1
<1> HIDE DEF s
<1>3. s * k \in Nat /\ s * k >= 1
  BY <1>2
<1> QED BY <1>3 DEF s

LEMMA Distributes == \A a, b, c, e, k \in Int : a * b * k + c * e * k = (a * b + c * e) * k
OBVIOUS

\* What the history says of today, where its days have n prices as well: those
\* of two days, with the weights u and v; both are the same where one is used.
SaysOf(history, weights, n, k, a, b, u, v) ==
  /\ Lengths(history) = n * k
  /\ Level(history, weights) = (u * Total(history[a]) + v * Total(history[b])) * k
  /\ Level(history, weights) > 0
  /\ \A i \in 1..n :
       SlotPrice(history, weights, i - 1, n) = u * history[a][i] + v * history[b][i]

LEMMA OneOrTwoDays ==
  ASSUME NEW history \in [HistoryDays -> Seq(Int)], NEW weights \in [HistoryDays -> Nat \ {0}],
         NEW n \in Nat, Used(history) # {},
         \A h \in Used(history) : Len(history[h]) = n /\ Total(history[h]) > 0
  PROVE  \E k \in Nat, a \in Used(history), b \in Used(history), u \in Nat, v \in Nat :
           SaysOf(history, weights, n, k, a, b, u, v)
<1> DEFINE U == Used(history)
           level == LevelParts(history, weights)
           slot(i) == SlotParts(history, weights, i - 1, n)
<1>1. U \in SUBSET {1, 2}
  BY HistoryFacts
<1>2. PICK k \in Nat : /\ k >= 1 /\ Lengths(history) = n * k
                       /\ \A h \in U : level[h] = weights[h] * Total(history[h]) * k
  BY PartsOfOneLength
<1>3. \A i \in 1..n : \A h \in U : slot(i)[h] = weights[h] * history[h][i]
  BY PartsOfOneLength
<1>4. ASSUME NEW h \in U
      PROVE  /\ weights[h] \in Nat /\ weights[h] >= 1
             /\ Total(history[h]) \in Nat /\ Total(history[h]) >= 1
             /\ history[h] \in Seq(Int) /\ \A i \in 1..n : history[h][i] \in Int
  <2>1. weights[h] \in Nat \ {0}
    <3>1. h \in HistoryDays
      BY <1>1 DEF HistoryDays
    <3> QED BY <3>1
  <2>2. history[h] \in Seq(Int) /\ Len(history[h]) = n
    BY HistoryFacts
  <2>3. Total(history[h]) \in Int /\ Total(history[h]) > 0
    BY <2>2, TotalFacts
  <2> QED BY <2>1, <2>2, <2>3
<1>5. Level(history, weights) = Summed(level, U)
  BY LevelIsSum
<1>6. \A i \in 1..n : SlotPrice(history, weights, i - 1, n) = Summed(slot(i), U)
  BY SlotPriceIsSum
<1>7. ASSUME NEW a \in {1, 2}, U = {a}
      PROVE  /\ Level(history, weights) = (weights[a] * Total(history[a]) + 0 * Total(history[a])) * k
             /\ \A i \in 1..n : SlotPrice(history, weights, i - 1, n)
                                  = weights[a] * history[a][i] + 0 * history[a][i]
  <2>0. a \in U
    BY <1>7
  <2>1. weights[a] \in Int /\ Total(history[a]) \in Int /\ \A i \in 1..n : history[a][i] \in Int
    BY <1>4, <2>0
  <2> HIDE DEF U, level, slot
  <2>2. level[a] = weights[a] * Total(history[a]) * k
    BY <1>2, <2>0
  <2>3. level[a] = (weights[a] * Total(history[a]) + 0 * Total(history[a])) * k /\ level[a] \in Int
    BY <2>1, <2>2, TimesZero
  <2>4. \A x \in U : level[x] \in Int
    BY <1>7, <2>3
  <2>5. Summed(level, U) = level[a]
    BY <1>1, <1>7, <2>4, SumOfTwo
  <2>6. ASSUME NEW i \in 1..n
        PROVE  SlotPrice(history, weights, i - 1, n) = weights[a] * history[a][i] + 0 * history[a][i]
    <3>1. slot(i)[a] = weights[a] * history[a][i]
      BY <1>3, <2>0
    <3>2. slot(i)[a] = weights[a] * history[a][i] + 0 * history[a][i] /\ slot(i)[a] \in Int
      BY <2>1, <3>1, TimesZero
    <3>3. \A x \in U : slot(i)[x] \in Int
      BY <1>7, <3>2
    <3>4. Summed(slot(i), U) = slot(i)[a]
      BY <1>1, <1>7, <3>3, SumOfTwo
    <3> QED BY <1>6, <3>2, <3>4
  <2> QED BY <1>5, <2>3, <2>5, <2>6
<1>8. ASSUME U = {1, 2}
      PROVE  /\ Level(history, weights) = (weights[1] * Total(history[1]) + weights[2] * Total(history[2])) * k
             /\ \A i \in 1..n : SlotPrice(history, weights, i - 1, n)
                                  = weights[1] * history[1][i] + weights[2] * history[2][i]
  <2>0. 1 \in U /\ 2 \in U
    BY <1>8
  <2>1. /\ weights[1] \in Int /\ Total(history[1]) \in Int /\ \A i \in 1..n : history[1][i] \in Int
        /\ weights[2] \in Int /\ Total(history[2]) \in Int /\ \A i \in 1..n : history[2][i] \in Int
    BY <1>4, <2>0
  <2> HIDE DEF U, level, slot
  <2>2. /\ level[1] = weights[1] * Total(history[1]) * k
        /\ level[2] = weights[2] * Total(history[2]) * k
    BY <1>2, <2>0
  <2>3. level[1] \in Int /\ level[2] \in Int
        /\ level[1] + level[2] = (weights[1] * Total(history[1]) + weights[2] * Total(history[2])) * k
    BY <2>1, <2>2, TimesZero, Distributes
  <2>4. \A x \in U : level[x] \in Int
    BY <1>8, <2>3
  <2>5. Summed(level, U) = level[1] + level[2]
    BY <1>1, <1>8, <2>4, SumOfTwo
  <2>6. ASSUME NEW i \in 1..n
        PROVE  SlotPrice(history, weights, i - 1, n)
                 = weights[1] * history[1][i] + weights[2] * history[2][i]
    <3>1. slot(i)[1] = weights[1] * history[1][i] /\ slot(i)[2] = weights[2] * history[2][i]
      BY <1>3, <2>0
    <3>2. slot(i)[1] \in Int /\ slot(i)[2] \in Int
      <4>1. \A x, y \in Int : x * y \in Int
        OBVIOUS
      <4>2. weights[1] * history[1][i] \in Int /\ weights[2] * history[2][i] \in Int
        BY <2>1, <4>1
      <4> QED BY <3>1, <4>2
    <3>3. \A x \in U : slot(i)[x] \in Int
      BY <1>8, <3>2
    <3>4. Summed(slot(i), U) = slot(i)[1] + slot(i)[2]
      BY <1>1, <1>8, <3>3, SumOfTwo
    <3> QED BY <1>6, <3>1, <3>4
  <2> QED BY <1>5, <2>3, <2>5, <2>6
<1>9. ASSUME NEW a \in {1, 2}, U = {a} PROVE Level(history, weights) > 0
  <2>1. /\ weights[a] \in Nat /\ weights[a] >= 1 /\ Total(history[a]) \in Nat
        /\ Total(history[a]) >= 1
    BY <1>4, <1>9
  <2>2. Level(history, weights) = (weights[a] * Total(history[a]) + 0 * Total(history[a])) * k
    BY <1>7, <1>9
  <2> QED BY <1>2, <2>1, <2>2, TwoPositive
<1>10. ASSUME U = {1, 2} PROVE Level(history, weights) > 0
  <2>1. /\ weights[1] \in Nat /\ weights[1] >= 1 /\ Total(history[1]) \in Nat
        /\ Total(history[1]) >= 1 /\ weights[2] \in Nat /\ Total(history[2]) \in Nat
    BY <1>4, <1>10
  <2>2. (weights[1] * Total(history[1]) + weights[2] * Total(history[2])) * k > 0
    BY <1>2, <2>1, TwoPositive
  <2>3. Level(history, weights) = (weights[1] * Total(history[1]) + weights[2] * Total(history[2])) * k
    BY <1>8, <1>10
  <2> QED BY <2>2, <2>3
<1>11. (\E a \in {1, 2} : U = {a}) \/ U = {1, 2}
  BY <1>1, SubsetsOfTwo
<1>12. CASE \E a \in {1, 2} : U = {a}
  <2>1. PICK a \in {1, 2} : U = {a}
    BY <1>12
  <2>2. a \in U /\ weights[a] \in Nat /\ 0 \in Nat
    BY <1>4, <2>1
  <2>3. SaysOf(history, weights, n, k, a, a, weights[a], 0)
    BY <1>2, <1>7, <1>9, <2>1 DEF SaysOf
  <2> QED BY <1>2, <2>2, <2>3, Zenon
<1>13. CASE U = {1, 2}
  <2>1. 1 \in U /\ 2 \in U /\ weights[1] \in Nat /\ weights[2] \in Nat
    BY <1>4, <1>13
  <2>2. SaysOf(history, weights, n, k, 1, 2, weights[1], weights[2])
    BY <1>2, <1>8, <1>10, <1>13 DEF SaysOf
  <2> QED BY <1>2, <2>1, <2>2, Zenon
<1> QED BY <1>11, <1>12, <1>13

\* g combines e, f and h on S, and so does its sum.
Combines(S, g, e, f, h, a, b, c) ==
  /\ IsFiniteSet(S) /\ a \in Int /\ b \in Int /\ c \in Int
  /\ \A x \in S : e[x] \in Int /\ f[x] \in Int /\ h[x] \in Int
  /\ \A x \in S : g[x] = a * e[x] + b * f[x] + c * h[x]

LEMMA SumCombines ==
  \A S, g, e, f, h, a, b, c :
    Combines(S, g, e, f, h, a, b, c) => Summed(g, S) = a * Summed(e, S) + b * Summed(f, S) + c * Summed(h, S)
<1> SUFFICES ASSUME NEW S, NEW g, NEW e, NEW f, NEW h, NEW a, NEW b, NEW c,
                    Combines(S, g, e, f, h, a, b, c)
             PROVE  Summed(g, S) = a * Summed(e, S) + b * Summed(f, S) + c * Summed(h, S)
  OBVIOUS
<1>1. /\ IsFiniteSet(S) /\ a \in Int /\ b \in Int /\ c \in Int
      /\ \A x \in S : e[x] \in Int /\ f[x] \in Int /\ h[x] \in Int
      /\ \A x \in S : g[x] = a * e[x] + b * f[x] + c * h[x]
  BY DEF Combines
<1> QED BY <1>1, SumLinear

LEMMA AsCombination ==
  \A u, v, t, l, x, y, z, n, e \in Int :
    13 * (u * x + v * y) * t * l + 7 * z * n * e
      = (13 * u * t * l) * x + (13 * v * t * l) * y + (7 * n * e) * z
OBVIOUS

LEMMA LevelKept ==
  \A u, v, t, k, x, y, n \in Int :
    (13 * u * t * (n * k)) * x + (13 * v * t * (n * k)) * y + (7 * n * ((u * x + v * y) * k)) * t
      = (20 * n * ((u * x + v * y) * k)) * t
OBVIOUS

LEMMA ProductGrows == \A a \in Nat : \A x, y \in Int : x <= y => a * x \in Int /\ a * y \in Int /\ a * x <= a * y
<1> TAKE a \in Nat
<1> TAKE x, y \in Int
<1> SUFFICES ASSUME x <= y PROVE a * x \in Int /\ a * y \in Int /\ a * x <= a * y
  OBVIOUS
<1>1. a * (y - x) \in Nat
  <2>1. y - x \in Nat
    OBVIOUS
  <2> QED BY <2>1
<1>2. a * y = a * x + a * (y - x) /\ a * x \in Int /\ a * y \in Int
  OBVIOUS
<1> QED BY <1>1, <1>2

LEMMA NaturalProduct == \A a, b, c \in Nat : 13 * a * b * c \in Nat /\ 7 * a * b \in Nat
<1> TAKE a, b, c \in Nat
<1>1. a * b \in Nat
  OBVIOUS
<1> DEFINE d == a * b
<1>2. d * c \in Nat
  BY <1>1
<1>3. 13 * a * b * c = 13 * (d * c) /\ 7 * a * b = 7 * d
  OBVIOUS
<1> QED BY <1>1, <1>2, <1>3

\* s combines the slots of three days of as many prices, and so does its sum.
IsCombination(s, n, p, q, r, a, b, c) ==
  /\ n \in Nat /\ {p, q, r, s} \subseteq Seq(Int) /\ {a, b, c} \subseteq Int
  /\ Len(p) = n /\ Len(q) = n /\ Len(r) = n /\ Len(s) = n
  /\ \A i \in 1..n : s[i] = a * p[i] + b * q[i] + c * r[i]

LEMMA CombinedTotal ==
  \A s, n, p, q, r, a, b, c :
    IsCombination(s, n, p, q, r, a, b, c) => Total(s) = a * Total(p) + b * Total(q) + c * Total(r)
<1> SUFFICES ASSUME NEW g, NEW n, NEW e, NEW f, NEW h, NEW a, NEW b, NEW c,
                    IsCombination(g, n, e, f, h, a, b, c)
             PROVE  Total(g) = a * Total(e) + b * Total(f) + c * Total(h)
  OBVIOUS
<1> DEFINE S == 1..n
<1>1. /\ n \in Nat /\ e \in Seq(Int) /\ f \in Seq(Int) /\ h \in Seq(Int) /\ g \in Seq(Int)
      /\ Len(e) = n /\ Len(f) = n /\ Len(h) = n /\ Len(g) = n
      /\ \A i \in S : g[i] = a * e[i] + b * f[i] + c * h[i]
  BY DEF IsCombination
<1>2. a \in Int /\ b \in Int /\ c \in Int
  BY DEF IsCombination
<1>3. DOMAIN e = S /\ DOMAIN f = S /\ DOMAIN h = S /\ DOMAIN g = S
  BY <1>1
<1>4. IsFiniteSet(S)
  BY <1>1, <1>3, TotalFacts
<1>5. \A i \in S : e[i] \in Int /\ f[i] \in Int /\ h[i] \in Int
  BY <1>1
<1>6. /\ Total(e) = Summed(e, S) /\ Total(f) = Summed(f, S) /\ Total(h) = Summed(h, S)
      /\ Total(g) = Summed(g, S)
  BY <1>1, <1>3, TotalFacts
<1>7. \A i \in S : g[i] = a * e[i] + b * f[i] + c * h[i]
  BY <1>1
<1> HIDE DEF S
<1>8. Combines(S, g, e, f, h, a, b, c)
  BY <1>2, <1>4, <1>5, <1>7 DEF Combines
<1>9. Summed(g, S) = a * Summed(e, S) + b * Summed(f, S) + c * Summed(h, S)
  BY <1>8, SumCombines
<1> QED BY <1>6, <1>9

LEMMA CombinationGrows ==
  ASSUME NEW a \in Nat, NEW b \in Nat, NEW c \in Nat,
         NEW x \in Int, NEW y \in Int, NEW z \in Int, NEW e \in Int, NEW f \in Int, NEW h \in Int,
         x <= e, y <= f, z <= h
  PROVE  a * x + b * y + c * z <= a * e + b * f + c * h
<1>1. a * x \in Int /\ a * e \in Int /\ a * x <= a * e
  BY ProductGrows
<1>2. b * y \in Int /\ b * f \in Int /\ b * y <= b * f
  BY ProductGrows
<1>3. c * z \in Int /\ c * h \in Int /\ c * z <= c * h
  BY ProductGrows
<1> QED BY <1>1, <1>2, <1>3

IsSensible(guess, today, history) ==
  /\ Total(guess.prices) = guess.unit * Total(today)
  /\ Total(today) >= 0 =>
       \A i, j \in DOMAIN today :
         (\A h \in Used(history) : history[h][i] <= history[h][j]) /\ today[i] <= today[j]
           => guess.prices[i] <= guess.prices[j]

\* The estimate from days with as many prices as today, of a positive level.
LEMMA EstimateOfOneLength ==
  ASSUME NEW today \in Seq(Int), NEW history \in [HistoryDays -> Seq(Int)],
         NEW weights \in [HistoryDays -> Nat \ {0}], Used(history) # {},
         \A h \in Used(history) : Len(history[h]) = Len(today) /\ Total(history[h]) > 0
  PROVE  IsSensible(Estimate(today, history, weights), today, history)
<1> DEFINE n == Len(today)
           t == Total(today)
           level == Level(history, weights)
           lengths == Lengths(history)
           prices == Estimate(today, history, weights).prices
           unit == Estimate(today, history, weights).unit
<1>1. n \in Nat /\ DOMAIN today = 1..n /\ \A i \in 1..n : today[i] \in Int
  OBVIOUS
<1>2. PICK k \in Nat, a \in Used(history), b \in Used(history), u \in Nat, v \in Nat :
        SaysOf(history, weights, n, k, a, b, u, v)
  BY <1>1, OneOrTwoDays
<1> DEFINE p == history[a]
           q == history[b]
           x == Total(p)
           y == Total(q)
<1>3. p \in Seq(Int) /\ q \in Seq(Int) /\ Len(p) = n /\ Len(q) = n
  BY HistoryFacts
<1>4. x \in Int /\ y \in Int /\ t \in Int
  BY <1>3, TotalFacts
<1>5. lengths = n * k /\ level = (u * x + v * y) * k /\ level > 0
  BY <1>2, Zenon DEF SaysOf
<1>6. \A i \in 1..n : SlotPrice(history, weights, i - 1, n) = u * p[i] + v * q[i]
  BY <1>2, Zenon DEF SaysOf
<1>7. \A i \in 1..n : p[i] \in Int /\ q[i] \in Int
  BY <1>3
<1>8. prices \in Seq(Int)
  BY EstimateIsPrices, Zenon
<1>9. /\ unit = IF level > 0 THEN 20 * n * level ELSE 20 * Summed(weights, Used(history))
      /\ prices = [i \in 1..n |-> EstimateSlot(today, history, weights, i)]
  <2>1. unit = IF level > 0 THEN 20 * n * level ELSE 20 * Summed(weights, Used(history))
    BY EstimateIs
  <2>2. prices = [i \in 1..n |-> EstimateSlot(today, history, weights, i)]
    BY EstimateIs
  <2> QED BY <2>1, <2>2, Zenon
<1>10. \A i \in 1..n : EstimateSlot(today, history, weights, i) =
         IF level > 0
         THEN 13 * SlotPrice(history, weights, i - 1, n) * t * lengths + 7 * today[i] * n * level
         ELSE 13 * SlotPrice(history, weights, i - 1, n) + 7 * today[i] * Summed(weights, Used(history))
  BY Zenon DEF EstimateSlot
<1> DEFINE A == 13 * u * t * lengths
           B == 13 * v * t * lengths
           C == 7 * n * level
<1> HIDE DEF n, t, level, lengths, prices, unit, p, q, x, y
<1>11. lengths \in Int /\ level \in Int
  BY <1>1, <1>4, <1>5
<1>12. A \in Int /\ B \in Int /\ C \in Int
  BY <1>1, <1>4, <1>11
<1>13. \A i \in 1..n : prices[i] = A * p[i] + B * q[i] + C * today[i]
  <2> TAKE i \in 1..n
  <2>1. prices[i] = 13 * SlotPrice(history, weights, i - 1, n) * t * lengths + 7 * today[i] * n * level
    BY <1>5, <1>9, <1>10
  <2>2. prices[i] = 13 * (u * p[i] + v * q[i]) * t * lengths + 7 * today[i] * n * level
    BY <1>6, <2>1
  <2>3. p[i] \in Int /\ q[i] \in Int /\ today[i] \in Int
    BY <1>1, <1>7
  <2>4. u \in Int /\ v \in Int /\ n \in Int
    BY <1>1
  <2> DEFINE pi == p[i]
             qi == q[i]
             ti == today[i]
  <2>5. pi \in Int /\ qi \in Int /\ ti \in Int
    BY <2>3
  <2>6. prices[i] = 13 * (u * pi + v * qi) * t * lengths + 7 * ti * n * level
    BY <2>2
  <2> HIDE DEF pi, qi, ti
  <2>7. 13 * (u * pi + v * qi) * t * lengths + 7 * ti * n * level = A * pi + B * qi + C * ti
    BY <1>4, <1>11, <2>4, <2>5, AsCombination
  <2> QED BY <2>6, <2>7 DEF pi, qi, ti
<1>14. Len(prices) = n /\ n = Len(today)
  <2>1. DOMAIN prices = 1..n
    BY <1>9
  <2> QED BY <1>1, <1>8, <2>1 DEF n
<1>15. Total(prices) = unit * t
  <2> HIDE DEF A, B, C
  <2>0. IsCombination(prices, n, p, q, today, A, B, C)
    BY <1>1, <1>3, <1>8, <1>12, <1>13, <1>14 DEF IsCombination
  <2>1. Total(prices) = A * Total(p) + B * Total(q) + C * Total(today)
    BY <2>0, CombinedTotal
  <2>2. Total(prices) = A * x + B * y + C * t
    BY <2>1 DEF x, y, t
  <2>3. A * x + B * y + C * t = (20 * n * level) * t
    <3>1. u \in Int /\ v \in Int /\ n \in Int /\ k \in Int
      BY <1>1
    <3>2. (13 * u * t * (n * k)) * x + (13 * v * t * (n * k)) * y + (7 * n * ((u * x + v * y) * k)) * t
            = (20 * n * ((u * x + v * y) * k)) * t
      BY <1>4, <3>1, LevelKept
    <3> QED BY <1>5, <3>2, Zenon DEF A, B, C
  <2>4. unit = 20 * n * level
    BY <1>5, <1>9
  <2> QED BY <2>2, <2>3, <2>4
<1>16. ASSUME t >= 0, NEW i \in 1..n, NEW j \in 1..n,
              \A h \in Used(history) : history[h][i] <= history[h][j], today[i] <= today[j]
       PROVE  prices[i] <= prices[j]
  <2>1. t \in Nat /\ level \in Nat
    BY <1>4, <1>5, <1>11, <1>16
  <2>2. lengths \in Nat
    BY <1>1, <1>5
  <2>3. A \in Nat /\ B \in Nat /\ C \in Nat
    BY <1>1, <2>1, <2>2, NaturalProduct
  <2>4. p[i] <= p[j] /\ q[i] <= q[j]
    BY <1>16 DEF p, q
  <2>5. /\ p[i] \in Int /\ q[i] \in Int /\ today[i] \in Int
        /\ p[j] \in Int /\ q[j] \in Int /\ today[j] \in Int
    BY <1>1, <1>7
  <2> HIDE DEF A, B, C
  <2>6. A * p[i] + B * q[i] + C * today[i] <= A * p[j] + B * q[j] + C * today[j]
    BY <1>16, <2>3, <2>4, <2>5, CombinationGrows
  <2> QED BY <1>13, <2>6
<1>17. \A i, j \in 1..n :
         t >= 0 /\ (\A h \in Used(history) : history[h][i] <= history[h][j]) /\ today[i] <= today[j]
           => prices[i] <= prices[j]
  BY <1>16
<1> QED BY <1>1, <1>15, <1>17 DEF IsSensible, t, prices, unit

(* Every estimate of tomorrow is sensible: where its history has prices as    *)
(* many as today and a positive level its average is today's, and a slot that *)
(* was never dearer than another is not estimated dearer, unless today's      *)
(* average is negative (estimate_tomorrow_spots).                             *)
THEOREM EstimatesAreSensible == Spec => []EstimateKeepsLevel
<1>1. TypeInv /\ PriceInv => EstimateKeepsLevel
  <2> DEFINE days == {data.past.prices[h] : h \in Used(data.past.prices)}
             Holds(report) ==
               LET past == {report.past.prices[h] : h \in Used(report.past.prices)}
                   guess == Tomorrow(report)
               IN  (\A d \in past : Len(d) = Len(report.today) /\ Total(d) > 0) =>
                     /\ Total(guess.prices) = guess.unit * Total(report.today)
                     /\ Total(report.today) >= 0 =>
                          \A i, j \in DOMAIN report.today :
                            (\A d \in past \cup {report.today} : d[i] <= d[j])
                              => guess.prices[i] <= guess.prices[j]
  <2>0. SUFFICES ASSUME TypeInv, PriceInv, at.step = "report", data.source = "estimated"
                 PROVE  Holds(data)
    <3>1. \A r \in Analyses : r = data /\ at.step = "report"
      BY DEF Analyses
    <3>2. EstimateKeepsLevel <=> \A report \in {r \in Analyses : r.source = "estimated"} : Holds(report)
      BY Zenon DEF EstimateKeepsLevel
    <3> HIDE DEF Holds
    <3> QED BY <3>1, <3>2, Zenon
  <2>1. SUFFICES ASSUME \A d \in days : Len(d) = Len(data.today) /\ Total(d) > 0
                 PROVE  /\ Total(Tomorrow(data).prices) = Tomorrow(data).unit * Total(data.today)
                        /\ Total(data.today) >= 0 =>
                             \A i, j \in DOMAIN data.today :
                               (\A d \in days \cup {data.today} : d[i] <= d[j])
                                 => Tomorrow(data).prices[i] <= Tomorrow(data).prices[j]
    BY Zenon
  <2> DEFINE today == data.today
             history == data.past.prices
             weights == data.past.weights
  <2>2. today \in Seq(Int) /\ history \in [HistoryDays -> Seq(Int)] /\ weights \in [HistoryDays -> Nat \ {0}]
    BY <2>0, ReportIsTyped
  <2>3. Used(history) # {}
    <3>1. data.source = SourceOf(data.tomorrow, data.past)
      BY <2>0, Zenon DEF PriceInv, ReportOk
    <3> QED BY <2>0, <3>1 DEF SourceOf
  <2>4. \A h \in Used(history) : Len(history[h]) = Len(today) /\ Total(history[h]) > 0
    BY <2>1
  <2>5. Tomorrow(data) = Estimate(today, history, weights)
    BY <2>0 DEF Tomorrow
  <2> HIDE DEF today, history, weights
  <2>6. IsSensible(Tomorrow(data), today, history)
    BY <2>2, <2>3, <2>4, <2>5, EstimateOfOneLength, Zenon
  <2>7. /\ Total(Tomorrow(data).prices) = Tomorrow(data).unit * Total(today)
        /\ Total(today) >= 0 =>
             \A i, j \in DOMAIN today :
               (\A d \in {history[h] : h \in Used(history)} \cup {today} : d[i] <= d[j])
                 => Tomorrow(data).prices[i] <= Tomorrow(data).prices[j]
    BY <2>6 DEF IsSensible
  <2> QED BY <2>7, Zenon DEF today, history
<1> QED BY <1>1, AlwaysPriced, PTL

(***************************************************************************)
(* The marks of the reports (MarksAgree).                                  *)
(***************************************************************************)

\* A mark tells the price of an entry from the average, where it has one.
LEMMA CheapnessIs ==
  ASSUME NEW p, NEW sum, NEW kind, NEW i, NEW among \in Nat, among >= 1,
         EntrySum(p, kind, i) \in Int, sum \in Int,
         Min({Interval(kind), Len(p) - i * Interval(kind)}) = among
  PROVE  LET price == 4 * Buckets * EntrySum(p, kind, i)
             mark == Cheapness(p, sum, kind, i)
         IN  /\ (mark = "expensive") <=> price > 5 * (among * sum)
             /\ (mark = "cheap") <=> (price <= 5 * (among * sum) /\ price < 3 * (among * sum))
<1> DEFINE price == 4 * Buckets * EntrySum(p, kind, i)
           average == among * sum
           mark == Cheapness(p, sum, kind, i)
<1>1. mark = CASE among <= 0 -> "average"
               [] among > 0 /\ price > 5 * average -> "expensive"
               [] among > 0 /\ price <= 5 * average /\ price < 3 * average -> "cheap"
               [] OTHER -> "average"
  BY Zenon DEF Cheapness
<1>2. among > 0 /\ ~ (among <= 0)
  OBVIOUS
<1>0. price \in Int /\ average \in Int
  <2>1. Buckets \in Int
    BY PriceFacts
  <2> QED BY <2>1
<1> HIDE DEF price, average, mark
<1>3. ASSUME price > 5 * average PROVE mark = "expensive" /\ ~ (price <= 5 * average)
  <2>1. ~ (price <= 5 * average)
    BY <1>0, <1>3
  <2> QED BY <1>1, <1>2, <1>3, <2>1, Zenon
<1>4. ASSUME price <= 5 * average, price < 3 * average PROVE mark = "cheap" /\ ~ (price > 5 * average)
  <2>1. ~ (price > 5 * average)
    BY <1>0, <1>4
  <2> QED BY <1>1, <1>2, <1>4, <2>1, Zenon
<1>5. ASSUME ~ (price > 5 * average), ~ (price <= 5 * average /\ price < 3 * average)
      PROVE  mark = "average"
  BY <1>1, <1>2, <1>5, Zenon
<1>6. /\ (mark = "expensive") <=> price > 5 * average
      /\ (mark = "cheap") <=> (price <= 5 * average /\ price < 3 * average)
  <2>1. CASE price > 5 * average
    BY <1>3, <2>1
  <2>2. CASE price <= 5 * average /\ price < 3 * average
    BY <1>4, <2>2
  <2>3. CASE ~ (price > 5 * average) /\ ~ (price <= 5 * average /\ price < 3 * average)
    BY <1>5, <2>3
  <2> QED BY <2>1, <2>2, <2>3
<1> QED BY <1>6 DEF price, average, mark

LEMMA MinOfTwo == \A a, b \in Int : a <= b => Min({a, b}) = a
<1> TAKE a, b \in Int
<1> SUFFICES ASSUME a <= b PROVE Min({a, b}) = a
  OBVIOUS
<1>1. a \in {a, b} /\ \A y \in {a, b} : a <= y
  OBVIOUS
<1>2. Min({a, b}) \in {a, b} /\ \A y \in {a, b} : Min({a, b}) <= y
  BY <1>1, Zenon DEF Min
<1>3. Min({a, b}) <= a
  BY <1>1, <1>2
<1> QED BY <1>2, <1>3

\* The hour and the slots of it.
LEMMA HourFacts ==
  ASSUME NEW hour \in Entries("hourly")
  PROVE  /\ hour * PerHour \in Nat /\ (hour + 1) * PerHour \in Nat
         /\ (hour + 1) * PerHour = hour * PerHour + PerHour /\ (hour + 1) * PerHour <= Buckets
<1>1. Interval("hourly") = PerHour
  BY DEF Interval
<1>2. Hours \in Nat /\ PerHour \in Nat /\ PerHour >= 1
  BY PriceFacts
<1>3. (Hours * PerHour) \div PerHour = Hours
  BY <1>2, Divides
<1>4. Count("hourly") = Hours
  BY <1>1, <1>3 DEF Count, Buckets
<1>5. hour \in Nat /\ hour + 1 <= Hours
  BY <1>2, <1>4 DEF Entries
<1>6. hour * PerHour \in Nat /\ (hour + 1) * PerHour \in Nat /\ (hour + 1) * PerHour = hour * PerHour + PerHour
  BY <1>2, <1>5
<1>7. (hour + 1) * PerHour <= Hours * PerHour
  <2>1. PerHour * (hour + 1) <= PerHour * Hours
    <3>1. hour + 1 \in Int /\ Hours \in Int
      BY <1>2, <1>5
    <3> QED BY <1>2, <1>5, <3>1, ProductGrows
  <2>2. PerHour * (hour + 1) = (hour + 1) * PerHour /\ PerHour * Hours = Hours * PerHour
    BY <1>2, <1>5
  <2> QED BY <2>1, <2>2
<1> QED BY <1>6, <1>7 DEF Buckets

SlotsOf(hour) == (hour * PerHour + 1)..((hour + 1) * PerHour)

\* The sum of the entry of an hour, where the day is long enough.
LEMMA HourlyEntry ==
  ASSUME NEW p \in Seq(Int), Len(p) >= Buckets, NEW hour \in Entries("hourly")
  PROVE  /\ Min({Interval("hourly"), Len(p) - hour * Interval("hourly")}) = PerHour
         /\ EntrySum(p, "hourly", hour) = Summed(p, SlotsOf(hour))
<1>1. Interval("hourly") = PerHour
  BY DEF Interval
<1>2. PerHour \in Nat /\ Buckets \in Nat /\ Len(p) \in Nat
  BY PriceFacts
<1>3. /\ hour * PerHour \in Nat /\ (hour + 1) * PerHour \in Nat
      /\ (hour + 1) * PerHour = hour * PerHour + PerHour /\ (hour + 1) * PerHour <= Buckets
  BY HourFacts
<1>4. Min({PerHour, Len(p) - hour * PerHour}) = PerHour
  <2> DEFINE a == hour * PerHour
  <2>1. PerHour \in Int /\ Len(p) - a \in Int /\ PerHour <= Len(p) - a
    BY <1>2, <1>3
  <2> HIDE DEF a
  <2>2. Min({PerHour, Len(p) - a}) = PerHour
    BY <2>1, MinOfTwo
  <2> QED BY <2>2 DEF a
<1>5. Min({(hour + 1) * PerHour, Len(p)}) = (hour + 1) * PerHour
  <2> DEFINE b == (hour + 1) * PerHour
  <2>1. b \in Int /\ Len(p) \in Int /\ b <= Len(p)
    BY <1>2, <1>3
  <2> HIDE DEF b
  <2>2. Min({b, Len(p)}) = b
    BY <2>1, MinOfTwo
  <2> QED BY <2>2 DEF b
<1>6. EntrySum(p, "hourly", hour) = SumOf(p, (hour * PerHour + 1)..((hour + 1) * PerHour))
  BY <1>1, <1>5, Zenon DEF EntrySum
<1> QED BY <1>1, <1>4, <1>6, SumOfIsSum, Zenon DEF SlotsOf

LEMMA SumOfOne ==
  ASSUME NEW s \in Int, NEW U, U = {s}, NEW g, g[s] \in Int
  PROVE  Summed(g, U) = g[s]
<1>1. IsFiniteSet(U)
  <2>1. IsFiniteSet(s..s)
    BY FS_Interval
  <2>2. s..s = U
    OBVIOUS
  <2> QED BY <2>1, <2>2
<1>2. \A x \in U : g[x] \in Int
  OBVIOUS
<1>3. s \in U /\ U \in SUBSET U /\ U \ {s} = {}
  OBVIOUS
<1>4. Summed(g, U) = g[s] + Summed(g, U \ {s})
  BY <1>1, <1>2, <1>3, SumAny
<1>5. Summed(g, {}) = 0
  BY FS_EmptySet, SumFirst
<1> QED BY <1>3, <1>4, <1>5

\* The price of the entry of a quarter.
LEMMA QuarterlyEntry ==
  ASSUME NEW p \in Seq(Int), NEW q \in Nat, q < Len(p)
  PROVE  /\ Min({Interval("quarterly"), Len(p) - q * Interval("quarterly")}) = 1
         /\ EntrySum(p, "quarterly", q) = p[q + 1] /\ p[q + 1] \in Int
<1>1. Interval("quarterly") = 1
  BY DEF Interval
<1>2. Len(p) \in Nat /\ q + 1 \in 1..Len(p) /\ p[q + 1] \in Int
  OBVIOUS
<1>3. Min({1, Len(p) - q}) = 1
  BY <1>2, MinOfTwo
<1>4. Min({q + 1, Len(p)}) = q + 1
  BY <1>2, MinOfTwo
<1>5. q * 1 = q /\ (q + 1) * 1 = q + 1
  OBVIOUS
<1>6. EntrySum(p, "quarterly", q) = SumOf(p, (q + 1)..(q + 1))
  <2>1. EntrySum(p, "quarterly", q) = SumOf(p, (q * 1 + 1)..Min({(q + 1) * 1, Len(p)}))
    BY <1>1, Zenon DEF EntrySum
  <2> QED BY <1>4, <1>5, <2>1
<1>7. (q + 1)..(q + 1) = {q + 1}
  BY <1>2
<1>8. Summed(p, {q + 1}) = p[q + 1]
  <2> DEFINE s == q + 1
  <2>0. s \in Int /\ p[s] \in Int /\ s..s = {s}
    BY <1>2, <1>7
  <2> HIDE DEF s
  <2>6. Summed(p, {s}) = p[s]
    BY <2>0, SumOfOne, Zenon
  <2> QED BY <2>6 DEF s
<1> QED BY <1>1, <1>2, <1>3, <1>5, <1>6, <1>7, <1>8, SumOfIsSum

\* Some of the numbers is above, or below, what is above or below all of them.
LEMMA SomeOfThem ==
  ASSUME NEW S, IsFiniteSet(S), NEW n \in Nat, n >= 1, Cardinality(S) = n,
         NEW p, \A x \in S : p[x] \in Int, NEW k \in Int, NEW c \in Int
  PROVE  /\ k * Summed(p, S) > n * c => \E x \in S : k * p[x] > c
         /\ k * Summed(p, S) < n * c => \E x \in S : k * p[x] < c
         /\ k * Summed(p, S) <= n * c => \E x \in S : k * p[x] <= c
<1> DEFINE g == [x \in S |-> k * p[x]]
           s == Summed(p, S)
<1>1. \A x \in S : g[x] = k * p[x] /\ g[x] \in Int
  <2>1. \A y \in Int : k * y \in Int
    OBVIOUS
  <2> QED BY <2>1
<1>2. s \in Int
  BY SumAny
<1>3. Summed(g, S) = k * s
  <2>1. \A y \in Int : k * y = k * y + 0 * y + 0 * y
    OBVIOUS
  <2> HIDE DEF g
  <2>2. \A x \in S : g[x] = k * p[x] + 0 * p[x] + 0 * p[x]
    BY <1>1, <2>1
  <2>3. Combines(S, g, p, p, p, k, 0, 0)
    BY <2>2 DEF Combines
  <2>4. Summed(g, S) = k * s + 0 * s + 0 * s
    BY <2>3, SumCombines
  <2> HIDE DEF s
  <2> QED BY <1>2, <2>4
<1> HIDE DEF g, s
<1>4. \A d \in Int : /\ (\A x \in S : g[x] <= d) => k * s <= n * d
                     /\ (\A x \in S : g[x] >= d) => k * s >= n * d
  BY <1>1, <1>3, SumBounds
<1>5. n * c \in Int /\ k * s \in Int /\ n * (c + 1) = n * c + n /\ c + 1 \in Int
  BY <1>2
<1>6. ASSUME k * s > n * c PROVE \E x \in S : k * p[x] > c
  <2>1. ~ (\A x \in S : g[x] <= c)
    BY <1>4, <1>5, <1>6
  <2> QED BY <1>1, <2>1
<1>7. ASSUME k * s < n * c PROVE \E x \in S : k * p[x] < c
  <2>1. ~ (\A x \in S : g[x] >= c)
    BY <1>4, <1>5, <1>7
  <2> QED BY <1>1, <2>1
<1>8. ASSUME k * s <= n * c PROVE \E x \in S : k * p[x] <= c
  <2>1. ~ (\A x \in S : g[x] >= c + 1)
    <3>1. (\A x \in S : g[x] >= c + 1) => k * s >= n * (c + 1)
      BY <1>4, <1>5, Zenon
    <3> QED BY <1>5, <1>8, <3>1
  <2> QED BY <1>1, <2>1
<1> QED BY <1>6, <1>7, <1>8 DEF s

LEMMA TimesOne == \A n, s \in Int : 5 * (1 * s) = 5 * s /\ 3 * (1 * s) = 3 * s
                                    /\ 5 * (n * s) = n * (5 * s) /\ 3 * (n * s) = n * (3 * s)
OBVIOUS

\* The side of the average, of b buckets, on which an hour of n slots is.
LEMMA Sides ==
  ASSUME NEW b \in Nat, NEW n \in Nat, NEW e \in Int, NEW s \in Int, s >= 0
  PROVE  /\ 4 * b * e > 5 * (n * s) => b * e - n * s > 0
         /\ 4 * b * e < 3 * (n * s) => b * e - n * s < 0
<1> DEFINE x == b * e
           y == n * s
<1>1. x \in Int /\ y \in Nat /\ 4 * b * e = 4 * x
  OBVIOUS
<1> HIDE DEF x, y
<1>2. /\ 4 * x > 5 * y => x - y > 0
      /\ 4 * x < 3 * y => x - y < 0
  BY <1>1
<1> QED BY <1>1, <1>2 DEF x, y

\* The marks of an hour and of its quarters, by the average that the sum marked
\* gives, and the average that sum gives.
HourAgrees(p, marked, sum, hour) ==
  LET Mark(kind, i) == Cheapness(p, marked, kind, i)
      quarters == (hour * PerHour)..((hour + 1) * PerHour - 1)
      sides == Buckets * EntrySum(p, "hourly", hour) - PerHour * sum
  IN  /\ \A mark \in {"expensive", "cheap"} :
           Mark("hourly", hour) = mark => \E q \in quarters : Mark("quarterly", q) = mark
      /\ sum >= 0 =>
           /\ Mark("hourly", hour) = "expensive" => sides > 0
           /\ Mark("hourly", hour) = "cheap" => sides < 0

LEMMA HoursAgree ==
  ASSUME NEW p \in Seq(Int), Len(p) >= Buckets, NEW sum \in Int, NEW hour \in Entries("hourly")
  PROVE  HourAgrees(p, sum, sum, hour)
<1> DEFINE S == SlotsOf(hour)
           E == Summed(p, S)
           k == 4 * Buckets
           Hour == Cheapness(p, sum, "hourly", hour)
           Quarter(q) == Cheapness(p, sum, "quarterly", q)
           quarters == (hour * PerHour)..((hour + 1) * PerHour - 1)
<1>1. /\ PerHour \in Nat /\ PerHour >= 1 /\ Buckets \in Nat /\ k \in Int
  BY PriceFacts
<1>2. /\ hour * PerHour \in Nat /\ (hour + 1) * PerHour \in Nat
      /\ (hour + 1) * PerHour = hour * PerHour + PerHour /\ (hour + 1) * PerHour <= Buckets
  BY HourFacts
<1>3. IsFiniteSet(S) /\ Cardinality(S) = PerHour
  <2> DEFINE a == hour * PerHour + 1
             b == (hour + 1) * PerHour
  <2>1. a \in Int /\ b \in Int /\ b - a + 1 = PerHour /\ ~ (a > b)
    BY <1>1, <1>2
  <2>2. S = a..b
    BY DEF SlotsOf
  <2> HIDE DEF a, b, S
  <2>3. IsFiniteSet(a..b) /\ Cardinality(a..b) = IF a > b THEN 0 ELSE b - a + 1
    BY <2>1, FS_Interval
  <2> QED BY <2>1, <2>2, <2>3
<1>4. \A i \in S : i - 1 \in quarters /\ i - 1 \in Nat /\ i - 1 < Len(p) /\ (i - 1) + 1 = i
  BY <1>1, <1>2 DEF SlotsOf
<1>5. \A i \in S : p[i] \in Int
  BY <1>1, <1>2 DEF SlotsOf
<1>6. E \in Int
  <2> HIDE DEF S
  <2> QED BY <1>3, <1>5, SumAny
<1>7. /\ (Hour = "expensive") <=> k * E > 5 * (PerHour * sum)
      /\ (Hour = "cheap") <=> (k * E <= 5 * (PerHour * sum) /\ k * E < 3 * (PerHour * sum))
  <2>1. /\ Min({Interval("hourly"), Len(p) - hour * Interval("hourly")}) = PerHour
        /\ EntrySum(p, "hourly", hour) = E
    BY HourlyEntry, Zenon
  <2>2. EntrySum(p, "hourly", hour) \in Int
    BY <1>6, <2>1
  <2> HIDE DEF E
  <2>3. LET price == 4 * Buckets * EntrySum(p, "hourly", hour)
        IN  /\ (Hour = "expensive") <=> price > 5 * (PerHour * sum)
            /\ (Hour = "cheap") <=> (price <= 5 * (PerHour * sum) /\ price < 3 * (PerHour * sum))
    BY <1>1, <2>1, <2>2, CheapnessIs, Zenon
  <2> QED BY <2>1, <2>3, Zenon
<1>8. ASSUME NEW i \in S
      PROVE  /\ (Quarter(i - 1) = "expensive") <=> k * p[i] > 5 * sum
             /\ (Quarter(i - 1) = "cheap") <=> (k * p[i] <= 5 * sum /\ k * p[i] < 3 * sum)
  <2> DEFINE q == i - 1
  <2>1. q \in Nat /\ q < Len(p) /\ q + 1 = i
    BY <1>4
  <2> HIDE DEF q
  <2>2. /\ Min({Interval("quarterly"), Len(p) - q * Interval("quarterly")}) = 1
        /\ EntrySum(p, "quarterly", q) = p[q + 1] /\ p[q + 1] \in Int
    BY <2>1, QuarterlyEntry, Zenon
  <2>3. 1 \in Nat /\ 1 >= 1 /\ EntrySum(p, "quarterly", q) \in Int
    BY <2>2
  <2>4. LET price == 4 * Buckets * EntrySum(p, "quarterly", q)
        IN  /\ (Quarter(q) = "expensive") <=> price > 5 * (1 * sum)
            /\ (Quarter(q) = "cheap") <=> (price <= 5 * (1 * sum) /\ price < 3 * (1 * sum))
    BY <2>2, <2>3, CheapnessIs, Zenon
  <2>5. 5 * (1 * sum) = 5 * sum /\ 3 * (1 * sum) = 3 * sum
    BY TimesOne
  <2>6. EntrySum(p, "quarterly", q) = p[i]
    BY <2>1, <2>2
  <2>7. /\ (Quarter(q) = "expensive") <=> 4 * Buckets * p[i] > 5 * sum
        /\ (Quarter(q) = "cheap") <=> (4 * Buckets * p[i] <= 5 * sum /\ 4 * Buckets * p[i] < 3 * sum)
    BY <2>4, <2>5, <2>6, Zenon
  <2> QED BY <2>7, Zenon DEF q
<1> HIDE DEF S, E, k, Hour, Quarter, quarters
<1>9. /\ 5 * (PerHour * sum) = PerHour * (5 * sum) /\ 3 * (PerHour * sum) = PerHour * (3 * sum)
      /\ 5 * sum \in Int /\ 3 * sum \in Int
  BY <1>1, TimesOne
<1>10. \A c \in Int : /\ k * E > PerHour * c => \E x \in S : k * p[x] > c
                      /\ k * E < PerHour * c => \E x \in S : k * p[x] < c
                      /\ k * E <= PerHour * c => \E x \in S : k * p[x] <= c
  BY <1>1, <1>3, <1>5, SomeOfThem DEF E
<1>11. ASSUME Hour = "expensive" PROVE \E q \in quarters : Quarter(q) = "expensive"
  <2>1. k * E > PerHour * (5 * sum)
    BY <1>7, <1>9, <1>11
  <2>2. PICK i \in S : k * p[i] > 5 * sum
    BY <1>9, <1>10, <2>1
  <2>3. Quarter(i - 1) = "expensive" /\ i - 1 \in quarters
    BY <1>4, <1>8, <2>2
  <2> QED BY <2>3
<1>12. ASSUME Hour = "cheap" PROVE \E q \in quarters : Quarter(q) = "cheap"
  <2>1. k * E <= PerHour * (5 * sum) /\ k * E < PerHour * (3 * sum)
    BY <1>7, <1>9, <1>12
  <2>2. \E i \in S : k * p[i] <= 5 * sum /\ k * p[i] < 3 * sum
    <3>0. \A i \in S : k * p[i] \in Int
      BY <1>1, <1>5
    <3>1. CASE sum >= 0
      <4>1. PICK i \in S : k * p[i] < 3 * sum
        BY <1>9, <1>10, <2>1
      <4> QED BY <3>0, <3>1, <4>1
    <3>2. CASE sum < 0
      <4>1. PICK i \in S : k * p[i] <= 5 * sum
        BY <1>9, <1>10, <2>1
      <4> QED BY <3>0, <3>2, <4>1
    <3> QED BY <3>1, <3>2
  <2>3. PICK i \in S : k * p[i] <= 5 * sum /\ k * p[i] < 3 * sum
    BY <2>2
  <2>4. Quarter(i - 1) = "cheap" /\ i - 1 \in quarters
    BY <1>4, <1>8, <2>3
  <2> QED BY <2>4
<1>13. EntrySum(p, "hourly", hour) = E
  BY HourlyEntry, Zenon DEF E, S
<1>14. ASSUME sum >= 0
       PROVE  /\ Hour = "expensive" => Buckets * E - PerHour * sum > 0
              /\ Hour = "cheap" => Buckets * E - PerHour * sum < 0
  <2>1. /\ 4 * Buckets * E > 5 * (PerHour * sum) => Buckets * E - PerHour * sum > 0
        /\ 4 * Buckets * E < 3 * (PerHour * sum) => Buckets * E - PerHour * sum < 0
    BY <1>1, <1>6, <1>14, Sides
  <2> QED BY <1>7, <2>1, Zenon DEF k
<1>15. \A mark \in {"expensive", "cheap"} : Hour = mark => \E q \in quarters : Quarter(q) = mark
  BY <1>11, <1>12
<1> QED BY <1>13, <1>14, <1>15, Zenon DEF HourAgrees, Hour, Quarter, quarters

(* The hourly and the quarterly report of the same prices agree, and a mark   *)
(* is on the side of the average it says (calc_results_create), for any       *)
(* prices of a day that is not too short, and whatever the run went through.  *)
THEOREM MarksAlwaysAgree == Spec => []MarksAgree
<1>1. TypeInv /\ PriceInv => MarksAgree
  <2> DEFINE p == data.prices
             sum == SumOf(p, 1..Buckets)
  <2> SUFFICES ASSUME TypeInv, PriceInv, at.step = "json", ~ OverReads(data.prices),
                      NEW hour \in Entries("hourly")
               PROVE  HourAgrees(p, sum + data.behind, sum, hour)
    <3>1. \A hours \in HourlyReports : hours = data /\ at.step = "json"
      BY DEF HourlyReports
    <3> DEFINE Agrees(hours) ==
                 ~ OverReads(hours.prices) =>
                   \A hour \in Entries("hourly") :
                     HourAgrees(hours.prices, SumOf(hours.prices, 1..Buckets) + hours.behind,
                                SumOf(hours.prices, 1..Buckets), hour)
    <3>2. MarksAgree <=> \A hours \in HourlyReports : Agrees(hours)
      BY Zenon DEF MarksAgree, HourAgrees
    <3>3. Agrees(data) => MarksAgree
      <4> HIDE DEF Agrees
      <4> QED BY <3>1, <3>2, Zenon
    <3>4. CASE HourlyReports = {}
      <4> HIDE DEF Agrees
      <4> QED BY <3>2, <3>4
    <3>5. CASE HourlyReports # {}
      <4>1. at.step = "json"
        BY <3>1, <3>5
      <4> QED BY <3>3, <4>1, Zenon
    <3> QED BY <3>4, <3>5
  <2>1. p \in Seq(Int) /\ data.behind = 0
    BY DEF PriceInv, HourlyOk
  <2>2. Buckets \in Nat /\ Len(p) \in Nat /\ Len(p) >= Buckets
    BY <2>1, PriceFacts DEF OverReads
  <2>3. sum \in Int
    <3> DEFINE S == 1..Buckets
    <3>1. IsFiniteSet(S) /\ \A i \in S : p[i] \in Int
      <4>1. \A a, b \in Int : IsFiniteSet(a..b)
        BY FS_Interval
      <4>2. 1 \in Int /\ Buckets \in Int
        BY <2>2
      <4>3. IsFiniteSet(S)
        BY <4>1, <4>2, Zenon
      <4> QED BY <2>1, <2>2, <4>3
    <3> HIDE DEF S
    <3>2. Summed(p, S) \in Int
      BY <3>1, SumAny DEF S
    <3> QED BY <3>2, SumOfIsSum DEF S
  <2> HIDE DEF p, sum
  <2>4. sum + data.behind = sum
    BY <2>1, <2>3
  <2>5. HourAgrees(p, sum, sum, hour)
    BY <2>1, <2>2, <2>3, HoursAgree
  <2> QED BY <2>4, <2>5
<1> QED BY <1>1, AlwaysPriced, PTL
=============================================================================
