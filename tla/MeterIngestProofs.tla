--------------------------- MODULE MeterIngestProofs ---------------------------
(* The meter is told the truth about its readings, and a profile counts what  *)
(* was used, for any faults, powers, uses, bounds and numbers of days.        *)
EXTENDS MeterIngest, FiniteLemmas

-----------------------------------------------------------------------------
(* The inductive invariant.                                                 *)

Pending == server \in {"insert", "commit"}

WorldType ==
  /\ clock \in 0..MaxClock /\ meter \in Nat /\ used \in Nat /\ meter <= used
  /\ accepted \in 0..MaxReadings

\* TypeOK without the totals of the profile, which are sums.
StateType ==
  /\ WorldType
  /\ server \in {"down", "idle", "insert", "commit", "answer"}
  /\ latest \in Stamped \cup {NoReading}
  /\ server = "down" => latest = NoReading
  /\ server \in {"insert", "commit", "answer"} => latest # NoReading /\ latest.nr = accepted
  /\ rows \in Seq(Stamped)
  /\ IF server = "commit"
     THEN \E at \in 0..clock : tx = <<[latest EXCEPT !.at = at]>>
     ELSE tx = <<>>
  /\ told \in [1..accepted -> {"nothing", "ok", "error"}]
  /\ uncommitted \subseteq 1..accepted
  /\ analysis.state \in {"idle", "loaded", "built"}

\* A reading that was answered 200 went through its COMMIT, and one that was
\* answered with an error did not; what is being stored has not, and what is
\* being answered has; what optiserver shows between two requests has, or was
\* answered with an error. A COMMIT fails only where that may happen.
Ended == Stored \cup uncommitted
ToldInv ==
  /\ Stored \subseteq 1..accepted
  /\ Stored \cap uncommitted = {}
  /\ \A n \in 1..accepted :
       /\ told[n] = "ok" => n \in Ended
       /\ told[n] = "error" => n \notin Ended
  /\ Pending => told[accepted] = "nothing" /\ accepted \notin Ended
  /\ server = "answer" => told[accepted] = "nothing" /\ accepted \in Ended
  /\ server = "idle" /\ latest # NoReading =>
       latest.nr \in 1..accepted /\ (told[latest.nr] = "error" \/ latest.nr \in Ended)
  /\ uncommitted # {} => "commit" \in Faults

LEMMA RecordOfReading ==
  ASSUME NEW r \in Stamped, NEW at \in 0..MaxClock
  PROVE  /\ [r EXCEPT !.at = at] \in Stamped
         /\ [r EXCEPT !.at = at].nr = r.nr
         /\ [r EXCEPT !.at = at].at = at
         /\ [r EXCEPT !.at = at].energy = r.energy
         /\ [r EXCEPT !.at = at].used = r.used
BY DEF Stamped

\* What is appended to the rows is one more row.
LEMMA OneMoreRow ==
  ASSUME NEW seq \in Seq(Stamped), NEW r \in Stamped
  PROVE  /\ seq \o <<r>> \in Seq(Stamped)
         /\ Len(seq \o <<r>>) = Len(seq) + 1
         /\ \A i \in 1..Len(seq) : (seq \o <<r>>)[i] = seq[i]
         /\ (seq \o <<r>>)[Len(seq) + 1] = r
         /\ {s.nr : s \in Range(seq \o <<r>>)} = {s.nr : s \in Range(seq)} \cup {r.nr}
<1>1. <<r>> \in Seq(Stamped) /\ Len(<<r>>) = 1 /\ <<r>>[1] = r
  OBVIOUS
<1>2. /\ seq \o <<r>> \in Seq(Stamped)
      /\ Len(seq \o <<r>>) = Len(seq) + 1
      /\ \A i \in 1..Len(seq) : (seq \o <<r>>)[i] = seq[i]
      /\ (seq \o <<r>>)[Len(seq) + 1] = r
  BY <1>1
<1>3. /\ DOMAIN (seq \o <<r>>) = 1..(Len(seq) + 1)
      /\ DOMAIN seq = 1..Len(seq) /\ Len(seq) \in Nat
  BY <1>2
<1>4. 1..(Len(seq) + 1) = 1..Len(seq) \cup {Len(seq) + 1}
  BY <1>3
<1>5. Range(seq \o <<r>>) = Range(seq) \cup {r}
  <2>1. \A s \in Range(seq \o <<r>>) : s \in Range(seq) \cup {r}
    BY <1>2, <1>3, <1>4 DEF Range
  <2>2. \A s \in Range(seq) : s \in Range(seq \o <<r>>)
    BY <1>2, <1>3, <1>4 DEF Range
  <2>3. r \in Range(seq \o <<r>>)
    BY <1>2, <1>3 DEF Range
  <2> QED BY <2>1, <2>2, <2>3
<1> QED BY <1>2, <1>5

-----------------------------------------------------------------------------
Answer == {"nothing", "ok", "error"}

\* A request begins: there is one answer more, which is "nothing" as yet.
LEMMA OneMoreAnswer ==
  ASSUME NEW n \in Nat, NEW t \in [1..n -> Answer]
  PROVE  /\ Append(t, "nothing") \in [1..(n + 1) -> Answer]
         /\ Append(t, "nothing")[n + 1] = "nothing"
         /\ \A i \in 1..n : Append(t, "nothing")[i] = t[i]
<1>1. t \in Seq(Answer) /\ Len(t) = n
  BY SeqDef
<1>2. "nothing" \in Answer
  BY DEF Answer
<1>3. Append(t, "nothing") \in Seq(Answer) /\ Len(Append(t, "nothing")) = n + 1
  BY <1>1, <1>2
<1>4. Append(t, "nothing") \in [1..(n + 1) -> Answer]
  BY <1>3, LenProperties
<1> QED BY <1>1, <1>4

\* What a request sends is a reading of the present.
LEMMA ReadingType ==
  ASSUME StateType, accepted < MaxReadings, NEW r \in Reading
  PROVE  /\ r \in Stamped
         /\ r.nr = accepted + 1
         /\ r.energy \in {meter, Absent}
         /\ r.used = used
         /\ r # NoReading
<1>1. PICK nr \in {accepted + 1}, at \in {clock}, energy \in {meter, Absent},
           watts \in Watts, use \in {used} :
        r = [nr |-> nr, at |-> at, energy |-> energy, watts |-> watts, used |-> use]
  BY DEF Reading
<1>2. /\ accepted \in 0..MaxReadings
      /\ clock \in 0..MaxClock
      /\ meter \in Nat /\ used \in Nat
      /\ MaxReadings \in Nat
  BY MeterConstants DEF StateType, WorldType
<1>3. accepted + 1 \in 1..MaxReadings
  BY <1>2
<1>4. r \in Stamped
  BY <1>1, <1>2, <1>3 DEF Stamped
<1> QED BY <1>1, <1>4, MeterConstants

LEMMA StateTypeStart == Init => StateType /\ ToldInv
<1> SUFFICES ASSUME Init PROVE StateType /\ ToldInv
  OBVIOUS
<1>1. rows \in Seq(Stamped) /\ Stored = {}
  <2>1. rows = <<>> /\ DOMAIN rows = {}
    BY DEF Init
  <2>2. Range(rows) = {}
    BY <2>1 DEF Range
  <2> QED BY <2>1, <2>2, EmptySeq DEF Stored
<1>2. told \in [1..accepted -> {"nothing", "ok", "error"}] /\ 1..accepted = {}
  <2>1. accepted = 0 /\ told = <<>> /\ 1..0 = {}
    BY DEF Init
  <2>2. <<>> \in [{} -> {"nothing", "ok", "error"}]
    OBVIOUS
  <2> QED BY <2>1, <2>2
<1>3. analysis.state = "idle"
  BY DEF Init, Nothing
<1>4. StateType
  BY <1>1, <1>2, <1>3, MeterConstants DEF Init, StateType, WorldType, Pending
<1> QED BY <1>1, <1>2, <1>4 DEF Init, ToldInv, Pending, Ended

\* What the optimizer does leaves everything alone but its own record, whose
\* state goes round.
LEMMA AnalysisStep ==
  ASSUME LoadGlobalMeterRows \/ BuildProfile \/ WriteReports
  PROVE  /\ UNCHANGED <<world, server, latest, accepted, tx, rows, told, uncommitted>>
         /\ analysis'.state \in {"idle", "loaded", "built"}
         /\ analysis'.state # "idle" =>
              \/ analysis.state = "idle" /\ LoadGlobalMeterRows
              \/ analysis.state = "loaded" /\ BuildProfile
<1>1. CASE LoadGlobalMeterRows
  <2>1. PICK found : /\ analysis' = [Nothing EXCEPT !.state = "loaded", !.rows = found]
                     /\ analysis.state = "idle"
                     /\ UNCHANGED <<world, server, latest, accepted, tx, rows, answers>>
    BY <1>1 DEF LoadGlobalMeterRows
  <2>2. analysis'.state = "loaded"
    BY <2>1 DEF Nothing
  <2> QED BY <1>1, <2>1, <2>2 DEF answers
<1>2. CASE BuildProfile
  BY <1>2 DEF BuildProfile, Nothing, answers
<1>3. CASE WriteReports
  BY <1>3 DEF WriteReports, Nothing, answers
<1> QED BY <1>1, <1>2, <1>3

LEMMA Bounds ==
  /\ \A n \in Nat : \A m \in 1..n : m \in 1..m
  /\ \A n \in Nat : \A m \in 0..n : \A k \in 0..m : k \in 0..n
OBVIOUS

LEMMA WorldNumbers ==
  ASSUME StateType
  PROVE  /\ clock \in 0..MaxClock /\ clock \in Nat /\ MaxClock \in Nat
         /\ meter \in Nat /\ used \in Nat /\ meter <= used
         /\ accepted \in 0..MaxReadings /\ accepted \in Nat /\ MaxReadings \in Nat
<1>1. WorldType
  BY DEF StateType
<1>2. MaxClock \in Nat /\ MaxReadings \in Nat
  BY MeterConstants
<1> QED BY <1>1, <1>2 DEF WorldType

\* Nothing moves from one reading to the next between two answers.
LEMMA SameRequest ==
  ASSUME StateType, ToldInv,
         UNCHANGED <<server, latest, accepted, tx, rows, told, uncommitted>>,
         clock' \in 0..MaxClock, clock <= clock', meter' \in Nat, used' \in Nat, meter' <= used',
         analysis'.state \in {"idle", "loaded", "built"}
  PROVE  StateType' /\ ToldInv'
<1>1. ToldInv'
  BY DEF ToldInv, Stored, Pending, Ended
<1>2. clock \in Nat
  BY WorldNumbers
<1>3. \A at \in 0..clock : at \in 0..clock'
  BY <1>2
<1>4. IF server' = "commit"
      THEN \E at \in 0..clock' : tx' = <<[latest' EXCEPT !.at = at]>>
      ELSE tx' = <<>>
  BY <1>3 DEF StateType
<1> QED BY <1>1, <1>4 DEF StateType, WorldType, Pending

\* The number of the reading that is being stored or answered.
LEMMA BeingAnswered ==
  ASSUME StateType, server \in {"insert", "commit", "answer"}
  PROVE  /\ latest \in Stamped /\ latest # NoReading /\ latest.nr = accepted
         /\ accepted \in 1..accepted
<1>1. latest.nr = accepted /\ latest # NoReading /\ latest \in Stamped
  BY DEF StateType
<1>2. latest.nr \in 1..MaxReadings
  BY <1>1 DEF Stamped
<1>3. accepted \in 1..MaxReadings /\ MaxReadings \in Nat
  BY <1>1, <1>2, WorldNumbers
<1> QED BY <1>1, <1>3, Bounds

\* The transaction ends: the row is there, or the COMMIT failed.
LEMMA TransactionEnds ==
  ASSUME StateType, ToldInv, server = "commit", server' = "answer", tx' = <<>>,
         UNCHANGED <<world, latest, accepted, told, analysis>>,
         \/ rows' = rows \o tx /\ UNCHANGED uncommitted
         \/ UNCHANGED rows /\ uncommitted' = uncommitted \cup {latest.nr} /\ "commit" \in Faults
  PROVE  StateType' /\ ToldInv'
<1>1. latest.nr = accepted /\ latest # NoReading /\ latest \in Stamped /\ accepted \in 1..accepted
  BY BeingAnswered
<1>2. told[accepted] = "nothing" /\ accepted \notin Ended
  BY DEF ToldInv, Pending
<1>3. /\ rows' \in Seq(Stamped)
      /\ \/ Stored' = Stored \cup {accepted} /\ UNCHANGED uncommitted
         \/ /\ UNCHANGED Stored /\ uncommitted' = uncommitted \cup {accepted}
            /\ "commit" \in Faults
  <2>1. CASE UNCHANGED rows /\ uncommitted' = uncommitted \cup {latest.nr} /\ "commit" \in Faults
    BY <1>1, <2>1 DEF StateType, Stored
  <2>2. CASE rows' = rows \o tx /\ UNCHANGED uncommitted
    <3>1. PICK at \in 0..clock : tx = <<[latest EXCEPT !.at = at]>>
      BY DEF StateType
    <3>2. at \in 0..MaxClock
      <4>1. clock \in 0..MaxClock /\ MaxClock \in Nat
        BY WorldNumbers
      <4> QED BY <4>1, Bounds
    <3> DEFINE row == [latest EXCEPT !.at = at]
    <3>3. row \in Stamped /\ row.nr = accepted
      BY <1>1, <3>2, RecordOfReading
    <3>4. tx = <<row>>
      BY <3>1
    <3> HIDE DEF row
    <3>5. rows \in Seq(Stamped) /\ rows' = rows \o <<row>>
      BY <2>2, <3>4 DEF StateType
    <3>6. rows' \in Seq(Stamped) /\ Stored' = Stored \cup {accepted}
      BY <3>3, <3>5, OneMoreRow DEF Stored
    <3> QED BY <2>2, <3>6
  <2> QED BY <2>1, <2>2
<1>4. Ended' = Ended \cup {accepted} /\ Stored' \cap uncommitted' = {}
  BY <1>2, <1>3 DEF ToldInv, Ended
<1>5. /\ Stored' \subseteq 1..accepted /\ uncommitted' \subseteq 1..accepted
      /\ uncommitted' # {} => "commit" \in Faults
  BY <1>1, <1>3 DEF ToldInv, StateType
<1>6. StateType'
  BY <1>1, <1>3, <1>5 DEF StateType, WorldType, world
<1>7. \A n \in 1..accepted :
        /\ told[n] = "ok" => n \in Ended'
        /\ told[n] = "error" => n \notin Ended'
  BY <1>2, <1>4 DEF ToldInv
<1> QED BY <1>2, <1>4, <1>5, <1>6, <1>7 DEF ToldInv, Pending

\* The client is answered as the storing ended.
LEMMA RequestEnds ==
  ASSUME StateType, ToldInv, NEW answer \in Answer,
         told' = [told EXCEPT ![latest.nr] = answer],
         server' = "idle",
         UNCHANGED <<world, latest, accepted, tx, rows, uncommitted, analysis>>,
         \/ answer = "error" /\ server = "insert"
         \/ answer = "ok" /\ server = "answer"
  PROVE  StateType' /\ ToldInv'
<1>1. latest.nr = accepted /\ latest # NoReading /\ latest \in Stamped /\ accepted \in 1..accepted
  BY BeingAnswered
<1>2. told \in [1..accepted -> Answer]
  BY DEF StateType, Answer
<1>3. /\ told' \in [1..accepted -> Answer]
      /\ told'[accepted] = answer
      /\ \A n \in 1..accepted : n # accepted => told'[n] = told[n]
  BY <1>1, <1>2
<1>4. tx' = <<>>
  BY DEF StateType
<1>5. StateType'
  BY <1>1, <1>3, <1>4 DEF StateType, WorldType, world, Answer
<1>6. Stored' = Stored /\ Ended' = Ended
  BY DEF Stored, Ended
<1>7. (answer = "ok" /\ accepted \in Ended) \/ (answer = "error" /\ accepted \notin Ended)
  <2>1. server = "insert" => accepted \notin Ended
    BY DEF ToldInv, Pending
  <2>2. server = "answer" => accepted \in Ended
    BY DEF ToldInv
  <2> QED BY <2>1, <2>2
<1>8. \A n \in 1..accepted :
        /\ told'[n] = "ok" => n \in Ended
        /\ told'[n] = "error" => n \notin Ended
  BY <1>3, <1>7 DEF ToldInv
<1> QED BY <1>1, <1>3, <1>5, <1>6, <1>7, <1>8 DEF ToldInv, Pending

LEMMA StateTypeStep == StateType /\ ToldInv /\ [Next]_vars => StateType' /\ ToldInv'
<1> SUFFICES ASSUME StateType, ToldInv, [Next]_vars PROVE StateType' /\ ToldInv'
  OBVIOUS
<1>1. CASE Tick
  <2>1. /\ clock' = clock + 1 /\ clock < MaxClock
        /\ UNCHANGED <<server, latest, accepted, tx, rows, told, uncommitted, analysis>>
    BY <1>1 DEF Tick, answers
  <2>2. PICK use \in Uses : meter' = meter + use /\ used' = used + use
    BY <1>1 DEF Tick
  <2>3. use \in Nat /\ MaxClock \in Nat
    BY MeterConstants
  <2>4. /\ clock' \in 0..MaxClock /\ clock <= clock'
        /\ meter' \in Nat /\ used' \in Nat /\ meter' <= used'
    BY <2>1, <2>2, <2>3, WorldNumbers
  <2> QED BY <2>1, <2>4, SameRequest DEF StateType
<1>2. CASE ExchangeMeter
  <2>1. /\ clock' \in 0..MaxClock /\ clock <= clock'
        /\ meter' \in Nat /\ used' \in Nat /\ meter' <= used'
    BY <1>2, WorldNumbers DEF ExchangeMeter
  <2> QED BY <1>2, <2>1, SameRequest DEF StateType, ExchangeMeter, answers
<1>3. CASE Start \/ Crash
  <2>1. server' \in {"idle", "down"} /\ latest' = NoReading /\ tx' = <<>>
    BY <1>3 DEF Start, Crash, StateType
  <2>2. UNCHANGED <<world, accepted, rows, told, uncommitted, analysis>>
    BY <1>3 DEF Start, Crash, answers
  <2>3. StateType'
    BY <2>1, <2>2 DEF StateType, WorldType, world, Pending
  <2> QED BY <2>1, <2>2, <2>3 DEF ToldInv, Stored, Pending, Ended
<1>4. CASE PostIngest
  <2>1. /\ latest' \in Reading /\ accepted < MaxReadings /\ accepted' = accepted + 1
        /\ told' = Append(told, "nothing") /\ server' = "insert"
        /\ server = "idle" /\ UNCHANGED <<world, tx, rows, uncommitted, analysis>>
    BY <1>4 DEF PostIngest
  <2>2. latest' \in Stamped /\ latest'.nr = accepted + 1 /\ latest' # NoReading
    BY <2>1, ReadingType
  <2>3. accepted \in Nat /\ accepted + 1 \in 0..MaxReadings /\ told \in [1..accepted -> Answer]
    <3>1. accepted \in Nat /\ MaxReadings \in Nat
      BY WorldNumbers
    <3>2. told \in [1..accepted -> Answer]
      BY DEF StateType, Answer
    <3> QED BY <2>1, <3>1, <3>2
  <2>4. /\ told' \in [1..accepted' -> Answer]
        /\ told'[accepted'] = "nothing"
        /\ \A n \in 1..accepted : told'[n] = told[n]
    BY <2>1, <2>3, OneMoreAnswer
  <2>5. 1..accepted' = 1..accepted \cup {accepted'} /\ accepted' \notin 1..accepted
    BY <2>1, <2>3
  <2>6. StateType'
    BY <2>1, <2>2, <2>3, <2>4, <2>5, WorldNumbers DEF StateType, WorldType, Answer, world
  <2>7. UNCHANGED <<Stored, Ended>> /\ Ended \subseteq 1..accepted
    BY <2>1 DEF Stored, Ended, ToldInv, StateType
  <2>8. \A n \in 1..accepted' :
          /\ told'[n] = "ok" => n \in Ended
          /\ told'[n] = "error" => n \notin Ended
    BY <2>4, <2>5, <2>7 DEF ToldInv
  <2> QED BY <2>1, <2>4, <2>5, <2>6, <2>7, <2>8 DEF ToldInv, Pending
<1>5. CASE InsertReading
  <2>1. /\ server = "insert" /\ server' = "commit" /\ tx' = <<[latest EXCEPT !.at = clock]>>
        /\ UNCHANGED <<world, latest, accepted, rows, told, uncommitted, analysis>>
    BY <1>5 DEF InsertReading, answers
  <2>2. clock \in 0..clock
    BY WorldNumbers
  <2>3. StateType'
    BY <2>1, <2>2 DEF StateType, WorldType, Pending, world
  <2> QED BY <2>1, <2>3 DEF ToldInv, Stored, Pending, Ended
<1>6. CASE InsertFails
  BY <1>6, RequestEnds DEF InsertFails, Answer
<1>7. CASE Commit \/ CommitFails
  BY <1>7, TransactionEnds DEF Commit, CommitFails, answers
<1>8. CASE AnswerOk
  BY <1>8, RequestEnds DEF AnswerOk, Answer
<1>9. CASE LoadGlobalMeterRows \/ BuildProfile \/ WriteReports
  <2>1. /\ UNCHANGED <<clock, meter, used, server, latest, accepted, tx, rows, told, uncommitted>>
        /\ analysis'.state \in {"idle", "loaded", "built"}
    BY <1>9, AnalysisStep DEF world
  <2>2. clock' \in 0..MaxClock /\ clock <= clock' /\ meter' \in Nat /\ used' \in Nat /\ meter' <= used'
    BY <2>1, WorldNumbers
  <2> QED BY <2>1, <2>2, SameRequest
<1>10. CASE UNCHANGED vars
  <2>1. clock' \in 0..MaxClock /\ clock <= clock' /\ meter' \in Nat /\ used' \in Nat /\ meter' <= used'
    BY <1>10, WorldNumbers DEF vars
  <2> QED BY <1>10, <2>1, SameRequest DEF StateType, vars
<1> QED
  BY <1>1, <1>2, <1>3, <1>4, <1>5, <1>6, <1>7, <1>8, <1>9, <1>10 DEF Next

LEMMA ToldIsInvariant == Spec => [](StateType /\ ToldInv)
<1>1. Init => StateType /\ ToldInv
  BY StateTypeStart
<1>2. StateType /\ ToldInv /\ [Next]_vars => (StateType /\ ToldInv)'
  BY StateTypeStep
<1> QED BY <1>1, <1>2, PTL DEF Spec

(* Whatever INSERT or COMMIT fails and whenever optiserver is killed, also    *)
(* between its COMMIT and its answer: a reading answered 200 is stored for    *)
(* good unless its own COMMIT failed, one answered with an error never is,    *)
(* and what GET /power/current shows between two requests went through its    *)
(* COMMIT or was answered with an error.                                      *)
THEOREM ToldTheTruth == Spec => []AnswersAreTrue
<1>1. StateType /\ ToldInv => AnswersAreTrue
  <2> SUFFICES ASSUME StateType, ToldInv PROVE AnswersAreTrue
    OBVIOUS
  <2>1. ASSUME server = "idle", PowerCurrent # 0
        PROVE  PowerCurrent \in Ended \/ told[PowerCurrent] = "error"
    <3>1. latest # NoReading /\ PowerCurrent = latest.nr
      BY <2>1 DEF PowerCurrent
    <3> QED BY <2>1, <3>1 DEF ToldInv
  <2> QED BY <2>1 DEF AnswersAreTrue, ToldInv, Ended
<1> QED BY <1>1, ToldIsInvariant, PTL

(* What the ingest guide says of the readings that were answered 200 is true  *)
(* wherever no COMMIT fails, whatever INSERT does and whenever optiserver is  *)
(* killed: they are in the database, and stay there.                          *)
THEOREM StoredWhereCommitsWork ==
  ASSUME "commit" \notin Faults
  PROVE  Spec => []AcceptedStays
<1>1. StateType /\ ToldInv => AcceptedStays
  BY DEF ToldInv, Ended, AcceptedStays
<1> QED BY <1>1, ToldIsInvariant, PTL

-----------------------------------------------------------------------------
(* Sums over the pairs of neighbours that end at one of 2..n.               *)

UpTo(A, m) == {i \in A : i <= m}

\* One pair more.
LEMMA SumUpTo ==
  ASSUME NEW n \in Nat, NEW A \in SUBSET (2..n), NEW g, \A i \in 2..n : g[i] \in Int,
         NEW m \in 1..(n - 1)
  PROVE  /\ Summed(g, UpTo(A, m)) \in Int
         /\ Summed(g, UpTo(A, m + 1)) =
              Summed(g, UpTo(A, m)) + (IF m + 1 \in A THEN g[m + 1] ELSE 0)
<1>1. IsFiniteSet(2..n)
  BY FS_Interval
<1>2. \A T \in SUBSET (2..n) :
        Summed(g, T) \in Int /\ \A x \in T : Summed(g, T) = g[x] + Summed(g, T \ {x})
  <2> DEFINE S == 2..n
  <2>1. IsFiniteSet(S) /\ \A x \in S : g[x] \in Int
    BY <1>1
  <2> HIDE DEF S
  <2>2. \A T \in SUBSET S :
          Summed(g, T) \in Int /\ \A x \in T : Summed(g, T) = g[x] + Summed(g, T \ {x})
    BY <2>1, SumAny
  <2> QED BY <2>2 DEF S
<1>3. UpTo(A, m) \in SUBSET (2..n) /\ UpTo(A, m + 1) \in SUBSET (2..n)
  BY DEF UpTo
<1>4. Summed(g, UpTo(A, m)) \in Int
  BY <1>2, <1>3
<1> DEFINE B == UpTo(A, m)
           C == UpTo(A, m + 1)
<1>7. \A i \in A : i \in Int /\ (i <= m + 1 <=> i <= m \/ i = m + 1)
  OBVIOUS
<1>8. m + 1 <= m + 1 /\ ~ (m + 1 <= m)
  OBVIOUS
<1>9. \A i : i \in C <=> i \in B \/ (i = m + 1 /\ i \in A)
  BY <1>7, <1>8, Zenon DEF UpTo
<1>10. m + 1 \notin B
  BY <1>8 DEF UpTo
<1>5. CASE m + 1 \in A
  <2>1. m + 1 \in UpTo(A, m + 1) /\ UpTo(A, m + 1) \ {m + 1} = UpTo(A, m)
    <3> HIDE DEF B, C
    <3>1. m + 1 \in C /\ C \ {m + 1} = B
      BY <1>5, <1>9, <1>10
    <3> QED BY <3>1 DEF B, C
  <2>2. Summed(g, UpTo(A, m + 1)) = g[m + 1] + Summed(g, UpTo(A, m))
    BY <1>2, <1>3, <2>1
  <2>3. g[m + 1] \in Int
    OBVIOUS
  <2> QED BY <1>4, <1>5, <2>2, <2>3
<1>6. CASE m + 1 \notin A
  <2>1. UpTo(A, m + 1) = UpTo(A, m)
    <3> HIDE DEF B, C
    <3>1. C = B
      BY <1>6, <1>9
    <3> QED BY <3>1 DEF B, C
  <2> QED BY <1>4, <1>6, <2>1
<1> QED BY <1>4, <1>5, <1>6

StepsUp(g, A, n) ==
  \A m \in 1..(n - 1) :
    /\ Summed(g, UpTo(A, m)) \in Int
    /\ Summed(g, UpTo(A, m + 1)) =
         Summed(g, UpTo(A, m)) + (IF m + 1 \in A THEN g[m + 1] ELSE 0)

LEMMA SumSteps ==
  ASSUME NEW n \in Nat, NEW A \in SUBSET (2..n), NEW g, \A i \in 2..n : g[i] \in Int
  PROVE  StepsUp(g, A, n)
BY SumUpTo DEF StepsUp

LEMMA NoSumYet ==
  ASSUME NEW n \in Nat, NEW A \in SUBSET (2..n), NEW g
  PROVE  Summed(g, UpTo(A, 1)) = 0 /\ UpTo(A, n) = A
<1>1. \A i \in A : i <= n /\ ~ (i <= 1)
  OBVIOUS
<1>2. UpTo(A, 1) = {} /\ UpTo(A, n) = A
  BY <1>1, Zenon DEF UpTo
<1> QED BY <1>2, SumFirst, FS_EmptySet

\* What is counted of a quantity that only grows, in two sets of pairs that
\* share none, is no more than it has grown.
LEMMA CountedOnce ==
  ASSUME NEW n \in Nat, n >= 1, NEW A \in SUBSET (2..n), NEW B \in SUBSET (2..n), A \cap B = {},
         NEW g, \A i \in 2..n : g[i] \in Int,
         NEW u, \A i \in 1..n : u[i] \in Int,
         \A i \in 2..n : u[i - 1] <= u[i],
         \A i \in A \cup B : g[i] <= u[i] - u[i - 1]
  PROVE  Summed(g, A) + Summed(g, B) <= u[n] - u[1]
<1>s. StepsUp(g, A, n) /\ StepsUp(g, B, n)
  BY SumSteps
<1> DEFINE Bounded(m) == Summed(g, UpTo(A, m)) + Summed(g, UpTo(B, m)) <= u[m] - u[1]
           Done == {m \in Nat : m + 1 <= n => Bounded(m + 1)}
<1>1. 0 \in Done
  <2>1. Summed(g, UpTo(A, 1)) = 0 /\ Summed(g, UpTo(B, 1)) = 0 /\ u[1] \in Int
    <3>1. Summed(g, UpTo(A, 1)) = 0
      BY NoSumYet
    <3>2. Summed(g, UpTo(B, 1)) = 0
      BY NoSumYet
    <3> QED BY <3>1, <3>2
  <2>2. Bounded(1)
    BY <2>1
  <2> QED BY <2>2
<1>2. ASSUME NEW m \in Nat, m \in Done PROVE m + 1 \in Done
  <2> SUFFICES ASSUME m + 2 <= n PROVE Bounded(m + 2)
    OBVIOUS
  <2>1. /\ m + 1 \in 1..(n - 1) /\ (m + 1) + 1 = m + 2 /\ m + 2 \in 2..n /\ m + 1 \in 1..n
        /\ (m + 2) - 1 = m + 1 /\ m + 2 \in 1..n /\ 1 \in 1..n
    OBVIOUS
  <2>2. /\ u[m + 1] \in Int /\ u[m + 2] \in Int /\ u[1] \in Int /\ g[m + 2] \in Int
        /\ u[m + 1] <= u[m + 2]
        /\ m + 2 \in A \cup B => g[m + 2] <= u[m + 2] - u[m + 1]
    BY <2>1
  <2> DEFINE a == Summed(g, UpTo(A, m + 1))
             b == Summed(g, UpTo(B, m + 1))
             a2 == Summed(g, UpTo(A, m + 2))
             b2 == Summed(g, UpTo(B, m + 2))
  <2>3. a \in Int /\ a2 = a + (IF m + 2 \in A THEN g[m + 2] ELSE 0)
    <3>1. /\ Summed(g, UpTo(A, m + 1)) \in Int
          /\ Summed(g, UpTo(A, (m + 1) + 1)) =
               Summed(g, UpTo(A, m + 1)) + (IF (m + 1) + 1 \in A THEN g[(m + 1) + 1] ELSE 0)
      BY <1>s, <2>1 DEF StepsUp
    <3> QED BY <2>1, <3>1
  <2>4. b \in Int /\ b2 = b + (IF m + 2 \in B THEN g[m + 2] ELSE 0)
    <3>1. /\ Summed(g, UpTo(B, m + 1)) \in Int
          /\ Summed(g, UpTo(B, (m + 1) + 1)) =
               Summed(g, UpTo(B, m + 1)) + (IF (m + 1) + 1 \in B THEN g[(m + 1) + 1] ELSE 0)
      BY <1>s, <2>1 DEF StepsUp
    <3> QED BY <2>1, <3>1
  <2>5. a + b <= u[m + 1] - u[1]
    BY <1>2, <2>1
  <2> HIDE DEF a, b, a2, b2
  <2>6. a2 + b2 <= u[m + 2] - u[1]
    <3>1. CASE m + 2 \in A
      BY <2>2, <2>3, <2>4, <2>5, <3>1
    <3>2. CASE m + 2 \notin A
      BY <2>2, <2>3, <2>4, <2>5, <3>2
    <3> QED BY <3>1, <3>2
  <2> QED BY <2>6 DEF a2, b2
<1>3. \A m \in Nat : m \in Done
  <2> HIDE DEF Done
  <2> QED BY <1>1, <1>2, SetInduction
<1>4. n - 1 \in Nat /\ (n - 1) + 1 = n
  OBVIOUS
<1>5. Bounded(n)
  <2> HIDE DEF Bounded
  <2>1. n - 1 \in Done => Bounded((n - 1) + 1)
    BY <1>4
  <2> QED BY <1>3, <1>4, <2>1
<1> QED BY <1>5, NoSumYet

\* How long after the start of a window is what happens in it.
LEMMA Since ==
  \A t, day, w \in Int : t >= day - w /\ t < day =>
    t - (day - w) \in Int /\ t - (day - w) >= 0 /\ t - (day - w) < w
OBVIOUS

\* The day of an age that is less than h days is one of the first h.
LEMMA IndexOfDay ==
  \A a \in Int, d, h \in Nat \ {0} : a >= 0 /\ a < h * d => a \div d \in 0..(h - 1)
OBVIOUS

\* When no pair is left out and each counts the difference of a quantity at
\* its ends, the sum is what that quantity has grown.
LEMMA CountedAll ==
  ASSUME NEW n \in Nat, n >= 1, NEW A \in SUBSET (2..n), NEW B \in SUBSET (2..n), A \cap B = {},
         A \cup B = 2..n,
         NEW g, NEW u, \A i \in 1..n : u[i] \in Int,
         \A i \in 2..n : g[i] = u[i] - u[i - 1]
  PROVE  Summed(g, A) + Summed(g, B) = u[n] - u[1]
<1> DEFINE Equal(m) == Summed(g, UpTo(A, m)) + Summed(g, UpTo(B, m)) = u[m] - u[1]
           Done == {m \in Nat : m + 1 <= n => Equal(m + 1)}
<1>0. \A i \in 2..n : g[i] \in Int
  <2> TAKE i \in 2..n
  <2>1. i \in 1..n /\ i - 1 \in 1..n
    OBVIOUS
  <2>2. u[i] \in Int /\ u[i - 1] \in Int /\ g[i] = u[i] - u[i - 1]
    BY <2>1
  <2> QED BY <2>2
<1>s. StepsUp(g, A, n) /\ StepsUp(g, B, n)
  <2> HIDE DEF Equal, Done
  <2> QED BY <1>0, SumSteps
<1>1. 0 \in Done
  <2>1. Summed(g, UpTo(A, 1)) = 0 /\ Summed(g, UpTo(B, 1)) = 0 /\ u[1] \in Int
    <3>1. Summed(g, UpTo(A, 1)) = 0
      BY NoSumYet
    <3>2. Summed(g, UpTo(B, 1)) = 0
      BY NoSumYet
    <3> QED BY <3>1, <3>2
  <2>2. Equal(1)
    BY <2>1
  <2> QED BY <2>2
<1>2. ASSUME NEW m \in Nat, m \in Done PROVE m + 1 \in Done
  <2> SUFFICES ASSUME m + 2 <= n PROVE Equal(m + 2)
    OBVIOUS
  <2>1. /\ m + 1 \in 1..(n - 1) /\ (m + 1) + 1 = m + 2 /\ m + 2 \in 2..n /\ m + 1 \in 1..n
        /\ (m + 2) - 1 = m + 1 /\ m + 2 \in 1..n /\ 1 \in 1..n
    OBVIOUS
  <2>2. /\ u[m + 1] \in Int /\ u[m + 2] \in Int /\ u[1] \in Int
        /\ g[m + 2] = u[m + 2] - u[m + 1]
    BY <2>1
  <2>3. \/ m + 2 \in A /\ m + 2 \notin B
        \/ m + 2 \in B /\ m + 2 \notin A
    BY <2>1
  <2> DEFINE a == Summed(g, UpTo(A, m + 1))
             b == Summed(g, UpTo(B, m + 1))
             a2 == Summed(g, UpTo(A, m + 2))
             b2 == Summed(g, UpTo(B, m + 2))
  <2>4. a \in Int /\ a2 = a + (IF m + 2 \in A THEN g[m + 2] ELSE 0)
    <3>1. /\ Summed(g, UpTo(A, m + 1)) \in Int
          /\ Summed(g, UpTo(A, (m + 1) + 1)) =
               Summed(g, UpTo(A, m + 1)) + (IF (m + 1) + 1 \in A THEN g[(m + 1) + 1] ELSE 0)
      BY <1>s, <2>1 DEF StepsUp
    <3> QED BY <2>1, <3>1
  <2>5. b \in Int /\ b2 = b + (IF m + 2 \in B THEN g[m + 2] ELSE 0)
    <3>1. /\ Summed(g, UpTo(B, m + 1)) \in Int
          /\ Summed(g, UpTo(B, (m + 1) + 1)) =
               Summed(g, UpTo(B, m + 1)) + (IF (m + 1) + 1 \in B THEN g[(m + 1) + 1] ELSE 0)
      BY <1>s, <2>1 DEF StepsUp
    <3> QED BY <2>1, <3>1
  <2>6. a + b = u[m + 1] - u[1]
    BY <1>2, <2>1
  <2> HIDE DEF a, b, a2, b2
  <2>7. a2 + b2 = u[m + 2] - u[1]
    BY <2>2, <2>3, <2>4, <2>5, <2>6
  <2> QED BY <2>7 DEF a2, b2
<1>3. \A m \in Nat : m \in Done
  <2> HIDE DEF Done
  <2> QED BY <1>1, <1>2, SetInduction
<1>4. n - 1 \in Nat /\ (n - 1) + 1 = n
  OBVIOUS
<1>5. Equal(n)
  <2> HIDE DEF Equal
  <2>1. n - 1 \in Done => Equal((n - 1) + 1)
    BY <1>4
  <2> QED BY <1>3, <1>4, <2>1
<1> QED BY <1>5, NoSumYet

-----------------------------------------------------------------------------
(* The totals of a profile.                                                 *)

Used(seq) == [i \in Nat |-> Kwh(seq[i - 1], seq[i])]

LEMMA TotalIsSum ==
  ASSUME NEW seq, NEW pairs \in SUBSET Nat, IsFiniteSet(pairs)
  PROVE  Total(seq, pairs) = Summed(Used(seq), pairs)
<1> DEFINE g == Used(seq)
           Step(s, f) == IF s = {} THEN 0
                         ELSE Kwh(seq[(CHOOSE x \in s : TRUE) - 1], seq[CHOOSE x \in s : TRUE])
                                + f[s \ {CHOOSE x \in s : TRUE}]
           Iterates(f) == f = [s \in SUBSET pairs |-> Step(s, f)]
           iter == CHOOSE f : Iterates(f)
<1>1. \A f : Iterates(f) <=> Adds(f, g, pairs)
  <2> TAKE f
  <2>1. \A s \in SUBSET pairs : s # {} => (CHOOSE x \in s : TRUE) \in Nat
    OBVIOUS
  <2>2. \A s \in SUBSET pairs :
          Step(s, f) = IF s = {} THEN 0
                       ELSE g[CHOOSE x \in s : TRUE] + f[s \ {CHOOSE x \in s : TRUE}]
    <3> TAKE s \in SUBSET pairs
    <3>1. CASE s # {}
      <4>1. g[CHOOSE x \in s : TRUE] =
              Kwh(seq[(CHOOSE x \in s : TRUE) - 1], seq[CHOOSE x \in s : TRUE])
        BY <2>1, <3>1 DEF Used
      <4> QED BY <3>1, <4>1
    <3>2. CASE s = {}
      BY <3>2
    <3> QED BY <3>1, <3>2
  <2> HIDE DEF g, Step
  <2>3. [s \in SUBSET pairs |-> Step(s, f)] =
          [s \in SUBSET pairs |-> IF s = {} THEN 0
                                  ELSE g[CHOOSE x \in s : TRUE] + f[s \ {CHOOSE x \in s : TRUE}]]
    BY <2>2
  <2> QED BY <2>3 DEF Adds
<1>2. \E f : Iterates(f)
  <2> HIDE DEF g, Iterates
  <2> QED BY <1>1, AddsExists
<1>3. Adds(iter, g, pairs)
  <2> HIDE DEF g, Iterates
  <2> QED BY <1>1, <1>2
<1>4. Summed(g, pairs) = iter[pairs]
  <2> HIDE DEF g, iter
  <2> QED BY <1>3, SumIs
<1>5. Total(seq, pairs) = iter[pairs]
  BY Zenon DEF Total, MapThenSumSet, MapThenFoldSet
<1> QED BY <1>4, <1>5

-----------------------------------------------------------------------------
(* The rows are in the order of their times, and no register grows by more  *)
(* than was used.                                                           *)

\* What lies between one reading and a later one.
Grows(r, s) ==
  /\ r.used <= s.used
  /\ r.energy # Absent /\ s.energy # Absent => s.energy - r.energy <= s.used - r.used

Present == [energy |-> meter, used |-> used]

OrderInv ==
  /\ \A i, j \in DOMAIN rows : i < j => rows[i].at <= rows[j].at /\ Grows(rows[i], rows[j])
  /\ \A i \in DOMAIN rows :
       /\ rows[i].at <= clock
       /\ Grows(rows[i], Present)
       /\ Pending => Grows(rows[i], latest)
       /\ server = "commit" => rows[i].at <= tx[1].at
  /\ Pending => Grows(latest, Present)

\* What the house and its meter do in a step.
MeterMoves ==
  \/ UNCHANGED <<meter, used>>
  \/ \E use \in Nat : meter' = meter + use /\ used' = used + use
  \/ meter' = 0 /\ used' = used

\* What becomes of the reading that is being stored while no row is added.
RequestMoves ==
  \/ ~ Pending'
  \/ UNCHANGED <<server, latest, tx>>
  \/ /\ server' = "commit" /\ tx'[1].at = clock
     /\ Pending /\ UNCHANGED latest

LEMMA Slower ==
  \A m, u, n, v, e, w \in Int : m - e <= u - w /\ n - m <= v - u => n - e <= v - w
OBVIOUS

\* A reading and the present, and a later present.
LEMMA GrowsOn ==
  ASSUME NEW r \in Stamped, StateType, Grows(r, Present), MeterMoves
  PROVE  Grows(r, Present')
<1>1. r.used \in Nat /\ r.energy \in Nat \cup {Absent}
  BY DEF Stamped
<1>2. meter \in Nat /\ used \in Nat
  BY WorldNumbers
<1>3. meter # Absent
  BY <1>2, MeterConstants
<1>4. r.used <= used /\ (r.energy # Absent => meter - r.energy <= used - r.used)
  BY <1>3 DEF Grows, Present
<1>5. ASSUME meter' \in Nat, used' \in Nat, used <= used', meter' - meter <= used' - used
      PROVE  Grows(r, Present')
  <2>1. r.used <= used' /\ (r.energy # Absent => meter' - r.energy <= used' - r.used)
    <3>1. CASE r.energy = Absent
      BY <1>1, <1>2, <1>4, <1>5, <3>1
    <3>2. CASE r.energy # Absent
      <4>1. r.energy \in Nat
        BY <1>1, <3>2
      <4>2. meter - r.energy <= used - r.used /\ r.used <= used'
        BY <1>1, <1>2, <1>4, <1>5, <3>2
      <4>3. /\ r.energy \in Int /\ r.used \in Int /\ meter \in Int /\ used \in Int
            /\ meter' \in Int /\ used' \in Int
        BY <1>1, <1>2, <1>5, <4>1
      <4>4. meter' - meter <= used' - used
        BY <1>5
      <4> DEFINE e == r.energy
                 w == r.used
                 n == meter'
                 v == used'
      <4>5. n - e <= v - w
        <5>1. e \in Int /\ w \in Int /\ n \in Int /\ v \in Int /\ meter \in Int /\ used \in Int
          BY <4>3
        <5>2. meter - e <= used - w /\ n - meter <= v - used
          BY <4>2, <4>4
        <5> HIDE DEF e, w, n, v
        <5> QED BY <5>1, <5>2, Slower
      <4> QED BY <4>2, <4>5
    <3> QED BY <3>1, <3>2
  <2> QED BY <2>1 DEF Grows, Present
<1>6. CASE UNCHANGED <<meter, used>>
  BY <1>2, <1>5, <1>6
<1>7. CASE \E use \in Nat : meter' = meter + use /\ used' = used + use
  <2>1. PICK use \in Nat : meter' = meter + use /\ used' = used + use
    BY <1>7
  <2> QED BY <1>2, <1>5, <2>1
<1>8. CASE meter' = 0 /\ used' = used
  BY <1>2, <1>5, <1>8
<1> QED BY <1>6, <1>7, <1>8 DEF MeterMoves

LEMMA RowFacts ==
  ASSUME StateType, NEW i \in DOMAIN rows
  PROVE  rows[i] \in Stamped /\ rows[i].at \in Nat /\ DOMAIN rows = 1..Len(rows) /\ Len(rows) \in Nat
<1>1. rows \in Seq(Stamped)
  BY DEF StateType
<1>2. DOMAIN rows = 1..Len(rows) /\ rows[i] \in Stamped /\ Len(rows) \in Nat
  BY <1>1
<1> QED BY <1>2 DEF Stamped

LEMMA OrderStart == Init => OrderInv
<1> SUFFICES ASSUME Init PROVE OrderInv
  OBVIOUS
<1>1. DOMAIN rows = {} /\ ~ Pending
  BY DEF Init, Pending
<1> QED BY <1>1 DEF OrderInv

\* No row is added.
LEMMA SameRows ==
  ASSUME StateType, OrderInv, UNCHANGED rows, MeterMoves, clock' \in Nat, clock <= clock',
         RequestMoves
  PROVE  OrderInv'
<1>1. \A r \in Stamped : Grows(r, Present) => Grows(r, Present')
  BY GrowsOn
<1>2. \A i \in DOMAIN rows : rows[i].at <= clock'
  <2> TAKE i \in DOMAIN rows
  <2>1. rows[i].at \in Nat /\ rows[i].at <= clock /\ clock \in Nat
    BY RowFacts, WorldNumbers DEF OrderInv
  <2> QED BY <2>1
<1>3. \A i \in DOMAIN rows : Grows(rows[i], Present')
  BY <1>1, RowFacts DEF OrderInv
<1>4. ASSUME Pending'
      PROVE  /\ Pending /\ UNCHANGED latest
             /\ Grows(latest, Present')
             /\ \A i \in DOMAIN rows : server' = "commit" => rows[i].at <= tx'[1].at
  <2>1. Pending /\ UNCHANGED latest
    BY <1>4 DEF Pending, RequestMoves
  <2>2. latest \in Stamped /\ Grows(latest, Present)
    BY <2>1 DEF StateType, OrderInv, Pending
  <2>3. Grows(latest, Present')
    BY <1>1, <2>2
  <2>4. CASE UNCHANGED <<server, latest, tx>>
    BY <2>1, <2>3, <2>4 DEF OrderInv
  <2>5. CASE server' = "commit" /\ tx'[1].at = clock
    BY <2>1, <2>3, <2>5 DEF OrderInv
  <2> QED BY <1>4, <2>4, <2>5 DEF RequestMoves
<1>5. \A i \in DOMAIN rows : Pending' => Grows(rows[i], latest')
  BY <1>4 DEF OrderInv
<1>6. server' = "commit" => Pending'
  BY DEF Pending
<1>7. \A i, j \in DOMAIN rows' : i < j => rows'[i].at <= rows'[j].at /\ Grows(rows'[i], rows'[j])
  BY DEF OrderInv
<1>8. \A i \in DOMAIN rows' :
        /\ rows'[i].at <= clock'
        /\ Grows(rows'[i], Present')
        /\ Pending' => Grows(rows'[i], latest')
        /\ server' = "commit" => rows'[i].at <= tx'[1].at
  BY <1>2, <1>3, <1>4, <1>5, <1>6
<1>9. Pending' => Grows(latest', Present')
  BY <1>4
<1> QED BY <1>7, <1>8, <1>9 DEF OrderInv

LEMMA OrderStep == StateType /\ OrderInv /\ [Next]_vars => OrderInv'
<1> SUFFICES ASSUME StateType, OrderInv, [Next]_vars PROVE OrderInv'
  OBVIOUS
<1>1. clock \in Nat /\ used \in Nat /\ meter \in Nat
  BY WorldNumbers
<1>2. ASSUME UNCHANGED <<clock, meter, used, rows>>, RequestMoves PROVE OrderInv'
  BY <1>1, <1>2, SameRows DEF MeterMoves
<1>3. CASE Tick
  <2>1. PICK use \in Uses : meter' = meter + use /\ used' = used + use
    BY <1>3 DEF Tick
  <2>2. MeterMoves
    BY <2>1, MeterConstants DEF MeterMoves
  <2>3. clock' = clock + 1 /\ UNCHANGED <<server, latest, tx, rows>>
    BY <1>3 DEF Tick
  <2>4. clock' \in Nat /\ clock <= clock' /\ RequestMoves
    BY <1>1, <2>3 DEF RequestMoves
  <2> QED BY <2>2, <2>3, <2>4, SameRows
<1>4. CASE ExchangeMeter
  <2>1. /\ meter' = 0 /\ UNCHANGED <<clock, used, server, latest, tx, rows>>
    BY <1>4 DEF ExchangeMeter
  <2>2. MeterMoves /\ RequestMoves /\ clock' \in Nat /\ clock <= clock'
    BY <1>1, <2>1 DEF MeterMoves, RequestMoves
  <2> QED BY <2>1, <2>2, SameRows
<1>5. CASE Start \/ Crash \/ InsertFails \/ CommitFails \/ AnswerOk
  <2>1. server' \in {"idle", "down", "answer"} /\ UNCHANGED <<clock, meter, used, rows>>
    BY <1>5 DEF Start, Crash, InsertFails, CommitFails, AnswerOk, world
  <2>2. RequestMoves
    BY <2>1 DEF RequestMoves, Pending
  <2> QED BY <1>2, <2>1, <2>2
<1>6. CASE InsertReading
  <2>1. /\ server = "insert" /\ server' = "commit" /\ tx' = <<[latest EXCEPT !.at = clock]>>
        /\ UNCHANGED <<clock, meter, used, latest, rows>>
    BY <1>6 DEF InsertReading, world
  <2>2. latest \in Stamped /\ clock \in 0..MaxClock
    BY <2>1, WorldNumbers DEF StateType, Pending
  <2>3. tx'[1].at = clock
    BY <2>1, <2>2, RecordOfReading
  <2>4. RequestMoves
    BY <2>1, <2>3 DEF RequestMoves, Pending
  <2> QED BY <1>2, <2>1, <2>4
<1>7. CASE LoadGlobalMeterRows \/ BuildProfile \/ WriteReports
  <2>1. UNCHANGED <<clock, meter, used, server, latest, tx, rows>>
    BY <1>7, AnalysisStep DEF world
  <2>2. RequestMoves
    BY <2>1 DEF RequestMoves
  <2> QED BY <1>2, <2>1, <2>2
<1>8. CASE UNCHANGED vars
  <2>1. UNCHANGED <<clock, meter, used, server, latest, tx, rows>>
    BY <1>8 DEF vars
  <2>2. RequestMoves
    BY <2>1 DEF RequestMoves
  <2> QED BY <1>2, <2>1, <2>2
<1>9. CASE PostIngest
  <2>1. /\ latest' \in Reading /\ accepted < MaxReadings /\ server' = "insert"
        /\ UNCHANGED <<clock, meter, used, rows>>
    BY <1>9 DEF PostIngest, world
  <2>2. latest'.energy \in {meter, Absent} /\ latest'.used = used
    BY <2>1, ReadingType
  <2>3. \A r \in Stamped : Grows(r, Present) => Grows(r, latest')
    <3> TAKE r \in Stamped
    <3>1. meter # Absent
      BY <1>1, MeterConstants
    <3> QED BY <2>2, <3>1 DEF Grows, Present
  <2>4. Grows(latest', Present')
    <3>1. meter # Absent /\ used <= used /\ meter - meter <= used - used
      BY <1>1, MeterConstants
    <3> QED BY <2>1, <2>2, <3>1 DEF Grows, Present
  <2>5. \A i \in DOMAIN rows : rows[i].at <= clock /\ Grows(rows[i], Present)
    BY DEF OrderInv
  <2>6. \A i \in DOMAIN rows' :
          /\ rows'[i].at <= clock'
          /\ Grows(rows'[i], Present')
          /\ Pending' => Grows(rows'[i], latest')
          /\ server' = "commit" => rows'[i].at <= tx'[1].at
    BY <2>1, <2>3, <2>5, RowFacts DEF Present
  <2>7. \A i, j \in DOMAIN rows' : i < j => rows'[i].at <= rows'[j].at /\ Grows(rows'[i], rows'[j])
    BY <2>1 DEF OrderInv
  <2> QED BY <2>4, <2>6, <2>7 DEF OrderInv
<1>10. CASE Commit
  <2>1. /\ server = "commit" /\ server' = "answer" /\ rows' = rows \o tx
        /\ UNCHANGED <<clock, meter, used, latest>>
    BY <1>10 DEF Commit, world
  <2>2. PICK at \in 0..clock : tx = <<[latest EXCEPT !.at = at]>>
    BY <2>1 DEF StateType
  <2>3. latest \in Stamped /\ at \in 0..MaxClock /\ at \in Nat /\ at <= clock
    <3>1. latest \in Stamped
      BY <2>1 DEF StateType, Pending
    <3>2. clock \in 0..MaxClock /\ MaxClock \in Nat
      BY WorldNumbers
    <3>3. at \in 0..MaxClock
      BY <2>2, <3>2, Bounds
    <3>4. \A n \in Nat : \A a \in 0..n : a \in Nat /\ a <= n
      OBVIOUS
    <3> QED BY <1>1, <3>1, <3>3, <3>4
  <2> DEFINE row == [latest EXCEPT !.at = at]
             n == Len(rows)
  <2>4. row \in Stamped /\ row.at = at /\ row.energy = latest.energy /\ row.used = latest.used
    BY <2>3, RecordOfReading
  <2>5. tx = <<row>> /\ tx[1] = row
    BY <2>2
  <2>6. rows \in Seq(Stamped)
    BY DEF StateType
  <2> HIDE DEF row
  <2>7. /\ rows' \in Seq(Stamped) /\ Len(rows') = n + 1
        /\ \A i \in 1..n : rows'[i] = rows[i]
        /\ rows'[n + 1] = row
    BY <2>1, <2>4, <2>5, <2>6, OneMoreRow
  <2>8. DOMAIN rows = 1..n /\ DOMAIN rows' = 1..(n + 1) /\ n \in Nat
    BY <2>6, <2>7
  <2>9. \A r : Grows(r, latest) => Grows(r, row)
    BY <2>4 DEF Grows
  <2>10. Grows(latest, Present) => Grows(row, Present)
    BY <2>4 DEF Grows
  <2>11. Grows(row, Present) /\ \A i \in 1..n : Grows(rows[i], row) /\ rows[i].at <= row.at
    BY <2>1, <2>5, <2>8, <2>9, <2>10 DEF OrderInv, Pending
  <2>12. \A i, j \in DOMAIN rows' : i < j => rows'[i].at <= rows'[j].at /\ Grows(rows'[i], rows'[j])
    <3> SUFFICES ASSUME NEW i \in 1..(n + 1), NEW j \in 1..(n + 1), i < j
                 PROVE  rows'[i].at <= rows'[j].at /\ Grows(rows'[i], rows'[j])
      BY <2>8
    <3>1. i \in 1..n /\ (j \in 1..n \/ j = n + 1)
      BY <2>8
    <3>2. CASE j \in 1..n
      BY <2>7, <2>8, <3>1, <3>2 DEF OrderInv
    <3>3. CASE j = n + 1
      BY <2>7, <2>11, <3>1, <3>3
    <3> QED BY <3>1, <3>2, <3>3
  <2>13. \A i \in DOMAIN rows' : rows'[i].at <= clock' /\ Grows(rows'[i], Present')
    <3> SUFFICES ASSUME NEW i \in 1..(n + 1)
                 PROVE  rows'[i].at <= clock /\ Grows(rows'[i], Present)
      BY <2>1, <2>8 DEF Present
    <3>1. i \in 1..n \/ i = n + 1
      BY <2>8
    <3>2. CASE i \in 1..n
      BY <2>7, <2>8, <3>2 DEF OrderInv
    <3>3. CASE i = n + 1
      BY <2>3, <2>4, <2>7, <2>11, <3>3
    <3> QED BY <3>1, <3>2, <3>3
  <2>14. ~ Pending' /\ server' # "commit"
    BY <2>1 DEF Pending
  <2> QED BY <2>12, <2>13, <2>14 DEF OrderInv
<1> QED
  BY <1>3, <1>4, <1>5, <1>6, <1>7, <1>8, <1>9, <1>10 DEF Next

-----------------------------------------------------------------------------
(* What the analysis reads and makes of it.                                 *)

\* Neighbours of a profile's rows are earlier and later readings, and none of
\* the rows is from the future.
Successive(seq, limit) ==
  /\ seq \in Seq(Stamped)
  /\ \A i \in 1..Len(seq) : seq[i].at < limit
  /\ \A i \in 2..Len(seq) : Grows(seq[i - 1], seq[i])

LEMMA RangeIsSuccessive ==
  ASSUME StateType, OrderInv, NEW from \in Int, NEW to \in Int
  PROVE  Successive(ReadRange(from, to), clock + 1)
<1> DEFINE n == Len(rows)
           found == {i \in DOMAIN rows : from <= rows[i].at /\ rows[i].at < to}
           Before(i, j) == rows[i].at < rows[j].at \/ (rows[i].at = rows[j].at /\ i < j)
           Nth(k) == CHOOSE i \in found : Cardinality({j \in found : Before(j, i)}) = k - 1
           N == Cardinality(found)
           seq == [k \in 1..N |-> rows[Nth(k)]]
<1>1. rows \in Seq(Stamped) /\ n \in Nat /\ DOMAIN rows = 1..n
  <2>1. rows \in Seq(Stamped)
    BY DEF StateType
  <2> QED BY <2>1
<1>2. found \in SUBSET (1..n)
  BY <1>1
<1>3. ASSUME NEW i \in found, NEW j \in found PROVE Before(j, i) <=> j < i
  <2>1. i \in DOMAIN rows /\ j \in DOMAIN rows /\ i \in Int /\ j \in Int
    BY <1>1
  <2>2. rows[i].at \in Nat /\ rows[j].at \in Nat
    BY <2>1, RowFacts
  <2>3. (i < j => rows[i].at <= rows[j].at) /\ (j < i => rows[j].at <= rows[i].at)
    BY <2>1 DEF OrderInv
  <2> HIDE DEF found
  <2>4. CASE i < j
    BY <2>1, <2>2, <2>3, <2>4
  <2>5. CASE j < i
    BY <2>1, <2>2, <2>3, <2>5
  <2>6. CASE i = j
    BY <2>1, <2>2, <2>6
  <2> QED BY <2>1, <2>4, <2>5, <2>6
<1>4. \A i \in found : {j \in found : Before(j, i)} = Below(found, i)
  <2> HIDE DEF found, Before
  <2> QED BY <1>3 DEF Below
<1>5. /\ N \in Nat
      /\ \A k \in 1..N : \E i \in found : Cardinality(Below(found, i)) = k - 1
      /\ \A i, j \in found : i < j => Cardinality(Below(found, i)) < Cardinality(Below(found, j))
  <2> HIDE DEF found
  <2> QED BY <1>1, <1>2, Ranks
<1>6. \A k \in 1..N : Nth(k) \in found /\ Cardinality(Below(found, Nth(k))) = k - 1
  <2> TAKE k \in 1..N
  <2> HIDE DEF found, Before
  <2>1. \E i \in found : Cardinality({j \in found : Before(j, i)}) = k - 1
    BY <1>4, <1>5
  <2>2. Nth(k) \in found /\ Cardinality({j \in found : Before(j, Nth(k))}) = k - 1
    BY <2>1
  <2> HIDE DEF Nth
  <2> QED BY <1>4, <2>2
<1>7. \A k \in 1..N : Nth(k) \in DOMAIN rows
  BY <1>6
<1>8. ASSUME NEW k \in 2..N PROVE Nth(k - 1) < Nth(k)
  <2>1. k \in 1..N /\ k - 1 \in 1..N /\ (k - 1) - 1 < k - 1
    BY <1>5
  <2>2. \A i \in found : i \in Int
    BY <1>2
  <2> HIDE DEF found, Nth, N
  <2> DEFINE a == Nth(k - 1)
             b == Nth(k)
  <2>3. a \in found /\ b \in found
    BY <1>6, <2>1
  <2>4. Cardinality(Below(found, a)) = (k - 1) - 1 /\ Cardinality(Below(found, b)) = k - 1
    BY <1>6, <2>1
  <2> HIDE DEF a, b
  <2>5. Cardinality(Below(found, a)) < Cardinality(Below(found, b))
    BY <2>1, <2>4
  <2>6. ~ (Cardinality(Below(found, b)) < Cardinality(Below(found, a)))
    BY <2>1, <2>4
  <2>7. ~ (b < a) /\ a # b
    BY <1>5, <2>3, <2>4, <2>5, <2>6
  <2>8. a < b
    BY <2>2, <2>3, <2>7
  <2> QED BY <2>8 DEF a, b
<1>9. seq \in Seq(Stamped) /\ Len(seq) = N
  <2>1. \A k \in 1..N : rows[Nth(k)] \in Stamped
    BY <1>7, RowFacts
  <2> HIDE DEF N, Nth
  <2>2. seq \in [1..N -> Stamped]
    BY <2>1
  <2> HIDE DEF seq
  <2>3. seq \in Seq(Stamped)
    BY <1>5, <2>2, SeqDef
  <2>4. DOMAIN seq = 1..N
    BY <2>2
  <2> QED BY <1>5, <2>3, <2>4
<1>10. \A k \in 1..N : seq[k].at < clock + 1
  <2> TAKE k \in 1..N
  <2>1. rows[Nth(k)].at \in Nat /\ rows[Nth(k)].at <= clock /\ clock \in Nat
    BY <1>7, RowFacts, WorldNumbers DEF OrderInv
  <2> HIDE DEF Nth, N
  <2>2. seq[k] = rows[Nth(k)]
    OBVIOUS
  <2> QED BY <2>1, <2>2
<1>11. \A k \in 2..N : Grows(seq[k - 1], seq[k])
  <2> TAKE k \in 2..N
  <2>1. k \in 1..N /\ k - 1 \in 1..N
    BY <1>5
  <2>2. Nth(k - 1) \in DOMAIN rows /\ Nth(k) \in DOMAIN rows /\ Nth(k - 1) < Nth(k)
    BY <1>7, <1>8, <2>1
  <2> HIDE DEF Nth, N
  <2>3. Grows(rows[Nth(k - 1)], rows[Nth(k)])
    BY <2>2 DEF OrderInv
  <2>4. seq[k - 1] = rows[Nth(k - 1)] /\ seq[k] = rows[Nth(k)]
    BY <2>1
  <2> QED BY <2>3, <2>4
<1>12. ReadRange(from, to) = seq
  BY DEF ReadRange
<1> HIDE DEF seq, N
<1> QED BY <1>9, <1>10, <1>11, <1>12 DEF Successive

\* What a day is: it holds the present, and a row of the days before it that
\* is not too old has an index among theirs.
LEMMA DayHoldsPresent ==
  ASSUME StateType
  PROVE  DayStart \in Nat /\ clock < DayStart + Day
<1>1. clock \in Nat /\ Day \in Nat \ {0}
  BY WorldNumbers, MeterConstants
<1>2. \A a \in Nat, b \in Nat \ {0} : (a \div b) * b \in Nat /\ a < (a \div b) * b + b
  OBVIOUS
<1> QED BY <1>1, <1>2 DEF DayStart

LEMMA KwhType ==
  ASSUME NEW r \in Stamped, NEW s \in Stamped
  PROVE  /\ Kwh(r, s) \in Int
         /\ r.energy # Absent /\ s.energy # Absent =>
              /\ Kwh(r, s) = s.energy - r.energy
              /\ r.energy \in Int /\ s.energy \in Int
<1>1. /\ r.energy \in Nat \cup {Absent} /\ s.energy \in Nat \cup {Absent}
      /\ r.at \in Int /\ s.at \in Int /\ s.watts \in Watts /\ Watts \subseteq Nat
  BY MeterConstants DEF Stamped
<1>2. s.watts * (s.at - r.at) \in Int
  <2>1. \A a, b, c \in Int : a * (b - c) \in Int
    OBVIOUS
  <2>2. \A w \in Watts : w \in Int
    BY MeterConstants
  <2> QED BY <1>1, <2>1, <2>2
<1>3. CASE r.energy # Absent /\ s.energy # Absent
  <2>1. r.energy \in Int /\ s.energy \in Int /\ Kwh(r, s) = s.energy - r.energy
    BY <1>1, <1>3 DEF Kwh
  <2> QED BY <2>1
<1>4. CASE ~ (r.energy # Absent /\ s.energy # Absent)
  BY <1>2, <1>4 DEF Kwh
<1> QED BY <1>3, <1>4

LEMMA PairsOfRows ==
  ASSUME NEW seq \in Seq(Stamped), NEW today \in Int
  PROVE  /\ Len(seq) \in Nat /\ IsFiniteSet(2..Len(seq))
         /\ \A i \in 1..Len(seq) : seq[i] \in Stamped /\ seq[i].at \in Int /\ seq[i].used \in Int
         /\ \A i \in 2..Len(seq) : i \in 1..Len(seq) /\ i - 1 \in 1..Len(seq)
         /\ Today(seq, today) \in SUBSET (2..Len(seq))
         /\ History(seq, today) \in SUBSET (2..Len(seq))
         /\ Today(seq, today) \cap History(seq, today) = {}
         /\ \A i \in 2..Len(seq) :
              /\ Used(seq)[i] = Kwh(seq[i - 1], seq[i])
              /\ Used(seq)[i] \in Int
<1>1. Len(seq) \in Nat /\ IsFiniteSet(2..Len(seq))
  <2>1. Len(seq) \in Nat
    OBVIOUS
  <2>2. 2 \in Int /\ Len(seq) \in Int
    BY <2>1
  <2> QED BY <2>1, <2>2, FS_Interval
<1>2. \A i \in 1..Len(seq) : seq[i] \in Stamped /\ seq[i].at \in Int /\ seq[i].used \in Int
  <2>1. \A r \in Stamped : r.at \in Int /\ r.used \in Int
    BY DEF Stamped
  <2>2. \A i \in 1..Len(seq) : seq[i] \in Stamped
    OBVIOUS
  <2> QED BY <2>1, <2>2
<1>3. \A i \in 2..Len(seq) : i \in Nat /\ i \in 1..Len(seq) /\ i - 1 \in 1..Len(seq)
  BY <1>1
<1>4. Today(seq, today) \in SUBSET (2..Len(seq)) /\ History(seq, today) \in SUBSET (2..Len(seq))
  BY Zenon DEF Today, History, Pairs
<1>5. Today(seq, today) \cap History(seq, today) = {}
  <2> SUFFICES ASSUME NEW i \in Today(seq, today), i \in History(seq, today) PROVE FALSE
    OBVIOUS
  <2>1. today <= seq[i].at /\ seq[i].at < today
    BY DEF Today, History, IsToday, IsHistory
  <2>2. seq[i].at \in Int
    BY <1>2, <1>3, <1>4
  <2> QED BY <2>1, <2>2
<1>6. ASSUME NEW i \in 2..Len(seq)
      PROVE  Used(seq)[i] = Kwh(seq[i - 1], seq[i]) /\ Used(seq)[i] \in Int
  <2>1. i \in Nat /\ seq[i] \in Stamped /\ seq[i - 1] \in Stamped
    BY <1>2, <1>3
  <2>2. Used(seq)[i] = Kwh(seq[i - 1], seq[i])
    BY <2>1 DEF Used
  <2> QED BY <2>1, <2>2, KwhType
<1> QED BY <1>1, <1>2, <1>3, <1>4, <1>5, <1>6

LEMMA TotalsAreSums ==
  ASSUME NEW seq \in Seq(Stamped), NEW pairs \in SUBSET (2..Len(seq))
  PROVE  Total(seq, pairs) = Summed(Used(seq), pairs) /\ Total(seq, pairs) \in Int
<1>1. /\ IsFiniteSet(2..Len(seq))
      /\ \A i \in 2..Len(seq) : Used(seq)[i] \in Int
  BY PairsOfRows
<1>2. IsFiniteSet(pairs) /\ pairs \in SUBSET Nat
  <2>1. IsFiniteSet(pairs)
    BY <1>1, FS_Subset
  <2> QED BY <2>1
<1>3. Total(seq, pairs) = Summed(Used(seq), pairs)
  BY <1>2, TotalIsSum
<1>4. Summed(Used(seq), pairs) \in Int
  <2> DEFINE S == 2..Len(seq)
             g == Used(seq)
  <2>1. IsFiniteSet(S) /\ pairs \in SUBSET S /\ \A x \in S : g[x] \in Int
    BY <1>1
  <2> HIDE DEF S, g
  <2>2. Summed(g, pairs) \in Int
    BY <2>1, SumAny
  <2> QED BY <2>2 DEF g
<1> QED BY <1>3, <1>4

-----------------------------------------------------------------------------
(* The profile is what its rows say.                                        *)

AnalysisInv ==
  /\ analysis.day \in Int /\ analysis.today \in Int /\ analysis.history \in Int
  /\ analysis.state = "loaded" =>
       Successive(analysis.rows, clock + 1) /\ Len(analysis.rows) >= 2
  /\ analysis.state = "built" =>
       /\ Successive(analysis.rows, analysis.day + Day) /\ Len(analysis.rows) >= 2
       /\ analysis.today = Total(analysis.rows, Today(analysis.rows, analysis.day))
       /\ analysis.history = Total(analysis.rows, History(analysis.rows, analysis.day))

LEMMA Later ==
  ASSUME NEW seq, NEW a \in Int, NEW b \in Int, a <= b, Successive(seq, a)
  PROVE  Successive(seq, b)
<1>1. seq \in Seq(Stamped)
  BY DEF Successive
<1>2. ASSUME NEW i \in 1..Len(seq) PROVE seq[i].at < b
  <2>1. seq[i].at < a /\ seq[i].at \in Int
    BY <1>1, PairsOfRows DEF Successive
  <2> QED BY <2>1
<1> QED BY <1>1, <1>2 DEF Successive

LEMMA AnalysisStart == Init => AnalysisInv
BY DEF Init, Nothing, AnalysisInv

LEMMA AnalysisInvStep == StateType /\ OrderInv /\ AnalysisInv /\ [Next]_vars => AnalysisInv'
<1> SUFFICES ASSUME StateType, OrderInv, AnalysisInv, [Next]_vars PROVE AnalysisInv'
  OBVIOUS
<1>1. clock \in Nat /\ clock + 1 \in Int
  BY WorldNumbers
<1>2. ASSUME UNCHANGED analysis, clock' = clock \/ clock' = clock + 1 PROVE AnalysisInv'
  <2>1. clock' + 1 \in Int /\ clock + 1 <= clock' + 1
    BY <1>1, <1>2
  <2>2. \A seq : Successive(seq, clock + 1) => Successive(seq, clock' + 1)
    BY <1>1, <2>1, Later
  <2> QED BY <1>2, <2>2 DEF AnalysisInv
<1>3. CASE Tick
  BY <1>2, <1>3 DEF Tick
<1>4. CASE \/ ExchangeMeter \/ Start \/ PostIngest \/ InsertReading \/ InsertFails
           \/ Commit \/ CommitFails \/ AnswerOk \/ Crash \/ UNCHANGED vars
  <2>1. UNCHANGED <<clock, analysis>>
    BY <1>4 DEF ExchangeMeter, Start, PostIngest, InsertReading, InsertFails, Commit,
                CommitFails, AnswerOk, Crash, vars, world
  <2> QED BY <1>2, <2>1
<1>5. CASE WriteReports
  <2>1. analysis' = Nothing
    BY <1>5 DEF WriteReports
  <2> QED BY <2>1 DEF Nothing, AnalysisInv
<1>6. CASE LoadGlobalMeterRows
  <2> DEFINE found == ReadRange(DayStart - LoadDays * Day, DayStart + Day)
  <2>1. /\ analysis' = [Nothing EXCEPT !.state = "loaded", !.rows = found]
        /\ Len(found) >= 2 /\ UNCHANGED clock
    BY <1>6 DEF LoadGlobalMeterRows, world
  <2>2. Successive(found, clock + 1)
    <3>1. DayStart \in Int /\ Day \in Int /\ LoadDays \in Int
      BY DayHoldsPresent, MeterConstants
    <3>2. \A a, b, c \in Int : a - b * c \in Int /\ a + c \in Int
      OBVIOUS
    <3>3. DayStart - LoadDays * Day \in Int /\ DayStart + Day \in Int
      BY <3>1, <3>2
    <3> QED BY <3>3, RangeIsSuccessive
  <2> HIDE DEF found
  <2>3. /\ analysis'.state = "loaded" /\ analysis'.rows = found
        /\ analysis'.day = 0 /\ analysis'.today = 0 /\ analysis'.history = 0
    BY <2>1 DEF Nothing
  <2> QED BY <2>1, <2>2, <2>3 DEF AnalysisInv
<1>7. CASE BuildProfile
  <2> DEFINE seq     == analysis.rows
             today   == Total(seq, Today(seq, DayStart))
             history == Total(seq, History(seq, DayStart))
             made    == [state |-> "built", rows |-> seq, day |-> DayStart,
                         today |-> today, history |-> history]
  <2>1. /\ analysis.state = "loaded"
        /\ analysis' = IF today > 0 \/ history > 0 THEN made ELSE Nothing
    BY <1>7 DEF BuildProfile
  <2>2. Successive(seq, clock + 1) /\ Len(seq) >= 2
    BY <2>1 DEF AnalysisInv
  <2>3. DayStart \in Int /\ Day \in Int /\ clock + 1 <= DayStart + Day
    BY <1>1, DayHoldsPresent, MeterConstants
  <2>4. Successive(seq, DayStart + Day)
    <3>1. DayStart + Day \in Int
      BY <2>3
    <3> QED BY <1>1, <2>2, <2>3, <3>1, Later
  <2>5. today \in Int /\ history \in Int
    <3>1. seq \in Seq(Stamped)
      BY <2>2 DEF Successive
    <3> QED BY <2>3, <3>1, PairsOfRows, TotalsAreSums
  <2>6. CASE analysis' = made
    <3>1. /\ analysis'.state = "built" /\ analysis'.rows = seq /\ analysis'.day = DayStart
          /\ analysis'.today = today /\ analysis'.history = history
      BY <2>6
    <3> HIDE DEF made
    <3> QED BY <2>2, <2>3, <2>4, <2>5, <3>1 DEF AnalysisInv
  <2>7. CASE analysis' = Nothing
    BY <2>7 DEF Nothing, AnalysisInv
  <2> QED BY <2>1, <2>6, <2>7
<1> QED BY <1>3, <1>4, <1>5, <1>6, <1>7 DEF Next

-----------------------------------------------------------------------------
IngestInv == StateType /\ ToldInv /\ OrderInv /\ AnalysisInv

LEMMA IngestIsInvariant == Spec => []IngestInv
<1>1. Init => IngestInv
  BY StateTypeStart, OrderStart, AnalysisStart DEF IngestInv
<1>2. IngestInv /\ [Next]_vars => IngestInv'
  BY StateTypeStep, OrderStep, AnalysisInvStep DEF IngestInv
<1> QED BY <1>1, <1>2, PTL DEF Spec

(* The types; a transaction is open only between the INSERT and its COMMIT,   *)
(* whatever fails, and holds the reading that is being answered.              *)
THEOREM TypeCorrect == Spec => []TypeOK
<1>1. IngestInv => TypeOK
  <2> SUFFICES ASSUME IngestInv PROVE TypeOK
    OBVIOUS
  <2>1. {analysis.day, analysis.today, analysis.history} \subseteq Int
    BY DEF IngestInv, AnalysisInv
  <2>2. IF server = "commit" THEN Len(tx) = 1 /\ tx[1].nr = latest.nr ELSE tx = <<>>
    <3>1. CASE server # "commit"
      BY <3>1 DEF IngestInv, StateType
    <3>2. CASE server = "commit"
      <4>1. latest \in Stamped
        BY <3>2 DEF IngestInv, StateType, Pending
      <4>2. PICK at \in 0..clock : tx = <<[latest EXCEPT !.at = at]>>
        BY <3>2 DEF IngestInv, StateType
      <4>3. at \in 0..MaxClock
        <5>1. clock \in 0..MaxClock /\ MaxClock \in Nat
          BY WorldNumbers DEF IngestInv
        <5> QED BY <5>1, Bounds
      <4>4. [latest EXCEPT !.at = at].nr = latest.nr
        BY <4>1, <4>3, RecordOfReading
      <4> QED BY <3>2, <4>2, <4>4
    <3> QED BY <3>1, <3>2
  <2>3. {meter, used} \subseteq Nat
    BY WorldNumbers DEF IngestInv
  <2> QED BY <2>1, <2>2, <2>3 DEF IngestInv, StateType, WorldType, Pending, TypeOK
<1> QED BY <1>1, IngestIsInvariant, PTL

(* Whatever was lost, whenever the meter was exchanged and however the rows   *)
(* fall on the days: a profile never has more than was used between its first *)
(* row and its last.                                                          *)
THEOREM CountsNothingTwice == Spec => []NothingCountedTwice
<1>1. IngestInv => NothingCountedTwice
  <2> DEFINE seq == analysis.rows
             n   == Len(seq)
             A   == Today(seq, analysis.day)
             B   == History(seq, analysis.day)
             g   == Used(seq)
             u   == [i \in 1..n |-> seq[i].used]
  <2> SUFFICES ASSUME IngestInv, analysis.state = "built", AllHaveEnergy
               PROVE  analysis.today + analysis.history <= LastRow.used - FirstRow.used
    BY DEF NothingCountedTwice
  <2>1. /\ seq \in Seq(Stamped) /\ n >= 2 /\ analysis.day \in Int
        /\ \A i \in 2..n : Grows(seq[i - 1], seq[i])
        /\ analysis.today = Total(seq, A) /\ analysis.history = Total(seq, B)
    BY DEF IngestInv, AnalysisInv, Successive
  <2>2. /\ n \in Nat /\ A \in SUBSET (2..n) /\ B \in SUBSET (2..n) /\ A \cap B = {}
        /\ \A i \in 1..n : seq[i] \in Stamped /\ seq[i].used \in Int
        /\ \A i \in 2..n : i \in 1..n /\ i - 1 \in 1..n
        /\ \A i \in 2..n : g[i] = Kwh(seq[i - 1], seq[i]) /\ g[i] \in Int
    BY <2>1, PairsOfRows
  <2>3. analysis.today = Summed(g, A) /\ analysis.history = Summed(g, B)
    BY <2>1, <2>2, TotalsAreSums
  <2>4. \A i \in 1..n : u[i] \in Int
    BY <2>2
  <2>5. \A i \in 2..n : u[i - 1] <= u[i]
    BY <2>1, <2>2 DEF Grows
  <2>6. \A i \in 1..n : seq[i].energy # Absent
    BY <2>1 DEF AllHaveEnergy, Range
  <2>7. \A i \in A \cup B : g[i] <= u[i] - u[i - 1]
    <3> TAKE i \in A \cup B
    <3>1. i \in 2..n /\ i \in 1..n /\ i - 1 \in 1..n
      BY <2>2
    <3>2. g[i] = seq[i].energy - seq[i - 1].energy
      BY <2>2, <2>6, <3>1, KwhType
    <3>3. seq[i].energy - seq[i - 1].energy <= seq[i].used - seq[i - 1].used
      BY <2>1, <2>6, <3>1 DEF Grows
    <3> QED BY <3>1, <3>2, <3>3
  <2>8. u[n] = LastRow.used /\ u[1] = FirstRow.used
    BY <2>1, <2>2 DEF LastRow, FirstRow, Last
  <2> HIDE DEF A, B, g, u, n
  <2>9. Summed(g, A) + Summed(g, B) <= u[n] - u[1]
    <3>1. n \in Nat /\ n >= 1
      BY <2>1, <2>2
    <3>2. \A i \in 2..n : g[i] \in Int
      BY <2>2
    <3>3. A \in SUBSET (2..n) /\ B \in SUBSET (2..n) /\ A \cap B = {}
      BY <2>2
    <3> QED BY <3>1, <3>2, <3>3, <2>4, <2>5, <2>7, CountedOnce, Zenon
  <2> QED BY <2>3, <2>8, <2>9
<1> QED BY <1>1, IngestIsInvariant, PTL

(* As long as the readings follow each other, whatever else was refused or    *)
(* lost: a profile has all that the register says was used.                   *)
THEOREM MissesNothing == Spec => []NothingMissed
<1>1. IngestInv => NothingMissed
  <2> DEFINE seq == analysis.rows
             n   == Len(seq)
             A   == Today(seq, analysis.day)
             B   == History(seq, analysis.day)
             g   == Used(seq)
             u   == [i \in 1..n |-> seq[i].energy]
  <2> SUFFICES ASSUME IngestInv, analysis.state = "built", AllHaveEnergy, Regular
               PROVE  analysis.today + analysis.history = LastRow.energy - FirstRow.energy
    BY DEF NothingMissed
  <2>1. /\ seq \in Seq(Stamped) /\ n >= 2 /\ analysis.day \in Int
        /\ \A i \in 1..n : seq[i].at < analysis.day + Day
        /\ analysis.today = Total(seq, A) /\ analysis.history = Total(seq, B)
    BY DEF IngestInv, AnalysisInv, Successive
  <2>2. /\ n \in Nat /\ A \in SUBSET (2..n) /\ B \in SUBSET (2..n) /\ A \cap B = {}
        /\ \A i \in 1..n : seq[i] \in Stamped /\ seq[i].at \in Int
        /\ \A i \in 2..n : i \in 1..n /\ i - 1 \in 1..n
        /\ \A i \in 2..n : g[i] = Kwh(seq[i - 1], seq[i])
    BY <2>1, PairsOfRows
  <2>3. analysis.today = Summed(g, A) /\ analysis.history = Summed(g, B)
    BY <2>1, <2>2, TotalsAreSums
  <2>4. \A i \in 1..n : seq[i].energy # Absent
    BY <2>1 DEF AllHaveEnergy, Range
  <2>5. \A i \in 2..n : /\ g[i] = seq[i].energy - seq[i - 1].energy
                        /\ seq[i].energy \in Int /\ seq[i - 1].energy \in Int
    BY <2>2, <2>4, KwhType
  <2>6. \A i \in 1..n : u[i] \in Int
    <3> TAKE i \in 1..n
    <3>1. seq[i] \in Stamped /\ seq[i].energy # Absent
      BY <2>2, <2>4
    <3> QED BY <3>1, KwhType
  <2>7. \A i \in 2..n : g[i] = u[i] - u[i - 1]
    BY <2>2, <2>5
  <2>8. A \cup B = 2..n
    <3> SUFFICES ASSUME NEW i \in 2..n PROVE i \in A \cup B
      BY <2>2
    <3> DEFINE at == seq[i].at
    <3>1. /\ at - seq[i - 1].at \in 1..MaxGap
          /\ seq[i].energy - seq[i - 1].energy \in 0..MaxStep
          /\ at >= analysis.day - HistoryDays * Day
          /\ at < analysis.day + Day /\ at \in Int /\ seq[i - 1].at \in Int
      BY <2>1, <2>2 DEF Regular
    <3>2. MaxGap \in Nat /\ Day \in Nat \ {0} /\ HistoryDays \in Nat \ {0}
      BY MeterConstants
    <3>3. i \in Pairs(seq)
      <4>1. at > seq[i - 1].at /\ at - seq[i - 1].at <= MaxGap
        BY <3>1, <3>2
      <4>2. Kwh(seq[i - 1], seq[i]) \in 0..MaxStep
        BY <2>2, <2>5, <3>1
      <4> QED BY <4>1, <4>2, Zenon DEF Pairs, Counts
    <3>4. CASE analysis.day <= at
      <4>1. IsToday(seq[i], analysis.day)
        BY <3>1, <3>4 DEF IsToday
      <4> QED BY <3>3, <4>1 DEF Today
    <3>5. CASE ~ (analysis.day <= at)
      <4>1. at < analysis.day
        BY <2>1, <3>1, <3>5
      <4>2. DayIndex(seq[i], analysis.day) \in 0..(HistoryDays - 1)
        <5> DEFINE age == at - (analysis.day - HistoryDays * Day)
        <5>1. HistoryDays * Day \in Int
          BY <3>2
        <5>2. age \in Int /\ age >= 0 /\ age < HistoryDays * Day
          <6> DEFINE w == HistoryDays * Day
          <6>1. w \in Int /\ at >= analysis.day - w
            BY <3>1, <5>1
          <6>2. at \in Int /\ analysis.day \in Int
            BY <2>1, <3>1
          <6> HIDE DEF w, at
          <6> QED BY <4>1, <6>1, <6>2, Since DEF w
        <5>3. DayIndex(seq[i], analysis.day) = age \div Day
          BY <5>2 DEF DayIndex
        <5> HIDE DEF age
        <5>4. age \div Day \in 0..(HistoryDays - 1)
          BY <3>2, <5>2, IndexOfDay
        <5> QED BY <5>3, <5>4
      <4>3. IsHistory(seq[i], analysis.day)
        BY <4>1, <4>2 DEF IsHistory
      <4> QED BY <3>3, <4>3 DEF History
    <3> QED BY <3>4, <3>5
  <2>9. u[n] = LastRow.energy /\ u[1] = FirstRow.energy
    BY <2>1, <2>2 DEF LastRow, FirstRow, Last
  <2> HIDE DEF A, B, g, u, n
  <2>10. Summed(g, A) + Summed(g, B) = u[n] - u[1]
    <3>1. n \in Nat /\ n >= 1
      BY <2>1, <2>2
    <3>2. A \in SUBSET (2..n) /\ B \in SUBSET (2..n) /\ A \cap B = {}
      BY <2>2
    <3> QED BY <3>1, <3>2, <2>6, <2>7, <2>8, CountedAll, SMTT(30)
  <2> QED BY <2>3, <2>9, <2>10
<1> QED BY <1>1, IngestIsInvariant, PTL
=============================================================================
