-------------------------- MODULE FacilityFilesProofs --------------------------
(* A POST answered 200 has updated its file and leaves it one the optimizer   *)
(* can load: for any files, names and bodies and whatever fails. What is      *)
(* merged is computed line by line and so reasoned about line by line         *)
(* (Shape); what is appended is numbered by counting what comes before it     *)
(* (Ranks).                                                                   *)
EXTENDS FacilityFiles, FiniteLemmas

\* The file a POST is about to write is one of the directory, and is empty: it
\* was emptied when it was opened, and nothing else writes in between.
WriteInv ==
  /\ dir = [file \in Files |-> dir[file]]
  /\ post = [step |-> post.step, name |-> post.name, file |-> post.file,
             base |-> post.base, updates |-> post.updates]
  /\ post.file \in Files
  /\ post.step = "write" => dir[post.file] = <<>>

\* A POST that ends without having saved its file leaves an idle record.
LEMMA IdleFacts ==
  ASSUME NEW step
  PROVE  /\ Idle = [step |-> "idle", name |-> Empty, file |-> Template,
                    base |-> <<>>, updates |-> <<>>]
         /\ [Idle EXCEPT !.step = step] = [step |-> step, name |-> Empty, file |-> Template,
                                           base |-> <<>>, updates |-> <<>>]
         /\ Template \in Files
BY DirectoryConstants DEF Idle

\* The file of a POST is one that has the name asked for, or no file has it.
LEMMA PathsAreItsOwn ==
  ASSUME NEW name \in Names, NEW file \in Paths(name)
  PROVE  /\ file \in Files
         /\ \/ Lookup(dir[file], "name") = name
            \/ Found(name) = {} /\ FileOf[name] = file
<1>1. CASE Found(name) = {}
  <2>1. file = FileOf[name]
    BY <1>1 DEF Paths
  <2> QED BY <1>1, <2>1, DirectoryConstants
<1>2. CASE Found(name) # {}
  BY <1>2 DEF Paths, Found
<1> QED BY <1>1, <1>2

-----------------------------------------------------------------------------
LEMMA WriteInvInit == Init => WriteInv
<1> SUFFICES ASSUME Init PROVE WriteInv
  OBVIOUS
<1>1. dir \in [Files -> Text \cup {NoFile}]
  BY DirectoryConstants DEF Init
<1>2. dir = [file \in Files |-> dir[file]]
  BY <1>1
<1>3. post = [step |-> "idle", name |-> Empty, file |-> Template, base |-> <<>>, updates |-> <<>>]
  BY IdleFacts DEF Init
<1> QED BY <1>2, <1>3, IdleFacts DEF WriteInv

\* What Open does to the directory and the record, without its guards.
LEMMA OpenFacts ==
  ASSUME Open
  PROVE  \E name \in Names, body \in Bodies : \E file \in Paths(name) : \E base :
           /\ post' = [step |-> "write", name |-> name, file |-> file,
                       base |-> base, updates |-> Updates(body)]
           /\ dir' = [dir EXCEPT ![file] = <<>>]
BY DEF Open

\* The record goes on to another step, while its file is or is not written.
LEMMA GoesOn ==
  ASSUME WriteInv, NEW step, step # "write",
         \/ UNCHANGED dir
         \/ \E text : dir' = [dir EXCEPT ![post.file] = text],
         \/ post' = [post EXCEPT !.step = step]
         \/ post' = [Idle EXCEPT !.step = step]
  PROVE  WriteInv'
<1>1. dir' = [file \in Files |-> dir'[file]]
  <2>1. CASE UNCHANGED dir
    BY <2>1 DEF WriteInv
  <2>2. ASSUME NEW text, dir' = [dir EXCEPT ![post.file] = text]
        PROVE  dir' = [file \in Files |-> dir'[file]]
    <3>1. dir' = [file \in Files |-> IF file = post.file THEN text ELSE dir[file]]
      BY <2>2 DEF WriteInv
    <3> QED BY <3>1
  <2> QED BY <2>1, <2>2
<1>2. CASE post' = [post EXCEPT !.step = step]
  <2>1. post' = [step |-> step, name |-> post.name, file |-> post.file,
                 base |-> post.base, updates |-> post.updates]
    BY <1>2 DEF WriteInv
  <2> QED BY <1>1, <2>1 DEF WriteInv
<1>3. CASE post' = [Idle EXCEPT !.step = step]
  <2>1. post' = [step |-> step, name |-> Empty, file |-> Template, base |-> <<>>, updates |-> <<>>]
    BY <1>3, IdleFacts
  <2> QED BY <1>1, <2>1, IdleFacts DEF WriteInv
<1> QED BY <1>2, <1>3

LEMMA WriteInvStep == WriteInv /\ [Next]_vars => WriteInv'
<1> SUFFICES ASSUME WriteInv, [Next]_vars PROVE WriteInv'
  OBVIOUS
<1> USE GoesOn
<1>1. CASE Reject
  BY <1>1 DEF Reject
<1>2. CASE OpenFails
  BY <1>2 DEF OpenFails
<1>3. Idle = [Idle EXCEPT !.step = "idle"]
  BY IdleFacts
<1>4. CASE CrashInParse \/ CrashInWrite \/ CrashInSignal
  <2>1. /\ post' = [Idle EXCEPT !.step = "idle"]
        /\ \/ UNCHANGED dir
           \/ \E text : dir' = [dir EXCEPT ![post.file] = text]
    BY <1>3, <1>4 DEF CrashInParse, CrashInWrite, CrashInSignal, CutShort
  <2> QED BY <2>1
<1>5. CASE Open
  <2>1. PICK name \in Names, body \in Bodies : \E file \in Paths(name) : \E base :
          /\ post' = [step |-> "write", name |-> name, file |-> file,
                      base |-> base, updates |-> Updates(body)]
          /\ dir' = [dir EXCEPT ![file] = <<>>]
    BY <1>5, OpenFacts
  <2>2. PICK file \in Paths(name) : \E base :
          /\ post' = [step |-> "write", name |-> name, file |-> file,
                      base |-> base, updates |-> Updates(body)]
          /\ dir' = [dir EXCEPT ![file] = <<>>]
    BY <2>1
  <2>3. file \in Files
    BY PathsAreItsOwn
  <2>4. dir' = [f \in Files |-> IF f = file THEN <<>> ELSE dir[f]]
    BY <2>2 DEF WriteInv
  <2>5. dir' = [f \in Files |-> dir'[f]] /\ dir'[file] = <<>>
    BY <2>3, <2>4
  <2> QED BY <2>2, <2>3, <2>5 DEF WriteInv
<1>6. CASE Write
  <2>1. dir' = [dir EXCEPT ![post.file] = Merged] /\ post' = [post EXCEPT !.step = "signal"]
    BY <1>6 DEF Write
  <2> QED BY <2>1
<1>7. CASE WriteFails
  <2>1. /\ post' = [Idle EXCEPT !.step = "503"]
        /\ \E text : dir' = [dir EXCEPT ![post.file] = text]
    BY <1>7 DEF WriteFails, CutShort
  <2> QED BY <2>1
<1>8. CASE Signal
  BY <1>8 DEF Signal
<1>9. CASE SignalFails
  BY <1>9 DEF SignalFails
<1>10. CASE UNCHANGED vars
  BY <1>10 DEF vars, WriteInv
<1> QED BY <1>1, <1>2, <1>4, <1>5, <1>6, <1>7, <1>8, <1>9, <1>10 DEF Next

-----------------------------------------------------------------------------
(* The first of a set of line numbers.                                       *)

LEMMA FirstOfThem ==
  ASSUME NEW S \in SUBSET Nat, S # {}
  PROVE  First(S) \in S /\ \A j \in S : First(S) <= j
<1>1. \E least \in S : \A j \in S : least <= j
  BY LeastOfThem
<1> QED BY <1>1, Zenon DEF First

-----------------------------------------------------------------------------
(* Merging updates into lines.                                               *)

\* What a body that parses sets.
IsUpdate(u) ==
  /\ DOMAIN u \subseteq Keys
  /\ \A key \in DOMAIN u : u[key] \in Values \cup {Empty}

\* What is appended is a line for each key that has none.
LEMMA AppendedFacts ==
  ASSUME NEW text, NEW u, IsUpdate(u)
  PROVE  \E m \in Nat :
           /\ Appended(text, u) = [k \in 1..m |-> Appended(text, u)[k]]
           /\ \A k \in 1..m : \E key \in DOMAIN u :
                ~HasLine(text, key) /\ Appended(text, u)[k] = Set(key, u)
           /\ \A key \in DOMAIN u : ~HasLine(text, key) =>
                \E k \in 1..m : Appended(text, u)[k] = Set(key, u)
<1> DEFINE L == Len(Editable)
           new == {n \in DOMAIN Editable : /\ Editable[n] \in DOMAIN u
                                           /\ \A i \in DOMAIN text : text[i].key # Editable[n]}
           Nth(k) == CHOOSE n \in new : Cardinality({l \in new : l < n}) = k - 1
           m == Cardinality(new)
           A == [k \in 1..m |-> Set(Editable[Nth(k)], u)]
<1>1. L \in Nat /\ DOMAIN Editable = 1..L
  BY FileConstants, LenProperties
<1>2. new \in SUBSET (1..L)
  BY <1>1
<1>3. \A n \in new : Editable[n] \in DOMAIN u /\ ~HasLine(text, Editable[n])
  BY DEF HasLine
<1>4. \A key \in DOMAIN u : ~HasLine(text, key) => \E n \in new : Editable[n] = key
  <2> SUFFICES ASSUME NEW key \in DOMAIN u, ~HasLine(text, key)
               PROVE  \E n \in new : Editable[n] = key
    OBVIOUS
  <2>1. key \in Keys
    BY DEF IsUpdate
  <2>2. PICK n \in DOMAIN Editable : Editable[n] = key
    BY <2>1 DEF Keys
  <2> QED BY <2>2 DEF HasLine
<1>5. Appended(text, u) = A
  BY DEF Appended
<1> HIDE DEF new
<1>6. /\ m \in Nat
      /\ \A k \in 1..m : \E n \in new : Cardinality(Below(new, n)) = k - 1
      /\ \A i, j \in new : i < j => Cardinality(Below(new, i)) < Cardinality(Below(new, j))
      /\ \A n \in new : Cardinality(Below(new, n)) \in 0..(m - 1)
  BY <1>1, <1>2, Ranks
<1>7. \A k \in 1..m : Nth(k) \in new /\ Cardinality(Below(new, Nth(k))) = k - 1
  BY <1>6 DEF Below
<1>8. \A n \in new : \E k \in 1..m : Nth(k) = n
  <2> TAKE n \in new
  <2> DEFINE r == Cardinality(Below(new, n))
  <2>1. r \in 0..(m - 1)
    BY <1>6
  <2> HIDE DEF r, m
  <2>2. r + 1 \in 1..m /\ (r + 1) - 1 = r
    BY <1>6, <2>1
  <2>3. Nth(r + 1) \in new /\ Cardinality(Below(new, Nth(r + 1))) = r
    BY <1>7, <2>2
  <2> DEFINE o == Nth(r + 1)
  <2>4. o \in new /\ Cardinality(Below(new, o)) = Cardinality(Below(new, n))
    BY <2>3 DEF r
  <2>5. Cardinality(Below(new, n)) \in Int
    BY <2>1 DEF r
  <2> HIDE DEF o
  <2>6. ~ (o < n) /\ ~ (n < o)
    BY <1>6, <2>4, <2>5
  <2>7. o \in Int /\ n \in Int
    BY <1>2, <2>4
  <2>8. o = n
    BY <2>6, <2>7
  <2> QED BY <2>2, <2>8 DEF o
<1> HIDE DEF Nth, m
<1>9. \A k \in 1..m : A[k] = Set(Editable[Nth(k)], u)
  OBVIOUS
<1>10. A = [k \in 1..m |-> A[k]]
  OBVIOUS
<1> HIDE DEF A
<1>11. \A k \in 1..m : \E key \in DOMAIN u : ~HasLine(text, key) /\ A[k] = Set(key, u)
  BY <1>3, <1>7, <1>9
<1>12. ASSUME NEW key \in DOMAIN u, ~HasLine(text, key)
       PROVE  \E k \in 1..m : A[k] = Set(key, u)
  <2>1. PICK n \in new : Editable[n] = key
    BY <1>4, <1>12
  <2>2. PICK k \in 1..m : Nth(k) = n
    BY <1>8
  <2> QED BY <1>9, <2>1, <2>2
<1> QED BY <1>5, <1>6, <1>10, <1>11, <1>12

LEMMA TextFacts ==
  ASSUME NEW text \in Text
  PROVE  /\ text \in Seq(Line) /\ Len(text) \in Nat /\ DOMAIN text = 1..Len(text)
         /\ \A i \in 1..Len(text) : text[i] \in Line /\ (text[i].newline \/ i = Len(text))
<1>1. text \in Seq(Line)
  BY DEF Text
<1>2. Len(text) \in Nat /\ DOMAIN text = 1..Len(text) /\ text \in [1..Len(text) -> Line]
  BY <1>1, LenProperties
<1> QED BY <1>1, <1>2 DEF Text

LEMMA SetFacts ==
  ASSUME NEW u, IsUpdate(u), NEW key \in DOMAIN u
  PROVE  /\ Set(key, u) \in Line /\ Set(key, u).newline = TRUE
         /\ Set(key, u).key = key /\ Set(key, u).value = u[key]
BY DEF Set, Line, FileKeys, IsUpdate

\* The lines in the place of those of the text.
LEMMA RewrittenFacts ==
  ASSUME NEW text \in Text, NEW u, IsUpdate(u)
  PROVE  /\ Rewritten(text, u) \in Seq(Line) /\ Len(Rewritten(text, u)) = Len(text)
         /\ \A i \in 1..Len(text) :
              LET line == Rewritten(text, u)[i] IN
              /\ line = IF text[i].key \in DOMAIN u THEN Set(text[i].key, u) ELSE text[i]
              /\ line \in Line /\ line.key = text[i].key
              /\ line.newline \/ i = Len(text)
<1> DEFINE R == Rewritten(text, u)
           n == Len(text)
<1>1. /\ n \in Nat /\ DOMAIN text = 1..n
      /\ \A i \in 1..n : text[i] \in Line /\ (text[i].newline \/ i = n)
  BY TextFacts
<1>2. R = [i \in 1..n |-> IF text[i].key \in DOMAIN u THEN Set(text[i].key, u) ELSE text[i]]
  BY <1>1 DEF Rewritten
<1> HIDE DEF R, n
<1>3. \A i \in 1..n :
        /\ R[i] = IF text[i].key \in DOMAIN u THEN Set(text[i].key, u) ELSE text[i]
        /\ R[i] \in Line /\ R[i].key = text[i].key
        /\ R[i].newline \/ i = n
  <2> TAKE i \in 1..n
  <2>1. R[i] = IF text[i].key \in DOMAIN u THEN Set(text[i].key, u) ELSE text[i]
    BY <1>2
  <2>2. CASE text[i].key \in DOMAIN u
    <3> DEFINE k == text[i].key
    <3> HIDE DEF k
    <3>1. k \in DOMAIN u /\ k = text[i].key /\ R[i] = Set(k, u)
      BY <2>1, <2>2 DEF k
    <3>2. Set(k, u) \in Line /\ Set(k, u).newline = TRUE /\ Set(k, u).key = k
      BY <3>1, SetFacts
    <3> QED BY <2>1, <3>1, <3>2
  <2>3. CASE text[i].key \notin DOMAIN u
    BY <1>1, <2>1, <2>3
  <2> QED BY <2>1, <2>2, <2>3
<1>4. R \in [1..n -> Line]
  <2>1. DOMAIN R = 1..n /\ R = [i \in 1..n |-> R[i]]
    BY <1>2
  <2> QED BY <1>3, <2>1
<1>5. R \in Seq(Line) /\ Len(R) = n
  BY <1>1, <1>4
<1> QED BY <1>3, <1>5 DEF R, n

\* What becomes of a text: every line stays in its place, but for one to which
\* another one may be glued, and lines for the keys it has not follow.
Shape(T, text, u) ==
  LET lost == Lost(text, u) IN
  /\ T \in Text /\ Len(text) <= Len(T)
  /\ \A i \in 1..Len(text) :
       /\ T[i].key = text[i].key
       /\ text[i].key \notin lost =>
            T[i] = IF text[i].key \in DOMAIN u THEN Set(text[i].key, u) ELSE text[i]
  /\ lost # {} =>
       /\ Len(text) >= 1 /\ T[Len(text)].value = Garbled
       /\ \A key \in lost : key = text[Len(text)].key \/ ~HasLine(text, key)
  /\ \A i \in 1..Len(T) : i > Len(text) =>
       \E key \in DOMAIN u : ~HasLine(text, key) /\ T[i] = Set(key, u)
  /\ \A key \in DOMAIN u : ~HasLine(text, key) /\ key \notin lost =>
       \E i \in 1..Len(T) : T[i] = Set(key, u)

\* A sequence all of whose lines end is a text, and so is one without the
\* newline of its last line.
LEMMA IsText ==
  ASSUME NEW T \in Seq(Line), \A i \in 1..Len(T) : T[i].newline \/ i = Len(T)
  PROVE  T \in Text
<1>1. DOMAIN T = 1..Len(T)
  BY LenProperties
<1> QED BY <1>1 DEF Text

\* The lines that are appended, as a sequence.
AreAppended(A, text, u) ==
  /\ A \in Seq(Line) /\ Len(A) \in Nat
  /\ \A k \in 1..Len(A) :
       /\ A[k].newline = TRUE
       /\ \E key \in DOMAIN u : ~HasLine(text, key) /\ A[k] = Set(key, u)
  /\ \A key \in DOMAIN u : ~HasLine(text, key) => \E k \in 1..Len(A) : A[k] = Set(key, u)

LEMMA AppendedLines ==
  ASSUME NEW text, NEW u, IsUpdate(u)
  PROVE  AreAppended(Appended(text, u), text, u)
<1> DEFINE A == Appended(text, u)
<1>1. PICK m \in Nat :
        /\ A = [k \in 1..m |-> A[k]]
        /\ \A k \in 1..m : \E key \in DOMAIN u : ~HasLine(text, key) /\ A[k] = Set(key, u)
        /\ \A key \in DOMAIN u : ~HasLine(text, key) => \E k \in 1..m : A[k] = Set(key, u)
  BY Zenon, AppendedFacts
<1> HIDE DEF A
<1>2. \A k \in 1..m : A[k] \in Line /\ A[k].newline = TRUE
  <2> TAKE k \in 1..m
  <2>1. PICK key \in DOMAIN u : A[k] = Set(key, u)
    BY <1>1
  <2>2. Set(key, u) \in Line /\ Set(key, u).newline = TRUE
    BY SetFacts
  <2> QED BY <2>1, <2>2
<1>3. A \in Seq(Line) /\ Len(A) = m
  <2>1. A = [k \in 1..m |-> A[k]]
    BY <1>1
  <2>2. \A k \in 1..m : A[k] \in Line
    BY <1>2
  <2>3. A \in [1..m -> Line]
    BY Zenon, <2>1, <2>2
  <2> QED BY <2>3
<1>4. AreAppended(A, text, u)
  BY <1>1, <1>2, <1>3 DEF AreAppended
<1> QED BY <1>4 DEF A

LEMMA JoinedWhole ==
  ASSUME NEW text \in Text, NEW u, IsUpdate(u),
         ~Glues(Rewritten(text, u), Appended(text, u))
  PROVE  Shape(Merge(text, u), text, u)
<1> DEFINE R == Rewritten(text, u)
           A == Appended(text, u)
           T == Merge(text, u)
           n == Len(text)
           m == Len(A)
<1>1. T = R \o A /\ Lost(text, u) = {}
  <2>1. T = R \o A
    BY Zenon DEF Merge, Joined
  <2>2. Lost(text, u) = {}
    <3>1. Lost(text, u) = IF Glues(R, A) THEN {text[Len(text)].key, A[1].key} ELSE {}
      BY Zenon DEF Lost
    <3>2. ~Glues(R, A)
      OBVIOUS
    <3> QED BY <3>1, <3>2
  <2> QED BY <2>1, <2>2
<1>2. /\ R \in Seq(Line) /\ Len(R) = n /\ n \in Nat
      /\ \A i \in 1..n :
           /\ R[i] = IF text[i].key \in DOMAIN u THEN Set(text[i].key, u) ELSE text[i]
           /\ R[i].key = text[i].key
           /\ R[i].newline \/ i = n
  BY RewrittenFacts, TextFacts
<1>3. /\ A \in Seq(Line) /\ m \in Nat
      /\ \A k \in 1..m :
           /\ A[k].newline = TRUE
           /\ \E key \in DOMAIN u : ~HasLine(text, key) /\ A[k] = Set(key, u)
      /\ \A key \in DOMAIN u : ~HasLine(text, key) => \E k \in 1..m : A[k] = Set(key, u)
  <2>1. AreAppended(A, text, u)
    BY Zenon, AppendedLines
  <2> HIDE DEF A
  <2> QED BY Zenon, <2>1 DEF AreAppended
<1>4. m # 0 /\ n # 0 => R[n].newline
  <2> SUFFICES ASSUME m # 0, n # 0, ~R[n].newline PROVE FALSE
    OBVIOUS
  <2>1. R # <<>> /\ A # <<>>
    BY <1>2, <1>3, EmptySeq
  <2> QED BY <1>2, <2>1 DEF Glues
<1> HIDE DEF R, A, T
<1>5. /\ T \in Seq(Line) /\ Len(T) = n + m
      /\ \A i \in 1..(n + m) : T[i] = IF i <= n THEN R[i] ELSE A[i - n]
  <2>1. R \in Seq(Line) /\ A \in Seq(Line)
    BY Zenon, <1>2, <1>3
  <2>2. /\ R \o A \in Seq(Line)
        /\ Len(R \o A) = Len(R) + Len(A)
        /\ \A i \in 1..(Len(R) + Len(A)) :
             (R \o A)[i] = IF i <= Len(R) THEN R[i] ELSE A[i - Len(R)]
    BY Zenon, <2>1, ConcatProperties
  <2>3. T = R \o A /\ Len(R) = n
    BY Zenon, <1>1, <1>2
  <2> QED BY Zenon, <2>2, <2>3
<1> HIDE DEF n, m
<1>6. \A i \in 1..n : i \in 1..(n + m) /\ i <= n
  BY <1>2, <1>3
<1>7. \A i \in 1..(n + m) : i > n => i - n \in 1..m /\ ~ (i <= n)
  BY <1>2, <1>3
<1>8. \A k \in 1..m : k + n \in 1..(n + m) /\ ~ (k + n <= n) /\ (k + n) - n = k
  BY <1>2, <1>3
<1>9. \A i \in 1..n : T[i] = R[i]
  BY <1>5, <1>6
<1>10. \A i \in 1..(n + m) : i > n => T[i] = A[i - n]
  BY <1>5, <1>7
<1>11. \A k \in 1..m : T[k + n] = A[k]
  BY <1>5, <1>8
<1>12. T \in Text
  <2>1. \A i \in 1..(n + m) : T[i].newline \/ i = n + m
    <3> TAKE i \in 1..(n + m)
    <3>1. CASE i <= n
      <4>1. i \in 1..n /\ (R[i].newline \/ i = n)
        BY <1>2, <3>1
      <4>2. i = n /\ i # n + m => m # 0 /\ n # 0
        BY <1>2, <1>3
      <4> QED BY <1>4, <1>9, <4>1, <4>2
    <3>2. CASE ~ (i <= n)
      <4>1. i > n
        BY <1>2, <1>3, <3>2
      <4> QED BY <1>3, <1>7, <1>10, <4>1
    <3> QED BY <3>1, <3>2
  <2> QED BY <1>5, <2>1, IsText
<1>13. n <= Len(T)
  BY <1>2, <1>3, <1>5
<1>14. \A i \in 1..n :
         /\ T[i].key = text[i].key
         /\ T[i] = IF text[i].key \in DOMAIN u THEN Set(text[i].key, u) ELSE text[i]
  BY <1>2, <1>9
<1>15. \A i \in 1..Len(T) : i > n =>
         \E key \in DOMAIN u : ~HasLine(text, key) /\ T[i] = Set(key, u)
  BY <1>3, <1>5, <1>7, <1>10
<1>16. \A key \in DOMAIN u : ~HasLine(text, key) => \E i \in 1..Len(T) : T[i] = Set(key, u)
  <2> SUFFICES ASSUME NEW key \in DOMAIN u, ~HasLine(text, key)
               PROVE  \E i \in 1..Len(T) : T[i] = Set(key, u)
    OBVIOUS
  <2>1. PICK k \in 1..m : A[k] = Set(key, u)
    BY <1>3
  <2>2. k + n \in 1..Len(T) /\ T[k + n] = A[k]
    BY <1>5, <1>8, <1>11
  <2> QED BY <2>1, <2>2
<1>17. Shape(T, text, u)
  <2>1. Lost(text, u) = {}
    BY Zenon, <1>1
  <2>2. T \in Text /\ Len(text) <= Len(T)
    BY Zenon, <1>12, <1>13 DEF n
  <2>3. \A i \in 1..Len(text) :
          /\ T[i].key = text[i].key
          /\ T[i] = IF text[i].key \in DOMAIN u THEN Set(text[i].key, u) ELSE text[i]
    BY Zenon, <1>14 DEF n
  <2>4. \A i \in 1..Len(T) : i > Len(text) =>
          \E key \in DOMAIN u : ~HasLine(text, key) /\ T[i] = Set(key, u)
    BY Zenon, <1>15 DEF n
  <2>5. \A i \in 1..Len(text) :
          /\ T[i].key = text[i].key
          /\ text[i].key \notin Lost(text, u) =>
               T[i] = IF text[i].key \in DOMAIN u THEN Set(text[i].key, u) ELSE text[i]
    BY Zenon, <2>3
  <2>6. \A key \in DOMAIN u : ~HasLine(text, key) /\ key \notin Lost(text, u) =>
          \E i \in 1..Len(T) : T[i] = Set(key, u)
    BY Zenon, <1>16
  <2> QED BY Zenon, <2>1, <2>2, <2>4, <2>5, <2>6 DEF Shape
<1> QED BY <1>17 DEF T

\* Two sequences of which the last line of one is glued to the first of the other.
LEMMA GluedLines ==
  ASSUME NEW R \in Seq(Line), NEW A \in Seq(Line), NEW g \in Line, R # <<>>, A # <<>>,
         NEW T, T = SubSeq(R, 1, Len(R) - 1) \o <<g>> \o Tail(A)
  PROVE  /\ T \in Seq(Line) /\ Len(T) = Len(R) + Len(A) - 1
         /\ Len(R) \in Nat /\ Len(R) >= 1 /\ Len(A) \in Nat /\ Len(A) >= 1
         /\ \A i \in 1..(Len(R) - 1) : T[i] = R[i]
         /\ T[Len(R)] = g
         /\ \A k \in 2..Len(A) : T[Len(R) + k - 1] = A[k]
<1> DEFINE n == Len(R)
           m == Len(A)
           H == SubSeq(R, 1, n - 1)
           B == H \o <<g>>
           L == Tail(A)
<1>1. /\ n \in Nat /\ m \in Nat
      /\ \A i \in 1..n : R[i] \in Line
  BY LenProperties
<1>2. n # 0 /\ m # 0
  BY EmptySeq
<1>3. n >= 1 /\ m >= 1
  <2> HIDE DEF n, m
  <2> QED BY <1>1, <1>2
<1>4. H \in Seq(Line) /\ Len(H) = n - 1 /\ \A i \in 1..(n - 1) : H[i] = R[i]
  <2>1. \A i \in 1..(n - 1) : R[i] \in Line
    <3> HIDE DEF n
    <3> QED BY <1>1
  <2>2. n - 1 \in Int /\ 1 \in Int
    <3> HIDE DEF n
    <3> QED BY <1>1
  <2>3. /\ H \in Seq(Line) /\ Len(H) = IF 1 <= n - 1 THEN (n - 1) - 1 + 1 ELSE 0
        /\ \A i \in 1..((n - 1) - 1 + 1) : H[i] = R[1 + i - 1]
    <3> HIDE DEF n
    <3> QED BY <2>1, <2>2, SubSeqProperties
  <2> HIDE DEF n, H
  <2>4. Len(H) = n - 1
    BY <1>1, <1>3, <2>3
  <2>5. \A i \in 1..(n - 1) : i \in 1..((n - 1) - 1 + 1) /\ 1 + i - 1 = i
    BY <1>1
  <2> QED BY <2>3, <2>4, <2>5
<1>5. L \in Seq(Line) /\ Len(L) = m - 1 /\ \A i \in 1..(m - 1) : L[i] = A[i + 1]
  BY HeadTailProperties
<1>6. <<g>> \in Seq(Line) /\ Len(<<g>>) = 1 /\ <<g>>[1] = g
  OBVIOUS
<1> HIDE DEF n, m, H, L
<1>7. /\ B \in Seq(Line) /\ Len(B) = n
      /\ \A i \in 1..(n - 1) : B[i] = R[i]
      /\ B[n] = g
  <2> DEFINE one == <<g>>
  <2>1. one \in Seq(Line) /\ Len(one) = 1 /\ one[1] = g
    BY <1>6
  <2> HIDE DEF one
  <2>2. /\ H \o one \in Seq(Line) /\ Len(H \o one) = Len(H) + Len(one)
        /\ \A i \in 1..(Len(H) + Len(one)) :
             (H \o one)[i] = IF i <= Len(H) THEN H[i] ELSE one[i - Len(H)]
    <3>1. H \in Seq(Line) /\ one \in Seq(Line)
      BY Zenon, <1>4, <2>1
    <3> QED BY Zenon, <3>1, ConcatProperties
  <2>3. B = H \o one
    BY DEF one
  <2> HIDE DEF B
  <2>4. Len(B) = n
    BY <1>1, <1>4, <2>1, <2>2, <2>3
  <2>5. \A i \in 1..(n - 1) : i \in 1..((n - 1) + 1) /\ i <= n - 1
    BY <1>1
  <2>6. n \in 1..((n - 1) + 1) /\ ~ (n <= n - 1) /\ n - (n - 1) = 1
    BY <1>1, <1>3
  <2>7. \A i \in 1..((n - 1) + 1) : B[i] = IF i <= n - 1 THEN H[i] ELSE one[i - (n - 1)]
    BY <1>4, <2>1, <2>2, <2>3
  <2>8. B[n] = g
    BY <2>1, <2>6, <2>7
  <2>9. \A i \in 1..(n - 1) : B[i] = R[i]
    BY <1>4, <2>5, <2>7
  <2> QED BY <2>2, <2>3, <2>4, <2>8, <2>9
<1>8. T = B \o L
  BY DEF n, H, L
<1> HIDE DEF B
<1>9. /\ T \in Seq(Line) /\ Len(T) = n + (m - 1)
      /\ \A i \in 1..(n + (m - 1)) : T[i] = IF i <= n THEN B[i] ELSE L[i - n]
  <2>1. /\ B \o L \in Seq(Line) /\ Len(B \o L) = Len(B) + Len(L)
        /\ \A i \in 1..(Len(B) + Len(L)) :
             (B \o L)[i] = IF i <= Len(B) THEN B[i] ELSE L[i - Len(B)]
    <3>1. B \in Seq(Line) /\ L \in Seq(Line)
      BY Zenon, <1>5, <1>7
    <3> QED BY Zenon, <3>1, ConcatProperties
  <2> QED BY <1>5, <1>7, <1>8, <2>1
<1>10. \A i \in 1..n : i \in 1..(n + (m - 1)) /\ i <= n
  BY <1>1, <1>3
<1>11. \A i \in 1..n : T[i] = B[i]
  BY <1>9, <1>10
<1>12. \A i \in 1..(n - 1) : i \in 1..n
  BY <1>1
<1>13. n \in 1..n
  BY <1>1, <1>3
<1>14. \A k \in 2..m : /\ n + k - 1 \in 1..(n + (m - 1)) /\ ~ (n + k - 1 <= n)
                       /\ (n + k - 1) - n \in 1..(m - 1) /\ ((n + k - 1) - n) + 1 = k
  BY <1>1, <1>3
<1>15. \A k \in 2..m : T[n + k - 1] = L[(n + k - 1) - n]
  BY <1>9, <1>14
<1>16. \A k \in 2..m : T[n + k - 1] = A[k]
  BY <1>5, <1>14, <1>15
<1>17. n + (m - 1) = n + m - 1
  BY <1>1
<1> QED BY <1>1, <1>3, <1>7, <1>9, <1>11, <1>12, <1>13, <1>16, <1>17 DEF n, m

\* Keys, values and newlines are what a line may have.
LEMMA LineFacts ==
  /\ \A line \in Line : line.key \in FileKeys /\ line.newline \in BOOLEAN
  /\ \A line \in Line : line.value \in Values \cup {Empty, Garbled}
  /\ \A key \in FileKeys, newline \in BOOLEAN :
       LET line == [key |-> key, value |-> Garbled, newline |-> newline] IN
       line \in Line /\ line.key = key /\ line.value = Garbled /\ line.newline = newline
BY DEF Line

LEMMA JoinedGlued ==
  ASSUME NEW text \in Text, NEW u, IsUpdate(u),
         Glues(Rewritten(text, u), Appended(text, u))
  PROVE  Shape(Merge(text, u), text, u)
<1> DEFINE R == Rewritten(text, u)
           A == Appended(text, u)
           T == Merge(text, u)
           n == Len(text)
           m == Len(A)
           g == [key |-> R[n].key, value |-> Garbled, newline |-> A[1].newline]
           lost == Lost(text, u)
<1>1. R # <<>> /\ A # <<>> /\ ~R[Len(R)].newline
  BY Zenon DEF Glues
<1>2. /\ R \in Seq(Line) /\ Len(R) = n /\ n \in Nat
      /\ \A i \in 1..n :
           /\ R[i] = IF text[i].key \in DOMAIN u THEN Set(text[i].key, u) ELSE text[i]
           /\ R[i] \in Line /\ R[i].key = text[i].key
           /\ R[i].newline \/ i = n
  BY RewrittenFacts, TextFacts
<1>3. /\ A \in Seq(Line) /\ m \in Nat
      /\ \A k \in 1..m :
           /\ A[k].newline = TRUE
           /\ \E key \in DOMAIN u : ~HasLine(text, key) /\ A[k] = Set(key, u)
      /\ \A key \in DOMAIN u : ~HasLine(text, key) => \E k \in 1..m : A[k] = Set(key, u)
  <2>1. AreAppended(A, text, u)
    BY Zenon, AppendedLines
  <2> HIDE DEF A
  <2> QED BY Zenon, <2>1 DEF AreAppended
<1>4. T = SubSeq(R, 1, Len(R) - 1)
            \o <<[key |-> R[Len(R)].key, value |-> Garbled, newline |-> A[1].newline]>> \o Tail(A)
  BY Zenon DEF Merge, Joined
<1>5. lost = {text[n].key, A[1].key}
  <2>1. Lost(text, u) = IF Glues(R, A) THEN {text[Len(text)].key, A[1].key} ELSE {}
    BY Zenon DEF Lost
  <2>2. Glues(R, A)
    OBVIOUS
  <2> QED BY <2>1, <2>2
<1> HIDE DEF R, A, T, lost
<1>6. T = SubSeq(R, 1, Len(R) - 1) \o <<g>> \o Tail(A)
  BY <1>2, <1>4
<1> HIDE DEF n, m, g
<1>7. n >= 1 /\ m >= 1
  <2>1. n # 0 /\ m # 0
    BY <1>1, <1>2, <1>3, EmptySeq DEF m
  <2> QED BY <1>2, <1>3, <2>1
<1>8. n \in 1..n /\ 1 \in 1..m
  BY <1>2, <1>3, <1>7
<1>9. /\ g \in Line /\ g.key = text[n].key /\ g.value = Garbled /\ g.newline = TRUE
  <2>1. R[n] \in Line /\ R[n].key = text[n].key /\ A[1].newline = TRUE
    BY <1>2, <1>3, <1>8
  <2> QED BY <2>1, LineFacts DEF g
<1>10. /\ T \in Seq(Line) /\ Len(T) = n + m - 1
       /\ \A i \in 1..(n - 1) : T[i] = R[i]
       /\ T[n] = g
       /\ \A k \in 2..m : T[n + k - 1] = A[k]
  <2>1. /\ T \in Seq(Line) /\ Len(T) = Len(R) + Len(A) - 1
        /\ \A i \in 1..(Len(R) - 1) : T[i] = R[i]
        /\ T[Len(R)] = g
        /\ \A k \in 2..Len(A) : T[Len(R) + k - 1] = A[k]
    BY <1>1, <1>2, <1>3, <1>6, <1>9, GluedLines
  <2> QED BY <1>2, <2>1 DEF m
<1>11. \A i \in 1..n : i # n => i \in 1..(n - 1)
  BY <1>2
<1>12. \A i \in 1..(n + m - 1) : i > n => i - n + 1 \in 2..m /\ n + (i - n + 1) - 1 = i
  BY <1>2, <1>3
<1>13. \A k \in 1..m : k # 1 => k \in 2..m /\ n + k - 1 \in 1..(n + m - 1)
  BY <1>2, <1>3, <1>7
<1>14. \A i \in 1..(n + m - 1) : i > n => \E k \in 2..m : T[i] = A[k]
  BY <1>10, <1>12
<1>15. \A k \in 2..m : k \in 1..m
  OBVIOUS
<1>16. \A i \in 1..(n + m - 1) : i > n \/ (i \in 1..n /\ i # n) \/ i = n
  BY <1>2, <1>3
<1>17. T \in Text
  <2>1. \A i \in 1..(n + m - 1) : T[i].newline = TRUE
    <3> TAKE i \in 1..(n + m - 1)
    <3>1. CASE i > n
      BY <1>3, <1>14, <1>15, <3>1
    <3>2. CASE i \in 1..n /\ i # n
      <4>1. R[i] \in Line /\ R[i].newline /\ T[i] = R[i]
        BY <1>2, <1>10, <1>11, <3>2
      <4>2. R[i].newline \in BOOLEAN
        BY <4>1, LineFacts
      <4> QED BY <4>1, <4>2
    <3>3. CASE i = n
      BY <1>9, <1>10, <3>3
    <3> QED BY <1>16, <3>1, <3>2, <3>3
  <2> QED BY <1>10, <2>1, IsText
<1>18. n <= Len(T)
  BY <1>2, <1>3, <1>7, <1>10
<1>19. \A i \in 1..n :
         /\ T[i].key = text[i].key
         /\ text[i].key \notin lost =>
              T[i] = IF text[i].key \in DOMAIN u THEN Set(text[i].key, u) ELSE text[i]
  <2> TAKE i \in 1..n
  <2>1. CASE i = n
    BY <1>5, <1>9, <1>10, <2>1
  <2>2. CASE i # n
    <3>1. T[i] = R[i]
      BY <1>10, <1>11, <2>2
    <3> QED BY <1>2, <3>1
  <2> QED BY <2>1, <2>2
<1> DEFINE S(key) == Set(key, u)
           Missing(key) == ~HasLine(text, key)
<1>20. /\ \A key \in DOMAIN u : S(key).key = key
       /\ \A k \in 1..m : \E key \in DOMAIN u : Missing(key) /\ A[k] = S(key)
       /\ \A key \in DOMAIN u : Missing(key) => \E k \in 1..m : A[k] = S(key)
  BY <1>3, SetFacts
<1> HIDE DEF S, Missing
<1>21. \A k \in 1..m : \E key \in DOMAIN u : Missing(key) /\ A[k] = S(key) /\ A[k].key = key
  BY <1>20
<1>22. n >= 1 /\ T[n].value = Garbled /\ \A key \in lost : key = text[n].key \/ ~HasLine(text, key)
  <2>1. ~HasLine(text, A[1].key)
    BY <1>8, <1>21 DEF Missing
  <2> QED BY <1>5, <1>7, <1>9, <1>10, <2>1
<1>23. \A i \in 1..Len(T) : i > n =>
         \E key \in DOMAIN u : ~HasLine(text, key) /\ T[i] = Set(key, u)
  <2>1. \A i \in 1..Len(T) : i > n => \E k \in 1..m : T[i] = A[k]
    BY <1>10, <1>14, <1>15
  <2>2. \A i \in 1..Len(T) : i > n => \E key \in DOMAIN u : Missing(key) /\ T[i] = S(key)
    BY <1>20, <2>1
  <2> QED BY <2>2 DEF Missing, S
<1>24. \A key \in DOMAIN u : ~HasLine(text, key) /\ key \notin lost =>
         \E i \in 1..Len(T) : T[i] = Set(key, u)
  <2> SUFFICES ASSUME NEW key \in DOMAIN u, ~HasLine(text, key), key \notin lost
               PROVE  \E i \in 1..Len(T) : T[i] = Set(key, u)
    OBVIOUS
  <2>1. PICK k \in 1..m : A[k] = Set(key, u)
    BY <1>20 DEF Missing, S
  <2>2. A[k].key = key
    BY <1>20, <2>1 DEF S
  <2>3. k # 1
    BY <1>5, <2>2
  <2>4. T[n + k - 1] = Set(key, u) /\ n + k - 1 \in 1..Len(T)
    BY <1>10, <1>13, <2>1, <2>3
  <2> QED BY <2>4
<1>25. Shape(T, text, u)
  BY <1>17, <1>18, <1>19, <1>22, <1>23, <1>24 DEF Shape, n, lost
<1> QED BY <1>25 DEF T

LEMMA MergeShape ==
  ASSUME NEW text \in Text, NEW u, IsUpdate(u)
  PROVE  Shape(Merge(text, u), text, u)
<1>1. CASE Glues(Rewritten(text, u), Appended(text, u))
  BY <1>1, JoinedGlued
<1>2. CASE ~Glues(Rewritten(text, u), Appended(text, u))
  BY <1>2, JoinedWhole
<1> QED BY <1>1, <1>2

-----------------------------------------------------------------------------
(* What is read back.                                                        *)

Hits(text, key) == {i \in DOMAIN text : text[i].key = key /\ text[i].value # Empty}

\* A lookup finds nothing, or the first hit.
LEMMA LookupFacts ==
  ASSUME NEW text \in Text, NEW key
  PROVE  /\ Hits(text, key) = {} => Lookup(text, key) = Empty
         /\ Hits(text, key) # {} => /\ First(Hits(text, key)) \in Hits(text, key)
                                    /\ Lookup(text, key) = text[First(Hits(text, key))].value
<1>1. Lookup(text, key) = IF Hits(text, key) = {} THEN Empty ELSE text[First(Hits(text, key))].value
  BY Zenon DEF Lookup, Hits
<1>2. Hits(text, key) \in SUBSET Nat
  <2>1. DOMAIN text = 1..Len(text) /\ Len(text) \in Nat
    BY TextFacts
  <2> QED BY <2>1 DEF Hits
<1>3. Hits(text, key) # {} => First(Hits(text, key)) \in Hits(text, key)
  BY <1>2, FirstOfThem
<1> QED BY <1>1, <1>3

\* Where all lines of a key have one value that is what is found.
LEMMA LookupOnly ==
  ASSUME NEW text \in Text, NEW key, NEW value, HasLine(text, key),
         \A i \in 1..Len(text) : text[i].key = key => text[i].value = value
  PROVE  Lookup(text, key) = value
<1>1. DOMAIN text = 1..Len(text)
  BY TextFacts
<1>2. PICK i \in 1..Len(text) : text[i].key = key /\ text[i].value = value
  BY <1>1 DEF HasLine
<1>3. CASE value = Empty
  <2>1. Hits(text, key) = {}
    BY <1>1, <1>3 DEF Hits
  <2> QED BY <1>3, <2>1, LookupFacts
<1>4. CASE value # Empty
  <2>1. i \in Hits(text, key)
    BY <1>1, <1>2, <1>4 DEF Hits
  <2>2. /\ First(Hits(text, key)) \in Hits(text, key)
        /\ Lookup(text, key) = text[First(Hits(text, key))].value
    BY <2>1, LookupFacts
  <2>3. \A j \in Hits(text, key) : text[j].value = value
    BY <1>1 DEF Hits
  <2> QED BY <2>2, <2>3
<1> QED BY <1>3, <1>4

\* What a POST sets is read back, and every other key is as it was, but for
\* those that are lost.
LEMMA LookupMerged ==
  ASSUME NEW text \in Text, NEW u, IsUpdate(u), NEW T, Shape(T, text, u),
         NEW key \in Keys, key \notin Lost(text, u)
  PROVE  Lookup(T, key) = IF key \in DOMAIN u THEN u[key] ELSE Lookup(text, key)
<1> DEFINE n == Len(text)
           lost == Lost(text, u)
           S(k) == Set(k, u)
           Missing(k) == ~HasLine(text, k)
<1>1. /\ T \in Text /\ n <= Len(T)
      /\ \A i \in 1..n :
           /\ T[i].key = text[i].key
           /\ text[i].key \notin lost =>
                T[i] = IF text[i].key \in DOMAIN u THEN Set(text[i].key, u) ELSE text[i]
      /\ \A i \in 1..Len(T) : i > n => \E k \in DOMAIN u : Missing(k) /\ T[i] = S(k)
      /\ \A k \in DOMAIN u : Missing(k) /\ k \notin lost => \E i \in 1..Len(T) : T[i] = S(k)
  BY Zenon DEF Shape
<1>2. /\ n \in Nat /\ DOMAIN text = 1..n
      /\ Len(T) \in Nat /\ DOMAIN T = 1..Len(T)
  BY <1>1, TextFacts
<1>3. \A k \in DOMAIN u : S(k).key = k /\ S(k).value = u[k]
  BY SetFacts
<1> HIDE DEF n, lost, S, Missing
<1>4. \A i \in 1..n : i \in 1..Len(T)
  BY <1>1, <1>2
<1>5. \A i \in 1..Len(T) : i \in 1..n \/ i > n
  BY <1>2
<1>6. CASE key \in DOMAIN u
  <2>1. \A i \in 1..Len(T) : T[i].key = key => T[i].value = u[key]
    <3> SUFFICES ASSUME NEW i \in 1..Len(T), T[i].key = key PROVE T[i].value = u[key]
      OBVIOUS
    <3>1. CASE i \in 1..n
      <4>1. text[i].key = key /\ T[i] = S(key)
        BY <1>1, <1>6, <3>1 DEF S, lost
      <4> QED BY <1>3, <1>6, <4>1
    <3>2. CASE i > n
      <4>1. PICK k \in DOMAIN u : T[i] = S(k)
        BY <1>1, <3>2
      <4> QED BY <1>3, <4>1
    <3> QED BY <1>5, <3>1, <3>2
  <2>2. HasLine(T, key)
    <3>1. CASE Missing(key)
      <4>1. PICK i \in 1..Len(T) : T[i] = S(key)
        BY <1>1, <1>6, <3>1 DEF lost
      <4> QED BY <1>2, <1>3, <1>6, <4>1 DEF HasLine
    <3>2. CASE ~Missing(key)
      <4>1. PICK i \in 1..n : text[i].key = key
        BY <1>2, <3>2 DEF Missing, HasLine
      <4> QED BY <1>1, <1>2, <1>4, <4>1 DEF HasLine
    <3> QED BY <3>1, <3>2
  <2>3. Lookup(T, key) = u[key]
    BY <1>1, <2>1, <2>2, LookupOnly
  <2> QED BY <1>6, <2>3
<1>7. CASE key \notin DOMAIN u
  <2>1. \A i \in 1..n : T[i].key = text[i].key /\ (text[i].key = key => T[i] = text[i])
    BY <1>1, <1>7 DEF lost
  <2>2. \A i \in 1..Len(T) : i > n => T[i].key # key
    BY <1>1, <1>3, <1>7
  <2>3. Hits(T, key) = Hits(text, key)
    <3>1. \A i : i \in Hits(T, key) <=> i \in Hits(text, key)
      <4> TAKE i
      <4>1. CASE i \in 1..n
        BY <1>2, <1>4, <2>1, <4>1 DEF Hits
      <4>2. CASE i \notin 1..n
        BY <1>2, <1>5, <2>2, <4>2 DEF Hits
      <4> QED BY <4>1, <4>2
    <3> QED BY <3>1
  <2>4. CASE Hits(text, key) = {}
    BY <1>1, <1>7, <2>3, <2>4, LookupFacts
  <2>5. CASE Hits(text, key) # {}
    <3> DEFINE f == First(Hits(text, key))
    <3>1. f \in Hits(text, key) /\ Lookup(text, key) = text[f].value
      BY <2>5, LookupFacts
    <3>2. Lookup(T, key) = T[f].value
      BY <1>1, <2>3, <2>5, LookupFacts
    <3>3. T[f] = text[f]
      <4> HIDE DEF f
      <4> QED BY <1>2, <2>1, <3>1 DEF Hits
    <3> QED BY <1>7, <3>1, <3>2, <3>3
  <2> QED BY <2>4, <2>5
<1> QED BY <1>6, <1>7

\* Where no line is glued every line no update is for stays where it is.
LEMMA OtherLinesStay ==
  ASSUME NEW text \in Text, NEW u, IsUpdate(u), NEW T, Shape(T, text, u), Lost(text, u) = {}
  PROVE  OtherLines(T, u) = OtherLines(text, u)
<1> DEFINE n == Len(text)
           others(t) == {j \in DOMAIN t : t[j].key \notin DOMAIN u}
<1>1. /\ T \in Text /\ n <= Len(T)
      /\ \A i \in 1..n :
           /\ T[i].key = text[i].key
           /\ T[i] = IF text[i].key \in DOMAIN u THEN Set(text[i].key, u) ELSE text[i]
      /\ \A i \in 1..Len(T) : i > n => \E k \in DOMAIN u : T[i] = Set(k, u)
  <2>1. \A k : k \notin Lost(text, u)
    OBVIOUS
  <2> QED BY <2>1, Zenon DEF Shape
<1>2. /\ n \in Nat /\ DOMAIN text = 1..n
      /\ Len(T) \in Nat /\ DOMAIN T = 1..Len(T)
  BY <1>1, TextFacts
<1>3. \A k \in DOMAIN u : Set(k, u).key = k
  BY SetFacts
<1> HIDE DEF n
<1>4. \A i \in 1..n : i \in 1..Len(T)
  BY <1>1, <1>2
<1>5. \A i \in 1..Len(T) : i \in 1..n \/ i > n
  BY <1>2
<1>6. \A i \in 1..Len(T) : i > n => T[i].key \in DOMAIN u
  BY <1>1, <1>3
<1>7. others(T) = others(text) /\ \A i \in others(text) : T[i] = text[i]
  <2>1. \A i : i \in others(T) <=> i \in others(text)
    <3> TAKE i
    <3>1. CASE i \in 1..n
      BY <1>1, <1>2, <1>4, <3>1
    <3>2. CASE i \notin 1..n
      BY <1>2, <1>5, <1>6, <3>2
    <3> QED BY <3>1, <3>2
  <2>2. \A i \in others(text) : T[i] = text[i]
    BY <1>1, <1>2
  <2> QED BY <2>1, <2>2
<1>8. OtherLines(T, u) = {<<i, T[i]>> : i \in others(T)}
  BY Zenon DEF OtherLines
<1>9. OtherLines(text, u) = {<<i, text[i]>> : i \in others(text)}
  BY Zenon DEF OtherLines
<1> HIDE DEF others
<1> QED BY <1>7, <1>8, <1>9

\* A facility that has the obligatory keys and is not to lose its name is one
\* the optimizer can use, a glued last line or not.
LEMMA MergedIsUsable ==
  ASSUME NEW text \in Text, NEW u, IsUpdate(u), NEW T, Shape(T, text, u),
         HasObligatory(text),
         IF "name" \in DOMAIN u THEN u["name"] # Empty ELSE Lookup(text, "name") # Empty
  PROVE  Usable(T)
<1> DEFINE n == Len(text)
           lost == Lost(text, u)
<1>1. /\ T \in Text /\ n <= Len(T)
      /\ \A i \in 1..n : T[i].key = text[i].key
      /\ lost # {} =>
           /\ n >= 1 /\ T[n].value = Garbled
           /\ \A key \in lost : key = text[n].key \/ ~HasLine(text, key)
  BY Zenon DEF Shape
<1>2. /\ n \in Nat /\ DOMAIN text = 1..n
      /\ Len(T) \in Nat /\ DOMAIN T = 1..Len(T)
  BY <1>1, TextFacts
<1>3. "name" \in Keys /\ HasLine(text, "name") /\ Garbled # Empty
  BY FileConstants DEF HasObligatory
<1> HIDE DEF n, lost
<1>4. \A i \in 1..n : i \in 1..Len(T)
  BY <1>1, <1>2
<1>5. HasObligatory(T)
  <2>1. \A key : HasLine(text, key) => HasLine(T, key)
    <3> SUFFICES ASSUME NEW key, HasLine(text, key) PROVE HasLine(T, key)
      OBVIOUS
    <3>1. PICK i \in 1..n : text[i].key = key
      BY <1>2 DEF HasLine
    <3> QED BY <1>1, <1>2, <1>4, <3>1 DEF HasLine
  <2> QED BY <2>1 DEF HasObligatory
<1>6. CASE "name" \notin lost
  <2>1. Lookup(T, "name") = IF "name" \in DOMAIN u THEN u["name"] ELSE Lookup(text, "name")
    BY <1>3, <1>6, LookupMerged DEF lost
  <2>2. Lookup(T, "name") # Empty
    BY <2>1
  <2> QED BY <1>5, <2>2 DEF Usable
<1>7. CASE "name" \in lost
  <2>1. n \in 1..n
    BY <1>1, <1>2, <1>7
  <2>2. T[n].key = "name" /\ T[n].value # Empty
    BY <1>1, <1>3, <1>7, <2>1
  <2>3. n \in Hits(T, "name")
    BY <1>2, <1>4, <2>1, <2>2 DEF Hits
  <2>4. /\ First(Hits(T, "name")) \in Hits(T, "name")
        /\ Lookup(T, "name") = T[First(Hits(T, "name"))].value
    BY <1>1, <2>3, LookupFacts
  <2>5. Lookup(T, "name") # Empty
    BY <2>4 DEF Hits
  <2> QED BY <1>5, <2>5 DEF Usable
<1> QED BY <1>6, <1>7

-----------------------------------------------------------------------------
(* What a file may become.                                                   *)

\* The updates of a body that parses are known keys with a value or none.
LEMMA BodySets ==
  ASSUME NEW body \in Bodies, Parses(body)
  PROVE  IsUpdate(Updates(body))
<1> DEFINE n == Len(body)
           keys == {body[i].key : i \in DOMAIN body}
           Last(key, i) == /\ body[i].key = key
                           /\ \A j \in DOMAIN body : body[j].key = key => j <= i
<1>1. /\ n \in Nat /\ DOMAIN body = 1..n
      /\ \A i \in 1..n : body[i] \in [key : FileKeys, value : Values \cup {Empty, TooLong},
                                      newline : BOOLEAN]
  <2> DEFINE L == [key : FileKeys, value : Values \cup {Empty, TooLong}, newline : BOOLEAN]
  <2>1. body \in Seq(L)
    BY DirectoryConstants
  <2> HIDE DEF L
  <2>2. n \in Nat /\ DOMAIN body = 1..n /\ \A i \in 1..n : body[i] \in L
    BY <2>1, LenProperties
  <2> QED BY <2>2 DEF L
<1>2. \A i \in 1..n : body[i].key \in Keys /\ body[i].value \in Values \cup {Empty}
  <2>1. \A i \in 1..n : body[i].value \in Values \cup {Empty, TooLong}
    BY <1>1
  <2>2. \A i \in 1..n : body[i].key \in Keys /\ body[i].value # TooLong
    BY <1>1 DEF Parses
  <2> QED BY <2>1, <2>2
<1>3. Updates(body) = [key \in keys |-> body[CHOOSE i \in DOMAIN body : Last(key, i)].value]
  BY Zenon DEF Updates
<1> HIDE DEF n
<1>4. ASSUME NEW key \in keys
      PROVE  \E i \in DOMAIN body : Last(key, i)
  <2> DEFINE S == {i \in 1..n : body[i].key = key}
  <2>1. S \in SUBSET (1..n) /\ S # {}
    BY <1>1
  <2>2. PICK last \in S : \A j \in S : j <= last
    <3> HIDE DEF S
    <3> QED BY <1>1, <2>1, LastOfThem
  <2> QED BY <1>1, <2>2
<1> HIDE DEF Last
<1>5. \A key \in keys : body[CHOOSE i \in DOMAIN body : Last(key, i)].value \in Values \cup {Empty}
  BY <1>1, <1>2, <1>4
<1>6. \A key \in keys : key \in Keys
  BY <1>1, <1>2
<1> HIDE DEF keys
<1>7. DOMAIN Updates(body) = keys /\ \A key \in keys : Updates(body)[key] \in Values \cup {Empty}
  BY <1>3, <1>5
<1> QED BY <1>6, <1>7 DEF IsUpdate

\* What a write that ends early leaves is a text.
LEMMA TruncationsAreTexts ==
  ASSUME NEW text \in Text, NEW T \in Truncations(text)
  PROVE  T \in Text
<1> DEFINE n == Len(text)
           Cut(k) == SubSeq(text, 1, k)
<1>1. n \in Nat /\ \A i \in 1..n : text[i] \in Line /\ (text[i].newline \/ i = n)
  BY TextFacts
<1>2. ASSUME NEW k \in 0..n
      PROVE  Cut(k) \in Seq(Line) /\ Len(Cut(k)) = k /\ \A i \in 1..k : Cut(k)[i] = text[i]
  <2> HIDE DEF n
  <2>1. \A i \in 1..k : i \in 1..n
    BY <1>1, <1>2
  <2>2. \A i \in 1..k : text[i] \in Line
    BY <1>1, <2>1
  <2>3. k \in Int /\ 1 \in Int
    OBVIOUS
  <2>4. /\ Cut(k) \in Seq(Line) /\ Len(Cut(k)) = IF 1 <= k THEN k - 1 + 1 ELSE 0
        /\ \A i \in 1..(k - 1 + 1) : Cut(k)[i] = text[1 + i - 1]
    BY <2>2, <2>3, SubSeqProperties
  <2> HIDE DEF Cut
  <2>5. Len(Cut(k)) = k
    BY <1>1, <2>4
  <2>6. \A i \in 1..k : i \in 1..(k - 1 + 1) /\ 1 + i - 1 = i
    BY <1>1
  <2> QED BY <2>4, <2>5, <2>6
<1>3. CASE \E k \in 0..n : T = Cut(k)
  <2>1. PICK k \in 0..n : T = Cut(k)
    BY <1>3
  <2> HIDE DEF Cut, n
  <2>2. \A i \in 1..k : i \in 1..n /\ (i = n => i = k)
    BY <1>1
  <2>3. T \in Seq(Line) /\ Len(T) = k /\ \A i \in 1..k : T[i] = text[i]
    BY <1>2, <2>1
  <2>4. \A i \in 1..Len(T) : T[i].newline \/ i = Len(T)
    BY <1>1, <2>2, <2>3
  <2> QED BY <2>3, <2>4, IsText
<1>4. CASE \E k \in 0..(n - 1) : \E line \in Line : T = Cut(k) \o <<line>>
  <2>1. PICK k \in 0..(n - 1), line \in Line : T = Cut(k) \o <<line>>
    BY <1>4
  <2> DEFINE one == <<line>>
  <2>2. one \in Seq(Line) /\ Len(one) = 1
    OBVIOUS
  <2> HIDE DEF Cut, n, one
  <2>3. k \in 0..n /\ k \in Nat
    BY <1>1
  <2>4. Cut(k) \in Seq(Line) /\ Len(Cut(k)) = k /\ \A i \in 1..k : Cut(k)[i] = text[i]
    BY <1>2, <2>3
  <2>5. /\ T \in Seq(Line) /\ Len(T) = k + 1
        /\ \A i \in 1..(k + 1) : T[i] = IF i <= k THEN Cut(k)[i] ELSE one[i - k]
    <3>1. /\ Cut(k) \o one \in Seq(Line) /\ Len(Cut(k) \o one) = Len(Cut(k)) + Len(one)
          /\ \A i \in 1..(Len(Cut(k)) + Len(one)) :
               (Cut(k) \o one)[i] = IF i <= Len(Cut(k)) THEN Cut(k)[i] ELSE one[i - Len(Cut(k))]
      BY <2>2, <2>4, ConcatProperties
    <3>2. T = Cut(k) \o one
      BY <2>1 DEF one
    <3> QED BY <2>2, <2>4, <3>1, <3>2
  <2>6. \A i \in 1..(k + 1) : i = k + 1 \/ (i \in 1..k /\ i <= k /\ i \in 1..n /\ i # n)
    BY <1>1
  <2>7. \A i \in 1..Len(T) : T[i].newline \/ i = Len(T)
    <3> TAKE i \in 1..Len(T)
    <3>1. CASE i = k + 1
      BY <2>5, <3>1
    <3>2. CASE i # k + 1
      <4>1. i \in 1..k /\ i <= k /\ i \in 1..n /\ i # n
        BY <2>5, <2>6, <3>2
      <4>2. T[i] = text[i]
        BY <2>4, <2>5, <4>1
      <4> QED BY <1>1, <4>1, <4>2
    <3> QED BY <3>1, <3>2
  <2> QED BY <2>5, <2>7, IsText
<1>5. (\E k \in 0..n : T = Cut(k)) \/ (\E k \in 0..(n - 1) : \E line \in Line : T = Cut(k) \o <<line>>)
  <2> DEFINE Part(line) == {[line EXCEPT !.newline = FALSE],
                            [line EXCEPT !.newline = FALSE, !.value = Empty],
                            [line EXCEPT !.newline = FALSE, !.value = Garbled],
                            [key |-> Other, value |-> Garbled, newline |-> FALSE]}
  <2>1. \/ \E k \in 0..n : T = Cut(k)
        \/ \E k \in 0..(n - 1) : \E line \in Part(text[k + 1]) : T = Cut(k) \o <<line>>
    BY Zenon DEF Truncations
  <2>2. \A line \in Line : \A part \in Part(line) : part \in Line
    <3>1. \A line \in Line : [line EXCEPT !.newline = FALSE] \in Line
      BY DEF Line
    <3>2. \A line \in Line : [line EXCEPT !.newline = FALSE, !.value = Empty] \in Line
      BY DEF Line
    <3>3. \A line \in Line : [line EXCEPT !.newline = FALSE, !.value = Garbled] \in Line
      BY DEF Line
    <3>4. [key |-> Other, value |-> Garbled, newline |-> FALSE] \in Line
      BY DEF Line, FileKeys
    <3> QED BY <3>1, <3>2, <3>3, <3>4, Zenon
  <2>3. \A k \in 0..(n - 1) : text[k + 1] \in Line
    <3> HIDE DEF n
    <3> QED BY <1>1
  <2> HIDE DEF Part, n, Cut
  <2> QED BY <2>1, <2>2, <2>3
<1> QED BY <1>3, <1>4, <1>5

-----------------------------------------------------------------------------
\* The directory has texts, and what is saved is what the POST merged; since it
\* answers or signals nothing else is written.
FileInv ==
  /\ WriteInv
  /\ dir \in [Files -> Text \cup {NoFile}]
  /\ post.step \in Answers \cup {"write", "signal"}
  /\ post.base \in Text /\ IsUpdate(post.updates)
  /\ failures \in 0..MaxFailures
  /\ post.step \in {"signal", "200"} => dir[post.file] = Merged

LEMMA EmptyText == <<>> \in Text /\ IsUpdate(<<>>)
<1>1. <<>> \in Seq(Line) /\ DOMAIN <<>> = {}
  OBVIOUS
<1> QED BY <1>1 DEF Text, IsUpdate

LEMMA MergedIsText ==
  ASSUME FileInv
  PROVE  Merged \in Text /\ Shape(Merged, post.base, post.updates)
<1>1. post.base \in Text /\ IsUpdate(post.updates)
  BY DEF FileInv
<1>2. Shape(Merged, post.base, post.updates)
  BY <1>1, MergeShape DEF Merged
<1> QED BY <1>2, Zenon DEF Shape

\* A POST that ends early, or is refused, has an idle record.
LEMMA EndsEarly ==
  ASSUME WriteInv', NEW step \in Answers \ {"200"}, post' = [Idle EXCEPT !.step = step],
         dir' \in [Files -> Text \cup {NoFile}], failures' \in 0..MaxFailures
  PROVE  FileInv'
<1>1. post' = [step |-> step, name |-> Empty, file |-> Template, base |-> <<>>, updates |-> <<>>]
  BY IdleFacts
<1>2. post'.step = step /\ post'.base = <<>> /\ post'.updates = <<>>
  BY <1>1
<1> QED BY <1>2, EmptyText DEF FileInv, Answers

\* One that has saved its file keeps what it was about.
LEMMA GoesOnSaved ==
  ASSUME FileInv, WriteInv', NEW step \in {"signal", "200"}, post' = [post EXCEPT !.step = step],
         dir' \in [Files -> Text \cup {NoFile}], failures' = failures, dir'[post.file] = Merged
  PROVE  FileInv'
<1>1. post' = [step |-> step, name |-> post.name, file |-> post.file,
               base |-> post.base, updates |-> post.updates]
  BY DEF FileInv, WriteInv
<1>2. /\ post'.step = step /\ post'.file = post.file /\ post'.base = post.base
      /\ post'.updates = post.updates
  BY <1>1
<1>3. Merged' = Merged
  BY <1>2 DEF Merged
<1>4. dir'[post'.file] = Merged'
  BY <1>2, <1>3
<1>5. /\ post'.step \in Answers \cup {"write", "signal"}
      /\ post'.base \in Text /\ IsUpdate(post.updates) /\ failures' \in 0..MaxFailures
  BY <1>2 DEF FileInv, Answers
<1>6. IsUpdate(post.updates)'
  BY <1>2, <1>5 DEF IsUpdate
<1> QED BY <1>4, <1>5, <1>6 DEF FileInv

\* What a facility without a file begins with is a text.
LEMMA ExistingIsText ==
  ASSUME FileInv, NEW file \in Files, NEW base \in Existing(file)
  PROVE  base \in Text
<1>1. \A f \in Files : dir[f] \in Text \cup {NoFile}
  BY DEF FileInv
<1>2. Template \in Files /\ Blank \in Text
  BY DirectoryConstants
<1>3. \A f \in Files : \A text \in Reads(f) : text \in Text \cup {NoFile}
  BY <1>1, EmptyText DEF Reads
<1> QED BY <1>2, <1>3 DEF Existing

LEMMA FileInvInit == Init => FileInv
<1> SUFFICES ASSUME Init PROVE FileInv
  OBVIOUS
<1>1. dir \in [Files -> Text \cup {NoFile}] /\ failures = 0 /\ MaxFailures \in Nat
  BY DirectoryConstants DEF Init
<1>2. post = [step |-> "idle", name |-> Empty, file |-> Template, base |-> <<>>, updates |-> <<>>]
  BY IdleFacts DEF Init
<1>3. post.step = "idle" /\ post.base = <<>> /\ post.updates = <<>>
  BY <1>2
<1>4. failures \in 0..MaxFailures
  BY <1>1
<1> QED BY <1>1, <1>3, <1>4, EmptyText, WriteInvInit DEF FileInv, Answers

LEMMA FileInvStep == FileInv /\ [Next]_vars => FileInv'
<1> SUFFICES ASSUME FileInv, [Next]_vars PROVE FileInv'
  OBVIOUS
<1>1. WriteInv'
  BY WriteInvStep DEF FileInv
<1>2. /\ dir \in [Files -> Text \cup {NoFile}] /\ post.file \in Files
      /\ failures \in 0..MaxFailures /\ MaxFailures \in Nat
  BY DirectoryConstants DEF FileInv, WriteInv
<1>3. /\ Idle = [Idle EXCEPT !.step = "idle"]
      /\ "idle" \in Answers \ {"200"} /\ "400" \in Answers \ {"200"} /\ "503" \in Answers \ {"200"}
  BY IdleFacts DEF Answers
<1>4. ASSUME NEW text \in Text, dir' = [dir EXCEPT ![post.file] = text]
      PROVE  dir' \in [Files -> Text \cup {NoFile}] /\ dir'[post.file] = text
  BY <1>2, <1>4
<1>5. CASE Reject \/ OpenFails \/ CrashInParse \/ CrashInSignal \/ SignalFails
  <2>1. UNCHANGED <<dir, failures>>
    BY <1>5 DEF Reject, OpenFails, CrashInParse, CrashInSignal, SignalFails
  <2>2. \E step \in {"idle", "400", "503"} : post' = [Idle EXCEPT !.step = step]
    BY <1>3, <1>5 DEF Reject, OpenFails, CrashInParse, CrashInSignal, SignalFails
  <2> QED BY <1>1, <1>2, <1>3, <2>1, <2>2, EndsEarly
<1>6. CASE Open
  <2>1. PICK name \in Names, body \in Bodies : \E file \in Paths(name) : \E base \in Existing(file) :
          /\ Parses(body)
          /\ post' = [step |-> "write", name |-> name, file |-> file,
                      base |-> base, updates |-> Updates(body)]
          /\ dir' = [dir EXCEPT ![file] = <<>>]
    BY <1>6 DEF Open
  <2>2. PICK file \in Paths(name) : \E base \in Existing(file) :
          /\ Parses(body)
          /\ post' = [step |-> "write", name |-> name, file |-> file,
                      base |-> base, updates |-> Updates(body)]
          /\ dir' = [dir EXCEPT ![file] = <<>>]
    BY <2>1
  <2>3. PICK base \in Existing(file) :
          /\ Parses(body)
          /\ post' = [step |-> "write", name |-> name, file |-> file,
                      base |-> base, updates |-> Updates(body)]
          /\ dir' = [dir EXCEPT ![file] = <<>>]
    BY <2>2
  <2>4. file \in Files
    BY PathsAreItsOwn
  <2>5. base \in Text /\ IsUpdate(Updates(body))
    BY <2>3, <2>4, ExistingIsText, BodySets
  <2>6. dir' \in [Files -> Text \cup {NoFile}]
    BY <1>2, <2>3, <2>4, EmptyText
  <2>7. post'.step = "write" /\ post'.base = base /\ post'.updates = Updates(body)
    BY <2>3
  <2>8. IsUpdate(post.updates)'
    BY <2>5, <2>7 DEF IsUpdate
  <2>9. failures' = failures
    BY <1>6 DEF Open
  <2> QED BY <1>1, <1>2, <2>5, <2>6, <2>7, <2>8, <2>9 DEF FileInv
<1>7. CASE Write
  <2>1. /\ dir' = [dir EXCEPT ![post.file] = Merged] /\ post' = [post EXCEPT !.step = "signal"]
        /\ failures' = failures
    BY <1>7 DEF Write
  <2>2. dir' \in [Files -> Text \cup {NoFile}] /\ dir'[post.file] = Merged
    BY <1>4, <2>1, MergedIsText
  <2> QED BY <1>1, <2>1, <2>2, GoesOnSaved
<1>8. CASE WriteFails \/ CrashInWrite
  <2>1. /\ CutShort
        /\ \E step \in {"idle", "503"} : post' = [Idle EXCEPT !.step = step]
    BY <1>3, <1>8 DEF WriteFails, CrashInWrite
  <2>2. PICK text \in Truncations(Merged) : dir' = [dir EXCEPT ![post.file] = text]
    BY <2>1 DEF CutShort
  <2>3. text \in Text
    BY MergedIsText, TruncationsAreTexts
  <2>4. dir' \in [Files -> Text \cup {NoFile}]
    BY <1>4, <2>2, <2>3
  <2>5. failures' \in 0..MaxFailures
    BY <1>2, <2>1 DEF CutShort
  <2> QED BY <1>1, <1>3, <2>1, <2>4, <2>5, EndsEarly
<1>9. CASE Signal
  <2>1. /\ post' = [post EXCEPT !.step = "200"] /\ UNCHANGED <<dir, failures>>
        /\ dir[post.file] = Merged
    BY <1>9 DEF Signal, FileInv
  <2>2. dir' \in [Files -> Text \cup {NoFile}] /\ dir'[post.file] = Merged
    BY <1>2, <2>1
  <2> QED BY <1>1, <2>1, <2>2, GoesOnSaved
<1>10. CASE UNCHANGED vars
  <2>1. dir' = dir /\ post' = post /\ failures' = failures
    BY <1>10 DEF vars
  <2>2. IsUpdate(post.updates)'
    BY <2>1 DEF FileInv, IsUpdate
  <2>3. Merged' = Merged
    BY <2>1 DEF Merged
  <2> QED BY <1>1, <2>1, <2>2, <2>3 DEF FileInv
<1> QED BY <1>5, <1>6, <1>7, <1>8, <1>9, <1>10 DEF Next

LEMMA SavesWhatItMerged == Spec => []FileInv
<1>1. Init => FileInv
  BY FileInvInit
<1>2. FileInv /\ [Next]_vars => FileInv'
  BY FileInvStep
<1> QED BY <1>1, <1>2, PTL DEF Spec

-----------------------------------------------------------------------------
(* The directory has texts of which only the last line may lack its newline, *)
(* and a POST under way has the file it writes, which is empty.              *)
THEOREM TypeCorrect == Spec => []TypeOK
<1>1. FileInv => TypeOK
  BY DEF FileInv, WriteInv, TypeOK, IsUpdate
<1> QED BY <1>1, SavesWhatItMerged, PTL

(* A POST answered 200 has updated the facility: what it sets is read back,   *)
(* every other key is as it was and every other line where it was, but for    *)
(* what is glued to a last line without a newline.                            *)
THEOREM PostUpdates == Spec => []PostIsAnUpdate
<1>1. FileInv => PostIsAnUpdate
  <2> SUFFICES ASSUME FileInv, post.step = "200" PROVE PostIsAnUpdate
    BY DEF PostIsAnUpdate
  <2> DEFINE text == dir[post.file]
             base == post.base
             u == post.updates
             lost == Lost(base, u)
  <2>1. text = Merged /\ base \in Text /\ IsUpdate(u)
    BY DEF FileInv
  <2>2. Shape(text, base, u)
    BY <2>1, MergedIsText
  <2> HIDE DEF text, base, u
  <2>3. \A key \in Keys \ lost :
          Lookup(text, key) = IF key \in DOMAIN u THEN u[key] ELSE Lookup(base, key)
    BY <2>1, <2>2, LookupMerged
  <2>4. lost = {} => OtherLines(text, u) = OtherLines(base, u)
    BY <2>1, <2>2, OtherLinesStay
  <2> QED BY <2>3, <2>4, Zenon DEF PostIsAnUpdate, text, base, u
<1> QED BY <1>1, SavesWhatItMerged, PTL

(* A facility the optimizer can load is one it can load after a POST answered *)
(* 200, whether or not a line was glued to its last one.                      *)
THEOREM LoadableStays == Spec => []StaysLoadable
<1>1. FileInv => StaysLoadable
  <2> DEFINE Named == IF "name" \in DOMAIN post.updates THEN post.updates["name"] # Empty
                      ELSE Lookup(post.base, "name") # Empty
  <2> SUFFICES ASSUME FileInv, post.step = "200", HasObligatory(post.base), Named
               PROVE  Usable(dir[post.file])
    BY Zenon DEF StaysLoadable
  <2>1. dir[post.file] = Merged /\ post.base \in Text /\ IsUpdate(post.updates)
    BY DEF FileInv
  <2>2. Shape(dir[post.file], post.base, post.updates)
    BY <2>1, MergedIsText
  <2>4. IF "name" \in DOMAIN post.updates THEN post.updates["name"] # Empty
        ELSE Lookup(post.base, "name") # Empty
    BY Zenon
  <2> QED BY <2>1, <2>2, <2>4, MergedIsUsable
<1> QED BY <1>1, SavesWhatItMerged, PTL
=============================================================================
