-------------------------- MODULE OptiServerProofs --------------------------
(***************************************************************************)
(* Type correctness of OptiServer, the safety of its hand-over chain, and  *)
(* that it implements the safety of RequestService, for any number of      *)
(* clients, any requests, any faults and any retry limit.                  *)
(***************************************************************************)
EXTENDS OptiServer, TLAPS

(* A connection's record that is of its type and, if it is to be answered, *)
(* has a status.                                                           *)
GoodConn(r) ==
  /\ r \in ConnRecord
  /\ r.state \in {"RESPONDING", "WEATHER_HANDOVER"} => r.status # 0

-----------------------------------------------------------------------------
(* Lemmas: the scheduler, and the records a connection goes through.       *)

(* What a task's return does to the scheduler's two sets.                  *)
LEMMA ReturnType ==
  ASSUME NEW t, NEW born \in SUBSET Task, NEW dead,
         tasks \subseteq Task, pending \subseteq tasks, Return(t, born, dead)
  PROVE  tasks' \subseteq Task /\ pending' \subseteq tasks'
BY DEF Return

(* The tasks of the servers, connections and instances are tasks.          *)
LEMMA TaskKinds ==
  /\ ServerTasks \subseteq Task
  /\ \A c \in Conns : ConnTask(c) \in Task /\ InstTask(c) \in Task
BY DEF Task, ServerTasks, ConnTask, InstTask

(* A connection record just made is good.                                  *)
LEMMA FreshConnGood == GoodConn(FreshConn)
BY DEF GoodConn, FreshConn, ConnRecord, ConnPhases, ConnStates, ReadingStates,
       Codes, NoReply, Reply

(* Changing one field of a connection record within its range.             *)
LEMMA ConnFields ==
  ASSUME NEW r \in ConnRecord
  PROVE  /\ \A s \in ConnPhases : [r EXCEPT !.state = s] \in ConnRecord
         /\ \A n \in Nat : [r EXCEPT !.retries = n] \in ConnRecord
         /\ \A n \in 0 .. 3 : [r EXCEPT !.read = n] \in ConnRecord
         /\ \A b \in BOOLEAN : [r EXCEPT !.parsed = b] \in ConnRecord
         /\ \A k \in Codes : [r EXCEPT !.status = k] \in ConnRecord
         /\ \A k \in Codes : [r EXCEPT !.full_response = k] \in ConnRecord
         /\ \A b \in BOOLEAN : [r EXCEPT !.weather_done = b] \in ConnRecord
         /\ \A p \in Reply : [r EXCEPT !.reply = p] \in ConnRecord
BY DEF ConnRecord

(* A record that leaves for a state without an answer is good, ...         *)
LEMMA GoesOn ==
  ASSUME NEW r \in ConnRecord,
         NEW s \in ConnPhases \ {"RESPONDING", "WEATHER_HANDOVER"}
  PROVE  GoodConn([r EXCEPT !.state = s])
BY DEF GoodConn, ConnRecord

(* (a status that is set is the one read back)                             *)
LEMMA StatusChanges ==
  ASSUME NEW r \in ConnRecord, NEW k \in Codes
  PROVE  [r EXCEPT !.status = k] \in ConnRecord /\ [r EXCEPT !.status = k].status = k
BY DEF ConnRecord

(* ... and so is one that leaves for any state with a status.              *)
LEMMA GoesAnswered ==
  ASSUME NEW r \in ConnRecord, NEW k \in Codes, NEW s \in ConnPhases
  PROVE  GoodConn([r EXCEPT !.status = k, !.state = s])
<1>1. [r EXCEPT !.status = k, !.state = s] \in ConnRecord
  BY DEF ConnRecord
<1>2. [r EXCEPT !.status = k, !.state = s].status = k
  BY DEF ConnRecord
<1>3. k # 0
  BY DEF Codes
<1>4. QED
  BY <1>1, <1>2, <1>3 DEF GoodConn

(* A connection's task returning leaves every variable of its type.        *)
LEMMA ConnBecomesType ==
  ASSUME TypeInv, NEW c \in Conns, NEW r, GoodConn(r), ConnBecomes(c, r)
  PROVE  TypeInv'
<1>1. conn' \in [Conns -> ConnRecord] /\ StatusSet'
  BY DEF ConnBecomes, TypeInv, TypeOK, StatusSet, GoodConn
<1>2. tasks' \subseteq Task /\ pending' \subseteq tasks'
  BY ReturnType DEF ConnBecomes, TypeInv, TypeOK
<1>3. QED
  BY <1>1, <1>2 DEF ConnBecomes, TypeInv, TypeOK, SlotsFilled, servers

(* What TypeInv says of one connection.                                    *)
LEMMA ConnTyped ==
  ASSUME TypeInv, NEW c \in Conns
  PROVE  /\ conn[c] \in ConnRecord
         /\ GoodConn(conn[c])
         /\ conn[c].retries \in Nat
         /\ conn[c].retries + 1 \in Nat
<1>1. conn[c] \in ConnRecord /\ GoodConn(conn[c])
  BY DEF TypeInv, TypeOK, StatusSet, GoodConn
<1>2. conn[c].retries \in Nat
  BY <1>1 DEF ConnRecord
<1>3. QED
  BY <1>1, <1>2

(* The states and codes the actions name are in their ranges.              *)
LEMMA Names ==
  /\ {"READING_FIRSTLINE", "READING_HEADERS", "READING_BODY", "VALIDATING",
      "DISPOSING", "ERROR", "FREED", "ACCEPTED", "REFUSED"}
       \subseteq ConnPhases \ {"RESPONDING", "WEATHER_HANDOVER"}
  /\ {"RESPONDING", "WEATHER_HANDOVER"} \subseteq ConnPhases
  /\ {200, 400, 404, 500} \subseteq Codes
BY DEF ConnPhases, ConnStates, ReadingStates, Codes

LEMMA AnswerNames ==
  /\ "RESPONDING" \in ConnPhases /\ "WEATHER_HANDOVER" \in ConnPhases
  /\ 200 \in Codes /\ 400 \in Codes /\ 500 \in Codes
BY DEF ConnPhases, ConnStates, Codes

-----------------------------------------------------------------------------
(* Each part of the next-state relation preserves TypeInv.                 *)

LEMMA ConnReadingType ==
  ASSUME TypeInv, NEW c \in Conns, ConnReading(c)
  PROVE  TypeInv'
<1>r. conn[c] \in ConnRecord /\ conn[c].retries + 1 \in Nat
  BY ConnTyped
<1>g. ASSUME NEW r \in ConnRecord
      PROVE  /\ \A s \in {"READING_FIRSTLINE", "READING_HEADERS", "READING_BODY",
                          "VALIDATING", "ERROR"} : GoodConn([r EXCEPT !.state = s])
             /\ GoodConn([r EXCEPT !.status = 400, !.state = "RESPONDING"])
  <2>1. ASSUME NEW s \in {"READING_FIRSTLINE", "READING_HEADERS", "READING_BODY",
                          "VALIDATING", "ERROR"}
        PROVE  GoodConn([r EXCEPT !.state = s])
    <3>1. s \in ConnPhases \ {"RESPONDING", "WEATHER_HANDOVER"}
      BY Names
    <3>2. QED
      BY ZenonT(60), <3>1, GoesOn
  <2>2. GoodConn([r EXCEPT !.status = 400, !.state = "RESPONDING"])
    BY ZenonT(60), AnswerNames, GoesAnswered
  <2>3. QED
    BY <2>1, <2>2
<1>n. ASSUME NEW n \in 0 .. 3
      PROVE  Counted(c, n) \in ConnRecord
  BY <1>r, ConnFields DEF Counted
<1>1. CASE ConnInitializing(c)
  BY <1>1, <1>r, <1>g, ConnBecomesType DEF ConnInitializing
<1>2. CASE ReadRetriesExceeded(c) \/ ReadNoMemory(c)
  <2>1. GoodConn([conn[c] EXCEPT !.state = "ERROR", !.retries = @ + 1])
    BY <1>r DEF GoodConn, ConnRecord, ConnPhases, ConnStates
  <2>2. QED
    BY <1>2, <2>1, ConnBecomesType DEF ReadRetriesExceeded, ReadNoMemory
<1>3. ASSUME NEW n \in 0 .. 3, conn[c].state \in ReadingStates
      PROVE  GoodConn(Counted(c, n))
  <2>1. Counted(c, n).state \in ReadingStates
    BY <1>r, <1>3 DEF Counted, ConnRecord
  <2>2. QED
    BY <1>n, <2>1 DEF GoodConn, ReadingStates
<1>4. CASE ConnReadFirstline(c)
  <2>1. ASSUME NEW r \in ConnRecord
        PROVE  GoodConn([r EXCEPT !.parsed = TRUE, !.state = "READING_HEADERS"])
    BY DEF GoodConn, ConnRecord, ConnPhases, ConnStates, ReadingStates
  <2>2. QED
    BY ZenonT(60), <1>3, <1>4, <1>n, <1>g, <2>1, ConnBecomesType
    DEF ConnReadFirstline, ConnRuns, ReadingStates
<1>5. CASE ConnReadHeaders(c)
  <2>1. ASSUME NEW r \in ConnRecord
        PROVE  [r EXCEPT !.retries = 0] \in ConnRecord
    BY ConnFields
  <2>2. QED
    BY ZenonT(60), <1>3, <1>5, <1>n, <1>g, <2>1, ConnBecomesType
    DEF ConnReadHeaders, ConnRuns, ReadingStates
<1>6. CASE ConnReadBody(c)
  <2>1. ASSUME NEW r \in ConnRecord
        PROVE  GoodConn([r EXCEPT !.retries = 0, !.state = "VALIDATING"])
    BY DEF GoodConn, ConnRecord, ConnPhases, ConnStates
  <2>2. QED
    BY <1>3, <1>6, <1>n, <2>1, ConnBecomesType
    DEF ConnReadBody, ConnRuns, ReadingStates
<1>7. QED
  BY <1>1, <1>2, <1>4, <1>5, <1>6 DEF ConnReading

(* A connection that responds has something to say.                        *)
LEMMA ReplyTyped ==
  ASSUME TypeInv, NEW c \in Conns, conn[c].state = "RESPONDING", NEW echo
  PROVE  ReplyOf(conn[c], echo) \in Reply
<1>1. conn[c].status \in Codes /\ conn[c].full_response \in Codes \cup {0}
  BY ConnTyped DEF GoodConn, ConnRecord
<1>2. QED
  BY <1>1, Names DEF ReplyOf, Reply

LEMMA ConnAnsweringType ==
  ASSUME TypeInv, NEW c \in Conns, ConnAnswering(c)
  PROVE  TypeInv'
<1>r. conn[c] \in ConnRecord /\ GoodConn(conn[c])
  BY ConnTyped
<1>i. inst \in [Conns -> InstRecord]
  BY DEF TypeInv, TypeOK
<1>t. /\ tasks \subseteq Task /\ pending \subseteq tasks
      /\ {ConnTask(c), InstTask(c)} \subseteq Task
  BY TaskKinds DEF TypeInv, TypeOK
<1>1. CASE ConnRejectMethod(c)
  <2>1. GoodConn([conn[c] EXCEPT !.status = 400, !.state = "RESPONDING"])
    BY ZenonT(60), <1>r, AnswerNames, GoesAnswered
  <2>2. QED
    BY ZenonT(60), <1>1, <2>1, ConnBecomesType DEF ConnRejectMethod
<1>2. CASE ConnAcceptEcho(c)
  <2>1. GoodConn([conn[c] EXCEPT !.status = 200, !.weather_done = TRUE,
                                 !.state = "RESPONDING"])
    <3>1. [conn[c] EXCEPT !.weather_done = TRUE] \in ConnRecord
      BY <1>r, ConnFields
    <3>2. [conn[c] EXCEPT !.status = 200, !.weather_done = TRUE, !.state = "RESPONDING"]
            = [[conn[c] EXCEPT !.weather_done = TRUE]
                 EXCEPT !.status = 200, !.state = "RESPONDING"]
      BY ZenonT(60), <1>r DEF ConnRecord
    <3>3. QED
      BY ZenonT(60), <3>1, <3>2, AnswerNames, GoesAnswered
  <2>2. QED
    BY <1>2, <2>1, ConnBecomesType DEF ConnAcceptEcho
<1>3. CASE ConnHandOver(c)
  <2>1. GoodConn([conn[c] EXCEPT !.status = 200, !.state = "WEATHER_HANDOVER"])
    BY ZenonT(60), <1>r, AnswerNames, GoesAnswered
  <2>2. conn' = [conn EXCEPT ![c] = [conn[c] EXCEPT !.status = 200,
                                                   !.state = "WEATHER_HANDOVER"]]
    BY <1>3 DEF ConnHandOver
  <2>3. conn' \in [Conns -> ConnRecord] /\ StatusSet'
    BY <2>1, <2>2 DEF GoodConn, TypeInv, TypeOK, StatusSet
  <2>4. inst' \in [Conns -> InstRecord]
    BY <1>3, <1>i DEF ConnHandOver, InstRecord, InstStates
  <2>5. tasks' \subseteq Task /\ pending' \subseteq tasks'
    BY <1>3, <1>t, ReturnType DEF ConnHandOver
  <2>6. QED
    BY <1>3, <2>3, <2>4, <2>5 DEF ConnHandOver, TypeInv, TypeOK, SlotsFilled, servers
<1>4. CASE ConnWeatherHandover(c)
  <2>1. conn[c].status # 0
    BY <1>4, <1>r DEF ConnWeatherHandover, ConnRuns, GoodConn
  <2>2. GoodConn([conn[c] EXCEPT !.state = "RESPONDING"])
    BY <1>r, <2>1, Names DEF GoodConn, ConnRecord
  <2>3. QED
    BY <1>4, <1>r, <2>2, ConnBecomesType DEF ConnWeatherHandover
<1>5. CASE ConnRespond(c)
  <2> DEFINE p == ReplyOf(conn[c], conn[c].parsed /\ req[c].route = "/echo")
  <2>1. p \in Reply
    BY <1>5, ReplyTyped DEF ConnRespond, ConnRuns
  <2>2. [conn[c] EXCEPT !.reply = p] \in ConnRecord
    BY <1>r, <2>1, ConnFields
  <2>3. GoodConn([[conn[c] EXCEPT !.reply = p] EXCEPT !.state = "DISPOSING"])
    BY <2>2, Names, GoesOn
  <2>4. QED
    BY <1>5, <2>3, ConnBecomesType DEF ConnRespond
<1>6. CASE ConnRespondNoMemory(c)
  BY <1>6, <1>r, Names, GoesOn, ConnBecomesType DEF ConnRespondNoMemory
<1>7. CASE ConnError(c)
  <2>1. GoodConn([conn[c] EXCEPT !.status = 500, !.state = "RESPONDING"])
    BY ZenonT(60), <1>r, AnswerNames, GoesAnswered
  <2>2. QED
    BY ZenonT(60), <1>7, <2>1, ConnBecomesType DEF ConnError
<1>8. CASE ConnDispose(c)
  <2>1. GoodConn([conn[c] EXCEPT !.state = "FREED"])
    BY <1>r, Names, GoesOn
  <2>2. conn' = [conn EXCEPT ![c] = [conn[c] EXCEPT !.state = "FREED"]]
    BY <1>8 DEF ConnDispose
  <2>3. conn' \in [Conns -> ConnRecord] /\ StatusSet'
    BY <2>1, <2>2 DEF GoodConn, TypeInv, TypeOK, StatusSet
  <2>4. inst' \in [Conns -> InstRecord]
    BY <1>8, <1>i DEF ConnDispose, InstRecord
  <2>5. tasks' \subseteq Task /\ pending' \subseteq tasks'
    BY <1>8, <1>t, ReturnType DEF ConnDispose
  <2>6. QED
    BY <1>8, <2>3, <2>4, <2>5 DEF ConnDispose, TypeInv, TypeOK, SlotsFilled, servers
<1>9. CASE ConnNullCall(c)
  BY <1>9 DEF ConnNullCall, TypeInv, TypeOK, StatusSet, SlotsFilled, servers
<1>10. QED
  BY <1>1, <1>2, <1>3, <1>4, <1>5, <1>6, <1>7, <1>8, <1>9 DEF ConnAnswering

LEMMA InstWorkType ==
  ASSUME TypeInv, NEW c \in Conns, InstWork(c)
  PROVE  TypeInv'
<1>r. conn[c] \in ConnRecord /\ GoodConn(conn[c])
  BY ConnTyped
<1>i. inst \in [Conns -> InstRecord]
  BY DEF TypeInv, TypeOK
<1>1. tasks' \subseteq Task /\ pending' \subseteq tasks'
  <2>1. Return(InstTask(c), {}, {})
    BY DEF InstWork, InstInitializing, InstRequestParsing, InstResponseBuilding,
           InstResponseNoMemory, InstResponseSending, InstDisposing, InstGoes
  <2>2. QED
    BY <2>1, ReturnType DEF TypeInv, TypeOK
<1>2. inst' \in [Conns -> InstRecord]
  <2>1. CASE InstRequestParsing(c)
    <3>1. [state |-> "RESPONSE_BUILDING", endpoint |-> req[c].route = "endpoint"]
            \in InstRecord
      BY DEF InstRecord, InstStates
    <3>2. QED
      BY <1>i, <2>1, <3>1 DEF InstRequestParsing
  <2>2. ASSUME NEW s \in InstStates, InstGoes(c, s)
        PROVE  inst' \in [Conns -> InstRecord]
    BY <1>i, <2>2 DEF InstGoes, InstRecord
  <2>3. CASE UNCHANGED inst
    BY <1>i, <2>3
  <2>4. {"REQUEST_PARSING", "RESPONSE_SENDING", "DISPOSING"} \subseteq InstStates
    BY DEF InstStates
  <2>5. QED
    BY <2>1, <2>2, <2>3, <2>4 DEF InstWork, InstInitializing, InstResponseBuilding,
           InstResponseNoMemory, InstResponseSending, InstDisposing
<1>3. conn' \in [Conns -> ConnRecord] /\ StatusSet'
  <2>1. CASE InstResponseBuilding(c)
    <3>1. PICK k \in Codes : conn' = [conn EXCEPT ![c] = SetResponse(@, k)]
      BY ZenonT(60), <2>1, Names DEF InstResponseBuilding
    <3>2. GoodConn(SetResponse(conn[c], k))
      <4>1. SetResponse(conn[c], k) \in ConnRecord
        BY <1>r DEF SetResponse, ConnRecord
      <4>2. SetResponse(conn[c], k).status = k
        BY <1>r DEF SetResponse, ConnRecord
      <4>3. k # 0
        BY DEF Codes
      <4>4. QED
        BY <4>1, <4>2, <4>3 DEF GoodConn
    <3>3. QED
      BY <3>1, <3>2 DEF GoodConn, TypeInv, TypeOK, StatusSet
  <2>2. CASE InstResponseNoMemory(c)
    <3>1. conn' = [conn EXCEPT ![c] = [conn[c] EXCEPT !.status = 500]]
      BY <2>2 DEF InstResponseNoMemory
    <3>2. /\ [conn[c] EXCEPT !.status = 500] \in ConnRecord
          /\ [conn[c] EXCEPT !.status = 500].status = 500
      BY <1>r, Names, StatusChanges
    <3>4. QED
      BY <3>1, <3>2 DEF TypeInv, TypeOK, StatusSet
  <2>3. CASE UNCHANGED conn
    BY <2>3 DEF TypeInv, TypeOK, StatusSet
  <2>4. QED
    BY <2>1, <2>2, <2>3 DEF InstWork, InstInitializing, InstRequestParsing,
           InstResponseSending, InstDisposing
<1>4. UNCHANGED <<servers, req, process>>
  BY DEF InstWork, InstInitializing, InstRequestParsing, InstResponseBuilding,
         InstResponseNoMemory, InstResponseSending, InstDisposing, InstGoes
<1>5. QED
  BY <1>1, <1>2, <1>3, <1>4 DEF TypeInv, TypeOK, SlotsFilled, servers

LEMMA TcpWorkType ==
  ASSUME TypeInv, TcpWork
  PROVE  TypeInv'
<1>1. tasks' \subseteq Task /\ pending' \subseteq tasks'
  <2>1. Return(TcpTask, {}, {})
    BY DEF TcpWork, TcpAccept, TcpWouldBlock, TcpAcceptFails, TcpHandOver,
           TcpConnected, TcpIdle, TcpReturns
  <2>2. QED
    BY <2>1, ReturnType DEF TypeInv, TypeOK
<1>2. UNCHANGED <<opti, inst, req, process>>
  BY DEF TcpWork, TcpAccept, TcpWouldBlock, TcpAcceptFails, TcpHandOver,
         TcpConnected, TcpIdle, TcpReturns
<1>3. CASE TcpAccept
  <2>1. PICK c \in Conns : /\ conn' = [conn EXCEPT ![c].state = "ACCEPTED"]
                           /\ tcp' = [state |-> "CONNECTING", client_fd |-> c]
    BY <1>3 DEF TcpAccept
  <2>2. GoodConn([conn[c] EXCEPT !.state = "ACCEPTED"])
    BY ConnTyped, Names, GoesOn
  <2>3. conn' \in [Conns -> ConnRecord] /\ StatusSet'
    BY <2>1, <2>2 DEF GoodConn, TypeInv, TypeOK, StatusSet
  <2>4. c # NoConn
    BY ServerAssumption
  <2>5. QED
    BY <1>1, <1>2, <1>3, <2>1, <2>3, <2>4
    DEF TcpAccept, TypeInv, TypeOK, SlotsFilled, TcpStates
<1>4. CASE TcpHandOver
  BY <1>1, <1>2, <1>4
  DEF TcpHandOver, TcpRuns, TypeInv, TypeOK, StatusSet, SlotsFilled, TcpStates, HttpStates
<1>5. CASE TcpWouldBlock \/ TcpAcceptFails \/ TcpConnected \/ TcpIdle
  BY <1>1, <1>2, <1>5
  DEF TcpWouldBlock, TcpAcceptFails, TcpConnected, TcpIdle,
      TypeInv, TypeOK, StatusSet, SlotsFilled, TcpStates
<1>6. QED
  BY <1>3, <1>4, <1>5 DEF TcpWork

LEMMA HttpWorkType ==
  ASSUME TypeInv, HttpWork
  PROVE  TypeInv'
<1>t. tasks \subseteq Task /\ pending \subseteq tasks /\ TcpTask \in Task
  BY TaskKinds DEF TypeInv, TypeOK, ServerTasks
<1>1. CASE HttpHandOver
  <2> DEFINE c == http.client_fd
  <2>1. c \in Conns
    BY <1>1 DEF HttpHandOver, HttpRuns, TypeInv, TypeOK, SlotsFilled
  <2>2. conn' = [conn EXCEPT ![c] = FreshConn]
    BY <1>1 DEF HttpHandOver
  <2>3. conn' \in [Conns -> ConnRecord] /\ StatusSet'
    BY <2>2, FreshConnGood DEF GoodConn, TypeInv, TypeOK, StatusSet
  <2>4. tasks' \subseteq Task /\ pending' \subseteq tasks'
    <3>1. Return(HttpTask, {ConnTask(c)}, {}) /\ ConnTask(c) \in Task
      BY <1>1, <2>1, TaskKinds DEF HttpHandOver
    <3>2. QED
      BY <1>t, <3>1, ReturnType
  <2>5. QED
    BY <1>1, <2>1, <2>3, <2>4
    DEF HttpHandOver, OnHttpConnection, TypeInv, TypeOK, SlotsFilled, HttpStates, OptiStates
<1>2. CASE HttpRefuse
  <2> DEFINE c == http.client_fd
  <2>1. c \in Conns
    BY <1>2 DEF HttpRefuse, HttpRuns, TypeInv, TypeOK, SlotsFilled
  <2>2. GoodConn([conn[c] EXCEPT !.state = "REFUSED"])
    BY <2>1, ConnTyped, Names, GoesOn
  <2>3. conn' = [conn EXCEPT ![c] = [conn[c] EXCEPT !.state = "REFUSED"]]
    BY <1>2 DEF HttpRefuse
  <2>4. conn' \in [Conns -> ConnRecord] /\ StatusSet'
    BY <2>2, <2>3 DEF GoodConn, TypeInv, TypeOK, StatusSet
  <2>5. tasks' \subseteq Task /\ pending' \subseteq tasks'
    BY <1>2, <1>t, ReturnType DEF HttpRefuse
  <2>6. QED
    BY <1>2, <2>4, <2>5 DEF HttpRefuse, TypeInv, TypeOK, SlotsFilled, HttpStates
<1>3. CASE HttpRetrySucceeds
  <2>1. tasks' \subseteq Task /\ pending' \subseteq tasks'
    BY <1>3, <1>t, ReturnType DEF HttpRetrySucceeds
  <2>2. QED
    BY <1>3, <2>1
    DEF HttpRetrySucceeds, TypeInv, TypeOK, StatusSet, SlotsFilled, HttpStates, TcpStates
<1>4. CASE HttpDisposing
  <2>1. tasks' \subseteq Task /\ pending' \subseteq tasks'
    BY <1>4, <1>t, ReturnType DEF HttpDisposing
  <2>2. QED
    BY <1>4, <2>1
    DEF HttpDisposing, HttpDisposed, TcpDisposed, TypeInv, TypeOK, StatusSet,
        SlotsFilled, HttpStates, TcpStates
<1>5. CASE HttpIdle \/ HttpConnected \/ HttpRetryWaits \/ HttpRetryFails
  <2>1. tasks' \subseteq Task /\ pending' \subseteq tasks'
    BY <1>5, <1>t, ReturnType DEF HttpIdle, HttpConnected, HttpRetryWaits, HttpRetryFails
  <2>2. http.error_retries + 1 \in Nat
    BY DEF TypeInv, TypeOK
  <2>3. QED
    BY <1>5, <2>1, <2>2
    DEF HttpIdle, HttpConnected, HttpRetryWaits, HttpRetryFails, servers,
        TypeInv, TypeOK, StatusSet, SlotsFilled, HttpStates
<1>6. QED
  BY <1>1, <1>2, <1>3, <1>4, <1>5 DEF HttpWork

LEMMA OptiWorkType ==
  ASSUME TypeInv, OptiWork
  PROVE  TypeInv'
<1>1. tasks' \subseteq Task /\ pending' \subseteq tasks'
  <2>1. Return(OptiTask, {}, {}) \/ Return(OptiTask, {}, ServerTasks)
    BY DEF OptiWork, OptiIdle, OptiHandOver, OptiHandOverFails, OptiConnected,
           OptiError, OptiDisposing, OptiReturns
  <2>2. QED
    BY <2>1, ReturnType DEF TypeInv, TypeOK
<1>2. UNCHANGED <<req, process>>
  BY DEF OptiWork, OptiIdle, OptiHandOver, OptiHandOverFails, OptiConnected,
         OptiError, OptiDisposing, OptiReturns
<1>3. CASE OptiHandOver
  <2> DEFINE c == opti.http_connection
  <2>1. conn' = [conn EXCEPT ![c].callback = TRUE]
    BY <1>3 DEF OptiHandOver, OsiInit
  <2>2. \A r : GoodConn(r) => GoodConn([r EXCEPT !.callback = TRUE])
    BY DEF GoodConn, ConnRecord
  <2>3. conn' \in [Conns -> ConnRecord] /\ StatusSet'
    BY <2>1, <2>2, ConnTyped DEF GoodConn, TypeInv, TypeOK, StatusSet
  <2>4. inst' \in [Conns -> InstRecord]
    BY <1>3 DEF OptiHandOver, OsiInit, TypeInv, TypeOK, InstRecord, InstStates
  <2>5. QED
    BY <1>1, <1>2, <1>3, <2>3, <2>4
    DEF OptiHandOver, OptiReturns, TypeInv, TypeOK, SlotsFilled, OptiStates
<1>4. CASE OptiDisposing
  BY <1>1, <1>2, <1>4
  DEF OptiDisposing, OptiDispose, HttpDisposed, TcpDisposed, TypeInv, TypeOK, StatusSet,
      SlotsFilled, HttpStates, TcpStates
<1>5. CASE OptiIdle \/ OptiHandOverFails \/ OptiConnected \/ OptiError
  BY <1>1, <1>2, <1>5
  DEF OptiIdle, OptiHandOverFails, OptiConnected, OptiError, OptiReturns,
      TypeInv, TypeOK, StatusSet, SlotsFilled, OptiStates
<1>6. QED
  BY <1>3, <1>4, <1>5 DEF OptiWork

LEMMA InitType == Init => TypeInv
<1> SUFFICES ASSUME Init PROVE TypeInv
  OBVIOUS
<1>1. conn \in [Conns -> ConnRecord] /\ StatusSet
  <2>1. [FreshConn EXCEPT !.state = "ABSENT"] \in ConnRecord
    BY FreshConnGood DEF GoodConn, ConnRecord, ConnPhases
  <2>2. [FreshConn EXCEPT !.state = "ABSENT"].state = "ABSENT"
    BY DEF FreshConn
  <2>3. QED
    BY <2>1, <2>2 DEF Init, StatusSet
<1>2. inst \in [Conns -> InstRecord]
  BY DEF Init, InitInst, InstRecord
<1>3. /\ tcp \in [state : TcpStates, client_fd : Conns \cup {NoConn}]
      /\ http \in [state : HttpStates, error_state : {"NONE", "TCP_INIT_FAILED"},
                    error_retries : Nat, client_fd : Conns \cup {NoConn}]
      /\ opti \in [state : OptiStates, http_connection : Conns \cup {NoConn}]
      /\ SlotsFilled
  <2>1. HttpDisposed \in [state : HttpStates, error_state : {"NONE", "TCP_INIT_FAILED"},
                         error_retries : Nat, client_fd : Conns \cup {NoConn}]
    BY DEF HttpDisposed, HttpStates
  <2>2. CASE InitStarted
    <3>1. http.state = "IDLING"
      BY <2>1, <2>2 DEF InitStarted
    <3>2. QED
      BY <2>1, <2>2, <3>1 DEF InitStarted, TcpStates, HttpStates, OptiStates, SlotsFilled
  <2>3. CASE InitTcpFailed
    <3>1. http.state = "ERROR"
      BY <2>1, <2>3 DEF InitTcpFailed
    <3>2. QED
      BY <2>1, <2>3, <3>1 DEF InitTcpFailed, TcpDisposed, TcpStates, HttpStates,
                              OptiStates, SlotsFilled
  <2>4. CASE InitStoreFailed
    BY <2>4 DEF InitStoreFailed, TcpDisposed, HttpDisposed, TcpStates, HttpStates,
                OptiStates, SlotsFilled
  <2>5. QED
    BY <2>2, <2>3, <2>4 DEF Init
<1>4. tasks \subseteq Task
  BY TaskKinds DEF Init, InitStarted, InitTcpFailed, InitStoreFailed, ServerTasks
<1>5. QED
  BY <1>1, <1>2, <1>3, <1>4 DEF Init, TypeInv, TypeOK

LEMMA TypeStep ==
  ASSUME TypeInv, [Next]_vars
  PROVE  TypeInv'
<1>1. CASE NewRound
  BY <1>1 DEF NewRound, TypeInv, TypeOK, StatusSet, SlotsFilled, servers
<1>2. CASE Sigint \/ MainReturns
  BY <1>2
  DEF Sigint, MainReturns, OptiDispose, HttpDisposed, TcpDisposed, TypeInv, TypeOK,
      StatusSet, SlotsFilled, HttpStates, TcpStates
<1>3. CASE Ended \/ UNCHANGED vars
  BY <1>3 DEF Ended, vars, TypeInv, TypeOK, StatusSet, SlotsFilled
<1>4. CASE \E c \in Conns : ConnWork(c) \/ InstWork(c)
  BY <1>4, ConnReadingType, ConnAnsweringType, InstWorkType DEF ConnWork
<1>5. QED
  BY <1>1, <1>2, <1>3, <1>4, TcpWorkType, HttpWorkType, OptiWorkType DEF Next, Work

(* Every variable always holds a value of its kind, whatever fails: in     *)
(* particular the scheduler never runs a task that was destroyed, a server *)
(* never hands over a descriptor it does not have, and no reply is written *)
(* without a status.                                                       *)
THEOREM TypeCorrect == Spec => []TypeInv
BY InitType, TypeStep, PTL DEF Spec

-----------------------------------------------------------------------------
(* The hand-over chain.  HandOverInv is inductive together with TypeInv,   *)
(* as long as the listener opens and an instance can be allocated.         *)

(* No two tasks are the same.                                              *)
LEMMA TasksDiffer ==
  /\ TcpTask # HttpTask /\ TcpTask # OptiTask /\ HttpTask # OptiTask
  /\ ServerTasks = {TcpTask, HttpTask, OptiTask}
  /\ \A c \in Conns : ConnTask(c) \notin ServerTasks /\ InstTask(c) \notin ServerTasks
  /\ \A c, d \in Conns : ConnTask(c) # InstTask(d) /\ (c # d => ConnTask(c) # ConnTask(d))
BY DEF ServerTasks, TcpTask, HttpTask, OptiTask, ConnTask, InstTask

(* A task that returns without creating or destroying any.                 *)
LEMMA ReturnPlain ==
  ASSUME NEW t, Return(t, {}, {})
  PROVE  tasks' = tasks /\ pending' = pending \ {t}
BY DEF Return

(* A server's task only runs while the servers are up.                     *)
LEMMA ServersUp ==
  ASSUME TypeInv, HandOverInv, NEW t \in ServerTasks, Run(t)
  PROVE  /\ ServerTasks \subseteq tasks
         /\ process = "running"
         /\ http.state \in {"IDLING", "CONNECTING", "CONNECTED"}
         /\ opti.state \in {"IDLE", "CONNECTING", "CONNECTED"}
BY DEF Run, TypeInv, TypeOK, HandOverInv, ServersUpOrDown

(* Connection d has neither changed state nor got its callbacks, and is    *)
(* not given another turn in this round.                                   *)
Kept(d) ==
  /\ conn'[d].state = conn[d].state
  /\ conn'[d].callback = conn[d].callback
  /\ ConnTask(d) \in pending' => ConnTask(d) \in pending

(* Connection d has had its turn; without callbacks it is in one of its    *)
(* first two states, and goes at most one state beyond them.               *)
Moved(d) ==
  /\ conn[d].state \in ConnStates
  /\ conn'[d].state \in ConnStates \cup {"FREED"}
  /\ conn'[d].callback = conn[d].callback
  /\ ConnTask(d) \in pending /\ ConnTask(d) \notin pending'
  /\ \/ conn[d].callback
     \/ /\ conn[d].state = "INITIALIZING"
        /\ conn'[d].state = "READING_FIRSTLINE"
     \/ /\ conn[d].state = "READING_FIRSTLINE"
        /\ conn'[d].state \in {"READING_FIRSTLINE", "READING_HEADERS", "RESPONDING", "ERROR"}

(* What connections and instances do on their own keeps the chain.         *)
LEMMA ServersRest ==
  ASSUME TypeInv, HandOverInv, UNCHANGED servers, process' = process,
         \A t \in ServerTasks : (t \in tasks' <=> t \in tasks) /\ (t \in pending' <=> t \in pending),
         \A d \in Conns : Kept(d) \/ Moved(d)
  PROVE  HandOverInv'
<1>t. TcpTask \in ServerTasks /\ HttpTask \in ServerTasks /\ OptiTask \in ServerTasks
  BY TasksDiffer
<1>s. \A d \in Conns : (conn[d].state = "ACCEPTED" <=> conn'[d].state = "ACCEPTED")
  BY DEF Kept, Moved, ConnStates, ReadingStates
<1>a. \A d \in Conns : /\ Alive(d)' => Alive(d)
                       /\ conn'[d].callback = conn[d].callback
  BY DEF Kept, Moved, Alive, ConnStates, ReadingStates
<1>1. NoNullCall'
  BY DEF HandOverInv, NoNullCall
<1>2. NoLostClient'
  BY <1>s, <1>a DEF HandOverInv, NoLostClient, servers
<1>3. ServersUpOrDown'
  BY <1>t DEF HandOverInv, ServersUpOrDown, servers
<1>4. DescriptorSlots'
  BY <1>s DEF HandOverInv, DescriptorSlots, servers
<1>5. HttpTakesInTime' /\ OptiTakesInTime'
  BY <1>t DEF HandOverInv, HttpTakesInTime, OptiTakesInTime, servers
<1>6. ConnWaitsInTime'
  <2> SUFFICES ASSUME NEW d \in Conns, Alive(d)', ~conn'[d].callback
               PROVE  \/ conn'[d].state = "INITIALIZING"
                      \/ /\ conn'[d].state = "READING_FIRSTLINE"
                         /\ process' = "running" /\ ConnTask(d) \in pending'
                              => OptiTask \in pending'
                      \/ /\ conn'[d].state \in {"READING_HEADERS", "RESPONDING", "ERROR"}
                         /\ ConnTask(d) \notin pending'
                         /\ process' = "running" => OptiTask \in pending'
    BY DEF ConnWaitsInTime
  <2>1. Alive(d) /\ ~conn[d].callback
    BY <1>a
  <2>2. \/ conn[d].state = "INITIALIZING"
        \/ /\ conn[d].state = "READING_FIRSTLINE"
           /\ process = "running" /\ ConnTask(d) \in pending => OptiTask \in pending
        \/ /\ conn[d].state \in {"READING_HEADERS", "RESPONDING", "ERROR"}
           /\ ConnTask(d) \notin pending
           /\ process = "running" => OptiTask \in pending
    BY <2>1 DEF HandOverInv, ConnWaitsInTime
  <2>3. CASE Kept(d)
    BY <1>t, <2>2, <2>3 DEF Kept
  <2>4. CASE Moved(d)
    BY <1>t, <2>1, <2>2, <2>4 DEF Moved
  <2>5. QED
    BY <2>3, <2>4
<1>7. QED
  BY <1>1, <1>2, <1>3, <1>4, <1>5, <1>6 DEF HandOverInv

(* The turn of a connection that only changes its own record.              *)
LEMMA ConnBecomesChain ==
  ASSUME TypeInv, HandOverInv, NEW c \in Conns, NEW r, Run(ConnTask(c)), ConnBecomes(c, r),
         conn[c].state \in ConnStates, r.state \in ConnStates,
         r.callback = conn[c].callback,
         \/ conn[c].callback
         \/ conn[c].state = "INITIALIZING" /\ r.state = "READING_FIRSTLINE"
         \/ /\ conn[c].state = "READING_FIRSTLINE"
            /\ r.state \in {"READING_FIRSTLINE", "READING_HEADERS", "RESPONDING", "ERROR"}
  PROVE  HandOverInv'
<1>1. tasks' = tasks /\ pending' = pending \ {ConnTask(c)}
  BY ReturnPlain DEF ConnBecomes
<1>2. conn' = [conn EXCEPT ![c] = r] /\ conn \in [Conns -> ConnRecord]
  BY DEF ConnBecomes, TypeInv, TypeOK
<1>3. Moved(c)
  BY <1>1, <1>2 DEF Moved, Run
<1>4. \A d \in Conns \ {c} : Kept(d)
  BY <1>1, <1>2 DEF Kept
<1>5. QED
  BY <1>1, <1>3, <1>4, TasksDiffer, ServersRest DEF ConnBecomes

(* The records a connection's task makes: where each leaves for, and that  *)
(* neither the callbacks nor (but for the last) the reply is touched.      *)
LEMMA Leaves ==
  ASSUME NEW r \in ConnRecord, NEW s, NEW x, NEW y
  PROVE  /\ [r EXCEPT !.state = s].state = s
         /\ [r EXCEPT !.state = s].callback = r.callback
         /\ [r EXCEPT !.state = s].reply = r.reply
         /\ [r EXCEPT !.status = x, !.state = s].state = s
         /\ [r EXCEPT !.status = x, !.state = s].callback = r.callback
         /\ [r EXCEPT !.status = x, !.state = s].reply = r.reply
         /\ [r EXCEPT !.parsed = x, !.state = s].state = s
         /\ [r EXCEPT !.parsed = x, !.state = s].callback = r.callback
         /\ [r EXCEPT !.parsed = x, !.state = s].reply = r.reply
         /\ [r EXCEPT !.retries = x, !.state = s].state = s
         /\ [r EXCEPT !.retries = x, !.state = s].callback = r.callback
         /\ [r EXCEPT !.retries = x, !.state = s].reply = r.reply
         /\ [r EXCEPT !.state = s, !.retries = x].state = s
         /\ [r EXCEPT !.state = s, !.retries = x].callback = r.callback
         /\ [r EXCEPT !.state = s, !.retries = x].reply = r.reply
         /\ [[r EXCEPT !.retries = x] EXCEPT !.state = s].state = s
         /\ [[r EXCEPT !.retries = x] EXCEPT !.state = s].callback = r.callback
         /\ [[r EXCEPT !.retries = x] EXCEPT !.state = s].reply = r.reply
         /\ [r EXCEPT !.status = x, !.weather_done = y, !.state = s].state = s
         /\ [r EXCEPT !.status = x, !.weather_done = y, !.state = s].callback = r.callback
         /\ [r EXCEPT !.status = x, !.weather_done = y, !.state = s].reply = r.reply
         /\ [r EXCEPT !.reply = x, !.state = s].state = s
         /\ [r EXCEPT !.reply = x, !.state = s].callback = r.callback
         /\ [r EXCEPT !.reply = x, !.state = s].reply = x
BY DEF ConnRecord

LEMMA ConnReadingChain ==
  ASSUME TypeInv, HandOverInv, NEW c \in Conns, ConnReading(c)
  PROVE  HandOverInv'
<1>r. conn[c] \in ConnRecord
  BY ConnTyped
<1>s. ReadingStates \cup {"INITIALIZING", "VALIDATING", "RESPONDING", "ERROR"}
        \subseteq ConnStates
  BY DEF ConnStates, ReadingStates
<1>w. conn[c].callback \/ conn[c].state \in {"INITIALIZING", "READING_FIRSTLINE"}
  BY DEF ConnReading, ConnInitializing, ReadRetriesExceeded, ReadNoMemory,
         ConnReadFirstline, ConnReadHeaders, ConnReadBody, ConnRuns, Run, ReadingStates,
         HandOverInv, ConnWaitsInTime, Alive, ConnStates
<1>n. ASSUME NEW n \in 0 .. 3
      PROVE  /\ Counted(c, n) \in ConnRecord
             /\ Counted(c, n).state = conn[c].state
             /\ Counted(c, n).callback = conn[c].callback
  BY <1>r, ConnTyped DEF Counted, ConnRecord
<1>1. CASE ConnInitializing(c)
  <2>1. /\ [conn[c] EXCEPT !.state = "READING_FIRSTLINE"].state = "READING_FIRSTLINE"
        /\ [conn[c] EXCEPT !.state = "READING_FIRSTLINE"].callback = conn[c].callback
    BY <1>r DEF ConnRecord
  <2>2. QED
    BY <1>1, <1>s, <2>1, ConnBecomesChain DEF ConnInitializing, ConnRuns, ReadingStates
<1>2. CASE ReadRetriesExceeded(c) \/ ReadNoMemory(c)
  <2> DEFINE r == [conn[c] EXCEPT !.state = "ERROR", !.retries = @ + 1]
  <2>1. r.state = "ERROR" /\ r.callback = conn[c].callback
    BY <1>r DEF ConnRecord
  <2>2. /\ Run(ConnTask(c)) /\ ConnBecomes(c, r) /\ conn[c].state \in ReadingStates
        /\ conn[c].callback \/ conn[c].state = "READING_FIRSTLINE"
    BY <1>2, <1>w DEF ReadRetriesExceeded, ReadNoMemory, ReadingStates
  <2>3. QED
    BY <1>s, <2>1, <2>2, ConnBecomesChain
<1>3. CASE ConnReadFirstline(c)
  <2>1. ASSUME NEW q, ConnBecomes(c, q), q.callback = conn[c].callback,
               q.state \in {"READING_FIRSTLINE", "READING_HEADERS", "RESPONDING", "ERROR"}
        PROVE  HandOverInv'
    <3>1. Run(ConnTask(c)) /\ conn[c].state = "READING_FIRSTLINE"
      BY Zenon, <1>3 DEF ConnReadFirstline, ConnRuns
    <3>2. conn[c].state \in ConnStates /\ q.state \in ConnStates
      BY <1>s, <2>1, <3>1 DEF ReadingStates
    <3>3. QED
      BY <2>1, <3>1, <3>2, ConnBecomesChain
  <2>2. PICK n \in 0 .. 3 : \/ ConnBecomes(c, Counted(c, n))
                          \/ ConnBecomes(c, [Counted(c, n) EXCEPT !.status = 400, !.state = "RESPONDING"])
                          \/ ConnBecomes(c, [Counted(c, n) EXCEPT !.state = "ERROR"])
                          \/ ConnBecomes(c, [Counted(c, n) EXCEPT !.parsed = TRUE, !.state = "READING_HEADERS"])
    BY ZenonT(60), <1>3 DEF ConnReadFirstline
  <2> DEFINE r == Counted(c, n)
  <2>3. r \in ConnRecord /\ r.callback = conn[c].callback /\ r.state = conn[c].state
    BY Zenon, <1>n
  <2> HIDE DEF r
  <2>4. CASE ConnBecomes(c, [r EXCEPT !.status = 400, !.state = "RESPONDING"])
    <3>1. /\ [r EXCEPT !.status = 400, !.state = "RESPONDING"].state = "RESPONDING"
          /\ [r EXCEPT !.status = 400, !.state = "RESPONDING"].callback = r.callback
      BY <2>3, Leaves
    <3>2. QED
      BY <2>1, <2>3, <2>4, <3>1
  <2>5. CASE ConnBecomes(c, [r EXCEPT !.state = "ERROR"])
    <3>1. /\ [r EXCEPT !.state = "ERROR"].state = "ERROR"
          /\ [r EXCEPT !.state = "ERROR"].callback = r.callback
      BY <2>3, Leaves
    <3>2. QED
      BY <2>1, <2>3, <2>5, <3>1
  <2>6. CASE ConnBecomes(c, [r EXCEPT !.parsed = TRUE, !.state = "READING_HEADERS"])
    <3>1. /\ [r EXCEPT !.parsed = TRUE, !.state = "READING_HEADERS"].state = "READING_HEADERS"
          /\ [r EXCEPT !.parsed = TRUE, !.state = "READING_HEADERS"].callback = r.callback
      BY <2>3, Leaves
    <3>2. QED
      BY <2>1, <2>3, <2>6, <3>1
  <2>7. QED
    BY <1>3, <2>1, <2>2, <2>3, <2>4, <2>5, <2>6 DEF r, ConnReadFirstline, ConnRuns
<1>4. CASE ConnReadHeaders(c)
  <2>1. ASSUME NEW q, ConnBecomes(c, q), q.callback = conn[c].callback,
               q.state \in {"READING_HEADERS", "READING_BODY", "VALIDATING", "RESPONDING"}
        PROVE  HandOverInv'
    <3>1. Run(ConnTask(c)) /\ conn[c].state = "READING_HEADERS"
      BY Zenon, <1>4 DEF ConnReadHeaders, ConnRuns
    <3>2. /\ conn[c].state \in ConnStates /\ q.state \in ConnStates
          /\ conn[c].callback
      BY <1>s, <1>w, <2>1, <3>1 DEF ReadingStates
    <3>3. QED
      BY <2>1, <3>1, <3>2, ConnBecomesChain
  <2>2. PICK n \in 0 .. 3 : \/ ConnBecomes(c, Counted(c, n))
                          \/ ConnBecomes(c, [Counted(c, n) EXCEPT !.status = 400, !.state = "RESPONDING"])
                          \/ ConnBecomes(c, [[Counted(c, n) EXCEPT !.retries = 0] EXCEPT !.state = "READING_BODY"])
                          \/ ConnBecomes(c, [[Counted(c, n) EXCEPT !.retries = 0] EXCEPT !.state = "VALIDATING"])
    BY ZenonT(60), <1>4 DEF ConnReadHeaders
  <2> DEFINE r == Counted(c, n)
  <2>3. r \in ConnRecord /\ r.callback = conn[c].callback /\ r.state = conn[c].state
    BY Zenon, <1>n
  <2> HIDE DEF r
  <2>4. CASE ConnBecomes(c, [r EXCEPT !.status = 400, !.state = "RESPONDING"])
    <3>1. /\ [r EXCEPT !.status = 400, !.state = "RESPONDING"].state = "RESPONDING"
          /\ [r EXCEPT !.status = 400, !.state = "RESPONDING"].callback = r.callback
      BY <2>3, Leaves
    <3>2. QED
      BY <2>1, <2>3, <2>4, <3>1
  <2>5. CASE ConnBecomes(c, [[r EXCEPT !.retries = 0] EXCEPT !.state = "READING_BODY"])
    <3>1. /\ [[r EXCEPT !.retries = 0] EXCEPT !.state = "READING_BODY"].state = "READING_BODY"
          /\ [[r EXCEPT !.retries = 0] EXCEPT !.state = "READING_BODY"].callback = r.callback
      BY <2>3, Leaves
    <3>2. QED
      BY <2>1, <2>3, <2>5, <3>1
  <2>6. CASE ConnBecomes(c, [[r EXCEPT !.retries = 0] EXCEPT !.state = "VALIDATING"])
    <3>1. /\ [[r EXCEPT !.retries = 0] EXCEPT !.state = "VALIDATING"].state = "VALIDATING"
          /\ [[r EXCEPT !.retries = 0] EXCEPT !.state = "VALIDATING"].callback = r.callback
      BY <2>3, Leaves
    <3>2. QED
      BY <2>1, <2>3, <2>6, <3>1
  <2>7. QED
    BY <1>4, <2>1, <2>2, <2>3, <2>4, <2>5, <2>6 DEF r, ConnReadHeaders, ConnRuns
<1>5. CASE ConnReadBody(c)
  <2>1. ASSUME NEW q, ConnBecomes(c, q), q.callback = conn[c].callback,
               q.state \in {"READING_BODY", "VALIDATING"}
        PROVE  HandOverInv'
    BY <1>5, <1>s, <1>w, <2>1, ConnBecomesChain DEF ConnReadBody, ConnRuns, ReadingStates
  <2>2. PICK n \in 0 .. 3 : \/ ConnBecomes(c, Counted(c, n))
                          \/ ConnBecomes(c, [Counted(c, n) EXCEPT !.retries = 0, !.state = "VALIDATING"])
    BY <1>5 DEF ConnReadBody
  <2> DEFINE r == Counted(c, n)
  <2>3. r \in ConnRecord /\ r.callback = conn[c].callback /\ r.state = conn[c].state
    BY Zenon, <1>n
  <2> HIDE DEF r
  <2>4. CASE ConnBecomes(c, [r EXCEPT !.retries = 0, !.state = "VALIDATING"])
    <3>1. /\ [r EXCEPT !.retries = 0, !.state = "VALIDATING"].state = "VALIDATING"
          /\ [r EXCEPT !.retries = 0, !.state = "VALIDATING"].callback = r.callback
      BY <2>3, Leaves
    <3>2. QED
      BY <2>1, <2>3, <2>4, <3>1
  <2>5. QED
    BY <1>5, <2>1, <2>2, <2>3, <2>4 DEF r, ConnReadBody, ConnRuns
<1>6. QED
  BY <1>1, <1>2, <1>3, <1>4, <1>5 DEF ConnReading

LEMMA ConnAnsweringChain ==
  ASSUME TypeInv, HandOverInv, NEW c \in Conns, ConnAnswering(c)
  PROVE  HandOverInv'
<1>r. conn[c] \in ConnRecord /\ conn \in [Conns -> ConnRecord]
  BY ConnTyped DEF TypeInv, TypeOK
<1>s. /\ Run(ConnTask(c))
      /\ conn[c].state \in {"VALIDATING", "WEATHER_HANDOVER", "RESPONDING", "ERROR", "DISPOSING"}
      /\ conn[c].state \in ConnStates
  BY DEF ConnAnswering, ConnRejectMethod, ConnAcceptEcho, ConnHandOver, ConnWeatherHandover,
         ConnRespond, ConnRespondNoMemory, ConnError, ConnDispose, ConnNullCall, ConnRuns,
         CallsCallback, ConnStates
<1>w. conn[c].callback
  BY <1>s DEF HandOverInv, ConnWaitsInTime, Alive, Run
<1>1. ASSUME NEW r, ConnBecomes(c, r), r.callback = conn[c].callback,
             r.state \in {"WEATHER_HANDOVER", "RESPONDING", "ERROR", "DISPOSING"}
      PROVE  HandOverInv'
  <2>1. r.state \in ConnStates
    BY <1>1 DEF ConnStates
  <2>2. QED
    BY <1>1, <1>s, <1>w, <2>1, ConnBecomesChain
<1>2. CASE ConnRejectMethod(c) \/ ConnAcceptEcho(c) \/ ConnWeatherHandover(c)
             \/ ConnRespond(c) \/ ConnRespondNoMemory(c) \/ ConnError(c)
  <2>1. CASE ConnWeatherHandover(c)
    <3>1. /\ [conn[c] EXCEPT !.state = "RESPONDING"].state = "RESPONDING"
          /\ [conn[c] EXCEPT !.state = "RESPONDING"].callback = conn[c].callback
      BY <1>r, Leaves
    <3>2. QED
      BY <1>1, <2>1, <3>1 DEF ConnWeatherHandover, ConnRuns
  <2>2. CASE ConnRejectMethod(c) \/ ConnError(c)
    <3>1. PICK k : ConnBecomes(c, [conn[c] EXCEPT !.status = k, !.state = "RESPONDING"])
      BY <2>2 DEF ConnRejectMethod, ConnError
    <3>2. /\ [conn[c] EXCEPT !.status = k, !.state = "RESPONDING"].state = "RESPONDING"
          /\ [conn[c] EXCEPT !.status = k, !.state = "RESPONDING"].callback = conn[c].callback
      BY <1>r, Leaves
    <3>3. QED
      BY <1>1, <3>1, <3>2
  <2>3. CASE ConnAcceptEcho(c)
    <3> DEFINE q == [conn[c] EXCEPT !.status = 200, !.weather_done = TRUE,
                                    !.state = "RESPONDING"]
    <3>1. q.state = "RESPONDING" /\ q.callback = conn[c].callback
      BY <1>r, Leaves
    <3>2. QED
      BY <1>1, <2>3, <3>1 DEF ConnAcceptEcho
  <2>4. CASE ConnRespond(c)
    <3>1. PICK p : ConnBecomes(c, [conn[c] EXCEPT !.reply = p, !.state = "DISPOSING"])
      BY <2>4 DEF ConnRespond
    <3>2. /\ [conn[c] EXCEPT !.reply = p, !.state = "DISPOSING"].state = "DISPOSING"
          /\ [conn[c] EXCEPT !.reply = p, !.state = "DISPOSING"].callback = conn[c].callback
      BY <1>r, Leaves
    <3>3. QED
      BY <1>1, <3>1, <3>2
  <2>5. CASE ConnRespondNoMemory(c)
    <3>1. /\ [conn[c] EXCEPT !.state = "ERROR"].state = "ERROR"
          /\ [conn[c] EXCEPT !.state = "ERROR"].callback = conn[c].callback
      BY <1>r, Leaves
    <3>2. QED
      BY <1>1, <2>5, <3>1 DEF ConnRespondNoMemory
  <2>6. QED
    BY <1>2, <2>1, <2>2, <2>3, <2>4, <2>5
<1>3. CASE ConnHandOver(c) \/ ConnDispose(c)
  <2>1. /\ tasks' \cap ServerTasks = tasks \cap ServerTasks
        /\ pending' \cap ServerTasks = pending \cap ServerTasks
        /\ \A d \in Conns \ {c} : ConnTask(d) \in pending' => ConnTask(d) \in pending
        /\ ConnTask(c) \notin pending'
    BY <1>3, TasksDiffer DEF ConnHandOver, ConnDispose, Return
  <2>2. /\ conn'[c].callback = conn[c].callback
        /\ conn'[c].state \in {"WEATHER_HANDOVER", "FREED"}
        /\ \A d \in Conns \ {c} : conn'[d] = conn[d]
    BY <1>3, <1>r DEF ConnHandOver, ConnDispose, ConnRecord
  <2>3. Moved(c) /\ \A d \in Conns \ {c} : Kept(d)
    BY <1>s, <1>w, <2>1, <2>2 DEF Moved, Kept, Run, ConnStates
  <2>4. UNCHANGED servers /\ process' = process
    BY <1>3 DEF ConnHandOver, ConnDispose
  <2>5. QED
    BY <2>1, <2>3, <2>4, ServersRest
<1>4. CASE ConnNullCall(c)
  BY <1>4, <1>w DEF ConnNullCall
<1>5. QED
  BY <1>2, <1>3, <1>4 DEF ConnAnswering

LEMMA InstWorkChain ==
  ASSUME TypeInv, HandOverInv, NEW c \in Conns, InstWork(c)
  PROVE  HandOverInv'
<1>1. tasks' = tasks /\ pending' = pending \ {InstTask(c)} /\ UNCHANGED <<servers, process>>
  <2>1. Return(InstTask(c), {}, {}) /\ UNCHANGED <<servers, process>>
    BY DEF InstWork, InstInitializing, InstRequestParsing, InstResponseBuilding,
           InstResponseNoMemory, InstResponseSending, InstDisposing, InstGoes
  <2>2. QED
    BY <2>1, ReturnPlain
<1>2. \A d \in Conns : conn'[d].state = conn[d].state /\ conn'[d].callback = conn[d].callback
  <2>1. conn \in [Conns -> ConnRecord]
    BY DEF TypeInv, TypeOK
  <2>2. CASE InstResponseBuilding(c)
    <3>1. PICK k : conn' = [conn EXCEPT ![c] = SetResponse(@, k)]
      BY <2>2 DEF InstResponseBuilding
    <3>2. QED
      BY <2>1, <3>1 DEF SetResponse, ConnRecord
  <2>3. CASE InstResponseNoMemory(c)
    BY <2>1, <2>3 DEF InstResponseNoMemory, ConnRecord
  <2>4. CASE UNCHANGED conn
    BY <2>4
  <2>5. QED
    BY <2>2, <2>3, <2>4 DEF InstWork, InstInitializing, InstRequestParsing,
           InstResponseSending, InstDisposing
<1>3. \A d \in Conns : Kept(d)
  BY <1>1, <1>2 DEF Kept
<1>4. QED
  BY <1>1, <1>3, TasksDiffer, ServersRest

(* The listener's turn: it never reaches the HTTP server's slot before     *)
(* that has emptied it.                                                    *)
LEMMA TcpWorkChain ==
  ASSUME TypeInv, HandOverInv, TcpWork
  PROVE  HandOverInv'
<1>1. Run(TcpTask) /\ Return(TcpTask, {}, {}) /\ UNCHANGED <<opti, process>>
  BY DEF TcpWork, TcpAccept, TcpWouldBlock, TcpAcceptFails, TcpHandOver, TcpConnected,
         TcpIdle, TcpRuns, TcpReturns
<1>2. tasks' = tasks /\ pending' = pending \ {TcpTask} /\ TcpTask \in pending
  BY <1>1, ReturnPlain DEF Run
<1>u. /\ ServerTasks \subseteq tasks /\ process = "running"
      /\ http.state \in {"IDLING", "CONNECTING", "CONNECTED"}
      /\ opti.state \in {"IDLE", "CONNECTING", "CONNECTED"}
  BY <1>1, ServersUp, TasksDiffer
<1>t. /\ HttpTask \in pending' <=> HttpTask \in pending
      /\ OptiTask \in pending' <=> OptiTask \in pending
      /\ TcpTask \notin pending'
      /\ \A c \in Conns : ConnTask(c) \in pending' <=> ConnTask(c) \in pending
  BY <1>2, TasksDiffer
<1>y. /\ conn \in [Conns -> ConnRecord] /\ DOMAIN tcp = {"state", "client_fd"}
      /\ tcp.state \in TcpStates
  BY DEF TypeInv, TypeOK
<1>3. CASE TcpAccept
  <2>1. PICK c \in Conns : /\ conn[c].state = "ABSENT"
                           /\ conn' = [conn EXCEPT ![c].state = "ACCEPTED"]
                           /\ tcp' = [state |-> "CONNECTING", client_fd |-> c]
    BY <1>3 DEF TcpAccept
  <2>2. tcp.state = "LISTENING" /\ UNCHANGED http
    BY <1>3 DEF TcpAccept, TcpRuns
  <2>3. /\ conn'[c].state = "ACCEPTED"
        /\ \A d \in Conns \ {c} : conn'[d] = conn[d]
    BY <1>y, <2>1 DEF ConnRecord
  <2>4. http.state # "CONNECTING"
    BY <1>2, <2>2 DEF HandOverInv, HttpTakesInTime
  <2>5. \A d \in Conns : Alive(d)' => Alive(d) /\ conn'[d] = conn[d]
    BY <2>3 DEF Alive, ConnStates, ReadingStates
  <2>6. NoLostClient'
    BY <1>1, <2>1, <2>2, <2>3, <2>5 DEF HandOverInv, NoLostClient
  <2>7. ServersUpOrDown' /\ NoNullCall'
    BY <1>1, <1>2, <1>u, <2>2 DEF ServersUpOrDown, NoNullCall
  <2>8. DescriptorSlots' /\ HttpTakesInTime'
    BY <2>1, <2>2, <2>3, <2>4 DEF DescriptorSlots, HttpTakesInTime
  <2>9. OptiTakesInTime'
    BY <1>1, <1>2, <1>t, <2>1, <2>2, <2>4 DEF HandOverInv, OptiTakesInTime
  <2>10. ConnWaitsInTime'
    BY <1>1, <1>t, <2>5 DEF HandOverInv, ConnWaitsInTime
  <2>11. QED
    BY <2>6, <2>7, <2>8, <2>9, <2>10 DEF HandOverInv
<1>4. CASE TcpHandOver
  <2>1. /\ tcp.state = "CONNECTING" /\ UNCHANGED conn
        /\ http' = [http EXCEPT !.client_fd = tcp.client_fd, !.state = "CONNECTING"]
        /\ tcp' = [state |-> "CONNECTED", client_fd |-> NoConn]
    BY <1>4 DEF TcpHandOver, TcpRuns
  <2>2. http.state # "CONNECTING" /\ opti.state # "CONNECTING"
    BY <1>2, <1>u, <2>1 DEF HandOverInv, HttpTakesInTime, OptiTakesInTime
  <2>3. http'.state = "CONNECTING" /\ http'.client_fd = tcp.client_fd
    BY <2>1 DEF TypeInv, TypeOK
  <2>4. \A d \in Conns : Alive(d)' <=> Alive(d)
    BY <2>1 DEF Alive
  <2>5. NoLostClient'
    BY <1>1, <2>1, <2>2, <2>3, <2>4 DEF HandOverInv, NoLostClient
  <2>6. ServersUpOrDown' /\ NoNullCall'
    BY <1>1, <1>2, <1>u, <2>3 DEF ServersUpOrDown, NoNullCall
  <2>7. DescriptorSlots' /\ HttpTakesInTime'
    BY <1>t, <2>1, <2>3 DEF HandOverInv, DescriptorSlots, HttpTakesInTime
  <2>8. OptiTakesInTime'
    BY <1>1, <2>2 DEF OptiTakesInTime
  <2>9. ConnWaitsInTime'
    BY <1>1, <1>t, <2>1, <2>4 DEF HandOverInv, ConnWaitsInTime
  <2>10. QED
    BY <2>5, <2>6, <2>7, <2>8, <2>9 DEF HandOverInv
<1>5. CASE TcpWouldBlock \/ TcpAcceptFails \/ TcpConnected \/ TcpIdle
  <2>1. UNCHANGED <<http, conn>> /\ tcp.state # "CONNECTING" /\ tcp'.state # "CONNECTING"
    BY <1>5, <1>y
    DEF TcpWouldBlock, TcpAcceptFails, TcpConnected, TcpIdle, TcpRuns
  <2>2. http.state = "CONNECTING" => tcp.state = "CONNECTED" /\ tcp'.state = "LISTENING"
    BY <1>2, <1>5, <1>y
    DEF HandOverInv, HttpTakesInTime, TcpWouldBlock, TcpAcceptFails, TcpConnected,
        TcpIdle, TcpRuns
  <2>3. \A d \in Conns : Alive(d)' <=> Alive(d)
    BY <2>1 DEF Alive
  <2>4. NoLostClient'
    BY <1>1, <2>1, <2>3 DEF HandOverInv, NoLostClient
  <2>5. ServersUpOrDown' /\ NoNullCall'
    BY <1>1, <1>2, <1>u, <2>1 DEF ServersUpOrDown, NoNullCall
  <2>6. DescriptorSlots'
    BY <2>1 DEF HandOverInv, DescriptorSlots
  <2>7. HttpTakesInTime'
    BY <1>2, <1>t, <2>1, <2>2 DEF HandOverInv, HttpTakesInTime
  <2>8. OptiTakesInTime'
    BY <1>1, <1>t, <2>1 DEF HandOverInv, OptiTakesInTime
  <2>9. ConnWaitsInTime'
    BY <1>1, <1>t, <2>1, <2>3 DEF HandOverInv, ConnWaitsInTime
  <2>10. QED
    BY <2>4, <2>5, <2>6, <2>7, <2>8, <2>9 DEF HandOverInv
<1>6. QED
  BY <1>3, <1>4, <1>5 DEF TcpWork

(* The HTTP server's turn: it never reaches the Opti server's slot before  *)
(* that has emptied it.                                                    *)
LEMMA HttpWorkChain ==
  ASSUME TypeInv, HandOverInv, HttpWork
  PROVE  HandOverInv'
<1>1. Run(HttpTask) /\ UNCHANGED process
  BY DEF HttpWork, HttpIdle, HttpHandOver, HttpRefuse, HttpConnected, HttpRetryWaits,
         HttpRetrySucceeds, HttpRetryFails, HttpDisposing, HttpRuns
<1>u. /\ ServerTasks \subseteq tasks /\ process = "running"
      /\ http.state \in {"IDLING", "CONNECTING", "CONNECTED"}
      /\ opti.state \in {"IDLE", "CONNECTING", "CONNECTED"}
  BY <1>1, ServersUp, TasksDiffer
<1>y. /\ conn \in [Conns -> ConnRecord] /\ DOMAIN http = {"state", "error_state",
                                                         "error_retries", "client_fd"}
  BY DEF TypeInv, TypeOK
<1>3. CASE HttpHandOver
  <2> DEFINE c == http.client_fd
  <2>1. /\ http.state = "CONNECTING" /\ UNCHANGED tcp
        /\ conn' = [conn EXCEPT ![c] = FreshConn]
        /\ opti' = [state |-> "CONNECTING", http_connection |-> c]
        /\ Return(HttpTask, {ConnTask(c)}, {})
        /\ http' = [http EXCEPT !.state = "CONNECTED"]
    BY <1>3 DEF HttpHandOver, HttpRuns, OnHttpConnection
  <2>2. c \in Conns /\ conn[c].state = "ACCEPTED"
    BY <2>1 DEF HandOverInv, DescriptorSlots
  <2>3. opti.state # "CONNECTING" /\ tcp.state # "CONNECTING" /\ http'.state = "CONNECTED"
        /\ (tcp.state = "LISTENING" => TcpTask \notin pending)
    BY <1>u, <1>y, <2>1 DEF HandOverInv, OptiTakesInTime, HttpTakesInTime
  <2>4. /\ conn'[c].state = "INITIALIZING"
        /\ \A d \in Conns \ {c} : conn'[d] = conn[d]
    BY <1>y, <2>1, <2>2 DEF FreshConn
  <2>5. \A d \in Conns \ {c} : Alive(d)' => Alive(d) /\ conn[d].callback
    BY <1>u, <2>3, <2>4 DEF HandOverInv, NoLostClient, Alive
  <2>6. ServerTasks \subseteq tasks' /\ (TcpTask \in pending' => TcpTask \in pending)
    BY <1>u, <2>1, <2>2, TasksDiffer DEF Return
  <2>7. NoLostClient'
    <3>1. \A d \in Conns : conn'[d].state = "ACCEPTED" => d # c /\ conn[d].state = "ACCEPTED"
      BY <2>4
    <3>2. \A d \in Conns : conn'[d].state # "ACCEPTED"
      BY <1>u, <2>3, <3>1 DEF HandOverInv, NoLostClient
    <3>3. QED
      BY <2>1, <2>4, <2>5, <3>2 DEF NoLostClient
  <2>8. ServersUpOrDown' /\ NoNullCall'
    BY <1>1, <1>u, <2>1, <2>3, <2>6 DEF ServersUpOrDown, NoNullCall
  <2>9. DescriptorSlots' /\ HttpTakesInTime' /\ OptiTakesInTime'
    BY <2>1, <2>3, <2>6 DEF DescriptorSlots, HttpTakesInTime, OptiTakesInTime
  <2>10. ConnWaitsInTime'
    BY <2>4, <2>5 DEF ConnWaitsInTime
  <2>11. QED
    BY <2>7, <2>8, <2>9, <2>10 DEF HandOverInv
<1>4. CASE HttpRefuse
  <2> DEFINE c == http.client_fd
  <2>1. /\ http.state = "CONNECTING" /\ UNCHANGED <<tcp, opti>>
        /\ conn' = [conn EXCEPT ![c].state = "REFUSED"]
        /\ Return(HttpTask, {}, {})
        /\ http' = [http EXCEPT !.state = "IDLING", !.client_fd = NoConn]
    BY <1>4 DEF HttpRefuse, HttpRuns
  <2>2. c \in Conns /\ conn[c].state = "ACCEPTED"
    BY <2>1 DEF HandOverInv, DescriptorSlots
  <2>3. opti.state # "CONNECTING" /\ tcp.state # "CONNECTING" /\ http'.state = "IDLING"
    BY <1>u, <1>y, <2>1 DEF HandOverInv, OptiTakesInTime, HttpTakesInTime
  <2>4. /\ conn'[c].state = "REFUSED"
        /\ \A d \in Conns \ {c} : conn'[d] = conn[d]
    BY <1>y, <2>1, <2>2 DEF ConnRecord
  <2>5. \A d \in Conns : Alive(d)' => Alive(d) /\ conn'[d] = conn[d] /\ conn[d].callback
    BY <1>u, <2>3, <2>4 DEF HandOverInv, NoLostClient, Alive, ConnStates, ReadingStates
  <2>6. tasks' = tasks
    BY <2>1, ReturnPlain
  <2>7. NoLostClient'
    <3>1. \A d \in Conns : conn'[d].state # "ACCEPTED"
      BY <1>u, <2>3, <2>4 DEF HandOverInv, NoLostClient
    <3>2. QED
      BY <2>5, <3>1 DEF NoLostClient
  <2>8. ServersUpOrDown' /\ NoNullCall'
    BY <1>1, <1>u, <2>1, <2>3, <2>6 DEF ServersUpOrDown, NoNullCall
  <2>9. DescriptorSlots' /\ HttpTakesInTime' /\ OptiTakesInTime'
    BY <2>1, <2>3 DEF DescriptorSlots, HttpTakesInTime, OptiTakesInTime
  <2>10. ConnWaitsInTime'
    BY <2>5 DEF ConnWaitsInTime
  <2>11. QED
    BY <2>7, <2>8, <2>9, <2>10 DEF HandOverInv
<1>5. CASE HttpIdle \/ HttpConnected
  <2>1. /\ UNCHANGED <<tcp, opti, conn>> /\ Return(HttpTask, {}, {})
        /\ http.state # "CONNECTING" /\ http'.state \in {"IDLING", "CONNECTED"}
    BY <1>5, <1>y DEF HttpIdle, HttpConnected, HttpRuns, servers
  <2>2. tasks' = tasks /\ pending' = pending \ {HttpTask}
    BY <2>1, ReturnPlain
  <2>3. /\ TcpTask \in pending' <=> TcpTask \in pending
        /\ OptiTask \in pending' <=> OptiTask \in pending
        /\ \A c \in Conns : ConnTask(c) \in pending' <=> ConnTask(c) \in pending
    BY <2>2, TasksDiffer
  <2>4. \A d \in Conns : Alive(d)' <=> Alive(d)
    BY <2>1 DEF Alive
  <2>5. NoLostClient'
    BY <1>1, <2>1, <2>4 DEF HandOverInv, NoLostClient
  <2>6. ServersUpOrDown' /\ NoNullCall'
    BY <1>1, <1>u, <2>1, <2>2 DEF ServersUpOrDown, NoNullCall
  <2>7. DescriptorSlots' /\ HttpTakesInTime' /\ OptiTakesInTime'
    BY <1>1, <2>1, <2>3 DEF HandOverInv, DescriptorSlots, HttpTakesInTime, OptiTakesInTime
  <2>8. ConnWaitsInTime'
    BY <1>1, <2>1, <2>3, <2>4 DEF HandOverInv, ConnWaitsInTime
  <2>9. QED
    BY <2>5, <2>6, <2>7, <2>8 DEF HandOverInv
<1>6. QED
  BY <1>3, <1>4, <1>5, <1>u
  DEF HttpWork, HttpRetryWaits, HttpRetrySucceeds, HttpRetryFails, HttpDisposing, HttpRuns

(* The Opti server's turn: it sets the callbacks of the one connection     *)
(* that lacks them.                                                        *)
LEMMA OptiWorkChain ==
  ASSUME TypeInv, HandOverInv, OptiWork, "osi_init" \notin Faults
  PROVE  HandOverInv'
<1>1. Run(OptiTask) /\ UNCHANGED process
  BY DEF OptiWork, OptiIdle, OptiHandOver, OptiHandOverFails, OptiConnected, OptiError,
         OptiDisposing, OptiRuns, OptiReturns
<1>u. /\ ServerTasks \subseteq tasks /\ process = "running"
      /\ http.state \in {"IDLING", "CONNECTING", "CONNECTED"}
      /\ opti.state \in {"IDLE", "CONNECTING", "CONNECTED"}
  BY <1>1, ServersUp, TasksDiffer
<1>y. conn \in [Conns -> ConnRecord] /\ DOMAIN opti = {"state", "http_connection"}
  BY DEF TypeInv, TypeOK
<1>2. OptiIdle \/ OptiHandOver \/ OptiConnected
  BY <1>u DEF OptiWork, OptiHandOverFails, OptiError, OptiDisposing, OptiRuns
<1>3. UNCHANGED <<tcp, http>> /\ tasks' = tasks /\ pending' = pending \ {OptiTask}
  BY <1>2, ReturnPlain DEF OptiIdle, OptiHandOver, OptiConnected, OptiReturns
<1>4. opti'.state \in {"IDLE", "CONNECTED"}
  BY <1>2, <1>y DEF OptiIdle, OptiHandOver, OptiConnected, OptiRuns
<1>5. \A d \in Conns : conn'[d].state = conn[d].state
  BY <1>2, <1>y DEF OptiIdle, OptiHandOver, OptiConnected, OsiInit, ConnRecord
<1>6. \A d \in Conns : Alive(d)' => conn'[d].callback
  <2>1. \A d \in Conns : Alive(d)' <=> Alive(d)
    BY <1>5 DEF Alive
  <2>2. CASE OptiHandOver
    <3>1. conn' = [conn EXCEPT ![opti.http_connection].callback = TRUE]
      BY <2>2 DEF OptiHandOver, OsiInit
    <3>2. \A d \in Conns : conn[d].callback \/ d = opti.http_connection => conn'[d].callback
      BY <1>y, <3>1 DEF ConnRecord
    <3>3. QED
      BY <1>u, <2>1, <3>2 DEF HandOverInv, NoLostClient
  <2>3. CASE OptiIdle \/ OptiConnected
    BY <1>u, <2>1, <2>3
    DEF OptiIdle, OptiConnected, OptiRuns, HandOverInv, NoLostClient
  <2>4. QED
    BY <1>2, <2>2, <2>3
<1>7. NoLostClient'
  BY <1>1, <1>3, <1>5, <1>6 DEF HandOverInv, NoLostClient
<1>8. ServersUpOrDown' /\ NoNullCall'
  BY <1>1, <1>3, <1>4, <1>u DEF ServersUpOrDown, NoNullCall
<1>9. DescriptorSlots'
  BY <1>3, <1>5 DEF HandOverInv, DescriptorSlots
<1>10. HttpTakesInTime'
  BY <1>3, TasksDiffer DEF HandOverInv, HttpTakesInTime
<1>11. OptiTakesInTime' /\ ConnWaitsInTime'
  BY <1>4, <1>6 DEF OptiTakesInTime, ConnWaitsInTime
<1>12. QED
  BY <1>7, <1>8, <1>9, <1>10, <1>11 DEF HandOverInv

LEMMA InitChain ==
  ASSUME Init, "tcp_init" \notin Faults
  PROVE  HandOverInv
<1>1. \A c \in Conns : conn[c].state = "ABSENT"
  BY DEF Init, FreshConn
<1>2. \A c \in Conns : ~Alive(c)
  BY <1>1 DEF Alive, ConnStates, ReadingStates
<1>3. NoNullCall /\ NoLostClient /\ ConnWaitsInTime
  BY <1>1, <1>2 DEF Init, NoNullCall, NoLostClient, ConnWaitsInTime
<1>4. CASE InitStarted
  <2>1. http.state = "IDLING"
    BY <1>4 DEF InitStarted, HttpDisposed
  <2>2. QED
    BY <1>3, <1>4, <2>1
    DEF Init, InitStarted, HandOverInv, ServersUpOrDown, DescriptorSlots, HttpTakesInTime,
        OptiTakesInTime
<1>5. CASE InitStoreFailed
  BY <1>3, <1>5
  DEF Init, InitStoreFailed, TcpDisposed, HttpDisposed, HandOverInv, ServersUpOrDown,
      DescriptorSlots, HttpTakesInTime, OptiTakesInTime
<1>6. QED
  BY <1>4, <1>5 DEF Init, InitTcpFailed

(* main() starts a round: everyone who is a turn behind has had its turn.  *)
LEMMA NewRoundChain ==
  ASSUME TypeInv, HandOverInv, NewRound
  PROVE  HandOverInv'
<1>1. /\ process = "running" /\ pending = {} /\ pending' = tasks
      /\ UNCHANGED <<tcp, http, opti, conn, tasks, process>>
  BY DEF NewRound, servers
<1>2. \A d \in Conns : Alive(d)' <=> Alive(d)
  BY <1>1 DEF Alive
<1>3. NoNullCall' /\ NoLostClient' /\ ServersUpOrDown' /\ DescriptorSlots'
  BY <1>1, <1>2 DEF HandOverInv, NoNullCall, NoLostClient, ServersUpOrDown, DescriptorSlots
<1>4. http.state = "CONNECTING" \/ opti.state = "CONNECTING" => ServerTasks \subseteq tasks
  BY <1>1 DEF HandOverInv, ServersUpOrDown
<1>5. HttpTakesInTime'
  BY <1>1, <1>4, TasksDiffer DEF HandOverInv, HttpTakesInTime
<1>6. OptiTakesInTime'
  BY <1>1, <1>4, TasksDiffer DEF HandOverInv, OptiTakesInTime
<1>7. ConnWaitsInTime'
  BY <1>1, <1>2, <1>4, TasksDiffer DEF HandOverInv, ConnWaitsInTime, NoLostClient
<1>8. QED
  BY <1>3, <1>5, <1>6, <1>7 DEF HandOverInv

(* After SIGINT the servers are gone and nothing is promised but that no   *)
(* null callback is called.                                                *)
LEMMA StopChain ==
  ASSUME TypeInv, HandOverInv, Sigint \/ MainReturns
  PROVE  HandOverInv'
<1>1. /\ tcp'.state = "INITIALIZING" /\ http'.state = "INITIALIZING"
      /\ process' \in {"stopping", "exited"} /\ UNCHANGED conn
      /\ pending' \subseteq pending
  BY DEF Sigint, MainReturns, OptiDispose, TcpDisposed, HttpDisposed
<1>2. ServerTasks \cap tasks' = {}
  <2>1. CASE Sigint
    BY <2>1 DEF Sigint
  <2>2. CASE MainReturns
    BY <2>2 DEF MainReturns, HandOverInv, ServersUpOrDown
  <2>3. QED
    BY <2>1, <2>2
<1>3. \A d \in Conns : Alive(d)' <=> Alive(d)
  BY <1>1 DEF Alive
<1>4. ServersUpOrDown' /\ NoNullCall' /\ NoLostClient' /\ DescriptorSlots'
  BY <1>1, <1>2 DEF ServersUpOrDown, NoNullCall, NoLostClient, DescriptorSlots
<1>5. HttpTakesInTime' /\ OptiTakesInTime'
  BY <1>1 DEF HttpTakesInTime, OptiTakesInTime
<1>6. ConnWaitsInTime'
  BY <1>1, <1>3 DEF HandOverInv, ConnWaitsInTime
<1>7. QED
  BY <1>4, <1>5, <1>6 DEF HandOverInv

(* Whatever the number of clients and the order in which the scheduler     *)
(* runs the tasks of a round, no accepted client is lost between the three *)
(* servers and no connection calls a callback that is not set, provided    *)
(* the listener opens at start and instances can be allocated.             *)
THEOREM HandOverSafe ==
  ASSUME "tcp_init" \notin Faults, "osi_init" \notin Faults
  PROVE  Spec => []HandOverInv
<1>1. Init => TypeInv /\ HandOverInv
  BY InitType, InitChain
<1>2. ASSUME TypeInv, HandOverInv, [Next]_vars
      PROVE  HandOverInv'
  <2>1. CASE Ended \/ UNCHANGED vars
    <3>1. UNCHANGED vars
      BY <2>1 DEF Ended
    <3>2. QED
      BY <1>2, <3>1
      DEF vars, HandOverInv, NoNullCall, NoLostClient, ServersUpOrDown, DescriptorSlots,
          HttpTakesInTime, OptiTakesInTime, ConnWaitsInTime, Alive
  <2>2. CASE \E c \in Conns : ConnWork(c) \/ InstWork(c)
    BY <1>2, <2>2, ConnReadingChain, ConnAnsweringChain, InstWorkChain DEF ConnWork
  <2>3. QED
    BY <1>2, <2>1, <2>2, NewRoundChain, StopChain, TcpWorkChain, HttpWorkChain, OptiWorkChain
    DEF Next, Work
<1>3. Spec => []TypeInv
  BY TypeCorrect
<1>4. QED
  BY <1>1, <1>2, <1>3, PTL DEF Spec

(* In particular no null callback is ever called, ...                      *)
COROLLARY NeverCallsNull ==
  ASSUME "tcp_init" \notin Faults, "osi_init" \notin Faults
  PROVE  Spec => []NoNullCall
<1>1. HandOverInv => NoNullCall
  BY DEF HandOverInv
<1>2. QED
  BY <1>1, HandOverSafe, PTL

(* ... and while the server runs every client it accepted is in the hands  *)
(* of one of its servers.                                                  *)
COROLLARY NeverLosesClient ==
  ASSUME "tcp_init" \notin Faults, "osi_init" \notin Faults
  PROVE  Spec => []NoLostClient
<1>1. HandOverInv => NoLostClient
  BY DEF HandOverInv
<1>2. QED
  BY <1>1, HandOverSafe, PTL

-----------------------------------------------------------------------------
(* OptiServer implements the safety of RequestService: a client is answered *)
(* at most once, only after it was accepted and before its connection is    *)
(* closed.                                                                  *)

(* A connection's record carries a reply from the moment it is written.    *)
ReplyWhenDone ==
  \A c \in Conns :
    conn[c].reply # NoReply <=> conn[c].state \in {"DISPOSING", "FREED"}

(* The two descriptor slots never hold the same client.                    *)
SlotsApart ==
  tcp.state = "CONNECTING" /\ http.state = "CONNECTING" => tcp.client_fd # http.client_fd

ServiceInv == ReplyWhenDone /\ DescriptorSlots /\ SlotsApart

(* The states in which a client waits for its answer.                      *)
Waiting == (ConnStates \ {"DISPOSING"}) \cup {"ACCEPTED"}

(* The steps a record may take, as the client sees them: none, or accept,  *)
(* answer, close or refuse.                                                *)
Same(r, q) ==
  /\ q.reply = r.reply
  /\ q.state = r.state \/ {q.state, r.state} \subseteq Waiting

Sees(r, q) ==
  \/ r.state = "ABSENT" /\ q.state = "ACCEPTED" /\ q.reply = r.reply
  \/ r.state = "RESPONDING" /\ q.state = "DISPOSING" /\ q.reply \in Reply
  \/ r.state = "DISPOSING" /\ q.state = "FREED" /\ q.reply = r.reply
  \/ /\ r.state = "ACCEPTED" /\ q.state = "REFUSED" /\ q.reply = r.reply
     /\ "conn_init" \in Faults

(* What the client sees follows from the state of a record.                *)
LEMMA Phases ==
  ASSUME NEW r \in ConnRecord,
         r.reply # NoReply <=> r.state \in {"DISPOSING", "FREED"}
  PROVE  /\ r.state = "ABSENT" => PhaseOf(r) = "away"
         /\ r.state = "REFUSED" => PhaseOf(r) = "refused"
         /\ r.state = "FREED" => PhaseOf(r) = "closed"
         /\ r.state = "DISPOSING" => PhaseOf(r) = "answered"
         /\ r.state \in Waiting => PhaseOf(r) = "accepted"
         /\ r.state \in Waiting \cup {"ABSENT", "REFUSED", "FREED", "DISPOSING"}
BY DEF PhaseOf, Waiting, ConnStates, ReadingStates, ConnRecord, ConnPhases

(* A reply is not the absence of one.                                      *)
LEMMA RepliesAreReplies == NoReply \notin Reply
BY DEF NoReply, Reply, Codes

(* The record of one client takes a step: the service takes it, or none.   *)
LEMMA StepMaps ==
  ASSUME TypeInv, TypeInv', ReplyWhenDone, NEW c \in Conns,
         \A d \in Conns \ {c} : Same(conn[d], conn'[d]),
         Same(conn[c], conn'[c]) \/ Sees(conn[c], conn'[c])
  PROVE  ReplyWhenDone' /\ [RS!ServiceNext]_(RS!svars)
<1>1. ReplyWhenDone'
  <2>1. \A d \in Conns : Same(conn[d], conn'[d]) =>
          (conn'[d].reply # NoReply <=> conn'[d].state \in {"DISPOSING", "FREED"})
    BY DEF ReplyWhenDone, Same, Waiting, ConnStates, ReadingStates
  <2>2. Sees(conn[c], conn'[c]) =>
          (conn'[c].reply # NoReply <=> conn'[c].state \in {"DISPOSING", "FREED"})
    BY RepliesAreReplies DEF ReplyWhenDone, Sees
  <2>3. QED
    BY <2>1, <2>2 DEF ReplyWhenDone
<1>2. \A d \in Conns :
        /\ conn[d] \in ConnRecord /\ conn'[d] \in ConnRecord
        /\ conn[d].reply # NoReply <=> conn[d].state \in {"DISPOSING", "FREED"}
        /\ conn'[d].reply # NoReply <=> conn'[d].state \in {"DISPOSING", "FREED"}
  BY <1>1 DEF ReplyWhenDone, TypeInv, TypeOK
<1>3. \A d \in Conns : Same(conn[d], conn'[d]) =>
        PhaseOf(conn'[d]) = PhaseOf(conn[d]) /\ conn'[d].reply = conn[d].reply
  BY <1>2, Phases DEF Same
<1>4. CASE Same(conn[c], conn'[c])
  BY <1>1, <1>3, <1>4 DEF RS!svars
<1>5. CASE Sees(conn[c], conn'[c])
  <2> DEFINE client == [d \in Conns |-> PhaseOf(conn[d])]
             answer == [d \in Conns |-> conn[d].reply]
  <2>1. /\ conn[c].state = "ABSENT" => PhaseOf(conn[c]) = "away"
        /\ conn[c].state = "RESPONDING" => PhaseOf(conn[c]) = "accepted"
        /\ conn[c].state = "DISPOSING" => PhaseOf(conn[c]) = "answered"
        /\ conn[c].state = "ACCEPTED" => PhaseOf(conn[c]) = "accepted"
        /\ conn'[c].state = "ACCEPTED" => PhaseOf(conn'[c]) = "accepted"
        /\ conn'[c].state = "DISPOSING" => PhaseOf(conn'[c]) = "answered"
        /\ conn'[c].state = "FREED" => PhaseOf(conn'[c]) = "closed"
        /\ conn'[c].state = "REFUSED" => PhaseOf(conn'[c]) = "refused"
    BY <1>2, Phases DEF Waiting, ConnStates
  <2>2. \A x : PhaseOf(conn'[c]) = x => client' = [client EXCEPT ![c] = x]
    BY <1>3
  <2>3. answer' = [answer EXCEPT ![c] = conn'[c].reply]
    BY <1>3
  <2>4. conn'[c].reply = conn[c].reply => answer' = answer
    BY <1>3
  <2>5. client[c] = PhaseOf(conn[c])
    OBVIOUS
  <2> HIDE DEF client, answer
  <2> USE DEF Sees
  <2>6. CASE conn[c].state = "ABSENT"
    <3>1. client[c] = "away" /\ client' = [client EXCEPT ![c] = "accepted"] /\ answer' = answer
      BY <1>5, <2>1, <2>2, <2>4, <2>5, <2>6
    <3>2. RS!Accept(c)
      BY <3>1 DEF RS!Accept, RS!Moves, client, answer
    <3>3. QED
      BY <1>1, <3>2 DEF RS!ServiceNext
  <2>7. CASE conn[c].state = "RESPONDING"
    <3>1. /\ client[c] = "accepted" /\ client' = [client EXCEPT ![c] = "answered"]
          /\ conn'[c].reply \in Reply
      BY <1>5, <2>1, <2>2, <2>5, <2>7
    <3>2. RS!Answer(c)
      BY <2>3, <3>1 DEF RS!Answer, RS!Moves, client, answer
    <3>3. QED
      BY <1>1, <3>2 DEF RS!ServiceNext
  <2>8. CASE conn[c].state = "DISPOSING"
    <3>1. client[c] = "answered" /\ client' = [client EXCEPT ![c] = "closed"] /\ answer' = answer
      BY <1>5, <2>1, <2>2, <2>4, <2>5, <2>8
    <3>2. RS!Close(c)
      BY <3>1 DEF RS!Close, RS!Moves, client, answer
    <3>3. QED
      BY <1>1, <3>2 DEF RS!ServiceNext
  <2>9. CASE conn[c].state = "ACCEPTED"
    <3>1. /\ client[c] = "accepted" /\ client' = [client EXCEPT ![c] = "refused"]
          /\ answer' = answer /\ "conn_init" \in Faults
      BY <1>5, <2>1, <2>2, <2>4, <2>5, <2>9
    <3>2. RS!Refuse(c)
      BY <3>1 DEF RS!Refuse, RS!Moves, client, answer
    <3>3. QED
      BY <1>1, <3>2 DEF RS!ServiceNext
  <2>10. QED
    BY <1>5, <2>6, <2>7, <2>8, <2>9
<1>6. QED
  BY <1>1, <1>4, <1>5

-----------------------------------------------------------------------------
(* What each part of the next-state relation does to the records.          *)

(* A turn of a connection: its own record takes one step.                  *)
LEMMA ConnSees ==
  ASSUME TypeInv, NEW c \in Conns, ConnWork(c)
  PROVE  /\ \A d \in Conns \ {c} : conn'[d] = conn[d]
         /\ Same(conn[c], conn'[c]) \/ Sees(conn[c], conn'[c])
         /\ conn[c].state \in ConnStates
         /\ UNCHANGED servers
<1>r. conn[c] \in ConnRecord /\ conn \in [Conns -> ConnRecord]
  BY ConnTyped DEF TypeInv, TypeOK
<1>s. conn[c].state \in ConnStates /\ UNCHANGED servers
  BY DEF ConnWork, ConnReading, ConnAnswering, ConnInitializing, ReadRetriesExceeded,
         ReadNoMemory, ConnReadFirstline, ConnReadHeaders, ConnReadBody, ConnRejectMethod,
         ConnAcceptEcho, ConnHandOver, ConnWeatherHandover, ConnRespond,
         ConnRespondNoMemory, ConnError, ConnDispose, ConnNullCall, ConnRuns, ConnBecomes,
         CallsCallback, ConnStates, ReadingStates
<1> SUFFICES /\ \A d \in Conns \ {c} : conn'[d] = conn[d]
             /\ Same(conn[c], conn'[c]) \/ Sees(conn[c], conn'[c])
  BY <1>s
<1>w. {"READING_FIRSTLINE", "READING_HEADERS", "READING_BODY", "INITIALIZING", "VALIDATING",
       "WEATHER_HANDOVER", "RESPONDING", "ERROR"} \subseteq Waiting
  BY DEF Waiting, ConnStates, ReadingStates
<1>1. ASSUME NEW q, ConnBecomes(c, q), Same(conn[c], q) \/ Sees(conn[c], q)
      PROVE  /\ \A d \in Conns \ {c} : conn'[d] = conn[d]
             /\ Same(conn[c], conn'[c]) \/ Sees(conn[c], conn'[c])
  BY <1>r, <1>1 DEF ConnBecomes
<1>2. ASSUME NEW q, ConnBecomes(c, q), conn[c].state \in Waiting, q.state \in Waiting,
             q.reply = conn[c].reply
      PROVE  /\ \A d \in Conns \ {c} : conn'[d] = conn[d]
             /\ Same(conn[c], conn'[c]) \/ Sees(conn[c], conn'[c])
  BY <1>1, <1>2 DEF Same
<1>n. ASSUME NEW n \in 0 .. 3
      PROVE  /\ Counted(c, n) \in ConnRecord
             /\ Counted(c, n).state = conn[c].state
             /\ Counted(c, n).reply = conn[c].reply
  BY <1>r, ConnTyped DEF Counted, ConnRecord
<1>3. CASE ConnInitializing(c)
  <2>1. /\ [conn[c] EXCEPT !.state = "READING_FIRSTLINE"].state = "READING_FIRSTLINE"
        /\ [conn[c] EXCEPT !.state = "READING_FIRSTLINE"].reply = conn[c].reply
    BY <1>r, Leaves
  <2>2. QED
    BY <1>2, <1>3, <1>s, <1>w, <2>1 DEF ConnInitializing, ConnRuns
<1>4. CASE ReadRetriesExceeded(c) \/ ReadNoMemory(c)
  <2> DEFINE q == [conn[c] EXCEPT !.state = "ERROR", !.retries = @ + 1]
  <2>1. q.state = "ERROR" /\ q.reply = conn[c].reply
    BY <1>r, Leaves
  <2>2. QED
    BY <1>2, <1>4, <1>s, <1>w, <2>1 DEF ReadRetriesExceeded, ReadNoMemory, ReadingStates
<1>5. CASE ConnReadFirstline(c)
  <2>1. PICK n \in 0 .. 3 :
          \/ ConnBecomes(c, Counted(c, n))
          \/ ConnBecomes(c, [Counted(c, n) EXCEPT !.status = 400, !.state = "RESPONDING"])
          \/ ConnBecomes(c, [Counted(c, n) EXCEPT !.state = "ERROR"])
          \/ ConnBecomes(c, [Counted(c, n) EXCEPT !.parsed = TRUE, !.state = "READING_HEADERS"])
    BY ZenonT(60), <1>5 DEF ConnReadFirstline
  <2> DEFINE r == Counted(c, n)
  <2>2. r \in ConnRecord /\ r.reply = conn[c].reply /\ r.state = "READING_FIRSTLINE"
    BY <1>5, <1>n DEF ConnReadFirstline, ConnRuns
  <2> HIDE DEF r
  <2>3. /\ [r EXCEPT !.status = 400, !.state = "RESPONDING"].state = "RESPONDING"
        /\ [r EXCEPT !.status = 400, !.state = "RESPONDING"].reply = r.reply
        /\ [r EXCEPT !.state = "ERROR"].state = "ERROR"
        /\ [r EXCEPT !.state = "ERROR"].reply = r.reply
        /\ [r EXCEPT !.parsed = TRUE, !.state = "READING_HEADERS"].state = "READING_HEADERS"
        /\ [r EXCEPT !.parsed = TRUE, !.state = "READING_HEADERS"].reply = r.reply
    BY <2>2, Leaves
  <2>4. conn[c].state \in Waiting
    BY <1>5, <1>w DEF ConnReadFirstline, ConnRuns
  <2>5. CASE ConnBecomes(c, r)
    BY <1>2, <1>w, <2>2, <2>4, <2>5
  <2>6. CASE ConnBecomes(c, [r EXCEPT !.status = 400, !.state = "RESPONDING"])
    BY ZenonT(60), <1>2, <1>w, <2>2, <2>3, <2>4, <2>6
  <2>7. CASE ConnBecomes(c, [r EXCEPT !.state = "ERROR"])
    BY <1>2, <1>w, <2>2, <2>3, <2>4, <2>7
  <2>8. CASE ConnBecomes(c, [r EXCEPT !.parsed = TRUE, !.state = "READING_HEADERS"])
    BY <1>2, <1>w, <2>2, <2>3, <2>4, <2>8
  <2>9. QED
    BY <2>1, <2>5, <2>6, <2>7, <2>8 DEF r
<1>6. CASE ConnReadHeaders(c)
  <2>1. PICK n \in 0 .. 3 :
          \/ ConnBecomes(c, Counted(c, n))
          \/ ConnBecomes(c, [Counted(c, n) EXCEPT !.status = 400, !.state = "RESPONDING"])
          \/ ConnBecomes(c, [[Counted(c, n) EXCEPT !.retries = 0] EXCEPT !.state = "READING_BODY"])
          \/ ConnBecomes(c, [[Counted(c, n) EXCEPT !.retries = 0] EXCEPT !.state = "VALIDATING"])
    BY ZenonT(60), <1>6 DEF ConnReadHeaders
  <2> DEFINE r == Counted(c, n)
  <2>2. r \in ConnRecord /\ r.reply = conn[c].reply /\ r.state = "READING_HEADERS"
    BY <1>6, <1>n DEF ConnReadHeaders, ConnRuns
  <2> HIDE DEF r
  <2>3. /\ [r EXCEPT !.status = 400, !.state = "RESPONDING"].state = "RESPONDING"
        /\ [r EXCEPT !.status = 400, !.state = "RESPONDING"].reply = r.reply
        /\ [[r EXCEPT !.retries = 0] EXCEPT !.state = "READING_BODY"].state = "READING_BODY"
        /\ [[r EXCEPT !.retries = 0] EXCEPT !.state = "READING_BODY"].reply = r.reply
        /\ [[r EXCEPT !.retries = 0] EXCEPT !.state = "VALIDATING"].state = "VALIDATING"
        /\ [[r EXCEPT !.retries = 0] EXCEPT !.state = "VALIDATING"].reply = r.reply
    BY <2>2, Leaves
  <2>4. conn[c].state \in Waiting
    BY <1>6, <1>w DEF ConnReadHeaders, ConnRuns
  <2>5. CASE ConnBecomes(c, r)
    BY <1>2, <1>w, <2>2, <2>4, <2>5
  <2>6. CASE ConnBecomes(c, [r EXCEPT !.status = 400, !.state = "RESPONDING"])
    BY ZenonT(60), <1>2, <1>w, <2>2, <2>3, <2>4, <2>6
  <2>7. CASE ConnBecomes(c, [[r EXCEPT !.retries = 0] EXCEPT !.state = "READING_BODY"])
    BY <1>2, <1>w, <2>2, <2>3, <2>4, <2>7
  <2>8. CASE ConnBecomes(c, [[r EXCEPT !.retries = 0] EXCEPT !.state = "VALIDATING"])
    BY <1>2, <1>w, <2>2, <2>3, <2>4, <2>8
  <2>9. QED
    BY <2>1, <2>5, <2>6, <2>7, <2>8 DEF r
<1>7. CASE ConnReadBody(c)
  <2>1. PICK n \in 0 .. 3 :
          \/ ConnBecomes(c, Counted(c, n))
          \/ ConnBecomes(c, [Counted(c, n) EXCEPT !.retries = 0, !.state = "VALIDATING"])
    BY <1>7 DEF ConnReadBody
  <2> DEFINE r == Counted(c, n)
  <2>2. r \in ConnRecord /\ r.reply = conn[c].reply /\ r.state = "READING_BODY"
    BY <1>7, <1>n DEF ConnReadBody, ConnRuns
  <2> HIDE DEF r
  <2>3. /\ [r EXCEPT !.retries = 0, !.state = "VALIDATING"].state = "VALIDATING"
        /\ [r EXCEPT !.retries = 0, !.state = "VALIDATING"].reply = r.reply
    BY <2>2, Leaves
  <2>4. conn[c].state \in Waiting
    BY <1>7, <1>w DEF ConnReadBody, ConnRuns
  <2>5. CASE ConnBecomes(c, r)
    BY <1>2, <1>w, <2>2, <2>4, <2>5
  <2>6. CASE ConnBecomes(c, [r EXCEPT !.retries = 0, !.state = "VALIDATING"])
    BY <1>2, <1>w, <2>2, <2>3, <2>4, <2>6
  <2>7. QED
    BY <2>1, <2>5, <2>6 DEF r
<1>8. CASE ConnRejectMethod(c) \/ ConnError(c)
  <2>1. PICK k : ConnBecomes(c, [conn[c] EXCEPT !.status = k, !.state = "RESPONDING"])
    BY <1>8 DEF ConnRejectMethod, ConnError
  <2>2. /\ [conn[c] EXCEPT !.status = k, !.state = "RESPONDING"].state = "RESPONDING"
        /\ [conn[c] EXCEPT !.status = k, !.state = "RESPONDING"].reply = conn[c].reply
    BY <1>r, Leaves
  <2>3. QED
    BY ZenonT(60), <1>2, <1>8, <1>w, <2>1, <2>2 DEF ConnRejectMethod, ConnError, ConnRuns
<1>9. CASE ConnAcceptEcho(c)
  <2> DEFINE q == [conn[c] EXCEPT !.status = 200, !.weather_done = TRUE,
                                  !.state = "RESPONDING"]
  <2>1. q.state = "RESPONDING" /\ q.reply = conn[c].reply
    BY <1>r, Leaves
  <2>2. QED
    BY <1>2, <1>9, <1>w, <2>1 DEF ConnAcceptEcho, ConnRuns
<1>10. CASE ConnWeatherHandover(c)
  <2>1. /\ [conn[c] EXCEPT !.state = "RESPONDING"].state = "RESPONDING"
        /\ [conn[c] EXCEPT !.state = "RESPONDING"].reply = conn[c].reply
    BY <1>r, Leaves
  <2>2. QED
    BY <1>2, <1>10, <1>w, <2>1 DEF ConnWeatherHandover, ConnRuns
<1>11. CASE ConnRespondNoMemory(c)
  <2>1. /\ [conn[c] EXCEPT !.state = "ERROR"].state = "ERROR"
        /\ [conn[c] EXCEPT !.state = "ERROR"].reply = conn[c].reply
    BY <1>r, Leaves
  <2>2. QED
    BY <1>2, <1>11, <1>w, <2>1 DEF ConnRespondNoMemory, ConnRuns
<1>12. CASE ConnRespond(c)
  <2> DEFINE p == ReplyOf(conn[c], conn[c].parsed /\ req[c].route = "/echo")
             q == [conn[c] EXCEPT !.reply = p, !.state = "DISPOSING"]
  <2>1. p \in Reply /\ conn[c].state = "RESPONDING"
    BY <1>12, ReplyTyped DEF ConnRespond, ConnRuns
  <2>2. ConnBecomes(c, q)
    BY <1>12 DEF ConnRespond
  <2> HIDE DEF p
  <2>3. q.state = "DISPOSING" /\ q.reply = p
    BY <1>r DEF ConnRecord
  <2>4. Sees(conn[c], q)
    BY <2>1, <2>3 DEF Sees
  <2>5. QED
    BY <1>1, <2>2, <2>4
<1>13. CASE ConnHandOver(c)
  <2>1. /\ conn'[c].state = "WEATHER_HANDOVER" /\ conn'[c].reply = conn[c].reply
        /\ \A d \in Conns \ {c} : conn'[d] = conn[d]
        /\ conn[c].state = "VALIDATING"
    BY <1>r, <1>13 DEF ConnHandOver, ConnRuns, ConnRecord
  <2>2. QED
    BY <1>s, <1>w, <2>1 DEF Same
<1>14. CASE ConnDispose(c)
  <2>1. /\ conn'[c].state = "FREED" /\ conn'[c].reply = conn[c].reply
        /\ \A d \in Conns \ {c} : conn'[d] = conn[d]
        /\ conn[c].state = "DISPOSING"
    BY <1>r, <1>14 DEF ConnDispose, ConnRuns, ConnRecord
  <2>2. QED
    BY <1>s, <2>1 DEF Sees
<1>15. CASE ConnNullCall(c)
  BY <1>s, <1>15 DEF ConnNullCall, Same
<1>16. QED
  BY <1>s, <1>3, <1>4, <1>5, <1>6, <1>7, <1>8, <1>9, <1>10, <1>11, <1>12, <1>13, <1>14, <1>15
  DEF ConnWork, ConnReading, ConnAnswering

(* A turn of an instance shows nothing to the client.                      *)
LEMMA InstSees ==
  ASSUME TypeInv, NEW c \in Conns, InstWork(c)
  PROVE  /\ \A d \in Conns : conn'[d].state = conn[d].state /\ conn'[d].reply = conn[d].reply
         /\ UNCHANGED servers
<1>1. conn \in [Conns -> ConnRecord]
  BY DEF TypeInv, TypeOK
<1>2. UNCHANGED servers
  BY DEF InstWork, InstInitializing, InstRequestParsing, InstResponseBuilding,
         InstResponseNoMemory, InstResponseSending, InstDisposing, InstGoes
<1>3. CASE InstResponseBuilding(c)
  <2>1. PICK k : conn' = [conn EXCEPT ![c] = SetResponse(@, k)]
    BY <1>3 DEF InstResponseBuilding
  <2>2. QED
    BY <1>1, <1>2, <2>1 DEF SetResponse, ConnRecord
<1>4. CASE InstResponseNoMemory(c)
  BY <1>1, <1>2, <1>4 DEF InstResponseNoMemory, ConnRecord
<1>5. CASE UNCHANGED conn
  BY <1>2, <1>5
<1>6. QED
  BY <1>3, <1>4, <1>5 DEF InstWork, InstInitializing, InstRequestParsing,
         InstResponseSending, InstDisposing

(* A turn of a server: at most the client in its hands changes.            *)
LEMMA ServerSees ==
  ASSUME TypeInv, ServiceInv,
         TcpWork \/ HttpWork \/ OptiWork \/ Sigint \/ MainReturns
  PROVE  /\ \/ \A d \in Conns : Same(conn[d], conn'[d])
            \/ \E c \in Conns : /\ \A d \in Conns \ {c} : Same(conn[d], conn'[d])
                                /\ Same(conn[c], conn'[c]) \/ Sees(conn[c], conn'[c])
         /\ DescriptorSlots' /\ SlotsApart'
<1>1. conn \in [Conns -> ConnRecord]
  BY DEF TypeInv, TypeOK
<1>2. CASE TcpAccept
  <2>1. PICK c \in Conns : /\ conn[c].state = "ABSENT"
                           /\ conn' = [conn EXCEPT ![c].state = "ACCEPTED"]
                           /\ tcp' = [state |-> "CONNECTING", client_fd |-> c]
    BY <1>2 DEF TcpAccept
  <2>2. /\ conn'[c].state = "ACCEPTED" /\ conn'[c].reply = conn[c].reply
        /\ \A d \in Conns \ {c} : conn'[d] = conn[d]
        /\ http' = http
    BY <1>1, <1>2, <2>1 DEF ConnRecord, TcpAccept
  <2>3. Sees(conn[c], conn'[c]) /\ \A d \in Conns \ {c} : Same(conn[d], conn'[d])
    BY <2>1, <2>2 DEF Sees, Same
  <2>4. DescriptorSlots' /\ SlotsApart'
    BY <2>1, <2>2 DEF ServiceInv, DescriptorSlots, SlotsApart
  <2>5. QED
    BY <2>3, <2>4
<1>3. CASE HttpHandOver
  <2> DEFINE c == http.client_fd
  <2>1. c \in Conns /\ conn[c].state = "ACCEPTED"
    BY <1>3 DEF HttpHandOver, HttpRuns, ServiceInv, DescriptorSlots
  <2>2. /\ conn'[c].state = "INITIALIZING" /\ conn'[c].reply = NoReply
        /\ \A d \in Conns \ {c} : conn'[d] = conn[d]
        /\ tcp' = tcp /\ http'.state = "CONNECTED"
    BY <1>1, <1>3, <2>1 DEF HttpHandOver, FreshConn, TypeInv, TypeOK
  <2>3. conn[c].reply = NoReply
    BY <2>1 DEF ServiceInv, ReplyWhenDone
  <2>4. Same(conn[c], conn'[c]) /\ \A d \in Conns \ {c} : Same(conn[d], conn'[d])
    BY <2>1, <2>2, <2>3 DEF Same, Waiting, ConnStates
  <2>5. DescriptorSlots' /\ SlotsApart'
    BY <1>3, <2>2 DEF ServiceInv, DescriptorSlots, SlotsApart, HttpHandOver, HttpRuns
  <2>6. QED
    BY <2>1, <2>4, <2>5
<1>4. CASE HttpRefuse
  <2> DEFINE c == http.client_fd
  <2>1. c \in Conns /\ conn[c].state = "ACCEPTED"
    BY <1>4 DEF HttpRefuse, HttpRuns, ServiceInv, DescriptorSlots
  <2>2. /\ conn'[c].state = "REFUSED" /\ conn'[c].reply = conn[c].reply
        /\ \A d \in Conns \ {c} : conn'[d] = conn[d]
        /\ tcp' = tcp /\ http'.state = "IDLING" /\ "conn_init" \in Faults
    BY <1>1, <1>4, <2>1 DEF HttpRefuse, ConnRecord, TypeInv, TypeOK
  <2>3. Sees(conn[c], conn'[c]) /\ \A d \in Conns \ {c} : Same(conn[d], conn'[d])
    BY <2>1, <2>2 DEF Sees, Same
  <2>4. DescriptorSlots' /\ SlotsApart'
    BY <1>4, <2>2 DEF ServiceInv, DescriptorSlots, SlotsApart, HttpRefuse, HttpRuns
  <2>5. QED
    BY <2>1, <2>3, <2>4
<1>5. CASE OptiHandOver
  <2>1. \A d \in Conns : conn'[d].state = conn[d].state /\ conn'[d].reply = conn[d].reply
    BY <1>1, <1>5 DEF OptiHandOver, OsiInit, ConnRecord
  <2>2. tcp' = tcp /\ http' = http
    BY <1>5 DEF OptiHandOver, OptiReturns
  <2>3. QED
    BY <2>1, <2>2 DEF ServiceInv, DescriptorSlots, SlotsApart, Same
<1>6. CASE TcpHandOver
  <2>1. conn' = conn /\ tcp'.state = "CONNECTED" /\ http'.client_fd = tcp.client_fd
    BY <1>6 DEF TcpHandOver, TypeInv, TypeOK
  <2>2. QED
    BY <1>6, <2>1 DEF TcpHandOver, TcpRuns, ServiceInv, DescriptorSlots, SlotsApart, Same
<1>7. ASSUME conn' = conn,
             tcp'.state = "CONNECTING" => tcp' = tcp,
             http'.state = "CONNECTING" => http' = http
      PROVE  /\ \A d \in Conns : Same(conn[d], conn'[d])
             /\ DescriptorSlots' /\ SlotsApart'
  BY <1>7 DEF ServiceInv, DescriptorSlots, SlotsApart, Same
<1>8. CASE TcpWouldBlock \/ TcpAcceptFails \/ TcpConnected \/ TcpIdle
  BY <1>7, <1>8 DEF TcpWouldBlock, TcpAcceptFails, TcpConnected, TcpIdle, TcpRuns,
         TypeInv, TypeOK
<1>9. CASE HttpIdle \/ HttpConnected \/ HttpRetryWaits \/ HttpRetryFails
  <2>1. UNCHANGED <<tcp, conn>> /\ (http' = http \/ http'.state # "CONNECTING")
    BY <1>9 DEF HttpIdle, HttpConnected, HttpRetryWaits, HttpRetryFails, servers,
           TypeInv, TypeOK
  <2>2. QED
    BY <1>7, <2>1
<1>10. CASE HttpRetrySucceeds
  <2>1. conn' = conn /\ tcp'.state = "LISTENING" /\ http'.state = "IDLING"
    <3>1. DOMAIN http = {"state", "error_state", "error_retries", "client_fd"}
      BY DEF TypeInv, TypeOK
    <3>2. QED
      BY <1>10, <3>1 DEF HttpRetrySucceeds
  <2>2. QED
    BY <1>7, <2>1
<1>11. CASE OptiIdle \/ OptiHandOverFails \/ OptiConnected \/ OptiError
  BY <1>7, <1>11 DEF OptiIdle, OptiHandOverFails, OptiConnected, OptiError, OptiReturns
<1>12. CASE HttpDisposing \/ OptiDisposing \/ Sigint \/ MainReturns
  BY <1>7, <1>12 DEF HttpDisposing, OptiDisposing, Sigint, MainReturns, OptiDispose,
         TcpDisposed, HttpDisposed
<1>13. QED
  BY <1>2, <1>3, <1>4, <1>5, <1>6, <1>7, <1>8, <1>9, <1>10, <1>11, <1>12
  DEF TcpWork, HttpWork, OptiWork

-----------------------------------------------------------------------------
(* Every step of the server is a step of the service, or none.             *)
LEMMA ServiceStep ==
  ASSUME TypeInv, ServiceInv, [Next]_vars
  PROVE  ServiceInv' /\ [RS!ServiceNext]_(RS!svars)
<1>t. TypeInv'
  BY TypeStep
<1>1. ASSUME \A d \in Conns : Same(conn[d], conn'[d])
      PROVE  ReplyWhenDone' /\ [RS!ServiceNext]_(RS!svars)
  <2>1. CASE Conns = {}
    BY <2>1 DEF ReplyWhenDone, RS!svars
  <2>2. CASE Conns # {}
    <3>1. PICK c \in Conns : TRUE
      BY <2>2
    <3>2. QED
      BY <1>t, <1>1, <3>1, StepMaps DEF ServiceInv
  <2>3. QED
    BY <2>1, <2>2
<1>2. ASSUME UNCHANGED <<tcp, http>>,
             \A d \in Conns : conn[d].state = "ACCEPTED" => conn'[d] = conn[d]
      PROVE  DescriptorSlots' /\ SlotsApart'
  BY <1>2 DEF ServiceInv, DescriptorSlots, SlotsApart
<1>3. CASE TcpWork \/ HttpWork \/ OptiWork \/ Sigint \/ MainReturns
  BY <1>t, <1>1, <1>3, ServerSees, StepMaps DEF ServiceInv
<1>4. CASE \E c \in Conns : ConnWork(c)
  <2>1. PICK c \in Conns : ConnWork(c)
    BY <1>4
  <2>2. /\ \A d \in Conns \ {c} : conn'[d] = conn[d]
        /\ Same(conn[c], conn'[c]) \/ Sees(conn[c], conn'[c])
        /\ conn[c].state \in ConnStates
        /\ UNCHANGED servers
    BY <2>1, ConnSees
  <2>3. \A d \in Conns \ {c} : Same(conn[d], conn'[d])
    BY <2>2 DEF Same
  <2>4. ReplyWhenDone' /\ [RS!ServiceNext]_(RS!svars)
    BY <1>t, <2>2, <2>3, StepMaps DEF ServiceInv
  <2>5. DescriptorSlots' /\ SlotsApart'
    BY <1>2, <2>2 DEF servers, ConnStates, ReadingStates
  <2>6. QED
    BY <2>4, <2>5 DEF ServiceInv
<1>5. CASE \E c \in Conns : InstWork(c)
  <2>1. /\ \A d \in Conns : conn'[d].state = conn[d].state /\ conn'[d].reply = conn[d].reply
        /\ UNCHANGED servers
    BY <1>5, InstSees
  <2>2. ReplyWhenDone' /\ [RS!ServiceNext]_(RS!svars)
    BY <1>1, <2>1 DEF Same
  <2>3. DescriptorSlots' /\ SlotsApart'
    BY <2>1 DEF ServiceInv, DescriptorSlots, SlotsApart, servers
  <2>4. QED
    BY <2>2, <2>3 DEF ServiceInv
<1>6. CASE NewRound \/ Ended \/ UNCHANGED vars
  <2>1. UNCHANGED <<tcp, http, conn>>
    BY <1>6 DEF NewRound, Ended, vars, servers
  <2>2. ReplyWhenDone' /\ [RS!ServiceNext]_(RS!svars)
    BY <1>1, <2>1 DEF Same
  <2>3. QED
    BY <1>2, <2>1, <2>2 DEF ServiceInv
<1>7. QED
  BY <1>3, <1>4, <1>5, <1>6 DEF Next, Work

LEMMA ServiceStarts ==
  ASSUME Init
  PROVE  ServiceInv /\ RS!ServiceInit
<1>1. \A c \in Conns : conn[c].state = "ABSENT" /\ conn[c].reply = NoReply
  BY DEF Init, FreshConn
<1>2. tcp.state # "CONNECTING" /\ http.state # "CONNECTING"
  <2>1. http.state \in {"INITIALIZING", "IDLING", "ERROR"}
    <3>1. HttpDisposed \in [state : {"INITIALIZING"}, error_state : {"NONE"},
                           error_retries : Nat, client_fd : {NoConn}]
      BY DEF HttpDisposed
    <3>2. QED
      BY <3>1 DEF Init, InitStarted, InitTcpFailed, InitStoreFailed
  <2>2. QED
    BY <2>1 DEF Init, InitStarted, InitTcpFailed, InitStoreFailed, TcpDisposed
<1>3. \A c \in Conns : PhaseOf(conn[c]) = "away"
  BY <1>1 DEF PhaseOf
<1>4. ServiceInv
  BY <1>1, <1>2 DEF ServiceInv, ReplyWhenDone, DescriptorSlots, SlotsApart
<1>5. RS!ServiceInit
  BY <1>1, <1>3 DEF RS!ServiceInit
<1>6. QED
  BY <1>4, <1>5

(* Whatever is sent and whatever fails, the clients only ever see what     *)
(* RequestService allows: one reply at most, after they were accepted and  *)
(* before their connection ends, which without a reply it only does when   *)
(* there was no memory to take it on.                                      *)
THEOREM Refines == Spec => ImplementsService
<1>1. Spec => []TypeInv
  BY TypeCorrect
<1>2. QED
  BY <1>1, ServiceStarts, ServiceStep, PTL DEF Spec, ImplementsService, RS!Service
=============================================================================
