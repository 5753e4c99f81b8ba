-------------------------- MODULE OptiServerServing --------------------------
(***************************************************************************)
(* How OptiServer serves a client, for any number of clients, any requests *)
(* and any faults: tasks run on live objects only, a connection that waits *)
(* has an instance at work for it, 200 is earned, and an interrupted       *)
(* server takes nobody in.                                                 *)
(*                                                                         *)
(* The three invariants are about one client at a time.  So a step is      *)
(* first reduced to what it does to one client (Touch), and the invariants *)
(* are then shown to survive that.                                         *)
(***************************************************************************)
EXTENDS OptiServerProofs

(* What the server knows of its objects: the instance exists exactly while *)
(* the connection has its callbacks, tasks belong to what exists, and the  *)
(* slot the Opti server takes a connection from holds a live one without   *)
(* callbacks.                                                              *)
ClientLifetime(c) ==
  /\ ConnTask(c) \in tasks <=> Alive(c)
  /\ InstAlive(c) <=> Alive(c) /\ conn[c].callback
  /\ InstTask(c) \in tasks => InstAlive(c)

OptiSlot ==
  opti.state = "CONNECTING" /\ OptiTask \in tasks =>
    /\ opti.http_connection \in Conns
    /\ Alive(opti.http_connection)
    /\ ~conn[opti.http_connection].callback

StoppedServers == process = "stopping" => ServerTasks \cap tasks = {}

Lifetimes == (\A c \in Conns : ClientLifetime(c)) /\ OptiSlot /\ StoppedServers

(* A connection that waits has callbacks and, until weather_done, an       *)
(* instance with work to do.                                               *)
ClientWaits(c) ==
  conn[c].state = "WEATHER_HANDOVER" =>
    /\ conn[c].callback
    /\ ~conn[c].weather_done =>
         /\ InstTask(c) \in tasks
         /\ inst[c].state \in {"INITIALIZING", "REQUEST_PARSING", "RESPONSE_BUILDING"}

(* What is known of the request in each state of its connection: a record  *)
(* that went past a part of the request has received that part, and it was *)
(* well formed; 200 is stored, or stands in the status, for a reason.      *)
Whole(c, r) ==
  /\ req[c].line = "ok"
  /\ req[c].headers # "bad"
  /\ r.read >= 2
  /\ req[c].headers = "ok" /\ req[c].body => r.read = 3

Echoes(c, r) == r.parsed /\ req[c].route = "/echo"

(* The other built-in path: the bare reason phrase is its answer.          *)
Bare(c, r) == Whole(c, r) /\ req[c].method_ok /\ req[c].route = "api/v1/echo"

Earned(c, r) == Whole(c, r) /\ req[c].method_ok /\ req[c].route = "endpoint"

Earns(c, r, endpoint, taken) ==
  /\ r.state \in {"READING_HEADERS", "READING_BODY", "VALIDATING"} =>
       req[c].line = "ok" /\ r.parsed
  /\ r.state = "READING_BODY" => req[c].headers = "ok" /\ r.read >= 2
  /\ r.state = "VALIDATING" => Whole(c, r)
  /\ taken => Whole(c, r) /\ req[c].method_ok
  /\ endpoint => req[c].route = "endpoint"
  /\ r.full_response = 200 => Earned(c, r)
  /\ r.weather_done => r.full_response # 0 \/ Echoes(c, r) \/ Bare(c, r)
  /\ r.state = "RESPONDING" /\ r.status = 200 =>
       r.full_response # 0 \/ Echoes(c, r) \/ Bare(c, r)
  /\ r.reply.status = 200 /\ r.reply.body = "full" => Earned(c, r)
  /\ r.reply.status = 200 /\ r.reply.body = "reason" => Bare(c, r)

ClientEarns(c) == Earns(c, conn[c], inst[c].endpoint, InstTask(c) \in tasks)

-----------------------------------------------------------------------------
(* What a step does to one client c.                                       *)

SameTasks(c) ==
  /\ ConnTask(c) \in tasks' <=> ConnTask(c) \in tasks
  /\ InstTask(c) \in tasks' <=> InstTask(c) \in tasks

Untouched(c) == conn'[c] = conn[c] /\ inst'[c] = inst[c] /\ SameTasks(c)

(* It is accepted, refused, given an object, or given an instance.         *)
LetIn(c) ==
  /\ ServerTasks \cap tasks # {}
  /\ \/ /\ conn[c].state = "ABSENT" /\ conn'[c] = [conn[c] EXCEPT !.state = "ACCEPTED"]
        /\ inst'[c] = inst[c] /\ SameTasks(c)
     \/ /\ conn[c].state = "ACCEPTED" /\ conn'[c] = [conn[c] EXCEPT !.state = "REFUSED"]
        /\ inst'[c] = inst[c] /\ SameTasks(c)
     \/ /\ conn[c].state = "ACCEPTED" /\ conn'[c] = FreshConn
        /\ inst'[c] = inst[c]
        /\ ConnTask(c) \in tasks' /\ (InstTask(c) \in tasks' <=> InstTask(c) \in tasks)
     \/ /\ Alive(c) /\ ~conn[c].callback /\ conn'[c] = [conn[c] EXCEPT !.callback = TRUE]
        /\ inst'[c] = [state |-> "INITIALIZING", endpoint |-> FALSE] /\ SameTasks(c)

(* What the turn of a connection makes of its record r, but for the turns  *)
(* that call on_request or on_dispose.                                     *)
Advances(c, r, q) ==
  /\ {r.state, q.state} \subseteq ConnStates
  /\ q.callback = r.callback /\ q.full_response = r.full_response
  /\ q.read \in r.read .. 3 /\ (r.parsed => q.parsed)
  /\ \/ /\ q.status = r.status /\ q.weather_done = r.weather_done /\ q.reply = r.reply
        /\ \/ q.state \in {r.state, "ERROR", "READING_FIRSTLINE"}
           \/ q.state = "READING_HEADERS" /\ req[c].line = "ok" /\ q.parsed
           \/ /\ r.state = "READING_HEADERS" /\ q.read >= 2
              /\ \/ q.state = "READING_BODY" /\ req[c].headers = "ok"
                 \/ /\ q.state = "VALIDATING" /\ req[c].headers # "bad"
                    /\ ~(req[c].headers = "ok" /\ req[c].body)
           \/ r.state = "READING_BODY" /\ q.state = "VALIDATING" /\ q.read = 3
           \/ r.state = "WEATHER_HANDOVER" /\ q.state = "RESPONDING" /\ r.weather_done
     \/ /\ q.state = "RESPONDING" /\ q.status \in {400, 500}
        /\ q.weather_done = r.weather_done /\ q.reply = r.reply
     \/ /\ r.state = "VALIDATING" /\ q.state = "RESPONDING" /\ req[c].route \in BuiltIn
        /\ req[c].method_ok /\ q.reply = r.reply
     \/ /\ r.state = "RESPONDING" /\ q.state = "DISPOSING"
        /\ q.weather_done = r.weather_done
        /\ q.reply = ReplyOf(r, Echoes(c, r))

(* Its connection has a turn: an ordinary one, the one that starts the     *)
(* instance (whose task may not be created), or the last.                  *)
ConnTurn(c) ==
  /\ ConnTask(c) \in tasks
  /\ \/ Advances(c, conn[c], conn'[c]) /\ inst'[c] = inst[c] /\ SameTasks(c)
     \/ /\ conn[c].state = "VALIDATING" /\ req[c].method_ok /\ conn[c].callback
        /\ conn'[c] = [conn[c] EXCEPT !.status = 200, !.state = "WEATHER_HANDOVER"]
        /\ inst'[c] = [inst[c] EXCEPT !.state = "INITIALIZING"]
        /\ ConnTask(c) \in tasks'
        /\ InstTask(c) \in tasks' \/ ("alloc" \in Faults /\ SameTasks(c))
     \/ /\ conn[c].callback
        /\ conn'[c] = [conn[c] EXCEPT !.state = "FREED"]
        /\ inst'[c] = [inst[c] EXCEPT !.state = "FREED"]
        /\ ConnTask(c) \notin tasks' /\ InstTask(c) \notin tasks'

(* Its instance has a turn.                                                *)
InstTurn(c) ==
  /\ InstTask(c) \in tasks /\ SameTasks(c)
  /\ \/ /\ conn'[c] = conn[c]
        /\ \/ /\ inst[c].state = "INITIALIZING"
              /\ inst'[c] = [inst[c] EXCEPT !.state = "REQUEST_PARSING"]
           \/ /\ inst[c].state = "REQUEST_PARSING"
              /\ inst'[c] = [state |-> "RESPONSE_BUILDING",
                             endpoint |-> req[c].route = "endpoint"]
           \/ /\ inst[c].state \in {"RESPONSE_SENDING", "DISPOSING"}
              /\ inst'[c] = [inst[c] EXCEPT !.state = "DISPOSING"]
     \/ /\ inst[c].state = "RESPONSE_BUILDING"
        /\ inst'[c] = [inst[c] EXCEPT !.state = "RESPONSE_SENDING"]
        /\ \/ \E code \in Codes : /\ conn'[c] = SetResponse(conn[c], code)
                                  /\ inst[c].endpoint \/ code = 404
           \/ "alloc" \in Faults /\ conn'[c] = [conn[c] EXCEPT !.status = 500]

Touch(c) == Untouched(c) \/ LetIn(c) \/ ConnTurn(c) \/ InstTurn(c)
-----------------------------------------------------------------------------
(* Lemmas: every step touches each client in one of these ways.            *)

(* What a call that found n parts leaves of a record.                      *)
LEMMA CountedRecord ==
  ASSUME TypeInv, NEW c \in Conns, NEW n \in 0 .. 3
  PROVE  /\ Counted(c, n) \in ConnRecord
         /\ Counted(c, n).read = n
         /\ Counted(c, n).state = conn[c].state
         /\ Counted(c, n).parsed = conn[c].parsed
         /\ Counted(c, n).status = conn[c].status
         /\ Counted(c, n).full_response = conn[c].full_response
         /\ Counted(c, n).weather_done = conn[c].weather_done
         /\ Counted(c, n).callback = conn[c].callback
         /\ Counted(c, n).reply = conn[c].reply
BY ConnTyped DEF Counted, ConnRecord

(* A turn that only rewrites the connection's own record.                  *)
LEMMA PlainTurn ==
  ASSUME TypeInv, NEW c \in Conns, NEW q,
         Run(ConnTask(c)), ConnBecomes(c, q), Advances(c, conn[c], q)
  PROVE  ConnTurn(c)
<1>1. tasks' = tasks /\ inst' = inst /\ ConnTask(c) \in tasks
  BY ReturnPlain DEF ConnBecomes, Run, TypeInv, TypeOK
<1>2. conn'[c] = q
  BY DEF ConnBecomes, TypeInv, TypeOK
<1>3. QED
  BY <1>1, <1>2 DEF ConnTurn, SameTasks

LEMMA ReadingTurn ==
  ASSUME TypeInv, NEW c \in Conns, ConnReading(c)
  PROVE  ConnTurn(c)
<1>r. conn[c] \in ConnRecord /\ conn[c].read \in 0 .. 3
  BY ConnTyped DEF ConnRecord
<1>s. ReadingStates \cup {"INITIALIZING", "VALIDATING", "RESPONDING", "ERROR"}
        \subseteq ConnStates
  BY DEF ConnStates, ReadingStates
<1>1. CASE ConnInitializing(c)
  <2> DEFINE q == [conn[c] EXCEPT !.state = "READING_FIRSTLINE"]
  <2>1. Advances(c, conn[c], q)
    BY <1>1, <1>r, <1>s DEF Advances, ConnRecord, ConnInitializing, ConnRuns, ReadingStates
  <2>2. QED
    BY <1>1, <2>1, PlainTurn DEF ConnInitializing, ConnRuns
<1>2. CASE ReadRetriesExceeded(c) \/ ReadNoMemory(c)
  <2> DEFINE q == [conn[c] EXCEPT !.state = "ERROR", !.retries = @ + 1]
  <2>1. Advances(c, conn[c], q)
    BY <1>2, <1>r, <1>s DEF Advances, ConnRecord, ReadRetriesExceeded, ReadNoMemory
  <2>2. QED
    BY <1>2, <2>1, PlainTurn DEF ReadRetriesExceeded, ReadNoMemory
<1>3. ASSUME NEW n \in 0 .. 3, Reads(c, n)
      PROVE  n \in conn[c].read .. 3
  BY <1>3, <1>r DEF Reads
<1>4. CASE ConnReadFirstline(c)
  <2>1. PICK n \in 0 .. 3 :
          /\ Reads(c, n)
          /\ \/ ConnBecomes(c, Counted(c, n))
             \/ ConnBecomes(c, [Counted(c, n) EXCEPT !.status = 400, !.state = "RESPONDING"])
             \/ ConnBecomes(c, [Counted(c, n) EXCEPT !.state = "ERROR"])
             \/ /\ req[c].line = "ok"
                /\ ConnBecomes(c, [Counted(c, n) EXCEPT !.parsed = TRUE,
                                                        !.state = "READING_HEADERS"])
    BY ZenonT(60), <1>4 DEF ConnReadFirstline
  <2>2. n \in conn[c].read .. 3
    BY <1>3, <2>1
  <2> DEFINE r == Counted(c, n)
  <2>3. /\ r \in ConnRecord /\ r.read = n /\ r.state = "READING_FIRSTLINE"
        /\ r.parsed = conn[c].parsed /\ r.status = conn[c].status
        /\ r.full_response = conn[c].full_response /\ r.weather_done = conn[c].weather_done
        /\ r.callback = conn[c].callback /\ r.reply = conn[c].reply
        /\ conn[c].state = "READING_FIRSTLINE"
    BY <1>4, CountedRecord DEF ConnReadFirstline, ConnRuns
  <2> HIDE DEF r
  <2>4. Advances(c, conn[c], r)
    BY <1>s, <2>2, <2>3 DEF Advances, ReadingStates
  <2>5. Advances(c, conn[c], [r EXCEPT !.status = 400, !.state = "RESPONDING"])
    BY <1>s, <2>2, <2>3 DEF Advances, ReadingStates, ConnRecord
  <2>6. Advances(c, conn[c], [r EXCEPT !.state = "ERROR"])
    BY <1>s, <2>2, <2>3 DEF Advances, ReadingStates, ConnRecord
  <2>7. req[c].line = "ok" =>
          Advances(c, conn[c], [r EXCEPT !.parsed = TRUE, !.state = "READING_HEADERS"])
    BY <1>s, <2>2, <2>3 DEF Advances, ReadingStates, ConnRecord
  <2>8. Run(ConnTask(c))
    BY <1>4 DEF ConnReadFirstline, ConnRuns
  <2>9. QED
    BY ZenonT(60), <2>1, <2>4, <2>5, <2>6, <2>7, <2>8, PlainTurn DEF r
<1>5. CASE ConnReadHeaders(c)
  <2>1. PICK n \in 0 .. 3 :
          /\ Reads(c, n)
          /\ \/ ConnBecomes(c, Counted(c, n))
             \/ ConnBecomes(c, [Counted(c, n) EXCEPT !.status = 400, !.state = "RESPONDING"])
             \/ /\ n >= 2 /\ req[c].headers = "ok"
                /\ ConnBecomes(c, [[Counted(c, n) EXCEPT !.retries = 0]
                                     EXCEPT !.state = "READING_BODY"])
             \/ /\ n >= 2 /\ (req[c].headers = "none" \/ (req[c].headers = "ok" /\ ~req[c].body))
                /\ ConnBecomes(c, [[Counted(c, n) EXCEPT !.retries = 0]
                                     EXCEPT !.state = "VALIDATING"])
    BY ZenonT(60), <1>5 DEF ConnReadHeaders
  <2>2. n \in conn[c].read .. 3
    BY <1>3, <2>1
  <2> DEFINE r == Counted(c, n)
  <2>3. /\ r \in ConnRecord /\ r.read = n /\ r.state = "READING_HEADERS"
        /\ r.parsed = conn[c].parsed /\ r.status = conn[c].status
        /\ r.full_response = conn[c].full_response /\ r.weather_done = conn[c].weather_done
        /\ r.callback = conn[c].callback /\ r.reply = conn[c].reply
        /\ conn[c].state = "READING_HEADERS"
    BY <1>5, CountedRecord DEF ConnReadHeaders, ConnRuns
  <2> HIDE DEF r
  <2>4. Advances(c, conn[c], r)
    BY <1>s, <2>2, <2>3 DEF Advances, ReadingStates
  <2>5. Advances(c, conn[c], [r EXCEPT !.status = 400, !.state = "RESPONDING"])
    BY <1>s, <2>2, <2>3 DEF Advances, ReadingStates, ConnRecord
  <2>6. n >= 2 /\ req[c].headers = "ok" =>
          Advances(c, conn[c], [[r EXCEPT !.retries = 0] EXCEPT !.state = "READING_BODY"])
    BY <1>s, <2>2, <2>3 DEF Advances, ReadingStates, ConnRecord
  <2>7. n >= 2 /\ (req[c].headers = "none" \/ (req[c].headers = "ok" /\ ~req[c].body)) =>
          Advances(c, conn[c], [[r EXCEPT !.retries = 0] EXCEPT !.state = "VALIDATING"])
    BY <1>s, <2>2, <2>3 DEF Advances, ReadingStates, ConnRecord
  <2>8. Run(ConnTask(c))
    BY <1>5 DEF ConnReadHeaders, ConnRuns
  <2>9. QED
    BY ZenonT(60), <2>1, <2>4, <2>5, <2>6, <2>7, <2>8, PlainTurn DEF r
<1>6. CASE ConnReadBody(c)
  <2>1. PICK n \in 0 .. 3 :
          /\ Reads(c, n)
          /\ \/ ConnBecomes(c, Counted(c, n))
             \/ /\ n >= 3
                /\ ConnBecomes(c, [Counted(c, n) EXCEPT !.retries = 0, !.state = "VALIDATING"])
    BY ZenonT(60), <1>6 DEF ConnReadBody
  <2>2. n \in conn[c].read .. 3
    BY <1>3, <2>1
  <2> DEFINE r == Counted(c, n)
  <2>3. /\ r \in ConnRecord /\ r.read = n /\ r.state = "READING_BODY"
        /\ r.parsed = conn[c].parsed /\ r.status = conn[c].status
        /\ r.full_response = conn[c].full_response /\ r.weather_done = conn[c].weather_done
        /\ r.callback = conn[c].callback /\ r.reply = conn[c].reply
        /\ conn[c].state = "READING_BODY"
    BY <1>6, CountedRecord DEF ConnReadBody, ConnRuns
  <2> HIDE DEF r
  <2>4. Advances(c, conn[c], r)
    BY <1>s, <2>2, <2>3 DEF Advances, ReadingStates
  <2>5. n >= 3 => Advances(c, conn[c], [r EXCEPT !.retries = 0, !.state = "VALIDATING"])
    BY <1>s, <1>r, <2>2, <2>3 DEF Advances, ReadingStates, ConnRecord
  <2>6. Run(ConnTask(c))
    BY <1>6 DEF ConnReadBody, ConnRuns
  <2>7. QED
    BY ZenonT(60), <2>1, <2>4, <2>5, <2>6, PlainTurn DEF r
<1>7. QED
  BY <1>1, <1>2, <1>4, <1>5, <1>6 DEF ConnReading

LEMMA AnsweringTurn ==
  ASSUME TypeInv, NEW c \in Conns, ConnAnswering(c)
  PROVE  ConnTurn(c) \/ (ConnNullCall(c) /\ Untouched(c))
<1>r. /\ conn[c] \in ConnRecord /\ conn[c].read \in conn[c].read .. 3
      /\ conn \in [Conns -> ConnRecord] /\ inst \in [Conns -> InstRecord]
  BY ConnTyped DEF ConnRecord, TypeInv, TypeOK
<1>s. {"VALIDATING", "WEATHER_HANDOVER", "RESPONDING", "ERROR", "DISPOSING"} \subseteq ConnStates
  BY DEF ConnStates
<1>1. CASE ConnRejectMethod(c) \/ ConnError(c)
  <2>1. PICK k \in {400, 500} :
          ConnBecomes(c, [conn[c] EXCEPT !.status = k, !.state = "RESPONDING"])
    BY ZenonT(60), <1>1 DEF ConnRejectMethod, ConnError
  <2>2. conn[c].state \in {"VALIDATING", "ERROR"} /\ Run(ConnTask(c))
    BY <1>1 DEF ConnRejectMethod, ConnError, ConnRuns
  <2>3. Advances(c, conn[c], [conn[c] EXCEPT !.status = k, !.state = "RESPONDING"])
    BY <1>r, <1>s, <2>2 DEF Advances, ConnRecord
  <2>4. QED
    BY <2>1, <2>2, <2>3, PlainTurn
<1>2. CASE ConnAcceptEcho(c)
  <2> DEFINE q == [conn[c] EXCEPT !.status = 200, !.weather_done = TRUE,
                                  !.state = "RESPONDING"]
  <2>1. Advances(c, conn[c], q)
    BY <1>2, <1>r, <1>s DEF Advances, ConnRecord, ConnAcceptEcho, ConnRuns
  <2>2. QED
    BY <1>2, <2>1, PlainTurn DEF ConnAcceptEcho, ConnRuns
<1>3. CASE ConnHandOver(c)
  <2>1. /\ conn'[c] = [conn[c] EXCEPT !.status = 200, !.state = "WEATHER_HANDOVER"]
        /\ inst'[c] = [inst[c] EXCEPT !.state = "INITIALIZING"]
    BY <1>3, <1>r DEF ConnHandOver
  <2>2. /\ conn[c].state = "VALIDATING" /\ req[c].method_ok /\ conn[c].callback
        /\ ConnTask(c) \in tasks
    BY <1>3 DEF ConnHandOver, ConnRuns, Run, TypeInv, TypeOK
  <2>3. \/ Return(ConnTask(c), {InstTask(c)}, {})
        \/ "alloc" \in Faults /\ Return(ConnTask(c), {}, {})
    BY <1>3 DEF ConnHandOver
  <2>4. \/ tasks' = tasks \cup {InstTask(c)}
        \/ "alloc" \in Faults /\ tasks' = tasks
    BY <2>3 DEF Return
  <2>5. QED
    BY <2>1, <2>2, <2>4 DEF ConnTurn, SameTasks
<1>4. CASE ConnWeatherHandover(c)
  <2>1. conn[c].state = "WEATHER_HANDOVER" /\ Run(ConnTask(c))
    BY <1>4 DEF ConnWeatherHandover, ConnRuns
  <2>2. Advances(c, conn[c], conn[c])
    BY <1>r, <1>s, <2>1 DEF Advances
  <2>3. conn[c].weather_done => Advances(c, conn[c], [conn[c] EXCEPT !.state = "RESPONDING"])
    <3> DEFINE q == [conn[c] EXCEPT !.state = "RESPONDING"]
    <3> SUFFICES ASSUME conn[c].weather_done PROVE Advances(c, conn[c], q)
      OBVIOUS
    <3>1. /\ q.state = "RESPONDING" /\ q.callback = conn[c].callback
          /\ q.full_response = conn[c].full_response /\ q.read = conn[c].read
          /\ q.parsed = conn[c].parsed /\ q.status = conn[c].status
          /\ q.weather_done = conn[c].weather_done /\ q.reply = conn[c].reply
      BY <1>r DEF ConnRecord
    <3> HIDE DEF q
    <3>2. /\ {conn[c].state, q.state} \subseteq ConnStates
          /\ q.read \in conn[c].read .. 3 /\ (conn[c].parsed => q.parsed)
      BY <1>r, <1>s, <2>1, <3>1
    <3>3. QED
      BY Zenon, <2>1, <3>1, <3>2 DEF Advances
  <2>4. QED
    BY <1>4, <2>1, <2>2, <2>3, PlainTurn DEF ConnWeatherHandover
<1>5. CASE ConnRespond(c)
  <2> DEFINE p == ReplyOf(conn[c], conn[c].parsed /\ req[c].route = "/echo")
             q == [conn[c] EXCEPT !.reply = p, !.state = "DISPOSING"]
  <2>1. conn[c].state = "RESPONDING" /\ Run(ConnTask(c)) /\ ConnBecomes(c, q)
    BY <1>5 DEF ConnRespond, ConnRuns
  <2>2. p = ReplyOf(conn[c], Echoes(c, conn[c]))
    BY DEF Echoes
  <2> HIDE DEF p
  <2>3. Advances(c, conn[c], q)
    BY <1>r, <1>s, <2>1, <2>2 DEF Advances, ConnRecord
  <2>4. QED
    BY <2>1, <2>3, PlainTurn
<1>6. CASE ConnRespondNoMemory(c)
  <2>1. Advances(c, conn[c], [conn[c] EXCEPT !.state = "ERROR"])
    BY <1>6, <1>r, <1>s DEF Advances, ConnRecord, ConnRespondNoMemory, ConnRuns
  <2>2. QED
    BY <1>6, <2>1, PlainTurn DEF ConnRespondNoMemory, ConnRuns
<1>7. CASE ConnDispose(c)
  <2>1. /\ conn'[c] = [conn[c] EXCEPT !.state = "FREED"]
        /\ inst'[c] = [inst[c] EXCEPT !.state = "FREED"]
    BY <1>7, <1>r DEF ConnDispose
  <2>2. /\ conn[c].callback /\ ConnTask(c) \in tasks
        /\ ConnTask(c) \notin tasks' /\ InstTask(c) \notin tasks'
    BY <1>7 DEF ConnDispose, ConnRuns, Run, Return, TypeInv, TypeOK
  <2>3. QED
    BY <2>1, <2>2 DEF ConnTurn
<1>8. CASE ConnNullCall(c)
  BY <1>8 DEF ConnNullCall, Untouched, SameTasks
<1>9. QED
  BY <1>1, <1>2, <1>3, <1>4, <1>5, <1>6, <1>7, <1>8 DEF ConnAnswering

LEMMA InstanceTurn ==
  ASSUME TypeInv, NEW c \in Conns, InstWork(c)
  PROVE  InstTurn(c)
<1>t. conn \in [Conns -> ConnRecord] /\ inst \in [Conns -> InstRecord]
  BY DEF TypeInv, TypeOK
<1>1. Return(InstTask(c), {}, {}) /\ InstTask(c) \in tasks
  BY DEF InstWork, InstInitializing, InstRequestParsing, InstResponseBuilding,
         InstResponseNoMemory, InstResponseSending, InstDisposing, InstGoes, InstRuns, Run,
         TypeInv, TypeOK
<1>2. SameTasks(c) /\ InstTask(c) \in tasks
  BY <1>1, ReturnPlain DEF SameTasks
<1>3. CASE InstInitializing(c)
  BY <1>2, <1>3, <1>t DEF InstInitializing, InstRuns, InstGoes, InstTurn
<1>4. CASE InstRequestParsing(c)
  BY <1>2, <1>4, <1>t DEF InstRequestParsing, InstRuns, InstTurn
<1>5. CASE InstResponseBuilding(c)
  <2>1. PICK code \in Codes : /\ inst[c].endpoint \/ code = 404
                              /\ conn' = [conn EXCEPT ![c] = SetResponse(@, code)]
    BY ZenonT(60), <1>5, Names DEF InstResponseBuilding
  <2>2. conn'[c] = SetResponse(conn[c], code)
    BY <1>t, <2>1
  <2>3. /\ inst[c].state = "RESPONSE_BUILDING"
        /\ inst'[c] = [inst[c] EXCEPT !.state = "RESPONSE_SENDING"]
    BY <1>5, <1>t DEF InstResponseBuilding, InstRuns, InstGoes
  <2>4. QED
    BY <1>2, <2>1, <2>2, <2>3 DEF InstTurn
<1>6. CASE InstResponseNoMemory(c)
  BY <1>2, <1>6, <1>t DEF InstResponseNoMemory, InstRuns, InstGoes, InstTurn
<1>7. CASE InstResponseSending(c)
  BY <1>2, <1>7, <1>t DEF InstResponseSending, InstRuns, InstGoes, InstTurn
<1>8. CASE InstDisposing(c)
  <2>1. inst[c].state = "DISPOSING" /\ inst' = inst /\ conn' = conn
    BY <1>8 DEF InstDisposing, InstRuns
  <2>2. inst[c] = [inst[c] EXCEPT !.state = "DISPOSING"]
    BY <1>t, <2>1 DEF InstRecord
  <2>3. QED
    BY <1>2, <2>1, <2>2 DEF InstTurn
<1>9. QED
  BY <1>3, <1>4, <1>5, <1>6, <1>7, <1>8 DEF InstWork

(* The turn of a connection or an instance is nothing to the others, and   *)
(* nothing to the servers' tasks.                                          *)
LEMMA OthersUntouched ==
  ASSUME TypeInv, NEW c \in Conns, ConnWork(c) \/ InstWork(c)
  PROVE  /\ \A d \in Conns \ {c} : Untouched(d)
         /\ ServerTasks \cap tasks' = ServerTasks \cap tasks
         /\ process' \in {process, "crashed"} /\ UNCHANGED <<servers, req>>
<1>1. /\ \E born \in SUBSET {InstTask(c)}, dead \in SUBSET {ConnTask(c), InstTask(c)} :
           tasks' = (tasks \cup born) \ dead
      /\ process' \in {process, "crashed"} /\ UNCHANGED <<servers, req>>
  <2>1. CASE InstWork(c)
    <3>1. Return(InstTask(c), {}, {}) /\ UNCHANGED <<process, servers, req>>
      BY <2>1 DEF InstWork, InstInitializing, InstRequestParsing, InstResponseBuilding,
         InstResponseNoMemory, InstResponseSending, InstDisposing, InstGoes
    <3>2. QED
      BY <3>1 DEF Return
  <2>2. CASE \E q : ConnBecomes(c, q)
    BY <2>2 DEF ConnBecomes, Return
  <2>3. CASE ConnHandOver(c)
    BY <2>3 DEF ConnHandOver, Return
  <2>4. CASE ConnDispose(c)
    BY <2>4 DEF ConnDispose, Return
  <2>5. CASE ConnNullCall(c)
    <3>1. tasks' = (tasks \cup {}) \ {}
      BY <2>5 DEF ConnNullCall
    <3>2. QED
      BY <2>5, <3>1 DEF ConnNullCall
  <2>6. ConnReading(c) => \E q : ConnBecomes(c, q)
    <3>1. ConnReadFirstline(c) => \E q : ConnBecomes(c, q)
      BY ZenonT(60) DEF ConnReadFirstline
    <3>2. ConnReadHeaders(c) => \E q : ConnBecomes(c, q)
      BY ZenonT(60) DEF ConnReadHeaders
    <3>3. ConnReadBody(c) => \E q : ConnBecomes(c, q)
      BY ZenonT(60) DEF ConnReadBody
    <3>4. ConnInitializing(c) \/ ReadRetriesExceeded(c) \/ ReadNoMemory(c)
            => \E q : ConnBecomes(c, q)
      BY ZenonT(60) DEF ConnInitializing, ReadRetriesExceeded, ReadNoMemory
    <3>5. QED
      BY <3>1, <3>2, <3>3, <3>4 DEF ConnReading
  <2>7. ConnAnswering(c) => \/ \E q : ConnBecomes(c, q)
                            \/ ConnHandOver(c) \/ ConnDispose(c) \/ ConnNullCall(c)
    BY ZenonT(60) DEF ConnAnswering, ConnRejectMethod, ConnAcceptEcho, ConnWeatherHandover,
       ConnRespond, ConnRespondNoMemory, ConnError
  <2>8. QED
    BY ZenonT(60), <2>1, <2>2, <2>3, <2>4, <2>5, <2>6, <2>7 DEF ConnWork
<1>2. /\ \A d \in Conns \ {c} : conn'[d] = conn[d] /\ inst'[d] = inst[d]
  <2>1. conn \in [Conns -> ConnRecord] /\ inst \in [Conns -> InstRecord]
    BY DEF TypeInv, TypeOK
  <2>2. CASE InstWork(c)
    BY <2>1, <2>2 DEF InstWork, InstInitializing, InstRequestParsing, InstResponseBuilding,
       InstResponseNoMemory, InstResponseSending, InstDisposing, InstGoes
  <2>3. CASE ConnWork(c)
    <3>1. \A d \in Conns \ {c} : conn'[d] = conn[d]
      BY <2>3, ConnSees
    <3>2. \A d \in Conns \ {c} : inst'[d] = inst[d]
      BY <2>1, <2>3 DEF ConnWork, ConnReading, ConnAnswering, ConnInitializing,
         ReadRetriesExceeded, ReadNoMemory, ConnReadFirstline, ConnReadHeaders, ConnReadBody,
         ConnRejectMethod, ConnAcceptEcho, ConnHandOver, ConnWeatherHandover, ConnRespond,
         ConnRespondNoMemory, ConnError, ConnDispose, ConnNullCall, ConnBecomes
    <3>3. QED
      BY <3>1, <3>2
  <2>4. QED
    BY <2>2, <2>3
<1>3. \A d \in Conns \ {c} :
        {ConnTask(d), InstTask(d)} \cap {ConnTask(c), InstTask(c)} = {}
  BY DEF ConnTask, InstTask
<1>4. QED
  BY <1>1, <1>2, <1>3, TasksDiffer DEF Untouched, SameTasks

(* The turn of a server, SIGINT and the end of main() let clients in or    *)
(* leave them alone.                                                       *)
LEMMA ServersLetIn ==
  ASSUME TypeInv, ServiceInv, OptiSlot,
         TcpWork \/ HttpWork \/ OptiWork \/ Sigint \/ MainReturns
  PROVE  /\ \A d \in Conns : Untouched(d) \/ LetIn(d)
         /\ \A d \in Conns : Alive(d) /\ ~OptiHandOver => conn'[d] = conn[d]
<1>t. /\ conn \in [Conns -> ConnRecord] /\ inst \in [Conns -> InstRecord]
      /\ pending \subseteq tasks
  BY DEF TypeInv, TypeOK
<1>1. ASSUME UNCHANGED <<conn, inst>>, tasks' \ ServerTasks = tasks \ ServerTasks
      PROVE  \A d \in Conns : Untouched(d) /\ conn'[d] = conn[d]
  BY <1>1, TasksDiffer DEF Untouched, SameTasks
<1>2. CASE TcpWork
  <2>1. tasks' = tasks /\ inst' = inst /\ TcpTask \in tasks
    BY <1>2, <1>t, ReturnPlain DEF TcpWork, TcpAccept, TcpWouldBlock, TcpAcceptFails, TcpHandOver,
       TcpConnected, TcpIdle, TcpReturns, TcpRuns, Run
  <2>2. \A d \in Conns : \/ conn'[d] = conn[d]
                         \/ /\ conn[d].state = "ABSENT"
                            /\ conn'[d] = [conn[d] EXCEPT !.state = "ACCEPTED"]
    <3>1. CASE TcpAccept
      <4>1. PICK c \in Conns : /\ conn[c].state = "ABSENT"
                               /\ conn' = [conn EXCEPT ![c].state = "ACCEPTED"]
        BY <3>1 DEF TcpAccept
      <4>2. QED
        BY <1>t, <4>1
    <3>2. CASE UNCHANGED conn
      BY <3>2
    <3>3. QED
      BY <1>2, <3>1, <3>2 DEF TcpWork, TcpWouldBlock, TcpAcceptFails, TcpHandOver, TcpConnected,
         TcpIdle
  <2>3. ServerTasks \cap tasks # {}
    BY <2>1, TasksDiffer
  <2>4. \A d \in Conns : Untouched(d) \/ LetIn(d)
    BY <2>1, <2>2, <2>3 DEF Untouched, LetIn, SameTasks
  <2>5. \A d \in Conns : Alive(d) => conn'[d] = conn[d]
    BY <2>2 DEF Alive, ConnStates, ReadingStates
  <2>6. QED
    BY <2>4, <2>5
<1>3. CASE HttpHandOver
  <2> DEFINE c == http.client_fd
  <2>1. c \in Conns /\ conn[c].state = "ACCEPTED" /\ HttpTask \in tasks
    BY <1>3, <1>t DEF HttpHandOver, HttpRuns, Run, ServiceInv, DescriptorSlots
  <2>2. /\ conn' = [conn EXCEPT ![c] = FreshConn] /\ inst' = inst
        /\ tasks' = tasks \cup {ConnTask(c)}
    BY <1>3 DEF HttpHandOver, Return
  <2> HIDE DEF c
  <2>3. ServerTasks \cap tasks # {}
    BY <2>1, TasksDiffer
  <2>4. LetIn(c)
    BY <1>t, <2>1, <2>2, <2>3, TasksDiffer DEF LetIn
  <2>5. \A d \in Conns \ {c} : Untouched(d) /\ conn'[d] = conn[d]
    BY <1>t, <2>1, <2>2, TasksDiffer DEF Untouched, SameTasks
  <2>6. ~Alive(c)
    BY <2>1 DEF Alive, ConnStates, ReadingStates
  <2>7. QED
    BY <2>4, <2>5, <2>6
<1>4. CASE HttpRefuse
  <2> DEFINE c == http.client_fd
  <2>1. c \in Conns /\ conn[c].state = "ACCEPTED" /\ HttpTask \in tasks
    BY <1>4, <1>t DEF HttpRefuse, HttpRuns, Run, ServiceInv, DescriptorSlots
  <2>2. conn' = [conn EXCEPT ![c].state = "REFUSED"] /\ inst' = inst /\ tasks' = tasks
    BY <1>4, ReturnPlain DEF HttpRefuse
  <2> HIDE DEF c
  <2>3. ServerTasks \cap tasks # {}
    BY <2>1, TasksDiffer
  <2>4. LetIn(c)
    BY <1>t, <2>1, <2>2, <2>3 DEF LetIn, SameTasks
  <2>5. \A d \in Conns \ {c} : Untouched(d) /\ conn'[d] = conn[d]
    BY <1>t, <2>1, <2>2 DEF Untouched, SameTasks
  <2>6. ~Alive(c)
    BY <2>1 DEF Alive, ConnStates, ReadingStates
  <2>7. QED
    BY <2>4, <2>5, <2>6
<1>5. CASE OptiHandOver
  <2> DEFINE c == opti.http_connection
  <2>1. OptiTask \in tasks /\ opti.state = "CONNECTING"
    BY <1>5, <1>t DEF OptiHandOver, OptiRuns, Run
  <2>2. c \in Conns /\ Alive(c) /\ ~conn[c].callback
    BY <2>1 DEF OptiSlot
  <2>3. /\ conn' = [conn EXCEPT ![c].callback = TRUE]
        /\ inst' = [inst EXCEPT ![c] = [state |-> "INITIALIZING", endpoint |-> FALSE]]
        /\ tasks' = tasks
    BY <1>5, ReturnPlain DEF OptiHandOver, OsiInit, OptiReturns
  <2> HIDE DEF c
  <2>4. ServerTasks \cap tasks # {}
    BY <2>1, TasksDiffer
  <2>5. LetIn(c)
    BY <1>t, <2>2, <2>3, <2>4 DEF LetIn, SameTasks
  <2>6. \A d \in Conns \ {c} : Untouched(d)
    BY <1>t, <2>2, <2>3 DEF Untouched, SameTasks
  <2>7. QED
    BY <1>5, <2>5, <2>6
<1>6. CASE HttpIdle \/ HttpConnected \/ HttpRetryWaits \/ HttpRetrySucceeds \/ HttpRetryFails
             \/ HttpDisposing
  <2>1. UNCHANGED <<conn, inst>> /\ \/ Return(HttpTask, {}, {})
                                    \/ Return(HttpTask, {TcpTask}, {})
                                    \/ Return(HttpTask, {}, {HttpTask, TcpTask})
    BY <1>6 DEF HttpIdle, HttpConnected, HttpRetryWaits, HttpRetrySucceeds, HttpRetryFails,
       HttpDisposing
  <2>2. tasks' \ ServerTasks = tasks \ ServerTasks
    BY <2>1, TasksDiffer DEF Return
  <2>3. QED
    BY <1>1, <2>1, <2>2
<1>7. CASE OptiIdle \/ OptiHandOverFails \/ OptiConnected \/ OptiError \/ OptiDisposing
  <2>1. UNCHANGED <<conn, inst>> /\ \/ Return(OptiTask, {}, {})
                                    \/ Return(OptiTask, {}, ServerTasks)
    BY <1>7 DEF OptiIdle, OptiHandOverFails, OptiConnected, OptiError, OptiDisposing, OptiReturns
  <2>2. tasks' \ ServerTasks = tasks \ ServerTasks
    BY <2>1 DEF Return
  <2>3. QED
    BY <1>1, <2>1, <2>2
<1>8. CASE Sigint \/ MainReturns
  BY <1>1, <1>8 DEF Sigint, MainReturns
<1>9. QED
  BY <1>2, <1>3, <1>4, <1>5, <1>6, <1>7, <1>8 DEF HttpWork, OptiWork

(* So every step touches every client in one of the four ways.             *)
LEMMA EachTouched ==
  ASSUME TypeInv, ServiceInv, OptiSlot, [Next]_vars
  PROVE  \A d \in Conns : Touch(d)
<1>1. CASE \E c \in Conns : ConnWork(c) \/ InstWork(c)
  <2>1. PICK c \in Conns : ConnWork(c) \/ InstWork(c)
    BY <1>1
  <2>2. Touch(c)
    BY <2>1, ReadingTurn, AnsweringTurn, InstanceTurn DEF ConnWork, Touch
  <2>3. QED
    BY <2>1, <2>2, OthersUntouched DEF Touch
<1>2. CASE TcpWork \/ HttpWork \/ OptiWork \/ Sigint \/ MainReturns
  BY <1>2, ServersLetIn DEF Touch
<1>3. CASE NewRound \/ Ended \/ UNCHANGED vars
  BY <1>3 DEF NewRound, Ended, vars, Touch, Untouched, SameTasks
<1>4. QED
  BY <1>1, <1>2, <1>3 DEF Next, Work

-----------------------------------------------------------------------------
(* Lifetimes is inductive.                                                 *)

(* What an instance writes into a connection's record.                     *)
LEMMA InstWrites ==
  ASSUME NEW r \in ConnRecord, NEW code \in Codes
  PROVE  /\ SetResponse(r, code).status = code
         /\ SetResponse(r, code).full_response = code
         /\ SetResponse(r, code).weather_done
         /\ SetResponse(r, code).state = r.state
         /\ SetResponse(r, code).callback = r.callback
         /\ SetResponse(r, code).read = r.read
         /\ SetResponse(r, code).parsed = r.parsed
         /\ SetResponse(r, code).reply = r.reply
         /\ [r EXCEPT !.status = 500].status = 500
         /\ [r EXCEPT !.status = 500].full_response = r.full_response
         /\ [r EXCEPT !.status = 500].weather_done = r.weather_done
         /\ [r EXCEPT !.status = 500].state = r.state
         /\ [r EXCEPT !.status = 500].callback = r.callback
         /\ [r EXCEPT !.status = 500].read = r.read
         /\ [r EXCEPT !.status = 500].parsed = r.parsed
         /\ [r EXCEPT !.status = 500].reply = r.reply
BY DEF SetResponse, ConnRecord

LEMMA LifetimeTouched ==
  ASSUME TypeInv, NEW c \in Conns, ClientLifetime(c), Touch(c)
  PROVE  ClientLifetime(c)'
<1>t. conn[c] \in ConnRecord /\ inst[c] \in InstRecord
  BY DEF TypeInv, TypeOK
<1>n. /\ {"FREED", "ACCEPTED", "ABSENT", "REFUSED"} \cap ConnStates = {}
      /\ {"INITIALIZING", "WEATHER_HANDOVER", "VALIDATING"} \subseteq ConnStates
      /\ InstStates = {"INITIALIZING", "REQUEST_PARSING", "RESPONSE_BUILDING",
                       "RESPONSE_SENDING", "DISPOSING"}
      /\ "FREED" \notin InstStates
  BY DEF ConnStates, ReadingStates, InstStates
<1>1. CASE Untouched(c)
  BY <1>1 DEF Untouched, SameTasks, ClientLifetime, Alive, InstAlive
<1>2. CASE LetIn(c)
  <2>1. CASE /\ conn[c].state \in {"ABSENT", "ACCEPTED"} /\ inst'[c] = inst[c] /\ SameTasks(c)
             /\ conn'[c].state \in {"ACCEPTED", "REFUSED"}
    BY <1>n, <2>1 DEF SameTasks, ClientLifetime, Alive, InstAlive
  <2>2. CASE /\ conn[c].state = "ACCEPTED" /\ conn'[c] = FreshConn /\ inst'[c] = inst[c]
             /\ ConnTask(c) \in tasks' /\ (InstTask(c) \in tasks' <=> InstTask(c) \in tasks)
    BY <1>n, <2>2 DEF ClientLifetime, Alive, InstAlive, FreshConn
  <2>3. CASE /\ Alive(c) /\ conn'[c] = [conn[c] EXCEPT !.callback = TRUE] /\ SameTasks(c)
             /\ inst'[c] = [state |-> "INITIALIZING", endpoint |-> FALSE]
    <3>1. conn'[c].state = conn[c].state /\ conn'[c].callback
      BY <1>t, <2>3 DEF ConnRecord
    <3>2. QED
      BY <1>n, <2>3, <3>1 DEF SameTasks, ClientLifetime, Alive, InstAlive
  <2>4. \A s : [conn[c] EXCEPT !.state = s].state = s
    BY <1>t DEF ConnRecord
  <2>5. QED
    BY <1>2, <2>1, <2>2, <2>3, <2>4 DEF LetIn
<1>3. CASE ConnTurn(c)
  <2>0. Alive(c)
    BY <1>3 DEF ConnTurn, ClientLifetime
  <2>1. CASE Advances(c, conn[c], conn'[c]) /\ inst'[c] = inst[c] /\ SameTasks(c)
    BY <2>0, <2>1 DEF Advances, SameTasks, ClientLifetime, Alive, InstAlive
  <2>2. CASE /\ conn[c].callback
             /\ conn'[c] = [conn[c] EXCEPT !.status = 200, !.state = "WEATHER_HANDOVER"]
             /\ inst'[c] = [inst[c] EXCEPT !.state = "INITIALIZING"]
             /\ ConnTask(c) \in tasks'
    <3>1. /\ conn'[c].state = "WEATHER_HANDOVER" /\ conn'[c].callback
          /\ inst'[c].state = "INITIALIZING"
      BY <1>t, <2>2 DEF ConnRecord, InstRecord
    <3>2. QED
      BY <1>n, <2>2, <3>1 DEF ClientLifetime, Alive, InstAlive
  <2>3. CASE /\ conn'[c] = [conn[c] EXCEPT !.state = "FREED"]
             /\ inst'[c] = [inst[c] EXCEPT !.state = "FREED"]
             /\ ConnTask(c) \notin tasks' /\ InstTask(c) \notin tasks'
    <3>1. conn'[c].state = "FREED" /\ inst'[c].state = "FREED"
      BY <1>t, <2>3 DEF ConnRecord, InstRecord
    <3>2. QED
      BY <1>n, <2>3, <3>1 DEF ClientLifetime, Alive, InstAlive
  <2>4. QED
    BY <1>3, <2>1, <2>2, <2>3 DEF ConnTurn
<1>4. CASE InstTurn(c)
  <2>1. conn'[c].state = conn[c].state /\ conn'[c].callback = conn[c].callback
    <3>1. CASE conn'[c] = conn[c]
      BY <3>1
    <3>2. ASSUME NEW code \in Codes, conn'[c] = SetResponse(conn[c], code)
          PROVE  conn'[c].state = conn[c].state /\ conn'[c].callback = conn[c].callback
      BY <1>t, <3>2, InstWrites
    <3>3. CASE conn'[c] = [conn[c] EXCEPT !.status = 500]
      BY <1>t, <3>3, InstWrites, Names
    <3>4. QED
      BY <1>4, <3>1, <3>2, <3>3 DEF InstTurn
  <2>2. inst'[c].state \in InstStates
    BY <1>4, <1>t, <1>n DEF InstTurn, InstRecord
  <2>3. InstAlive(c) /\ SameTasks(c)
    BY <1>4 DEF InstTurn, ClientLifetime
  <2>4. QED
    BY <2>1, <2>2, <2>3 DEF SameTasks, ClientLifetime, Alive, InstAlive
<1>5. QED
  BY <1>1, <1>2, <1>3, <1>4 DEF Touch

(* Only the HTTP server fills the slot the Opti server empties, and the    *)
(* connection in it can neither leave its state for good nor get callbacks *)
(* before the Opti server takes it.                                        *)
LEMMA OptiSlotStep ==
  ASSUME TypeInv, ServiceInv, Lifetimes, [Next]_vars
  PROVE  OptiSlot'
<1> DEFINE c == opti.http_connection
<1>t. /\ conn \in [Conns -> ConnRecord] /\ pending \subseteq tasks
      /\ opti \in [state : OptiStates, http_connection : Conns \cup {NoConn}]
  BY DEF TypeInv, TypeOK
<1>1. ASSUME opti' = opti, OptiTask \in tasks' => OptiTask \in tasks,
             c \in Conns /\ Alive(c) /\ ~conn[c].callback =>
               Alive(c)' /\ ~conn'[c].callback
      PROVE  OptiSlot'
  BY <1>1 DEF Lifetimes, OptiSlot, Alive
<1>2. CASE \E d \in Conns : ConnWork(d) \/ InstWork(d)
  <2>1. PICK d \in Conns : ConnWork(d) \/ InstWork(d)
    BY <1>2
  <2>2. /\ \A e \in Conns \ {d} : conn'[e] = conn[e]
        /\ ServerTasks \cap tasks' = ServerTasks \cap tasks /\ opti' = opti
    BY <2>1, OthersUntouched DEF Untouched, servers
  <2>3. Untouched(d) \/ ConnTurn(d) \/ InstTurn(d)
    BY <2>1, ReadingTurn, AnsweringTurn, InstanceTurn DEF ConnWork
  <2>4. ASSUME Alive(d), ~conn[d].callback
        PROVE  Alive(d)' /\ ~conn'[d].callback
    <3>1. CASE Untouched(d)
      BY <2>4, <3>1 DEF Untouched, Alive
    <3>2. CASE ConnTurn(d)
      BY <2>4, <3>2 DEF ConnTurn, Advances, Alive
    <3>3. CASE InstTurn(d)
      BY <2>4, <3>3 DEF InstTurn, Lifetimes, ClientLifetime
    <3>4. QED
      BY <2>3, <3>1, <3>2, <3>3
  <2>5. OptiTask \in tasks' => OptiTask \in tasks
    BY <2>2, TasksDiffer
  <2>6. QED
    BY <1>1, <2>2, <2>4, <2>5 DEF Alive
<1>3. CASE HttpHandOver
  <2> DEFINE d == http.client_fd
  <2>1. d \in Conns
    BY <1>3 DEF HttpHandOver, HttpRuns, ServiceInv, DescriptorSlots
  <2>2. conn' = [conn EXCEPT ![d] = FreshConn] /\ opti'.http_connection = d
    BY <1>3 DEF HttpHandOver, OnHttpConnection
  <2>3. conn'[d].state \in ConnStates /\ ~conn'[d].callback
    BY <1>t, <2>1, <2>2 DEF FreshConn, ConnStates
  <2>4. QED
    BY <2>1, <2>2, <2>3 DEF OptiSlot, Alive
<1>4. CASE opti'.state # "CONNECTING"
  BY <1>4 DEF OptiSlot
<1>5. CASE OptiWork
  <2>1. \/ opti'.state # "CONNECTING"
        \/ UNCHANGED <<opti, conn>> /\ OptiTask \notin tasks'
    <3>1. CASE OptiDisposing
      BY <3>1, TasksDiffer DEF OptiDisposing, Return
    <3>2. CASE OptiIdle
      BY <3>2 DEF OptiIdle, OptiRuns
    <3>3. QED
      BY <1>5, <1>t, <3>1, <3>2 DEF OptiWork, OptiHandOver, OptiHandOverFails, OptiConnected,
         OptiError
  <2>2. QED
    BY <1>4, <2>1 DEF OptiSlot
<1>6. CASE TcpWork \/ HttpWork \/ Sigint \/ MainReturns
  <2>1. CASE ~HttpHandOver
    <3>1. opti' = opti
      BY <1>6, <2>1 DEF TcpWork, HttpWork, Sigint, MainReturns, TcpAccept, TcpWouldBlock,
         TcpAcceptFails, TcpHandOver, TcpConnected, TcpIdle, TcpReturns, HttpIdle, HttpRefuse,
         HttpConnected, HttpRetryWaits, HttpRetrySucceeds, HttpRetryFails, HttpDisposing, servers
    <3>2. OptiTask \in tasks' => OptiTask \in tasks
      <4>1. CASE Sigint \/ MainReturns
        BY <4>1 DEF Sigint, MainReturns
      <4>2. CASE TcpWork
        BY <4>2, ReturnPlain DEF TcpWork, TcpAccept, TcpWouldBlock, TcpAcceptFails, TcpHandOver,
           TcpConnected, TcpIdle, TcpReturns
      <4>3. CASE HttpWork
        <5>1. \/ Return(HttpTask, {}, {}) \/ Return(HttpTask, {TcpTask}, {})
              \/ Return(HttpTask, {}, {HttpTask, TcpTask})
          BY <2>1, <4>3 DEF HttpWork, HttpIdle, HttpRefuse, HttpConnected, HttpRetryWaits,
             HttpRetrySucceeds, HttpRetryFails, HttpDisposing
        <5>2. QED
          BY <5>1, TasksDiffer DEF Return
      <4>4. QED
        BY <1>6, <4>1, <4>2, <4>3
    <3>3. CASE opti.state = "CONNECTING" /\ OptiTask \in tasks
      <4>1. c \in Conns /\ Alive(c) /\ ~OptiHandOver
        <5>1. OptiHandOver => opti'.state # "CONNECTING"
          BY DEF OptiHandOver
        <5>2. QED
          BY <3>1, <3>3, <5>1 DEF Lifetimes, OptiSlot
      <4>2. conn'[c] = conn[c]
        BY <1>6, <4>1, ServersLetIn DEF Lifetimes
      <4>3. QED
        BY <1>1, <3>1, <3>2, <4>2 DEF Alive
    <3>4. CASE ~(opti.state = "CONNECTING" /\ OptiTask \in tasks)
      BY <3>1, <3>2, <3>4 DEF OptiSlot
    <3>5. QED
      BY <3>3, <3>4
  <2>2. QED
    BY <1>3, <2>1
<1>7. CASE NewRound \/ Ended \/ UNCHANGED vars
  BY <1>1, <1>7 DEF NewRound, Ended, vars, servers, Alive
<1>8. QED
  BY <1>2, <1>3, <1>5, <1>6, <1>7 DEF Next, Work

LEMMA StoppedStep ==
  ASSUME TypeInv, StoppedServers, [Next]_vars
  PROVE  StoppedServers'
<1>t. pending \subseteq tasks
  BY DEF TypeInv, TypeOK
<1>1. CASE \E c \in Conns : ConnWork(c) \/ InstWork(c)
  <2>1. ServerTasks \cap tasks' = ServerTasks \cap tasks /\ process' \in {process, "crashed"}
    BY <1>1, OthersUntouched
  <2>2. QED
    BY <2>1 DEF StoppedServers
<1>2. CASE TcpWork \/ HttpWork \/ OptiWork
  <2>1. process' = process /\ \E t \in ServerTasks : Run(t)
    BY <1>2, TasksDiffer DEF TcpWork, TcpAccept, TcpWouldBlock, TcpAcceptFails, TcpHandOver,
       TcpConnected, TcpIdle, TcpRuns, TcpReturns, HttpWork, HttpIdle, HttpHandOver, HttpRefuse,
       HttpConnected, HttpRetryWaits, HttpRetrySucceeds, HttpRetryFails, HttpDisposing, HttpRuns,
       OptiWork, OptiIdle, OptiHandOver, OptiHandOverFails, OptiConnected, OptiError,
       OptiDisposing, OptiRuns, OptiReturns
  <2>2. QED
    BY <1>t, <2>1 DEF StoppedServers, Run
<1>3. CASE Sigint
  BY <1>3 DEF Sigint, StoppedServers
<1>4. CASE MainReturns \/ NewRound
  BY <1>4 DEF MainReturns, NewRound, StoppedServers
<1>5. CASE Ended \/ UNCHANGED vars
  BY <1>5 DEF Ended, vars, StoppedServers
<1>6. QED
  BY <1>1, <1>2, <1>3, <1>4, <1>5 DEF Next, Work

LEMMA LifetimesStart == Init => Lifetimes
<1> SUFFICES ASSUME Init PROVE Lifetimes
  OBVIOUS
<1>1. tasks \subseteq ServerTasks
  BY TasksDiffer DEF Init, InitStarted, InitTcpFailed, InitStoreFailed
<1>2. \A c \in Conns : conn[c].state = "ABSENT" /\ inst[c].state = "NONE"
  BY DEF Init, InitInst, FreshConn
<1>3. \A c \in Conns : ~Alive(c) /\ ~InstAlive(c)
  BY <1>2 DEF Alive, InstAlive, ConnStates, ReadingStates, InstStates
<1>4. \A c \in Conns : ClientLifetime(c)
  BY <1>1, <1>3, TasksDiffer DEF ClientLifetime
<1>5. OptiSlot /\ StoppedServers
  BY DEF Init, InitStarted, InitTcpFailed, InitStoreFailed, OptiSlot, StoppedServers
<1>6. QED
  BY <1>4, <1>5 DEF Lifetimes

LEMMA LifetimesStep ==
  ASSUME TypeInv, ServiceInv, Lifetimes, [Next]_vars
  PROVE  Lifetimes'
<1>1. \A c \in Conns : Touch(c)
  BY EachTouched DEF Lifetimes
<1>2. \A c \in Conns : ClientLifetime(c)'
  BY <1>1, LifetimeTouched DEF Lifetimes
<1>3. OptiSlot' /\ StoppedServers'
  BY OptiSlotStep, StoppedStep DEF Lifetimes
<1>4. QED
  BY <1>2, <1>3 DEF Lifetimes

LEMMA ServingInvariant == Spec => [](TypeInv /\ ServiceInv /\ Lifetimes)
<1>1. Init => TypeInv /\ ServiceInv /\ Lifetimes
  BY InitType, ServiceStarts, LifetimesStart
<1>2. TypeInv /\ ServiceInv /\ Lifetimes /\ [Next]_vars => (TypeInv /\ ServiceInv /\ Lifetimes)'
  BY TypeStep, ServiceStep, LifetimesStep
<1>3. QED
  BY <1>1, <1>2, PTL DEF Spec

(* Whatever fails and however the tasks interleave, the scheduler runs the *)
(* task of a connection exactly while the connection lives, and the task   *)
(* of an instance only while both it and its connection do.                *)
THEOREM TasksHaveObjects == Spec => []TasksOwnLiveObjects
<1>1. Lifetimes => TasksOwnLiveObjects
  BY DEF Lifetimes, ClientLifetime, TasksOwnLiveObjects
<1>2. QED
  BY <1>1, ServingInvariant, PTL

(* Once interrupted, the server accepts nobody, makes no object for an     *)
(* accepted client and gives no connection its instance, whatever was in   *)
(* the three slots when the signal came.                                   *)
THEOREM NobodyTakenAfterStop == Spec => StopsTaking
<1>1. ASSUME TypeInv, ServiceInv, Lifetimes, [Next]_vars, process = "stopping",
             NEW c \in Conns
      PROVE  /\ conn[c].state \in {"ABSENT", "ACCEPTED"} => conn'[c] = conn[c]
             /\ ~InstAlive(c) => inst'[c] = inst[c]
  <2>1. Touch(c) /\ ClientLifetime(c) /\ ServerTasks \cap tasks = {}
    BY <1>1, EachTouched DEF Lifetimes, StoppedServers
  <2>2. Alive(c) => conn[c].state \notin {"ABSENT", "ACCEPTED"}
    BY DEF Alive, ConnStates, ReadingStates
  <2>3. CASE ConnTurn(c)
    BY <2>1, <2>2, <2>3 DEF ConnTurn, ClientLifetime
  <2>4. CASE InstTurn(c)
    BY <2>1, <2>2, <2>4 DEF InstTurn, ClientLifetime
  <2>5. QED
    BY <2>1, <2>3, <2>4 DEF Touch, Untouched, LetIn
<1>2. TypeInv /\ ServiceInv /\ Lifetimes /\ [Next]_vars =>
        [process = "stopping" =>
           \A c \in Conns :
             /\ conn[c].state \in {"ABSENT", "ACCEPTED"} => conn'[c] = conn[c]
             /\ ~InstAlive(c) => inst'[c] = inst[c]]_vars
  BY <1>1
<1>3. QED
  BY <1>2, ServingInvariant, PTL DEF Spec, StopsTaking

-----------------------------------------------------------------------------
(* A connection that waits has a worker, as long as memory lasts.          *)

LEMMA WaitsTouched ==
  ASSUME "alloc" \notin Faults, TypeInv, NEW c \in Conns,
         ClientLifetime(c), ClientWaits(c), Touch(c)
  PROVE  ClientWaits(c)'
<1>t. conn[c] \in ConnRecord /\ inst[c] \in InstRecord
  BY DEF TypeInv, TypeOK
<1>1. CASE Untouched(c)
  BY <1>1 DEF Untouched, SameTasks, ClientWaits
<1>2. CASE LetIn(c)
  <2>1. /\ [conn[c] EXCEPT !.state = "ACCEPTED"].state = "ACCEPTED"
        /\ [conn[c] EXCEPT !.state = "REFUSED"].state = "REFUSED"
    BY <1>t DEF ConnRecord
  <2>2. [conn[c] EXCEPT !.callback = TRUE].state = conn[c].state
    BY <1>t DEF ConnRecord
  <2>w. conn[c].state = "WEATHER_HANDOVER" => conn[c].callback
    BY DEF ClientWaits
  <2>f. FreshConn.state = "INITIALIZING"
    BY DEF FreshConn
  <2>3. conn'[c].state # "WEATHER_HANDOVER"
    BY ZenonT(60), <1>2, <2>1, <2>2, <2>w, <2>f DEF LetIn
  <2>4. QED
    BY <2>3 DEF ClientWaits
<1>3. CASE ConnTurn(c)
  <2>1. CASE Advances(c, conn[c], conn'[c]) /\ inst'[c] = inst[c] /\ SameTasks(c)
    <3>1. conn'[c].state = "WEATHER_HANDOVER" =>
            /\ conn[c].state = "WEATHER_HANDOVER"
            /\ conn'[c].callback = conn[c].callback
            /\ conn'[c].weather_done = conn[c].weather_done
      BY <2>1 DEF Advances
    <3>2. QED
      BY <2>1, <3>1 DEF SameTasks, ClientWaits
  <2>2. CASE /\ conn[c].callback
             /\ conn'[c] = [conn[c] EXCEPT !.status = 200, !.state = "WEATHER_HANDOVER"]
             /\ inst'[c] = [inst[c] EXCEPT !.state = "INITIALIZING"]
             /\ InstTask(c) \in tasks'
    BY <1>t, <2>2 DEF ConnRecord, InstRecord, ClientWaits
  <2>3. CASE conn'[c] = [conn[c] EXCEPT !.state = "FREED"]
    BY <1>t, <2>3 DEF ConnRecord, ClientWaits
  <2>4. QED
    BY <1>3, <2>1, <2>2, <2>3 DEF ConnTurn
<1>4. CASE InstTurn(c)
  <2>1. CASE conn'[c] = conn[c] /\ inst[c].state \in {"RESPONSE_SENDING", "DISPOSING"}
    BY <2>1 DEF ClientWaits
  <2>2. CASE /\ conn'[c] = conn[c] /\ InstTask(c) \in tasks'
             /\ inst'[c].state \in {"REQUEST_PARSING", "RESPONSE_BUILDING"}
    BY <2>2 DEF ClientWaits
  <2>3. ASSUME NEW code \in Codes, conn'[c] = SetResponse(conn[c], code)
        PROVE  ClientWaits(c)'
    <3>1. /\ conn'[c].weather_done /\ conn'[c].state = conn[c].state
          /\ conn'[c].callback = conn[c].callback
      BY <1>t, <2>3, InstWrites
    <3>2. QED
      BY <3>1 DEF ClientWaits
  <2>4. /\ [inst[c] EXCEPT !.state = "REQUEST_PARSING"].state = "REQUEST_PARSING"
        /\ InstTask(c) \in tasks'
    BY <1>4, <1>t DEF InstRecord, InstTurn, SameTasks
  <2>5. \/ /\ conn'[c] = conn[c]
           /\ \/ inst'[c] = [inst[c] EXCEPT !.state = "REQUEST_PARSING"]
              \/ inst'[c] = [state |-> "RESPONSE_BUILDING",
                             endpoint |-> req[c].route = "endpoint"]
              \/ inst[c].state \in {"RESPONSE_SENDING", "DISPOSING"}
        \/ \E code \in Codes : conn'[c] = SetResponse(conn[c], code)
    BY ZenonT(60), <1>4 DEF InstTurn
  <2>6. inst'[c] = [state |-> "RESPONSE_BUILDING", endpoint |-> req[c].route = "endpoint"]
          => inst'[c].state = "RESPONSE_BUILDING"
    OBVIOUS
  <2>7. QED
    BY ZenonT(60), <2>1, <2>2, <2>3, <2>4, <2>5, <2>6
<1>5. QED
  BY <1>1, <1>2, <1>3, <1>4 DEF Touch

(* While memory lasts, a connection that polls weather_done always has an  *)
(* instance whose task is scheduled and has not yet answered: it is never  *)
(* left to wait for nobody.                                                *)
THEOREM WaitersAreServed ==
  ASSUME "alloc" \notin Faults
  PROVE  Spec => []WaiterHasWorker
<1> DEFINE Waits == \A c \in Conns : ClientWaits(c)
<1>1. Init => Waits
  <2>1. Init => \A c \in Conns : conn[c].state = "ABSENT"
    BY DEF Init, FreshConn
  <2>2. QED
    BY <2>1 DEF ClientWaits
<1>2. TypeInv /\ ServiceInv /\ Lifetimes /\ Waits /\ [Next]_vars => Waits'
  BY EachTouched, WaitsTouched DEF Lifetimes
<1>3. Waits => WaiterHasWorker
  BY DEF ClientWaits, WaiterHasWorker
<1> HIDE DEF Waits
<1>4. QED
  BY <1>1, <1>2, <1>3, ServingInvariant, PTL DEF Spec

-----------------------------------------------------------------------------
(* 200 is only answered where it is due.                                   *)

(* What was received stays received.                                       *)
LEMMA StaysWhole ==
  ASSUME NEW c \in Conns, NEW r \in ConnRecord, NEW q, q.read \in r.read .. 3
  PROVE  /\ Whole(c, r) => Whole(c, q)
         /\ Earned(c, r) => Earned(c, q)
         /\ Bare(c, r) => Bare(c, q)
<1>1. r.read \in 0 .. 3
  BY DEF ConnRecord
<1>2. Whole(c, r) => Whole(c, q)
  BY <1>1 DEF Whole
<1>3. QED
  BY <1>2 DEF Earned, Bare

LEMMA AdvanceEarns ==
  ASSUME NEW c \in Conns, NEW r \in ConnRecord, NEW q \in ConnRecord, NEW e, NEW x,
         Earns(c, r, e, x), Advances(c, r, q)
  PROVE  Earns(c, q, e, x)
<1>1. /\ Whole(c, r) => Whole(c, q)
      /\ Earned(c, r) => Earned(c, q)
      /\ Bare(c, r) => Bare(c, q)
  BY StaysWhole DEF Advances
<1>2. /\ q.full_response = r.full_response /\ (Echoes(c, r) => Echoes(c, q))
      /\ q.read \in r.read .. 3 /\ r.read \in 0 .. 3 /\ (r.parsed => q.parsed)
  BY DEF Advances, Echoes, ConnRecord
<1>3. q.state \in {"READING_HEADERS", "READING_BODY", "VALIDATING"} =>
        req[c].line = "ok" /\ q.parsed
  BY <1>2 DEF Advances, Earns
<1>4. q.state = "READING_BODY" => req[c].headers = "ok" /\ q.read >= 2
  BY <1>2 DEF Advances, Earns
<1>5. q.state = "VALIDATING" => Whole(c, q)
  BY <1>1, <1>2 DEF Advances, Earns, Whole
<1>b. r.state = "VALIDATING" /\ req[c].method_ok /\ req[c].route \in BuiltIn =>
        Echoes(c, r) \/ Bare(c, r)
  BY DEF Earns, Echoes, Bare, BuiltIn
<1>6. q.weather_done => q.full_response # 0 \/ Echoes(c, q) \/ Bare(c, q)
  BY <1>1, <1>2, <1>b DEF Advances, Earns
<1>7. q.state = "RESPONDING" /\ q.status = 200 =>
        q.full_response # 0 \/ Echoes(c, q) \/ Bare(c, q)
  BY <1>1, <1>2, <1>b DEF Advances, Earns
<1>8. /\ q.reply.status = 200 /\ q.reply.body = "full" => Earned(c, q)
      /\ q.reply.status = 200 /\ q.reply.body = "reason" => Bare(c, q)
  <2>1. CASE q.reply = r.reply
    BY <1>1, <2>1 DEF Earns
  <2>2. CASE r.state = "RESPONDING" /\ q.reply = ReplyOf(r, Echoes(c, r))
    <3>1. CASE r.full_response # 0 /\ r.status \notin {400, 500}
      <4>1. q.reply.status = r.full_response /\ q.reply.body = "full"
        BY <2>2, <3>1 DEF ReplyOf
      <4>2. QED
        BY <1>1, <4>1 DEF Earns
    <3>2. CASE ~(r.full_response # 0 /\ r.status \notin {400, 500}) /\ Echoes(c, r)
      BY <2>2, <3>2 DEF ReplyOf
    <3>3. CASE ~(r.full_response # 0 /\ r.status \notin {400, 500}) /\ ~Echoes(c, r)
      <4>1. q.reply.status = r.status /\ q.reply.body = "reason"
        BY <2>2, <3>3 DEF ReplyOf
      <4>2. QED
        BY <1>1, <2>2, <3>3, <4>1 DEF Earns
    <3>4. QED
      BY <3>1, <3>2, <3>3
  <2>3. QED
    BY <2>1, <2>2 DEF Advances
<1>9. QED
  BY <1>1, <1>2, <1>3, <1>4, <1>5, <1>6, <1>7, <1>8 DEF Earns

LEMMA EarnsTouched ==
  ASSUME TypeInv, TypeInv', req' = req, NEW c \in Conns,
         ClientLifetime(c), ClientEarns(c), Touch(c)
  PROVE  ClientEarns(c)'
<1> DEFINE r == conn[c]
           q == conn'[c]
           taken == InstTask(c) \in tasks
<1>t. r \in ConnRecord /\ q \in ConnRecord /\ inst[c] \in InstRecord
  BY DEF TypeInv, TypeOK
<1>e. Earns(c, r, inst[c].endpoint, taken)
  BY DEF ClientEarns
<1>q. Earns(c, q, inst'[c].endpoint, InstTask(c) \in tasks') => ClientEarns(c)'
  BY DEF ClientEarns, Earns, Whole, Earned, Bare, Echoes
<1> SUFFICES Earns(c, q, inst'[c].endpoint, InstTask(c) \in tasks')
  BY <1>q
<1>1. CASE Untouched(c)
  BY <1>1, <1>e DEF Untouched, SameTasks, Earns
<1>k. ASSUME q.read = r.read, q.parsed = r.parsed, q.full_response = r.full_response,
             q.weather_done = r.weather_done, q.reply = r.reply,
             \/ q.state = r.state /\ q.status \in {r.status, 500}
             \/ q.state \in {"ACCEPTED", "REFUSED", "FREED", "WEATHER_HANDOVER"},
             InstTask(c) \in tasks' => Whole(c, r) /\ req[c].method_ok,
             inst'[c].endpoint => req[c].route = "endpoint"
      PROVE  Earns(c, q, inst'[c].endpoint, InstTask(c) \in tasks')
  <2>1. /\ Whole(c, r) <=> Whole(c, q)
        /\ Earned(c, r) <=> Earned(c, q)
        /\ Echoes(c, r) <=> Echoes(c, q)
        /\ Bare(c, r) <=> Bare(c, q)
    BY <1>k DEF Whole, Earned, Bare, Echoes
  <2>2. QED
    BY <1>e, <1>k, <2>1 DEF Earns
<1>f. /\ taken => Whole(c, r) /\ req[c].method_ok
      /\ inst[c].endpoint => req[c].route = "endpoint"
  BY <1>e DEF Earns
<1>s. \A s : LET p == [r EXCEPT !.state = s] IN
        /\ p.state = s /\ p.read = r.read /\ p.parsed = r.parsed
        /\ p.full_response = r.full_response /\ p.weather_done = r.weather_done
        /\ p.reply = r.reply
  BY <1>t DEF ConnRecord
<1>2. CASE LetIn(c)
  <2>1. CASE /\ \E s \in {"ACCEPTED", "REFUSED"} : q = [r EXCEPT !.state = s]
             /\ inst'[c] = inst[c] /\ SameTasks(c)
    <3>1. PICK s \in {"ACCEPTED", "REFUSED"} : q = [r EXCEPT !.state = s]
      BY <2>1
    <3>2. InstTask(c) \in tasks' => taken
      BY <2>1 DEF SameTasks
    <3>3. QED
      BY <1>k, <1>f, <1>s, <2>1, <3>1, <3>2
  <2>2. CASE /\ r.state = "ACCEPTED" /\ q = FreshConn /\ inst'[c] = inst[c]
             /\ InstTask(c) \in tasks' <=> InstTask(c) \in tasks
    <3>1. InstTask(c) \notin tasks'
      BY <2>2 DEF ClientLifetime, Alive, ConnStates, ReadingStates
    <3>2. /\ q.state = "INITIALIZING" /\ q.full_response = 0 /\ ~q.weather_done
          /\ q.reply.status = 0
      BY <2>2 DEF FreshConn, NoReply
    <3>3. QED
      BY <1>e, <2>2, <3>1, <3>2 DEF Earns
  <2>3. CASE /\ q = [r EXCEPT !.callback = TRUE] /\ SameTasks(c)
             /\ inst'[c] = [state |-> "INITIALIZING", endpoint |-> FALSE]
    <3>1. /\ q.state = r.state /\ q.status = r.status
          /\ q.read = r.read /\ q.parsed = r.parsed
          /\ q.full_response = r.full_response /\ q.weather_done = r.weather_done
          /\ q.reply = r.reply
      BY <1>t, <2>3 DEF ConnRecord
    <3>2. ~inst'[c].endpoint /\ (InstTask(c) \in tasks' => taken)
      BY <2>3 DEF SameTasks
    <3>3. QED
      BY <1>k, <1>f, <3>1, <3>2
  <2>4. QED
    BY ZenonT(60), <1>2, <2>1, <2>2, <2>3 DEF LetIn
<1>3. CASE ConnTurn(c)
  <2>1. CASE Advances(c, r, q) /\ inst'[c] = inst[c] /\ SameTasks(c)
    <3>1. Earns(c, q, inst[c].endpoint, taken)
      BY <1>t, <1>e, <2>1, AdvanceEarns
    <3>2. QED
      BY <2>1, <3>1 DEF SameTasks, Earns
  <2>2. CASE /\ r.state = "VALIDATING" /\ req[c].method_ok
             /\ q = [r EXCEPT !.status = 200, !.state = "WEATHER_HANDOVER"]
             /\ inst'[c] = [inst[c] EXCEPT !.state = "INITIALIZING"]
    <3>1. /\ q.state = "WEATHER_HANDOVER" /\ q.read = r.read /\ q.parsed = r.parsed
          /\ q.full_response = r.full_response /\ q.weather_done = r.weather_done
          /\ q.reply = r.reply
      BY <1>t, <2>2 DEF ConnRecord
    <3>2. Whole(c, r) /\ inst'[c].endpoint = inst[c].endpoint
      BY <1>t, <1>e, <2>2 DEF Earns, InstRecord
    <3>3. QED
      BY <1>k, <1>f, <2>2, <3>1, <3>2
  <2>3. CASE /\ q = [r EXCEPT !.state = "FREED"] /\ inst'[c] = [inst[c] EXCEPT !.state = "FREED"]
             /\ InstTask(c) \notin tasks'
    <3>1. inst'[c].endpoint = inst[c].endpoint
      BY <1>t, <2>3 DEF InstRecord
    <3>2. QED
      BY <1>k, <1>f, <1>s, <2>3, <3>1
  <2>4. QED
    BY <1>3, <2>1, <2>2, <2>3 DEF ConnTurn
<1>4. CASE InstTurn(c)
  <2>0. Whole(c, r) /\ req[c].method_ok /\ (InstTask(c) \in tasks' => taken)
    BY <1>4, <1>e DEF InstTurn, SameTasks, Earns
  <2>1. inst'[c].endpoint => inst[c].endpoint \/ req[c].route = "endpoint"
    BY <1>4, <1>t DEF InstTurn, InstRecord
  <2>2. CASE q = r
    BY <1>k, <1>f, <2>0, <2>1, <2>2
  <2>3. ASSUME NEW code \in Codes, q = SetResponse(r, code), inst[c].endpoint \/ code = 404
        PROVE  Earns(c, q, inst'[c].endpoint, InstTask(c) \in tasks')
    <3>1. /\ q.full_response = code /\ q.state = r.state /\ q.read = r.read
          /\ q.parsed = r.parsed /\ q.reply = r.reply
      BY <1>t, <2>3, InstWrites
    <3>2. code # 0
      BY DEF Codes
    <3>3. /\ Whole(c, r) <=> Whole(c, q)
          /\ Earned(c, r) <=> Earned(c, q)
          /\ Bare(c, r) <=> Bare(c, q)
      BY <3>1 DEF Whole, Earned, Bare
    <3>4. code = 200 => Earned(c, q)
      BY <1>e, <2>0, <2>3, <3>3 DEF Earned, Earns
    <3>5. QED
      BY <1>e, <2>0, <2>1, <3>1, <3>2, <3>3, <3>4 DEF Earns
  <2>4. CASE q = [r EXCEPT !.status = 500]
    <3>1. /\ q.status = 500 /\ q.full_response = r.full_response
          /\ q.weather_done = r.weather_done /\ q.state = r.state /\ q.read = r.read
          /\ q.parsed = r.parsed /\ q.reply = r.reply
      BY <1>t, <2>4, InstWrites, Names
    <3>2. QED
      BY <1>k, <1>f, <2>0, <2>1, <3>1
  <2>5. QED
    BY ZenonT(60), <1>4, <2>2, <2>3, <2>4 DEF InstTurn
<1>5. QED
  BY <1>1, <1>2, <1>3, <1>4 DEF Touch

(* What a client sends is settled from the start.                          *)
LEMMA RequestsStay ==
  ASSUME TypeInv, [Next]_vars
  PROVE  req' = req
<1>1. CASE \E c \in Conns : ConnWork(c) \/ InstWork(c)
  BY <1>1, OthersUntouched
<1>2. CASE TcpWork \/ HttpWork \/ OptiWork
  BY <1>2 DEF TcpWork, TcpAccept, TcpWouldBlock, TcpAcceptFails, TcpHandOver, TcpConnected,
     TcpIdle, TcpReturns, HttpWork, HttpIdle, HttpHandOver, HttpRefuse, HttpConnected,
     HttpRetryWaits, HttpRetrySucceeds, HttpRetryFails, HttpDisposing, OptiWork, OptiIdle,
     OptiHandOver, OptiHandOverFails, OptiConnected, OptiError, OptiDisposing, OptiReturns
<1>3. CASE NewRound \/ Sigint \/ MainReturns \/ Ended \/ UNCHANGED vars
  BY <1>3 DEF NewRound, Sigint, MainReturns, Ended, vars
<1>4. QED
  BY <1>1, <1>2, <1>3 DEF Next, Work

LEMMA EarnsStart ==
  ASSUME Init, NEW c \in Conns
  PROVE  ClientEarns(c)
<1>1. /\ conn[c].state = "ABSENT" /\ conn[c].full_response = 0
      /\ ~conn[c].weather_done /\ conn[c].reply.status = 0
      /\ ~inst[c].endpoint
  BY DEF Init, InitInst, FreshConn, NoReply
<1>2. InstTask(c) \notin tasks
  BY TasksDiffer DEF Init, InitStarted, InitTcpFailed, InitStoreFailed
<1>3. QED
  BY <1>1, <1>2 DEF ClientEarns, Earns

(* Whatever clients send, in whatever pieces, whatever fails and whatever  *)
(* the other connections do: but for the echo, 200 answers only a request  *)
(* that is well formed and received whole, with an endpoint's response if  *)
(* it names an endpoint and with the bare reason phrase if it names        *)
(* "api/v1/echo".                                                          *)
THEOREM OnlyServableAnswered == Spec => []OkOnlyIfServableButEcho
<1> DEFINE AllEarn == \A c \in Conns : ClientEarns(c)
<1>1. Init => AllEarn
  BY EarnsStart
<1>2. TypeInv /\ ServiceInv /\ Lifetimes /\ AllEarn /\ [Next]_vars => AllEarn'
  <2> SUFFICES ASSUME TypeInv, ServiceInv, Lifetimes, AllEarn, [Next]_vars,
                      NEW c \in Conns
               PROVE  ClientEarns(c)'
    OBVIOUS
  <2>1. TypeInv' /\ req' = req /\ Touch(c)
    BY TypeStep, RequestsStay, EachTouched DEF Lifetimes
  <2>2. ClientLifetime(c) /\ ClientEarns(c)
    BY DEF Lifetimes
  <2>3. QED
    BY <2>1, <2>2, EarnsTouched
<1>3. TypeInv /\ AllEarn => OkOnlyIfServableButEcho
  <2> SUFFICES ASSUME TypeInv, AllEarn, NEW c \in Conns,
                      conn[c].reply.status = 200, conn[c].reply.body # "echo"
               PROVE  /\ Servable(c)
                      /\ \/ req[c].route = "endpoint" /\ conn[c].reply.body = "full"
                         \/ req[c].route = "api/v1/echo" /\ conn[c].reply.body = "reason"
    BY DEF OkOnlyIfServableButEcho
  <2>1. conn[c].reply.body \in {"full", "reason"}
    BY DEF TypeInv, TypeOK, ConnRecord, Reply, NoReply
  <2>2. Earns(c, conn[c], inst[c].endpoint, InstTask(c) \in tasks)
    BY DEF ClientEarns
  <2>3. QED
    BY <2>1, <2>2 DEF Earns, Earned, Bare, Whole, Servable
<1> HIDE DEF AllEarn
<1>4. QED
  BY <1>1, <1>2, <1>3, ServingInvariant, PTL DEF Spec
=============================================================================
