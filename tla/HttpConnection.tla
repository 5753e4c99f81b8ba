--------------------------- MODULE HttpConnection ---------------------------
(***************************************************************************)
(* One HTTP connection (server/src/http/http_connection.c): its task reads *)
(* the first line, the headers and the body, hands the request to the      *)
(* instance through on_request, polls weather_done, writes one response    *)
(* and disposes of itself through on_dispose.                              *)
(*                                                                         *)
(* The bytes of a request are abstracted to its three parts, of which the  *)
(* receive buffer holds conn[c].read: a read delivers any number of the    *)
(* parts the client sends, none at all, or a fragment of one (which the    *)
(* parsers cannot tell from none).                                         *)
(***************************************************************************)
EXTENDS OptiInstance

ConnRuns(c, state) == Run(ConnTask(c)) /\ conn[c].state = state

(* The task returns and the connection's record has become r.              *)
ConnBecomes(c, r) ==
  /\ conn' = [conn EXCEPT ![c] = r]
  /\ Return(ConnTask(c), {}, {})
  /\ UNCHANGED <<servers, inst, req, process>>

ConnInitializing(c) ==
  /\ ConnRuns(c, "INITIALIZING")
  /\ ConnBecomes(c, [conn[c] EXCEPT !.state = "READING_FIRSTLINE"])

(* Mutants: out of retries, the connection closes without an answer, or    *)
(* answers without setting a status.                                       *)
RetriesClose(c) ==
  /\ conn[c].state \in ReadingStates
  /\ Run(ConnTask(c))
  /\ conn[c].retries > MaxRetries
  /\ ConnBecomes(c, [conn[c] EXCEPT !.state = "DISPOSING"])

RetriesRespond(c) ==
  /\ conn[c].state \in ReadingStates
  /\ Run(ConnTask(c))
  /\ conn[c].retries > MaxRetries
  /\ ConnBecomes(c, [conn[c] EXCEPT !.state = "RESPONDING"])

(* What the first lines of the three read states do: give up after too     *)
(* many calls, the count being that of the calls before this one, ...      *)
ReadRetriesExceeded(c) ==
  /\ conn[c].state \in ReadingStates
  /\ Run(ConnTask(c))
  /\ conn[c].retries > MaxRetries
  /\ ConnBecomes(c, [conn[c] EXCEPT !.state = "ERROR", !.retries = @ + 1])

(* ... fail to store what was read, ...                                    *)
ReadNoMemory(c) ==
  /\ "alloc" \in Faults
  /\ conn[c].state \in ReadingStates
  /\ Run(ConnTask(c))
  /\ conn[c].retries <= MaxRetries
  /\ ConnBecomes(c, [conn[c] EXCEPT !.state = "ERROR", !.retries = @ + 1])

(* ... or go on with the n parts now in the buffer.                        *)
Reads(c, n) ==
  /\ conn[c].retries <= MaxRetries
  /\ n \in conn[c].read .. req[c].sends

(* Mutant: calls are not counted.                                          *)
NotCounted(c, n) == [conn[c] EXCEPT !.read = n]

(* What a call that found n parts leaves in the record, but for the state. *)
Counted(c, n) == [conn[c] EXCEPT !.read = n, !.retries = @ + 1]

(* worktask_request_read_firstline.  The retries are not reset.            *)
ConnReadFirstline(c) ==
  /\ ConnRuns(c, "READING_FIRSTLINE")
  /\ \E n \in 0 .. 3 :
       LET r == Counted(c, n) IN
       /\ Reads(c, n)
       /\ \/ /\ n < 1
             /\ ConnBecomes(c, r)
          \/ /\ n >= 1
             /\ req[c].line \in {"empty", "long"}
             /\ ConnBecomes(c, [r EXCEPT !.status = 400, !.state = "RESPONDING"])
          \/ /\ n >= 1
             /\ req[c].line = "unparsable"
             /\ ConnBecomes(c, [r EXCEPT !.state = "ERROR"])
          \/ /\ n >= 1
             /\ req[c].line = "ok"
             /\ ConnBecomes(c, [r EXCEPT !.parsed = TRUE,
                                         !.state = "READING_HEADERS"])

(* worktask_request_read_headers.                                          *)
ConnReadHeaders(c) ==
  /\ ConnRuns(c, "READING_HEADERS")
  /\ \E n \in 0 .. 3 :
       LET r == Counted(c, n)
           reset == [r EXCEPT !.retries = 0] IN
       /\ Reads(c, n)
       /\ \/ /\ n < 2
             /\ ConnBecomes(c, r)
          \/ /\ n >= 2
             /\ req[c].headers = "bad"
             /\ ConnBecomes(c, [r EXCEPT !.status = 400, !.state = "RESPONDING"])
          \/ /\ n >= 2
             /\ req[c].headers = "ok" /\ req[c].body
             /\ ConnBecomes(c, [reset EXCEPT !.state = "READING_BODY"])
          \/ /\ n >= 2
             /\ req[c].headers = "none" \/ (req[c].headers = "ok" /\ ~req[c].body)
             /\ ConnBecomes(c, [reset EXCEPT !.state = "VALIDATING"])

(* Mutant: any data at all is taken for the whole body.                    *)
ReadBodyShort(c) ==
  /\ ConnRuns(c, "READING_BODY")
  /\ \E n \in 0 .. 3 :
       /\ Reads(c, n)
       /\ ConnBecomes(c, [Counted(c, n) EXCEPT !.retries = 0,
                                               !.state = "VALIDATING"])

(* worktask_request_read_body.                                             *)
ConnReadBody(c) ==
  /\ ConnRuns(c, "READING_BODY")
  /\ \E n \in 0 .. 3 :
       /\ Reads(c, n)
       /\ \/ /\ n < 3
             /\ ConnBecomes(c, Counted(c, n))
          \/ /\ n >= 3
             /\ ConnBecomes(c, [Counted(c, n) EXCEPT !.retries = 0,
                                                     !.state = "VALIDATING"])

(* worktask_request_validate: a method the parser does not know ...        *)
ConnRejectMethod(c) ==
  /\ ConnRuns(c, "VALIDATING")
  /\ ~req[c].method_ok
  /\ ConnBecomes(c, [conn[c] EXCEPT !.status = 400, !.state = "RESPONDING"])

(* ... the two paths built in, which no endpoint is asked about ...        *)
BuiltIn == {"/echo", "api/v1/echo"}

ConnAcceptEcho(c) ==
  /\ ConnRuns(c, "VALIDATING")
  /\ req[c].method_ok
  /\ req[c].route \in BuiltIn
  /\ ConnBecomes(c, [conn[c] EXCEPT !.status = 200, !.weather_done = TRUE,
                                    !.state = "RESPONDING"])

(* ... and every other path, which on_request (osi_on_request) takes over. *)
(* The result of scheduler_create_task is not looked at.                   *)
ConnHandOver(c) ==
  /\ ConnRuns(c, "VALIDATING")
  /\ req[c].method_ok
  /\ req[c].route \notin BuiltIn
  /\ conn[c].callback
  /\ conn' = [conn EXCEPT ![c].status = 200, ![c].state = "WEATHER_HANDOVER"]
  /\ inst' = [inst EXCEPT ![c].state = "INITIALIZING"]
  /\ \/ Return(ConnTask(c), {InstTask(c)}, {})
     \/ "alloc" \in Faults /\ Return(ConnTask(c), {}, {})
  /\ UNCHANGED <<servers, req, process>>

ConnWeatherHandover(c) ==
  /\ ConnRuns(c, "WEATHER_HANDOVER")
  /\ ConnBecomes(c, IF conn[c].weather_done
                    THEN [conn[c] EXCEPT !.state = "RESPONDING"]
                    ELSE conn[c])

(* worktask_respond: the stored response unless the status is 400 or 500,  *)
(* the echo for a request whose path is "/echo", else the reason phrase,   *)
(* which is also what "api/v1/echo" gets.                                  *)
ReplyOf(r, echo) ==
  IF r.full_response # 0 /\ r.status \notin {400, 500}
  THEN [status |-> r.full_response, body |-> "full"]
  ELSE IF echo THEN [status |-> 200, body |-> "echo"]
  ELSE [status |-> r.status, body |-> "reason"]

ConnRespond(c) ==
  /\ ConnRuns(c, "RESPONDING")
  /\ ConnBecomes(c,
       [conn[c] EXCEPT
          !.reply = ReplyOf(conn[c], conn[c].parsed /\ req[c].route = "/echo"),
          !.state = "DISPOSING"])

ConnRespondNoMemory(c) ==
  /\ "alloc" \in Faults
  /\ ConnRuns(c, "RESPONDING")
  /\ ConnBecomes(c, [conn[c] EXCEPT !.state = "ERROR"])

ConnError(c) ==
  /\ ConnRuns(c, "ERROR")
  /\ ConnBecomes(c, [conn[c] EXCEPT !.status = 500, !.state = "RESPONDING"])

(* Mutant: the instance task outlives the instance.                        *)
DisposeKeepsTask(c) ==
  /\ ConnRuns(c, "DISPOSING")
  /\ conn[c].callback
  /\ conn' = [conn EXCEPT ![c].state = "FREED"]
  /\ inst' = [inst EXCEPT ![c].state = "FREED"]
  /\ Return(ConnTask(c), {}, {ConnTask(c)})
  /\ UNCHANGED <<servers, req, process>>

(* DISPOSING calls on_dispose (osi_on_dispose): destroy the instance task, *)
(* dispose of the connection and its task, and free the instance through   *)
(* opti_s_on_instance_finish.                                              *)
ConnDispose(c) ==
  /\ ConnRuns(c, "DISPOSING")
  /\ conn[c].callback
  /\ conn' = [conn EXCEPT ![c].state = "FREED"]
  /\ inst' = [inst EXCEPT ![c].state = "FREED"]
  /\ Return(ConnTask(c), {}, {ConnTask(c), InstTask(c)})
  /\ UNCHANGED <<servers, req, process>>

(* The callbacks are called without a check: a connection nobody has set   *)
(* them for calls a null pointer.                                          *)
CallsCallback(c) ==
  \/ conn[c].state = "DISPOSING"
  \/ conn[c].state = "VALIDATING" /\ req[c].method_ok /\ req[c].route \notin BuiltIn

ConnNullCall(c) ==
  /\ Run(ConnTask(c))
  /\ CallsCallback(c)
  /\ ~conn[c].callback
  /\ process' = "crashed"
  /\ UNCHANGED <<servers, conn, inst, req, tasks, pending>>

ConnReading(c) ==
  \/ ConnInitializing(c)
  \/ ReadRetriesExceeded(c)
  \/ ReadNoMemory(c)
  \/ ConnReadFirstline(c)
  \/ ConnReadHeaders(c)
  \/ ConnReadBody(c)

ConnAnswering(c) ==
  \/ ConnRejectMethod(c)
  \/ ConnAcceptEcho(c)
  \/ ConnHandOver(c)
  \/ ConnWeatherHandover(c)
  \/ ConnRespond(c)
  \/ ConnRespondNoMemory(c)
  \/ ConnError(c)
  \/ ConnDispose(c)
  \/ ConnNullCall(c)

ConnWork(c) == ConnReading(c) \/ ConnAnswering(c)
=============================================================================
