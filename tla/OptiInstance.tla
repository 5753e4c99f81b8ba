---------------------------- MODULE OptiInstance ----------------------------
(***************************************************************************)
(* The request instance (server/src/opti/opti_instance.c): created when    *)
(* the Opti server takes over a connection, started by the connection's    *)
(* on_request callback, and freed by its on_dispose callback.  Its task    *)
(* finds the endpoint, builds the response into the connection, and sets   *)
(* weather_done, which is all that lets the connection go on.              *)
(***************************************************************************)
EXTENDS ServerState

InitInst == inst = [c \in Conns |-> [state |-> "NONE", endpoint |-> FALSE]]

(* osi_init_ptr: the instance exists and the connection can call it.       *)
OsiInit(c) ==
  /\ inst' = [inst EXCEPT ![c] = [state |-> "INITIALIZING", endpoint |-> FALSE]]
  /\ conn' = [conn EXCEPT ![c].callback = TRUE]

(* Mutant: the response is stored and the connection never told.           *)
SetResponseUntold(r, code) == [r EXCEPT !.status = code, !.full_response = code]

(* osi_set_response on connection record r: the stored response and the    *)
(* flag the connection polls.                                              *)
SetResponse(r, code) ==
  [r EXCEPT !.status = code, !.full_response = code, !.weather_done = TRUE]

InstRuns(c, state) == Run(InstTask(c)) /\ inst[c].state = state

InstGoes(c, state) ==
  /\ inst' = [inst EXCEPT ![c].state = state]
  /\ Return(InstTask(c), {}, {})
  /\ UNCHANGED <<servers, req, process>>

InstInitializing(c) ==
  /\ InstRuns(c, "INITIALIZING")
  /\ InstGoes(c, "REQUEST_PARSING")
  /\ UNCHANGED conn

(* worktask_request_parse: look the path and method up in Endpoints.       *)
InstRequestParsing(c) ==
  /\ InstRuns(c, "REQUEST_PARSING")
  /\ inst' = [inst EXCEPT ![c] = [state |-> "RESPONSE_BUILDING",
                                  endpoint |-> req[c].route = "endpoint"]]
  /\ Return(InstTask(c), {}, {})
  /\ UNCHANGED <<servers, conn, req, process>>

(* worktask_response_build: the endpoint answers with a code of its own, a *)
(* path without endpoint with 404, an endpoint that returns an error is    *)
(* answered 500.                                                           *)
InstResponseBuilding(c) ==
  /\ InstRuns(c, "RESPONSE_BUILDING")
  /\ \E code \in IF inst[c].endpoint THEN Codes ELSE {404} :
        conn' = [conn EXCEPT ![c] = SetResponse(@, code)]
  /\ InstGoes(c, "RESPONSE_SENDING")

(* Neither the response nor the 500 that replaces it can be allocated:     *)
(* the status is set, weather_done is not.                                 *)
InstResponseNoMemory(c) ==
  /\ "alloc" \in Faults
  /\ InstRuns(c, "RESPONSE_BUILDING")
  /\ conn' = [conn EXCEPT ![c].status = 500]
  /\ InstGoes(c, "RESPONSE_SENDING")

InstResponseSending(c) ==
  /\ InstRuns(c, "RESPONSE_SENDING")
  /\ InstGoes(c, "DISPOSING")
  /\ UNCHANGED conn

(* The task stays until on_dispose destroys it.                            *)
InstDisposing(c) ==
  /\ InstRuns(c, "DISPOSING")
  /\ Return(InstTask(c), {}, {})
  /\ UNCHANGED <<servers, conn, inst, req, process>>

InstWork(c) ==
  \/ InstInitializing(c)
  \/ InstRequestParsing(c)
  \/ InstResponseBuilding(c)
  \/ InstResponseNoMemory(c)
  \/ InstResponseSending(c)
  \/ InstDisposing(c)
=============================================================================
