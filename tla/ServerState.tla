----------------------------- MODULE ServerState -----------------------------
(***************************************************************************)
(* The state of the optiserver process and the cooperative scheduler that  *)
(* drives it.  Every object of the server (the TCP listener, the HTTP      *)
(* server, the Opti server, each HTTP connection, each request instance)   *)
(* owns one scheduler task; main() calls scheduler_work in a loop and each *)
(* call runs every live task once.  The scheduler is MaestroCore code,     *)
(* outside this repository: rounds are modelled by the set "pending" of    *)
(* the tasks the current round has still to run, in any order, and a task  *)
(* created during a round may or may not run in that same round.           *)
(*                                                                         *)
(* A client is identified with its connection: the descriptor accept()     *)
(* returns, the HTTP_Server_Connection allocated for it and the            *)
(* Opti_Server_Instance that serves it.                                    *)
(***************************************************************************)
EXTENDS Naturals, FiniteSets

CONSTANTS
  Conns,          (* the client connections                                *)
  NoConn,         (* a descriptor of -1, a NULL http_connection            *)
  Requests,       (* the requests a client may send, a set of Request      *)
  Faults,         (* what may go wrong, a subset of FaultKinds             *)
  MaxRetries,     (* HTTP_SERVER_CONNECTION_MAX_RETRIES                    *)
  TcpInitRetries  (* the 3 of http_server_retry_work                       *)

FaultKinds ==
  { "tcp_init",       (* the listening socket cannot be opened at first     *)
    "store_init",     (* a database cannot be opened, or no memory at start *)
    "accept",         (* accept() fails with a real error                   *)
    "conn_init",      (* no memory or task for an HTTP_Server_Connection    *)
    "osi_init",       (* no memory for an Opti_Server_Instance              *)
    "alloc",          (* no memory while a request is read or answered      *)
    "sigint" }        (* the operator interrupts the server                 *)

(* What the server can tell about a request: its first line, whether its   *)
(* method is known, the route its path names, its headers (none: the blank *)
(* line follows the first line at once), whether a positive Content-Length *)
(* announces a body, and how many of its parts the client really sends.    *)
(* Two paths are built in: "/echo" and, spelt without a slash,             *)
(* "api/v1/echo".                                                          *)
Request == [line : {"ok", "empty", "long", "unparsable"},
            method_ok : BOOLEAN,
            route : {"/echo", "api/v1/echo", "endpoint", "unknown"},
            headers : {"none", "ok", "bad"},
            body : BOOLEAN,
            sends : 0 .. 3]

ASSUME ServerAssumption ==
  /\ NoConn \notin Conns
  /\ Requests \subseteq Request
  /\ Faults \subseteq FaultKinds
  /\ MaxRetries \in Nat
  /\ TcpInitRetries \in Nat

VARIABLES
  tcp,      (* TCP_Server: state and client_fd                             *)
  http,     (* HTTP_Server: state, error_state, error_retries, client_fd   *)
  opti,     (* Opti_Server: state and http_connection                      *)
  conn,     (* conn[c]: the HTTP_Server_Connection of client c             *)
  inst,     (* inst[c]: the Opti_Server_Instance that serves client c      *)
  req,      (* req[c]: the request client c sends                          *)
  tasks,    (* the tasks the scheduler holds                               *)
  pending,  (* the tasks the current round has still to run                *)
  process   (* "running", "stopping" after SIGINT, "crashed" or "exited"   *)

servers == <<tcp, http, opti>>
sched   == <<tasks, pending>>
vars    == <<tcp, http, opti, conn, inst, req, tasks, pending, process>>

TcpTask     == <<"tcp", NoConn>>
HttpTask    == <<"http", NoConn>>
OptiTask    == <<"opti", NoConn>>
ConnTask(c) == <<"conn", c>>
InstTask(c) == <<"inst", c>>
ServerTasks == {TcpTask, HttpTask, OptiTask}
Task        == ServerTasks \cup ({"conn", "inst"} \X Conns)

ReadingStates == {"READING_FIRSTLINE", "READING_HEADERS", "READING_BODY"}

(* HTTPServerConnectionState. *)
ConnStates == ReadingStates \cup
  {"INITIALIZING", "VALIDATING", "WEATHER_HANDOVER", "RESPONDING",
   "DISPOSING", "ERROR"}

(* Before and after the object: ABSENT, the client is not accepted yet;    *)
(* ACCEPTED, only its descriptor exists; REFUSED, its descriptor was       *)
(* closed without an object; FREED, the object was disposed of.            *)
ConnPhases == ConnStates \cup {"ABSENT", "ACCEPTED", "REFUSED", "FREED"}

InstStates == {"INITIALIZING", "REQUEST_PARSING", "RESPONSE_BUILDING",
               "RESPONSE_SENDING", "DISPOSING"}

Codes   == {200, 400, 404, 500}
NoReply == [status |-> 0, body |-> "none"]
Reply   == [status : Codes, body : {"full", "echo", "reason"}]

(* What calloc and http_server_connection_init leave in a connection. The  *)
(* field "read" counts the parts of the request in the receive buffer,     *)
(* "parsed" says request->path is set, "full_response" is the status the   *)
(* stored response was built for (0 for NULL), "callback" says             *)
(* set_callback was called, and "reply" is what was written to the client. *)
FreshConn ==
  [state |-> "INITIALIZING", retries |-> 0, read |-> 0, parsed |-> FALSE,
   status |-> 0, full_response |-> 0, weather_done |-> FALSE,
   callback |-> FALSE, reply |-> NoReply]

Alive(c)     == conn[c].state \in ConnStates
InstAlive(c) == inst[c].state \in InstStates

-----------------------------------------------------------------------------
(* The scheduler.                                                          *)

(* Task t is run by scheduler_work.                                        *)
Run(t) == /\ process \in {"running", "stopping"}
          /\ t \in pending

(* Task t returns, having created the tasks "born" and destroyed "dead".   *)
Return(t, born, dead) ==
  /\ tasks' = (tasks \cup born) \ dead
  /\ \E joined \in SUBSET born :
        pending' = ((pending \ {t}) \cup joined) \ dead

(* main() calls scheduler_work again.                                      *)
NewRound ==
  /\ process = "running"
  /\ pending = {}
  /\ pending' = tasks
  /\ UNCHANGED <<servers, conn, inst, req, tasks, process>>
=============================================================================
