----------------------------- MODULE OptiServer -----------------------------
(***************************************************************************)
(* The optiserver process: the chain that hands an accepted client over    *)
(* from the TCP listener to the HTTP server to the Opti server, one slot   *)
(* at each link (tcp.client_fd, http.client_fd, opti.http_connection), and *)
(* the connections and instances that serve the clients taken over.        *)
(*                                                                         *)
(* Nothing in the chain waits for the slot ahead of it to be empty, and a  *)
(* connection starts reading before its callbacks are set: that no client  *)
(* is lost and no null callback called rests on how many rounds each step  *)
(* takes.                                                                  *)
(***************************************************************************)
EXTENDS HttpConnection

TcpStates  == {"INITIALIZING", "LISTENING", "CONNECTING", "CONNECTED", "ERROR"}
HttpStates == {"INITIALIZING", "IDLING", "CONNECTING", "CONNECTED", "ERROR",
               "DISPOSING"}
OptiStates == {"IDLE", "CONNECTING", "CONNECTED", "ERROR", "DISPOSING"}

(* What memset(0) leaves of a disposed server: its task is gone.           *)
TcpDisposed  == [state |-> "INITIALIZING", client_fd |-> NoConn]
HttpDisposed == [state |-> "INITIALIZING", error_state |-> "NONE",
                 error_retries |-> 0, client_fd |-> NoConn]

-----------------------------------------------------------------------------
(* opti_s_init, whose result main() ignores.                               *)

InitStarted ==
  /\ tcp = [state |-> "LISTENING", client_fd |-> NoConn]
  /\ http = [HttpDisposed EXCEPT !.state = "IDLING"]
  /\ opti = [state |-> "IDLE", http_connection |-> NoConn]
  /\ tasks = ServerTasks

(* The listening socket cannot be opened: http_server_init leaves a task   *)
(* that retries, opti_s_init gives up before creating its own.             *)
InitTcpFailed ==
  /\ "tcp_init" \in Faults
  /\ tcp = TcpDisposed
  /\ http = [HttpDisposed EXCEPT !.state = "ERROR",
                                 !.error_state = "TCP_INIT_FAILED"]
  /\ opti = [state |-> "ERROR", http_connection |-> NoConn]
  /\ tasks = {HttpTask}

(* The meter store, the cache or the instance list cannot be created:      *)
(* everything made so far is disposed of.                                  *)
InitStoreFailed ==
  /\ "store_init" \in Faults
  /\ tcp = TcpDisposed
  /\ http = HttpDisposed
  /\ opti = [state |-> "ERROR", http_connection |-> NoConn]
  /\ tasks = {}

Init ==
  /\ InitStarted \/ InitTcpFailed \/ InitStoreFailed
  /\ conn = [c \in Conns |-> [FreshConn EXCEPT !.state = "ABSENT"]]
  /\ InitInst
  /\ req \in [Conns -> Requests]
  /\ pending = {}
  /\ process = "running"

-----------------------------------------------------------------------------
(* The TCP listener (server/src/tcp/tcp_server.c).                         *)

TcpRuns(state) == Run(TcpTask) /\ tcp.state = state

TcpReturns == Return(TcpTask, {}, {}) /\ UNCHANGED <<opti, inst, req, process>>

(* tcp_server_handle_listening: a client is waiting, ...                   *)
TcpAccept ==
  /\ TcpRuns("LISTENING")
  /\ \E c \in Conns :
       /\ conn[c].state = "ABSENT"
       /\ conn' = [conn EXCEPT ![c].state = "ACCEPTED"]
       /\ tcp' = [state |-> "CONNECTING", client_fd |-> c]
  /\ TcpReturns
  /\ UNCHANGED http

(* ... or none is, ...                                                     *)
TcpWouldBlock ==
  /\ TcpRuns("LISTENING")
  /\ TcpReturns
  /\ UNCHANGED <<tcp, http, conn>>

(* ... or accept() or fcntl() fails, which no state ever leaves again.     *)
TcpAcceptFails ==
  /\ "accept" \in Faults
  /\ TcpRuns("LISTENING")
  /\ tcp' = [tcp EXCEPT !.state = "ERROR"]
  /\ TcpReturns
  /\ UNCHANGED <<http, conn>>

(* Mutant: the listener goes straight back to accept().                    *)
TcpHandOverFast ==
  /\ TcpRuns("CONNECTING")
  /\ http' = [http EXCEPT !.client_fd = tcp.client_fd, !.state = "CONNECTING"]
  /\ tcp' = [state |-> "LISTENING", client_fd |-> NoConn]
  /\ TcpReturns
  /\ UNCHANGED conn

(* tcp_server_connection_handover and http_server_on_accept.               *)
TcpHandOver ==
  /\ TcpRuns("CONNECTING")
  /\ http' = [http EXCEPT !.client_fd = tcp.client_fd, !.state = "CONNECTING"]
  /\ tcp' = [state |-> "CONNECTED", client_fd |-> NoConn]
  /\ TcpReturns
  /\ UNCHANGED conn

TcpConnected ==
  /\ TcpRuns("CONNECTED")
  /\ tcp' = [tcp EXCEPT !.state = "LISTENING"]
  /\ TcpReturns
  /\ UNCHANGED <<http, conn>>

TcpIdle ==
  /\ TcpRuns("ERROR")
  /\ TcpReturns
  /\ UNCHANGED <<tcp, http, conn>>

TcpWork ==
  \/ TcpAccept
  \/ TcpWouldBlock
  \/ TcpAcceptFails
  \/ TcpHandOver
  \/ TcpConnected
  \/ TcpIdle

-----------------------------------------------------------------------------
(* The HTTP server (server/src/http/http_server.c).                        *)

HttpRuns(state) == Run(HttpTask) /\ http.state = state

(* Mutant: a connection that comes when the server is not idle only gets   *)
(* its pointer stored.                                                     *)
OnHttpConnectionIfIdle(c) ==
  opti' = [state |-> IF opti.state = "IDLE" THEN "CONNECTING" ELSE opti.state,
           http_connection |-> c]

(* opti_s_on_http_connection.                                              *)
OnHttpConnection(c) == opti' = [state |-> "CONNECTING", http_connection |-> c]

HttpIdle ==
  /\ HttpRuns("IDLING")
  /\ Return(HttpTask, {}, {})
  /\ UNCHANGED <<servers, conn, inst, req, process>>

(* http_server_connection_handover: the object is made and given to the    *)
(* Opti server; client_fd keeps its value.                                 *)
HttpHandOver ==
  /\ HttpRuns("CONNECTING")
  /\ LET c == http.client_fd IN
       /\ conn' = [conn EXCEPT ![c] = FreshConn]
       /\ OnHttpConnection(c)
       /\ Return(HttpTask, {ConnTask(c)}, {})
  /\ http' = [http EXCEPT !.state = "CONNECTED"]
  /\ UNCHANGED <<tcp, inst, req, process>>

(* http_server_connection_init_ptr fails: the descriptor is closed.        *)
HttpRefuse ==
  /\ "conn_init" \in Faults
  /\ HttpRuns("CONNECTING")
  /\ conn' = [conn EXCEPT ![http.client_fd].state = "REFUSED"]
  /\ http' = [http EXCEPT !.state = "IDLING", !.client_fd = NoConn]
  /\ Return(HttpTask, {}, {})
  /\ UNCHANGED <<tcp, opti, inst, req, process>>

HttpConnected ==
  /\ HttpRuns("CONNECTED")
  /\ http' = [http EXCEPT !.state = "IDLING"]
  /\ Return(HttpTask, {}, {})
  /\ UNCHANGED <<tcp, opti, conn, inst, req, process>>

(* http_server_retry_work before next_retry_at.                            *)
HttpRetryWaits ==
  /\ HttpRuns("ERROR")
  /\ Return(HttpTask, {}, {})
  /\ UNCHANGED <<servers, conn, inst, req, process>>

HttpRetrySucceeds ==
  /\ HttpRuns("ERROR")
  /\ http' = [http EXCEPT !.state = "IDLING", !.error_state = "NONE",
                          !.error_retries = 0]
  /\ tcp' = [state |-> "LISTENING", client_fd |-> tcp.client_fd]
  /\ Return(HttpTask, {TcpTask}, {})
  /\ UNCHANGED <<opti, conn, inst, req, process>>

HttpRetryFails ==
  /\ HttpRuns("ERROR")
  /\ http' = [http EXCEPT !.error_retries = @ + 1,
                          !.state = IF http.error_retries + 1 > TcpInitRetries
                                    THEN "DISPOSING" ELSE "ERROR"]
  /\ Return(HttpTask, {}, {})
  /\ UNCHANGED <<tcp, opti, conn, inst, req, process>>

(* http_server_dispose, with the listener inside it.                       *)
HttpDisposing ==
  /\ HttpRuns("DISPOSING")
  /\ http' = HttpDisposed
  /\ tcp' = TcpDisposed
  /\ Return(HttpTask, {}, {HttpTask, TcpTask})
  /\ UNCHANGED <<opti, conn, inst, req, process>>

HttpWork ==
  \/ HttpIdle
  \/ HttpHandOver
  \/ HttpRefuse
  \/ HttpConnected
  \/ HttpRetryWaits
  \/ HttpRetrySucceeds
  \/ HttpRetryFails
  \/ HttpDisposing

-----------------------------------------------------------------------------
(* The Opti server (server/src/opti/opti_server.c).                        *)

OptiRuns(state) == Run(OptiTask) /\ opti.state = state

OptiReturns == Return(OptiTask, {}, {}) /\ UNCHANGED <<tcp, http, req, process>>

OptiIdle ==
  /\ OptiRuns("IDLE")
  /\ OptiReturns
  /\ UNCHANGED <<opti, conn, inst>>

(* opti_server_connection_handover: the connection gets its instance.      *)
OptiHandOver ==
  /\ OptiRuns("CONNECTING")
  /\ OsiInit(opti.http_connection)
  /\ opti' = [state |-> "CONNECTED", http_connection |-> NoConn]
  /\ OptiReturns

(* No memory for the instance: http_connection is kept, its callbacks are  *)
(* never set, and the server goes down.                                    *)
OptiHandOverFails ==
  /\ "osi_init" \in Faults
  /\ OptiRuns("CONNECTING")
  /\ opti' = [opti EXCEPT !.state = "ERROR"]
  /\ OptiReturns
  /\ UNCHANGED <<conn, inst>>

OptiConnected ==
  /\ OptiRuns("CONNECTED")
  /\ opti' = [opti EXCEPT !.state = "IDLE"]
  /\ OptiReturns
  /\ UNCHANGED <<conn, inst>>

OptiError ==
  /\ OptiRuns("ERROR")
  /\ opti' = [opti EXCEPT !.state = "DISPOSING"]
  /\ OptiReturns
  /\ UNCHANGED <<conn, inst>>

(* opti_s_dispose: the servers go; connections and instances stay, also    *)
(* where the list of the instances goes. The cache handle and the meter    *)
(* store are closed here too; no state of this module is in them, for an   *)
(* instance answers with any code whether they are open or not.            *)
OptiDispose ==
  /\ http' = HttpDisposed
  /\ tcp' = TcpDisposed

OptiDisposing ==
  /\ OptiRuns("DISPOSING")
  /\ OptiDispose
  /\ Return(OptiTask, {}, ServerTasks)
  /\ UNCHANGED <<opti, conn, inst, req, process>>

OptiWork ==
  \/ OptiIdle
  \/ OptiHandOver
  \/ OptiHandOverFails
  \/ OptiConnected
  \/ OptiError
  \/ OptiDisposing

-----------------------------------------------------------------------------
(* main(): SIGINT disposes of the servers between two tasks (the handler   *)
(* may also interrupt one, which is not modelled), the round finishes and  *)
(* main() returns after disposing of them a second time.                   *)

(* Mutant: the Opti server's own task is left in the scheduler.            *)
SigintKeepsOpti ==
  /\ "sigint" \in Faults
  /\ process = "running"
  /\ process' = "stopping"
  /\ OptiDispose
  /\ tasks' = tasks \ {TcpTask, HttpTask}
  /\ pending' = pending \ {TcpTask, HttpTask}
  /\ UNCHANGED <<opti, conn, inst, req>>

Sigint ==
  /\ "sigint" \in Faults
  /\ process = "running"
  /\ process' = "stopping"
  /\ OptiDispose
  /\ tasks' = tasks \ ServerTasks
  /\ pending' = pending \ ServerTasks
  /\ UNCHANGED <<opti, conn, inst, req>>

MainReturns ==
  /\ process = "stopping"
  /\ pending = {}
  /\ process' = "exited"
  /\ OptiDispose
  /\ UNCHANGED <<opti, conn, inst, req, tasks, pending>>

(* The process is gone.                                                    *)
Ended == process \in {"crashed", "exited"} /\ UNCHANGED vars

Work == NewRound \/ TcpWork \/ HttpWork \/ OptiWork
          \/ \E c \in Conns : ConnWork(c) \/ InstWork(c)

Next == Work \/ Sigint \/ MainReturns \/ Ended

Spec == Init /\ [][Next]_vars

(* The main loop never stops calling scheduler_work.                       *)
FairSpec == Spec /\ WF_vars(Work)

-----------------------------------------------------------------------------
(* Properties.                                                             *)

ConnRecord ==
  [state : ConnPhases, retries : Nat, read : 0 .. 3, parsed : BOOLEAN,
   status : Codes \cup {0}, full_response : Codes \cup {0},
   weather_done : BOOLEAN, callback : BOOLEAN, reply : Reply \cup {NoReply}]

InstRecord == [state : InstStates \cup {"NONE", "FREED"}, endpoint : BOOLEAN]

(* Every variable holds a value of its kind, and the round under way only  *)
(* runs tasks the scheduler still holds: a destroyed task, whose object    *)
(* has been freed, is never run.                                           *)
TypeOK ==
  /\ tcp \in [state : TcpStates, client_fd : Conns \cup {NoConn}]
  /\ http \in [state : HttpStates, error_state : {"NONE", "TCP_INIT_FAILED"},
                error_retries : Nat, client_fd : Conns \cup {NoConn}]
  /\ opti \in [state : OptiStates, http_connection : Conns \cup {NoConn}]
  /\ conn \in [Conns -> ConnRecord]
  /\ inst \in [Conns -> InstRecord]
  /\ req \in [Conns -> Requests]
  /\ tasks \subseteq Task
  /\ pending \subseteq tasks
  /\ process \in {"running", "stopping", "crashed", "exited"}

(* What TypeOK rests on: a connection that is answered, or will be as soon  *)
(* as its instance says so, has a status, and a server that is about to    *)
(* hand a descriptor over holds one.                                       *)
StatusSet ==
  \A c \in Conns :
    conn[c].state \in {"RESPONDING", "WEATHER_HANDOVER"} => conn[c].status # 0

SlotsFilled ==
  /\ tcp.state = "CONNECTING" => tcp.client_fd # NoConn
  /\ http.state = "CONNECTING" => http.client_fd # NoConn

TypeInv == TypeOK /\ StatusSet /\ SlotsFilled

(* While the server runs, a client accept() returned and nobody has made   *)
(* an object for is still in one of the two descriptor slots of the chain, *)
(* and an object without callbacks is still in the third: no hand-over     *)
(* overwrites a slot the next link has not emptied.                        *)
NoLostClient ==
  process = "running" =>
    \A c \in Conns :
      /\ conn[c].state = "ACCEPTED" =>
           \/ tcp.state = "CONNECTING" /\ tcp.client_fd = c
           \/ http.state = "CONNECTING" /\ http.client_fd = c
      /\ Alive(c) /\ ~conn[c].callback =>
           opti.state = "CONNECTING" /\ opti.http_connection = c

(* No connection ever calls on_request or on_dispose before the Opti       *)
(* server has set them.                                                    *)
NoNullCall == process # "crashed"

(* Why the two hold: an invariant of the hand-over chain, of who is where  *)
(* while which task has still to run in this round.                        *)

(* Either the three servers are in service, or none of them is.            *)
ServersUpOrDown ==
  \/ /\ ServerTasks \subseteq tasks
     /\ process = "running"
     /\ http.state \in {"IDLING", "CONNECTING", "CONNECTED"}
     /\ opti.state \in {"IDLE", "CONNECTING", "CONNECTED"}
  \/ /\ ServerTasks \cap tasks = {}
     /\ tcp.state = "INITIALIZING"
     /\ http.state = "INITIALIZING"
     /\ process = "running" => opti.state = "ERROR"

(* A descriptor slot in use holds a client that has no object yet.         *)
DescriptorSlots ==
  /\ tcp.state = "CONNECTING" =>
       tcp.client_fd \in Conns /\ conn[tcp.client_fd].state = "ACCEPTED"
  /\ http.state = "CONNECTING" =>
       http.client_fd \in Conns /\ conn[http.client_fd].state = "ACCEPTED"

(* While the HTTP server has not taken its client, the listener is at most *)
(* one of its turns past the hand-over.                                    *)
HttpTakesInTime ==
  http.state = "CONNECTING" =>
    \/ tcp.state = "CONNECTED" /\ (TcpTask \in pending => HttpTask \in pending)
    \/ tcp.state = "LISTENING" /\ TcpTask \notin pending /\ HttpTask \in pending

(* While the Opti server has not taken its connection, no other client can *)
(* reach the HTTP server before it does.                                   *)
OptiTakesInTime ==
  process = "running" /\ opti.state = "CONNECTING" =>
    /\ http.state # "CONNECTING"
    /\ tcp.state = "LISTENING" /\ TcpTask \in pending => OptiTask \in pending
    /\ tcp.state = "CONNECTING" => TcpTask \notin pending /\ OptiTask \in pending

(* A connection without callbacks has gone at most one state past the      *)
(* first line, and no further in this round.                               *)
ConnWaitsInTime ==
  \A c \in Conns :
    Alive(c) /\ ~conn[c].callback =>
      \/ conn[c].state = "INITIALIZING"
      \/ /\ conn[c].state = "READING_FIRSTLINE"
         /\ process = "running" /\ ConnTask(c) \in pending => OptiTask \in pending
      \/ /\ conn[c].state \in {"READING_HEADERS", "RESPONDING", "ERROR"}
         /\ ConnTask(c) \notin pending
         /\ process = "running" => OptiTask \in pending

HandOverInv ==
  /\ NoNullCall
  /\ NoLostClient
  /\ ServersUpOrDown
  /\ DescriptorSlots
  /\ HttpTakesInTime
  /\ OptiTakesInTime
  /\ ConnWaitsInTime

(* The scheduler runs the task of a connection exactly as long as the      *)
(* object lives, and never that of an instance that was freed or whose     *)
(* connection (which the instance task writes to) was.                     *)
TasksOwnLiveObjects ==
  \A c \in Conns :
    /\ ConnTask(c) \in tasks <=> Alive(c)
    /\ InstTask(c) \in tasks => InstAlive(c) /\ Alive(c) /\ conn[c].callback
    /\ InstAlive(c) => Alive(c)

(* A connection that waits for its instance is never left without one that *)
(* can still set weather_done.                                             *)
WaiterHasWorker ==
  \A c \in Conns :
    conn[c].state = "WEATHER_HANDOVER" /\ ~conn[c].weather_done =>
      /\ InstTask(c) \in tasks
      /\ inst[c].state \in {"INITIALIZING", "REQUEST_PARSING",
                            "RESPONSE_BUILDING"}

(* A request the server can serve: well formed, and received whole.        *)
Servable(c) ==
  /\ req[c].line = "ok"
  /\ req[c].method_ok
  /\ req[c].headers # "bad"
  /\ conn[c].read >= 2
  /\ req[c].headers = "ok" /\ req[c].body => conn[c].read = 3

(* The server answers 200 only to a request that is well formed and that   *)
(* it has received whole: with the response an endpoint built, to a request *)
(* that names one, or with nothing but the reason phrase, to "api/v1/echo", *)
(* which worktask_request_validate takes for the echo and worktask_respond *)
(* does not.  The echo itself is the exception of the code: it is sent for *)
(* "/echo" without a look at the status.                                   *)
OkOnlyIfServableButEcho ==
  \A c \in Conns :
    conn[c].reply.status = 200 /\ conn[c].reply.body # "echo" =>
      /\ Servable(c)
      /\ \/ req[c].route = "endpoint" /\ conn[c].reply.body = "full"
         \/ req[c].route = "api/v1/echo" /\ conn[c].reply.body = "reason"

(* Once interrupted, the server takes no client any further: nobody is     *)
(* accepted, made an object for, or given an instance.                     *)
StopsTaking ==
  [][process = "stopping" =>
       \A c \in Conns :
         /\ conn[c].state \in {"ABSENT", "ACCEPTED"} => conn'[c] = conn[c]
         /\ ~InstAlive(c) => inst'[c] = inst[c]]_vars

(* Every client that was accepted is served to the end, however little it  *)
(* sends and however slowly: the retry counter is there for that.          *)
EveryClientServed ==
  \A c \in Conns : conn[c].state = "ACCEPTED" ~> conn[c].state = "FREED"

(* The server implements RequestService: what a client sees of its record. *)
PhaseOf(r) ==
  CASE r.state = "ABSENT" -> "away"
    [] r.state = "REFUSED" -> "refused"
    [] r.state = "FREED" -> "closed"
    [] r.state \in ConnStates /\ r.reply # NoReply -> "answered"
    [] OTHER -> "accepted"

RS == INSTANCE RequestService
        WITH Clients <- Conns, Replies <- Reply, NoAnswer <- NoReply,
             MayRefuse <- "conn_init" \in Faults,
             client <- [c \in Conns |-> PhaseOf(conn[c])],
             answer <- [c \in Conns |-> conn[c].reply]

ImplementsService == RS!Service
ImplementsFairService == RS!FairService
=============================================================================
