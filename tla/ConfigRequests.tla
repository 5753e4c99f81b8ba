--------------------------- MODULE ConfigRequests ---------------------------
(***************************************************************************)
(* optiserver's requests to the optimizer, composed with the daemon: POST  *)
(* /config writes the facility file and asks for a reload and a run by     *)
(* signals and over the socket, /recalc and the start of optiserver over   *)
(* the socket alone, /kill asks the daemon to end.                         *)
(*                                                                         *)
(* optiserver serves its endpoints one at a time; between any two steps of *)
(* one the daemon may have moved on.                                       *)
(***************************************************************************)
EXTENDS OptimizerDaemon

VARIABLES
  client,  \* the request under way and the step it has reached
  answered \* the last request, if a POST or recalc answered 200

vars == <<daemonVars, client, answered>>

(* Mutants: the daemon is told before the file is written, is told to run  *)
(* before it is told to reload, or is told to run by the signal alone.     *)
StepsTellFirst ==
  [start  |-> <<"reload", "run">>, recalc |-> <<"reload", "run">>,
   kill   |-> <<"kill">>,
   post   |-> <<"open", "USR2", "reload", "run", "USR1", "save">>]
StepsRunFirst ==
  [start  |-> <<"reload", "run">>, recalc |-> <<"reload", "run">>,
   kill   |-> <<"kill">>,
   post   |-> <<"open", "save", "USR2", "run", "reload", "USR1">>]
StepsSignalOnly ==
  [start  |-> <<"reload", "run">>, recalc |-> <<"reload", "run">>,
   kill   |-> <<"kill">>,
   post   |-> <<"open", "save", "USR2", "reload", "USR1">>]

(* What each request does, step by step.                                   *)
Steps ==
  [start  |-> <<"reload", "run">>,
   recalc |-> <<"reload", "run">>,
   kill   |-> <<"kill">>,
   post   |-> <<"open", "save", "USR2", "reload", "run", "USR1">>]

Idle     == [op |-> "none", step |-> 1, connected |-> FALSE]
Restarts == client' = [Idle EXCEPT !.op = "start"] /\ answered' = "none"

Init ==
  /\ InitDaemon
  /\ client = [Idle EXCEPT !.op = "start"]
  /\ answered = "none"

Doing(step) ==
  /\ client.op \in DOMAIN Steps
  /\ Steps[client.op][client.step] = step

Answers(code) ==
  /\ client' = Idle
  /\ answered' = IF code = 200 /\ client.op \in {"post", "recalc"} THEN client.op ELSE "none"

GoesOn ==
  IF client.step = Len(Steps[client.op])
  THEN Answers(200)
  ELSE /\ client' = [client EXCEPT !.step = @ + 1, !.connected = FALSE]
       /\ UNCHANGED answered

(* What was lost before the request does not matter to it.                 *)
StartsHistory == ran' = FALSE /\ lost' = {}

Request(op) ==
  /\ client = Idle
  /\ client' = [Idle EXCEPT !.op = op]
  /\ answered' = "none"
  /\ StartsHistory
  /\ UNCHANGED <<file, daemon, flags, conf, dirs, socket, reported>>

-----------------------------------------------------------------------------
(* osi_post_config: the file is truncated when it is opened ...            *)
Open ==
  /\ Doing("open")
  /\ file' = NoConfig
  /\ GoesOn
  /\ UNCHANGED <<daemon, flags, conf, dirs, socket, reported, history>>

(* (unless the request is rejected first, or the file cannot be opened)    *)
Rejected ==
  /\ Doing("open")
  /\ \E code \in {400, 503} : Answers(code)
  /\ UNCHANGED daemonVars

(* ... and complete when it is closed.                                     *)
Save ==
  /\ Doing("save")
  /\ file' \in Configs
  /\ StartsHistory
  /\ GoesOn
  /\ UNCHANGED <<daemon, flags, conf, dirs, socket, reported>>

SaveFails ==
  /\ "disk" \in Faults
  /\ Doing("save")
  /\ Answers(503)
  /\ UNCHANGED daemonVars

(* system("pkill ...") succeeds when there is a process to signal.         *)
Tell(s) ==
  /\ Doing(s)
  /\ Signal(s)
  /\ GoesOn

TellFails(s) ==
  /\ Doing(s)
  /\ At("down")
  /\ Answers(503)
  /\ UNCHANGED daemonVars

-----------------------------------------------------------------------------
(* uds_client_send: connect() succeeds while the queue has room, ...       *)

HasRoom == listening /\ Len(queue) <= Backlog

Connect(command) ==
  /\ Doing(command) /\ ~client.connected
  /\ HasRoom
  /\ queue' = Append(queue, "empty")
  /\ client' = [client EXCEPT !.connected = TRUE]
  /\ UNCHANGED <<file, daemon, flags, conf, dirs, listening, peer, reported,
                 history, answered>>

(* ... a request answers its failure with 500, POST and the start of       *)
(* optiserver do not look at it.                                           *)
Refused(command) ==
  /\ Doing(command) /\ ~client.connected
  /\ ~HasRoom
  /\ lost' = lost \cup ({command} \cap Triggers)
  /\ IF client.op \in {"recalc", "kill"} THEN Answers(500) ELSE GoesOn
  /\ UNCHANGED <<file, daemon, flags, conf, dirs, socket, reported, ran>>

(* This client's connection is the last in the queue, or accepted.         *)
InQueue == queue # <<>> /\ queue[Len(queue)] = "empty"

Write(command) ==
  /\ Doing(command) /\ client.connected
  /\ IF InQueue
     THEN queue' = [queue EXCEPT ![Len(queue)] = command] /\ UNCHANGED peer
     ELSE At("accepted") /\ peer = "empty" /\ peer' = command /\ UNCHANGED queue
  /\ GoesOn
  /\ UNCHANGED <<file, daemon, flags, conf, dirs, listening, reported, history>>

(* The daemon has found nothing to read: what is written now is closed     *)
(* unread.  Once it is closed, write() raises SIGPIPE, whose disposition   *)
(* nothing in the repository sets; its result is ignored if it returns.    *)
WriteLate(command) ==
  /\ Doing(command) /\ client.connected
  /\ ~InQueue
  /\ \/ At("closing") /\ peer = "empty" /\ GoesOn
     \/ peer # "empty" /\ (GoesOn \/ Restarts)
  /\ lost' = lost \cup ({command} \cap {"reload"})
  /\ UNCHANGED <<file, daemon, flags, conf, dirs, socket, reported, ran>>

-----------------------------------------------------------------------------
Server ==
  \/ Open \/ Rejected \/ Save \/ SaveFails
  \/ \E s \in {"USR1", "USR2"} : Tell(s) \/ TellFails(s)
  \/ \E command \in Commands :
       \/ Connect(command) \/ Refused(command)
       \/ Write(command) \/ WriteLate(command)

Next ==
  \/ Daemon /\ UNCHANGED <<client, answered>>
  \/ (Crash \/ Operator) /\ UNCHANGED <<client, answered>>
  \/ Server
  \/ \E op \in {"post", "recalc", "kill"} : Request(op)

Spec == Init /\ [][Next]_vars

(* Both processes keep running, and a run and a reload come to their end.  *)
FairSpec ==
  /\ Spec
  /\ WF_vars(Daemon /\ UNCHANGED <<client, answered>>)
  /\ WF_vars(Server)

-----------------------------------------------------------------------------
(* Properties.                                                             *)

(* Every variable holds a value of its kind; an accepted connection is     *)
(* held exactly between accept() and close() (main.c:73-120), and only a   *)
(* run or a reload answers to something.                                   *)
TypeOK ==
  /\ {file, conf, reported} \subseteq Configs \cup {NoConfig}
  /\ daemon \in [at : Places,
                 by : {"none", "USR1", "USR2", "timer", "socket"}]
  /\ daemon.by = "none" <=> daemon.at \notin {"run", "reload"}
  /\ flags \subseteq Signals
  /\ dirs \in {"NULL", "set", "freed"}
  /\ listening \in BOOLEAN
  /\ queue \in Seq(Commands \cup {"empty"})
  /\ peer \in Commands \cup {"none", "empty"}
  /\ peer = "none" <=> daemon.at \notin {"accepted", "closing"}
  /\ ran \in BOOLEAN
  /\ lost \subseteq Triggers
  /\ client \in [op : DOMAIN Steps \cup {"none"}, step : Nat, connected : BOOLEAN]
  /\ client.op \in DOMAIN Steps => client.step \in DOMAIN Steps[client.op]
  /\ answered \in {"post", "recalc", "none"}

Answered(op) == client = Idle /\ answered = op

(* The daemon will read this command.                                      *)
Queued(command) ==
  \/ \E i \in DOMAIN queue : queue[i] = command
  \/ At("accepted") /\ peer = command

(* A flag the loop will act on: one set during the work it asks for is     *)
(* cleared with it.                                                        *)
WillReload == "USR2" \in flags /\ ~(At("reload") /\ daemon.by = "USR2")
WillRun    == "USR1" \in flags /\ ~(At("run") /\ daemon.by # "socket")

(* After a POST /config or /recalc answered 200 the daemon has the saved   *)
(* config or has still to read it, unless the socket lost the reload: the  *)
(* flag a reload in progress clears is made up for by the command.         *)
ConfigIsOnItsWay ==
  Answered("post") \/ Answered("recalc") =>
    \/ conf = file
    \/ WillReload
    \/ Queued("reload")
    \/ "reload" \in lost

(* After a POST /config answered 200 a run has begun since the save, or    *)
(* will: even when the socket drops the command, for then the signal finds *)
(* no run that began before the save.                                      *)
RunIsOnItsWay ==
  Answered("post") => ran \/ WillRun \/ Queued("run") \/ "run" \in lost

(* GET /recalc "triggers a config reload and full recalculation": after a  *)
(* 200 a run has begun or will, while the daemon lives and its queue has   *)
(* room.                                                                   *)
RecalcTriggersRun ==
  Answered("recalc") => ran \/ WillRun \/ Queued("run") \/ "run" \in lost

(* A config saved by a POST answered 200 is reported on, unless a later    *)
(* POST truncates the file, the socket loses a command, a reload or a run  *)
(* fails, or the daemon is interrupted for ever (an ignored SIGINT takes   *)
(* the turn of a signal).                                                  *)
SavedIsReported ==
  <>[]("INT" \notin flags) =>
    (Answered("post") ~> reported = file \/ file = NoConfig \/ lost # {})
=============================================================================
