------------------------ MODULE ConfigRequestsProofs ------------------------
(***************************************************************************)
(* What holds of optiserver's requests to the daemon for every set of      *)
(* configs, every backlog and every combination of faults: the types, and  *)
(* that what a POST or recalc answered 200 asked for is on its way.        *)
(***************************************************************************)
EXTENDS ConfigRequests, TLAPS

-----------------------------------------------------------------------------
(* Queues of connections.                                                  *)

Messages == Commands \cup {"empty"}

Waits(q, command) == \E i \in DOMAIN q : q[i] = command

(* What waits goes on waiting when a connection is added ...               *)
LEMMA AppendKeeps ==
  ASSUME NEW q \in Seq(Messages), NEW m \in Messages, NEW command,
         Waits(q, command)
  PROVE  Waits(Append(q, m), command)
BY DEF Waits

(* ... is the one that is accepted, or goes on waiting, ...                *)
LEMMA TailKeeps ==
  ASSUME NEW q \in Seq(Messages), q # <<>>
  PROVE  /\ Head(q) \in Messages
         /\ Tail(q) \in Seq(Messages)
         /\ \A command : Waits(q, command) => Head(q) = command \/ Waits(Tail(q), command)
<1>1. Head(q) = q[1] /\ Head(q) \in Messages /\ Tail(q) \in Seq(Messages)
  OBVIOUS
<1>2. ASSUME NEW command, NEW i \in DOMAIN q, q[i] = command, i # 1
      PROVE  Waits(Tail(q), command)
  <2>1. i - 1 \in DOMAIN Tail(q) /\ Tail(q)[i - 1] = q[i]
    BY <1>2
  <2>2. QED BY <1>2, <2>1 DEF Waits
<1>3. QED BY <1>1, <1>2 DEF Waits

(* ... and is not what a client writes over.                               *)
LEMMA WriteKeeps ==
  ASSUME NEW q \in Seq(Messages), NEW m \in Messages,
         q # <<>>, q[Len(q)] = "empty"
  PROVE  LET written == [q EXCEPT ![Len(q)] = m]
         IN  /\ written \in Seq(Messages)
             /\ Waits(written, m)
             /\ \A command \in Commands : Waits(q, command) => Waits(written, command)
<1> DEFINE written == [q EXCEPT ![Len(q)] = m]
<1>1. Len(q) \in DOMAIN q /\ DOMAIN written = DOMAIN q /\ Len(q) \in Nat
  OBVIOUS
<1>2. written \in Seq(Messages)
  OBVIOUS
<1>3. written[Len(q)] = m /\ \A i \in DOMAIN q : i # Len(q) => written[i] = q[i]
  BY <1>1
<1>4. \A command \in Commands : command # "empty"
  BY DEF Commands, Triggers
<1>5. QED BY <1>1, <1>2, <1>3, <1>4 DEF Waits

-----------------------------------------------------------------------------
(* Type correctness.                                                       *)

(* What the steps of a request are.                                        *)
LEMMA StepsOf ==
  /\ DOMAIN Steps = {"start", "recalc", "kill", "post"}
  /\ Steps["start"] = <<"reload", "run">> /\ Steps["recalc"] = <<"reload", "run">>
  /\ Steps["kill"] = <<"kill">>
  /\ Steps["post"] = <<"open", "save", "USR2", "reload", "run", "USR1">>
BY DEF Steps

LEMMA StepsTyped ==
  /\ Len(Steps["start"]) = 2 /\ Len(Steps["recalc"]) = 2
  /\ Len(Steps["kill"]) = 1  /\ Len(Steps["post"]) = 6
  /\ DOMAIN Steps["start"] = 1..2 /\ DOMAIN Steps["recalc"] = 1..2
  /\ DOMAIN Steps["kill"] = 1..1  /\ DOMAIN Steps["post"] = 1..6
<1>1. Len(Steps["start"]) = 2 /\ DOMAIN Steps["start"] = 1..2
  BY StepsOf
<1>2. Len(Steps["recalc"]) = 2 /\ DOMAIN Steps["recalc"] = 1..2
  BY StepsOf
<1>3. Len(Steps["kill"]) = 1 /\ DOMAIN Steps["kill"] = 1..1
  BY StepsOf
<1>4. Len(Steps["post"]) = 6 /\ DOMAIN Steps["post"] = 1..6
  BY StepsOf
<1>5. QED BY <1>1, <1>2, <1>3, <1>4

(* Which request is at a step.                                             *)
LEMMA StepsAt ==
  ASSUME NEW op \in DOMAIN Steps, NEW i \in DOMAIN Steps[op]
  PROVE  /\ Steps[op][i] = "open" <=> op = "post" /\ i = 1
         /\ Steps[op][i] = "save" <=> op = "post" /\ i = 2
         /\ Steps[op][i] = "USR2" <=> op = "post" /\ i = 3
         /\ Steps[op][i] = "USR1" <=> op = "post" /\ i = 6
         /\ Steps[op][i] = "reload" <=>
              (op = "post" /\ i = 4) \/ (op \in {"start", "recalc"} /\ i = 1)
         /\ Steps[op][i] = "run" <=>
              (op = "post" /\ i = 5) \/ (op \in {"start", "recalc"} /\ i = 2)
         /\ Steps[op][i] = "kill" <=> op = "kill"
<1>1. CASE op = "post"
  <2>1. i \in 1..6
    BY <1>1, StepsTyped
  <2>2. Steps[op] = <<"open", "save", "USR2", "reload", "run", "USR1">>
    BY <1>1, StepsOf
  <2>3. QED BY <1>1, <2>1, <2>2
<1>2. CASE op \in {"start", "recalc"}
  <2>1. i \in 1..2
    BY <1>2, StepsTyped
  <2>2. Steps[op] = <<"reload", "run">>
    BY <1>2, StepsOf
  <2>3. QED BY <1>2, <2>1, <2>2
<1>3. CASE op = "kill"
  BY <1>3, StepsOf, StepsTyped
<1>4. QED BY <1>1, <1>2, <1>3, StepsOf

ClientOK ==
  /\ client \in [op : DOMAIN Steps \cup {"none"}, step : Nat, connected : BOOLEAN]
  /\ client.op \in DOMAIN Steps => client.step \in DOMAIN Steps[client.op]
  /\ answered \in {"post", "recalc", "none"}

DaemonOK ==
  /\ {file, conf, reported} \subseteq Configs \cup {NoConfig}
  /\ daemon \in [at : Places,
                 by : {"none", "USR1", "USR2", "timer", "socket"}]
  /\ daemon.by = "none" <=> daemon.at \notin {"run", "reload"}
  /\ flags \subseteq Signals
  /\ dirs \in {"NULL", "set", "freed"}
  /\ listening \in BOOLEAN
  /\ queue \in Seq(Commands \cup {"empty"})
  /\ peer \in Commands \cup {"none", "empty"}
  /\ peer = "none" <=> daemon.at \notin {"accepted", "closing"}
  /\ ran \in BOOLEAN
  /\ lost \subseteq Triggers

LEMMA TypeParts == TypeOK <=> DaemonOK /\ ClientOK
BY DEF TypeOK, DaemonOK, ClientOK

LEMMA GoesTyped ==
  ASSUME NEW place \in Places,
         NEW by \in {"none", "USR1", "USR2", "timer", "socket"},
         Goes(place, by)
  PROVE  /\ daemon'.at = place /\ daemon'.by = by
         /\ daemon' \in [at : Places, by : {"none", "USR1", "USR2", "timer", "socket"}]
BY DEF Goes

(* The end of the process.                                                 *)
LEMMA StopsTyped ==
  ASSUME DaemonOK, Stops
  PROVE  DaemonOK'
<1>1. daemon'.at = "down" /\ daemon'.by = "none"
      /\ daemon' \in [at : Places, by : {"none", "USR1", "USR2", "timer", "socket"}]
  BY GoesTyped DEF Stops, Places
<1>2. queue' \in Seq(Commands \cup {"empty"}) /\ peer' = "none" /\ flags' = {}
  BY DEF Stops
<1>3. QED BY <1>1, <1>2 DEF DaemonOK, Stops

LEMMA SignalTyped ==
  ASSUME DaemonOK, NEW s \in Signals, Signal(s)
  PROVE  DaemonOK'
<1>1. CASE daemon.at \in Starting /\ Stops
  BY <1>1, StopsTyped
<1>2. CASE daemon.at \notin Starting
  BY <1>2 DEF Signal, DaemonOK, socket, history
<1>3. QED BY <1>1, <1>2 DEF Signal

(* The steps of the daemon.                                                *)
LEMMA DaemonTyped ==
  ASSUME DaemonOK, Daemon \/ Crash \/ Operator
  PROVE  DaemonOK'
<1> USE DEF At
<1>a. ASSUME NEW place \in Places, NEW by \in {"none", "USR1", "USR2", "timer", "socket"},
             Goes(place, by),
             by = "none" <=> place \notin {"run", "reload"},
             peer' = "none" <=> place \notin {"accepted", "closing"},
             peer' \in Commands \cup {"none", "empty"},
             queue' \in Seq(Commands \cup {"empty"}),
             {file', conf', reported'} \subseteq Configs \cup {NoConfig},
             flags' \subseteq Signals, dirs' \in {"NULL", "set", "freed"},
             listening' \in BOOLEAN, ran' \in BOOLEAN, lost' \subseteq Triggers
      PROVE  DaemonOK'
  BY <1>a, GoesTyped DEF DaemonOK
<1>b. {"init", "listen", "install", "down", "top", "run", "reload", "poll",
       "accepted", "closing"} \subseteq Places
  BY DEF Places, Starting
<1>c. /\ {file, conf, reported} \subseteq Configs \cup {NoConfig}
      /\ flags \subseteq Signals /\ dirs \in {"NULL", "set", "freed"}
      /\ listening \in BOOLEAN /\ ran \in BOOLEAN /\ lost \subseteq Triggers
      /\ peer \in Commands \cup {"none", "empty"}
      /\ queue \in Seq(Commands \cup {"empty"})
      /\ peer = "none" <=> daemon.at \notin {"accepted", "closing"}
      /\ daemon.by \in {"none", "USR1", "USR2", "timer", "socket"}
      /\ daemon.by = "none" <=> daemon.at \notin {"run", "reload"}
  BY DEF DaemonOK
<1>d. {"none", "empty"} \cap Commands = {}
  BY DEF Commands, Triggers
<1>1. CASE Start
  BY <1>1, <1>a, <1>b, <1>c DEF Start, socket, history
<1>2. CASE Configure
  BY <1>2, <1>a, <1>b, <1>c DEF Configure, LoadsConfig, socket, history
<1>3. CASE Listen \/ Install
  BY <1>3, <1>a, <1>b, <1>c DEF Listen, Install, socket, history
<1>4. CASE ConfigureFails \/ Exit \/ ServeKill \/ DanglingCrash \/ Crash
  BY <1>4, StopsTyped DEF ConfigureFails, Exit, ServeKill, DanglingCrash, Crash
<1>5. CASE Ignore \/ Quiet
  BY <1>5, <1>a, <1>b, <1>c DEF Ignore, Quiet, Handles, socket, history
<1>6. CASE NewData \/ Timer
  BY <1>6, <1>a, <1>b, <1>c DEF NewData, Timer, Handles, StartRun, socket, history
<1>7. CASE UpdateConfig
  <2>1. {conf'} \subseteq Configs \cup {NoConfig} /\ dirs' \in {"NULL", "set", "freed"}
        /\ ran' \in BOOLEAN /\ lost' \subseteq Triggers
    BY <1>7, <1>c DEF UpdateConfig, StartReload, LoadsConfig, FailsToLoad, history, Triggers
  <2>2. QED BY <1>7, <2>1, <1>a, <1>b, <1>c DEF UpdateConfig, Handles, StartReload, socket
<1>8. CASE NothingWaits
  BY <1>8, <1>a, <1>b, <1>c DEF NothingWaits, socket, history
<1>9. CASE AcceptFails
  <2>1. queue' \in Seq(Commands \cup {"empty"}) /\ lost' \subseteq Triggers
    BY <1>9, <1>c DEF AcceptFails
  <2>2. QED BY <1>9, <2>1, <1>a, <1>b, <1>c DEF AcceptFails
<1>10. CASE Accept
  <2>1. peer' \in Messages /\ queue' \in Seq(Messages)
    BY <1>10, <1>c, TailKeeps DEF Accept, Messages
  <2>2. QED BY <1>10, <2>1, <1>a, <1>b, <1>c, <1>d DEF Accept, Messages, history
<1>11. CASE NothingToRead \/ Close
  BY <1>11, <1>a, <1>b, <1>c DEF NothingToRead, Close, socket, history
<1>12. CASE ServeRun
  BY <1>12, <1>a, <1>b, <1>c DEF ServeRun, Serves, StartRun
<1>13. CASE ServeReload
  <2>1. {conf'} \subseteq Configs \cup {NoConfig} /\ dirs' \in {"NULL", "set", "freed"}
        /\ ran' \in BOOLEAN /\ lost' \subseteq Triggers
    BY <1>13, <1>c DEF ServeReload, StartReload, LoadsConfig, FailsToLoad, history, Triggers
  <2>2. QED BY <1>13, <2>1, <1>a, <1>b, <1>c DEF ServeReload, Serves, StartReload
<1>14. CASE EndReload \/ EndRun \/ RunFails
  <2>1. daemon.at \in {"run", "reload"} /\ lost' \subseteq Triggers
        /\ {reported'} \subseteq Configs \cup {NoConfig}
    BY <1>14, <1>c DEF EndReload, EndRun, RunFails, EndsRun, Triggers
  <2>2. PICK cleared : Returns(cleared)
    BY <1>14 DEF EndReload, EndRun, RunFails, EndsRun
  <2>3. QED BY <2>1, <2>2, <1>a, <1>b, <1>c DEF Returns, socket
<1>16. CASE Operator
  BY <1>16, SignalTyped DEF Operator, Signals
<1>17. QED
  BY <1>1, <1>2, <1>3, <1>4, <1>5, <1>6, <1>7, <1>8, <1>9, <1>10, <1>11,
     <1>12, <1>13, <1>14, <1>16 DEF Daemon, Loop

LEMMA AnswersTyped ==
  ASSUME ClientOK, NEW code, Answers(code)
  PROVE  ClientOK'
<1>1. client' = Idle /\ answered' \in {"post", "recalc", "none"}
  BY DEF Answers
<1>2. "none" \notin DOMAIN Steps
  BY StepsOf
<1>3. QED BY <1>1, <1>2 DEF ClientOK, Idle

(* A request goes on to its next step, or is answered.                     *)
LEMMA GoesOnTyped ==
  ASSUME ClientOK, client.op \in DOMAIN Steps, GoesOn
  PROVE  ClientOK'
<1>0. client.op \in {"start", "recalc", "kill", "post"}
  BY StepsOf
<1>1. CASE client.step = Len(Steps[client.op])
  BY <1>1, AnswersTyped DEF GoesOn
<1>2. CASE client.step # Len(Steps[client.op])
  <2>1. /\ client' = [client EXCEPT !.step = @ + 1, !.connected = FALSE]
        /\ answered' = answered
    BY <1>2 DEF GoesOn
  <2>2. client.step + 1 \in DOMAIN Steps[client.op]
    <3>1. client.step \in DOMAIN Steps[client.op]
      BY DEF ClientOK
    <3>2. CASE client.op = "post"
      BY <1>2, <3>1, <3>2, StepsTyped
    <3>3. CASE client.op \in {"start", "recalc"}
      BY <1>2, <3>1, <3>3, StepsTyped
    <3>4. CASE client.op = "kill"
      BY <1>2, <3>1, <3>4, StepsTyped
    <3>5. QED BY <1>0, <3>2, <3>3, <3>4
  <2>3. /\ client' \in [op : DOMAIN Steps \cup {"none"}, step : Nat, connected : BOOLEAN]
        /\ client'.op = client.op /\ client'.step = client.step + 1
    <3> DEFINE Ops == DOMAIN Steps \cup {"none"}
    <3>1. client \in [op : Ops, step : Nat, connected : BOOLEAN]
      BY DEF ClientOK
    <3> HIDE DEF Ops
    <3>2. client' = [op |-> client.op, step |-> client.step + 1, connected |-> FALSE]
      BY <2>1, <3>1
    <3>3. client.op \in Ops /\ client.step + 1 \in Nat
      BY <3>1
    <3>4. QED BY <3>2, <3>3 DEF Ops
  <2>4. QED BY <2>1, <2>2, <2>3 DEF ClientOK
<1>3. QED BY <1>1, <1>2

(* The steps of optiserver.                                                *)
LEMMA ServerTyped ==
  ASSUME DaemonOK, ClientOK,
         Server \/ \E op \in {"post", "recalc", "kill"} : Request(op)
  PROVE  DaemonOK' /\ ClientOK'
<1> USE DEF Doing
<1>1. ASSUME NEW op \in {"post", "recalc", "kill"}, Request(op)
      PROVE  DaemonOK' /\ ClientOK'
  <2>1. client' = [op |-> op, step |-> 1, connected |-> FALSE] /\ answered' = "none"
    BY <1>1 DEF Request, Idle
  <2>4. ClientOK'
    BY <2>1, StepsOf, StepsTyped DEF ClientOK
  <2>2. DaemonOK'
    BY <1>1 DEF Request, StartsHistory, DaemonOK, socket, Triggers
  <2>3. QED BY <2>2, <2>4
<1>2. CASE Open \/ Save
  <2>1. ClientOK'
    BY <1>2, GoesOnTyped DEF Open, Save
  <2>2. DaemonOK'
    BY <1>2 DEF Open, Save, StartsHistory, DaemonOK, socket, history, Triggers
  <2>3. QED BY <2>1, <2>2
<1>3. CASE Rejected \/ SaveFails
  <2>1. ClientOK'
    BY <1>3, AnswersTyped DEF Rejected, SaveFails
  <2>2. DaemonOK'
    BY <1>3 DEF Rejected, SaveFails, daemonVars, socket, history, DaemonOK
  <2>3. QED BY <2>1, <2>2
<1>4. ASSUME NEW s \in {"USR1", "USR2"}, Tell(s) \/ TellFails(s)
      PROVE  DaemonOK' /\ ClientOK'
  <2>1. CASE Tell(s)
    BY <1>4, <2>1, GoesOnTyped, SignalTyped DEF Tell, Signals
  <2>2. CASE TellFails(s)
    <3>1. ClientOK'
      BY <2>2, AnswersTyped DEF TellFails
    <3>2. DaemonOK'
      BY <2>2 DEF TellFails, daemonVars, socket, history, DaemonOK
    <3>3. QED BY <3>1, <3>2
  <2>3. QED BY <1>4, <2>1, <2>2
<1>5. ASSUME NEW command \in Commands, Connect(command)
      PROVE  DaemonOK' /\ ClientOK'
  <2>1. ClientOK'
    BY <1>5 DEF Connect, ClientOK
  <2>2. queue' \in Seq(Commands \cup {"empty"})
    BY <1>5 DEF Connect, DaemonOK
  <2>3. DaemonOK'
    BY <1>5, <2>2 DEF Connect, DaemonOK, history
  <2>4. QED BY <2>1, <2>3
<1>6. ASSUME NEW command \in Commands, Refused(command)
      PROVE  DaemonOK' /\ ClientOK'
  <2>1. ClientOK'
    BY <1>6, AnswersTyped, GoesOnTyped DEF Refused
  <2>2. DaemonOK'
    BY <1>6 DEF Refused, DaemonOK, socket
  <2>3. QED BY <2>1, <2>2
<1>7. ASSUME NEW command \in Commands, Write(command)
      PROVE  DaemonOK' /\ ClientOK'
  <2>1. ClientOK'
    BY <1>7, GoesOnTyped DEF Write
  <2>2. CASE InQueue
    <3>1. queue' \in Seq(Messages) /\ peer' = peer
      BY <1>7, <2>2, WriteKeeps DEF Write, InQueue, DaemonOK, Messages
    <3>2. QED BY <1>7, <2>1, <3>1 DEF Write, DaemonOK, Messages, history
  <2>3. CASE ~InQueue
    <3>1. At("accepted") /\ peer' = command /\ queue' = queue
      BY <1>7, <2>3 DEF Write
    <3>2. command \notin {"none", "empty"}
      BY DEF Commands, Triggers
    <3>3. QED BY <1>7, <2>1, <3>1, <3>2 DEF Write, DaemonOK, At, history
  <2>4. QED BY <2>2, <2>3
<1>8. ASSUME NEW command \in Commands, WriteLate(command)
      PROVE  DaemonOK' /\ ClientOK'
  <2>1. ClientOK'
    <3>1. CASE GoesOn
      BY <1>8, <3>1, GoesOnTyped DEF WriteLate
    <3>2. CASE Restarts
      <4>1. client' = [op |-> "start", step |-> 1, connected |-> FALSE] /\ answered' = "none"
        BY <3>2 DEF Restarts, Idle
      <4>2. QED BY <4>1, StepsOf, StepsTyped DEF ClientOK
    <3>3. QED BY <1>8, <3>1, <3>2 DEF WriteLate
  <2>2. DaemonOK'
    BY <1>8 DEF WriteLate, DaemonOK, socket, Triggers
  <2>3. QED BY <2>1, <2>2
<1>9. QED
  BY <1>1, <1>2, <1>3, <1>4, <1>5, <1>6, <1>7, <1>8 DEF Server

LEMMA TypeInit == Init => TypeOK
<1> SUFFICES ASSUME Init PROVE TypeOK
  OBVIOUS
<1>1. client = [op |-> "start", step |-> 1, connected |-> FALSE] /\ answered = "none"
  BY DEF Init, Idle
<1>2. ClientOK
  BY <1>1, StepsOf, StepsTyped DEF ClientOK
<1>3. daemon \in [at : Places, by : {"none", "USR1", "USR2", "timer", "socket"}]
  BY DEF Init, InitDaemon, Places
<1>4. queue \in Seq(Commands \cup {"empty"})
  BY DEF Init, InitDaemon
<1>5. DaemonOK
  BY <1>3, <1>4 DEF Init, InitDaemon, DaemonOK
<1>6. QED BY <1>2, <1>5, TypeParts

LEMMA TypeStep == TypeOK /\ [Next]_vars => TypeOK'
<1> SUFFICES ASSUME TypeOK, [Next]_vars PROVE TypeOK'
  OBVIOUS
<1>1. DaemonOK /\ ClientOK
  BY TypeParts
<1>2. CASE (Daemon \/ Crash \/ Operator) /\ UNCHANGED <<client, answered>>
  BY <1>1, <1>2, DaemonTyped, TypeParts DEF ClientOK, TypeOK, DaemonOK
<1>3. CASE Server \/ \E op \in {"post", "recalc", "kill"} : Request(op)
  BY <1>1, <1>3, ServerTyped DEF TypeOK, DaemonOK, ClientOK
<1>4. CASE UNCHANGED vars
  BY <1>4 DEF vars, daemonVars, socket, history, TypeOK
<1>5. QED BY <1>2, <1>3, <1>4 DEF Next

(* Every variable of the daemon and of the request always holds a value of *)
(* its kind, and a connection is held exactly between accept() and close().*)
THEOREM TypeCorrect == Spec => []TypeOK
BY TypeInit, TypeStep, PTL DEF Spec

-----------------------------------------------------------------------------
(* What a POST or recalc asked for is on its way.                          *)

ConfigAsked == conf = file \/ WillReload \/ Queued("reload") \/ "reload" \in lost
RunAsked    == ran \/ WillRun \/ Queued("run") \/ "run" \in lost

(* The command that follows the signal makes up for a reload that is under *)
(* way, so the config is asked for from that command on.                   *)
ConfigInv ==
  \/ client.op = "post" /\ client.step \in {5, 6}
  \/ client.op = "recalc" /\ client.step = 2
  \/ Answered("post") \/ Answered("recalc")
  => ConfigAsked

(* A run that began before the save clears the signal; but the daemon that *)
(* is in it has not accepted the connection that the run command is        *)
(* written into.                                                           *)
RunInv ==
  /\ client.op = "post" /\ client.step = 5 /\ client.connected /\ At("run") /\ ~ran
       => InQueue
  /\ client.op = "post" /\ client.step = 6 /\ At("run") /\ ~ran
       => Waits(queue, "run") \/ "run" \in lost
  /\ Answered("post") => RunAsked

(* What waits is read, lost with the daemon or its socket, or served.      *)
LEMMA QueueKept ==
  ASSUME TypeOK, Daemon \/ Crash \/ Operator,
         NEW command \in Triggers, Queued(command)
  PROVE  \/ Queued(command)' \/ command \in lost'
         \/ ServeRun /\ command = "run"
         \/ ServeReload /\ command = "reload"
<1> USE DEF At
<1>1. CASE Stops
  BY <1>1 DEF Stops
<1>2. CASE Accept
  <2>1. queue \in Seq(Messages) /\ queue # <<>> /\ daemon.at # "accepted"
    BY <1>2 DEF Accept, TypeOK, Messages
  <2>2. Waits(queue, command)
    BY <2>1 DEF Queued, Waits
  <2>3. daemon'.at = "accepted" /\ peer' = Head(queue) /\ queue' = Tail(queue)
    BY <1>2 DEF Accept, Goes
  <2>4. QED BY <2>1, <2>2, <2>3, TailKeeps DEF Queued, Waits
<1>3. CASE AcceptFails
  BY <1>3 DEF AcceptFails, Queued
<1>4. CASE NothingToRead
  <2>1. command # "empty"
    BY DEF Triggers
  <2>2. QED BY <1>4, <2>1 DEF NothingToRead, Queued, socket
<1>5. CASE ServeRun \/ ServeReload
  BY <1>5 DEF ServeRun, ServeReload, Serves, Queued
<1>6. CASE queue' = queue /\ daemon.at # "accepted"
  BY <1>6 DEF Queued
<1>7. ASSUME NEW s \in Signals, Signal(s), ~Stops
      PROVE  Queued(command)'
  BY <1>7 DEF Signal, Queued, socket
<1>8. CASE Operator
  BY <1>1, <1>7, <1>8 DEF Operator, Signals
<1>9. CASE Start \/ Configure \/ Listen \/ Install \/ Ignore \/ NewData \/ UpdateConfig
             \/ Timer \/ Quiet \/ NothingWaits \/ Close \/ EndReload \/ EndRun \/ RunFails
  <2>1. queue' = queue /\ daemon.at # "accepted"
    BY <1>9 DEF Start, Configure, Listen, Install, Ignore, NewData, UpdateConfig, Timer,
                Quiet, NothingWaits, Close, EndReload, EndRun, RunFails, EndsRun, Returns,
                Handles, socket
  <2>2. QED BY <1>6, <2>1
<1>10. CASE ConfigureFails \/ Exit \/ ServeKill \/ DanglingCrash \/ Crash
  BY <1>1, <1>10 DEF ConfigureFails, Exit, ServeKill, DanglingCrash, Crash
<1>11. QED
  BY <1>2, <1>3, <1>4, <1>5, <1>8, <1>9, <1>10 DEF Daemon, Loop

(* History only grows.                                                     *)
LEMMA HistoryKept ==
  ASSUME TypeOK, Daemon \/ Crash \/ Operator
  PROVE  (ran => ran') /\ lost \subseteq lost' /\ file' = file
<1>1. lost \subseteq Triggers
  BY DEF TypeOK
<1>2. CASE Stops
  BY <1>1, <1>2 DEF Stops
<1>3. CASE Operator
  BY <1>2, <1>3 DEF Operator, Signal, history
<1>4. CASE ConfigureFails \/ Exit \/ ServeKill \/ DanglingCrash \/ Crash
  BY <1>2, <1>4 DEF ConfigureFails, Exit, ServeKill, DanglingCrash, Crash
<1>5. CASE Start \/ Configure \/ Listen \/ Install \/ Ignore \/ Quiet \/ NothingWaits
             \/ Accept \/ AcceptFails \/ NothingToRead \/ Close
  BY <1>5 DEF Start, Configure, LoadsConfig, Listen, Install, Ignore, Quiet, NothingWaits,
              Accept, AcceptFails, NothingToRead, Close, history
<1>6. CASE NewData \/ Timer \/ ServeRun
  BY <1>6 DEF NewData, Timer, ServeRun, StartRun
<1>7. CASE UpdateConfig \/ ServeReload
  BY <1>7 DEF UpdateConfig, ServeReload, StartReload, LoadsConfig, FailsToLoad, history
<1>8. CASE EndReload \/ EndRun \/ RunFails
  BY <1>8 DEF EndReload, EndRun, RunFails, EndsRun, Returns
<1>9. QED BY <1>3, <1>4, <1>5, <1>6, <1>7, <1>8 DEF Daemon, Loop

(* A config that is loaded stays, until a reload or the end of the daemon. *)
LEMMA ConfigKept ==
  ASSUME TypeOK, Daemon \/ Crash \/ Operator, conf = file
  PROVE  conf' = file' \/ "reload" \in lost'
<1>1. CASE Stops
  BY <1>1 DEF Stops, Triggers
<1>2. CASE Operator
  BY <1>1, <1>2 DEF Operator, Signal
<1>3. CASE ConfigureFails \/ Exit \/ ServeKill \/ DanglingCrash \/ Crash
  BY <1>1, <1>3 DEF ConfigureFails, Exit, ServeKill, DanglingCrash, Crash
<1>4. CASE Start \/ Configure \/ Listen \/ Install \/ Ignore \/ Quiet \/ NothingWaits
             \/ Accept \/ AcceptFails \/ NothingToRead \/ Close
  BY <1>4 DEF Start, Configure, LoadsConfig, Listen, Install, Ignore, Quiet, NothingWaits,
              Accept, AcceptFails, NothingToRead, Close
<1>5. CASE NewData \/ Timer \/ ServeRun
  BY <1>5 DEF NewData, Timer, ServeRun, StartRun
<1>6. CASE UpdateConfig \/ ServeReload
  BY <1>6 DEF UpdateConfig, ServeReload, StartReload, LoadsConfig, FailsToLoad
<1>7. CASE EndReload \/ EndRun \/ RunFails
  BY <1>7 DEF EndReload, EndRun, RunFails, EndsRun, Returns
<1>8. QED BY <1>2, <1>3, <1>4, <1>5, <1>6, <1>7 DEF Daemon, Loop

(* A flag that is set is acted on or goes on waiting.                      *)
LEMMA FlagsKept ==
  ASSUME TypeOK, Daemon \/ Crash \/ Operator
  PROVE  /\ WillRun => RunAsked'
         /\ WillReload => ConfigAsked'
<1> USE DEF At
<1>1. CASE Stops
  BY <1>1 DEF Stops, RunAsked, ConfigAsked, Triggers
<1>2. ASSUME flags \subseteq flags',
             daemon'.at \notin {"run", "reload"} \/ daemon' = daemon
      PROVE  (WillRun => WillRun') /\ (WillReload => WillReload')
  BY <1>2 DEF WillRun, WillReload
<1>3. CASE Operator
  <2>1. ASSUME NEW s \in Signals, Signal(s), ~Stops
        PROVE  flags \subseteq flags' /\ daemon' = daemon
    BY <2>1 DEF Signal
  <2>2. QED BY <1>1, <1>2, <1>3, <2>1 DEF Operator, Signals, RunAsked, ConfigAsked
<1>4. CASE ConfigureFails \/ Exit \/ ServeKill \/ DanglingCrash \/ Crash
  BY <1>1, <1>4 DEF ConfigureFails, Exit, ServeKill, DanglingCrash, Crash
<1>5. CASE Start \/ Configure \/ Listen \/ Install \/ Quiet \/ NothingWaits \/ Accept
             \/ AcceptFails \/ NothingToRead \/ Close
  <2>1. flags' = flags /\ daemon'.at \notin {"run", "reload"}
    BY <1>5 DEF Start, Configure, Listen, Install, Quiet, NothingWaits, Accept, AcceptFails,
                NothingToRead, Close, Goes
  <2>2. QED BY <1>2, <2>1 DEF RunAsked, ConfigAsked
<1>6. CASE Ignore
  <2>1. flags' = flags \ {"INT"} /\ daemon'.at = "poll"
    BY <1>6 DEF Ignore, Goes
  <2>2. (WillRun => WillRun') /\ (WillReload => WillReload')
    BY <2>1 DEF WillRun, WillReload
  <2>3. QED BY <2>2 DEF RunAsked, ConfigAsked
<1>7. CASE NewData \/ Timer \/ ServeRun
  <2>1. ran' = TRUE /\ flags' = flags /\ daemon'.at = "run"
    BY <1>7 DEF NewData, Timer, ServeRun, StartRun, Goes
  <2>2. QED BY <2>1 DEF RunAsked, ConfigAsked, WillReload
<1>8. CASE UpdateConfig \/ ServeReload
  <2>1. flags' = flags /\ daemon'.at = "reload"
    BY <1>8 DEF UpdateConfig, ServeReload, StartReload, Goes
  <2>2. conf' = file' \/ "reload" \in lost'
    BY <1>8 DEF UpdateConfig, ServeReload, StartReload, LoadsConfig, FailsToLoad
  <2>3. QED BY <2>1, <2>2 DEF RunAsked, ConfigAsked, WillRun
<1>9. CASE EndReload
  <2>1. /\ daemon.at = "reload" /\ daemon'.at \in {"top", "poll"}
        /\ flags' = flags \ (IF daemon.by = "USR2" THEN {"USR2"} ELSE {})
    BY <1>9 DEF EndReload, Returns, Goes
  <2>2. (WillRun => WillRun') /\ (WillReload => WillReload')
    BY <2>1 DEF WillRun, WillReload
  <2>3. QED BY <2>2 DEF RunAsked, ConfigAsked
<1>10. CASE EndRun \/ RunFails
  <2>1. /\ daemon.at = "run" /\ daemon'.at \in {"top", "poll"}
        /\ flags' = flags \ (IF daemon.by = "socket" THEN {} ELSE {"USR1"})
    BY <1>10 DEF EndRun, RunFails, EndsRun, Returns, Goes
  <2>2. (WillRun => WillRun') /\ (WillReload => WillReload')
    BY <2>1 DEF WillRun, WillReload
  <2>3. QED BY <2>2 DEF RunAsked, ConfigAsked
<1>11. QED
  BY <1>3, <1>4, <1>5, <1>6, <1>7, <1>8, <1>9, <1>10 DEF Daemon, Loop

(* The daemon keeps what was asked for.                                    *)
LEMMA DaemonKeeps ==
  ASSUME TypeOK, Daemon \/ Crash \/ Operator
  PROVE  /\ RunAsked => RunAsked'
         /\ ConfigAsked => ConfigAsked'
<1>1. ServeRun => ran'
  BY DEF ServeRun, StartRun
<1>2. ServeReload => conf' = file' \/ "reload" \in lost'
  BY DEF ServeReload, StartReload, LoadsConfig, FailsToLoad
<1>3. "run" \in Triggers /\ "reload" \in Triggers
  BY DEF Triggers
<1>4. ASSUME RunAsked PROVE RunAsked'
  <2>1. CASE ran \/ "run" \in lost
    BY <2>1, HistoryKept DEF RunAsked
  <2>2. CASE WillRun
    BY <2>2, FlagsKept
  <2>3. CASE Queued("run")
    BY <2>3, <1>1, <1>3, QueueKept DEF RunAsked
  <2>4. QED BY <1>4, <2>1, <2>2, <2>3 DEF RunAsked
<1>5. ASSUME ConfigAsked PROVE ConfigAsked'
  <2>1. CASE "reload" \in lost
    BY <2>1, HistoryKept DEF ConfigAsked
  <2>2. CASE WillReload
    BY <2>2, FlagsKept
  <2>3. CASE Queued("reload")
    BY <2>3, <1>2, <1>3, QueueKept DEF ConfigAsked
  <2>4. CASE conf = file
    <3>1. conf' = file' \/ "reload" \in lost'
      BY <2>4, ConfigKept
    <3>2. QED BY <3>1 DEF ConfigAsked
  <2>5. QED BY <1>5, <2>1, <2>2, <2>3, <2>4 DEF ConfigAsked
<1>6. QED BY <1>4, <1>5

(* A daemon in a run that began before the save has been in it since.      *)
LEMMA OldRun ==
  ASSUME TypeOK, Daemon \/ Crash \/ Operator, At("run")', ~ran'
  PROVE  At("run") /\ ~ran /\ queue' = queue /\ lost' = lost
<1> USE DEF At
<1>1. CASE Stops
  BY <1>1 DEF Stops, Goes
<1>2. CASE Operator
  BY <1>1, <1>2 DEF Operator, Signal, socket, history
<1>3. CASE ConfigureFails \/ Exit \/ ServeKill \/ DanglingCrash \/ Crash
  BY <1>1, <1>3 DEF ConfigureFails, Exit, ServeKill, DanglingCrash, Crash
<1>4. CASE Start \/ Configure \/ Listen \/ Install \/ Ignore \/ Quiet \/ NothingWaits
             \/ Accept \/ AcceptFails \/ NothingToRead \/ Close
  BY <1>4 DEF Start, Configure, Listen, Install, Ignore, Quiet, NothingWaits,
              Accept, AcceptFails, NothingToRead, Close, Goes
<1>5. CASE NewData \/ Timer \/ ServeRun
  BY <1>5 DEF NewData, Timer, ServeRun, StartRun
<1>6. CASE UpdateConfig \/ ServeReload
  BY <1>6 DEF UpdateConfig, ServeReload, StartReload, Goes
<1>7. CASE EndReload \/ EndRun \/ RunFails
  BY <1>7 DEF EndReload, EndRun, RunFails, EndsRun, Returns, Goes
<1>8. QED BY <1>2, <1>3, <1>4, <1>5, <1>6, <1>7 DEF Daemon, Loop

-----------------------------------------------------------------------------
(* The steps of optiserver keep the two invariants.                        *)

LEMMA IdleIsNoRequest == Idle.op = "none" /\ "none" \notin DOMAIN Steps
BY StepsOf DEF Idle

LEMMA GoesOnCases ==
  ASSUME ClientOK, client.op \in DOMAIN Steps, GoesOn
  PROVE  \/ /\ client.step = Len(Steps[client.op])
            /\ client' = Idle
            /\ answered' # "none" => answered' = client.op
         \/ /\ client.step # Len(Steps[client.op])
            /\ client'.op = client.op /\ client'.step = client.step + 1
            /\ client'.connected = FALSE
<1>1. CASE client.step = Len(Steps[client.op])
  BY <1>1 DEF GoesOn, Answers
<1>2. CASE client.step # Len(Steps[client.op])
  <2>1. client' = [client EXCEPT !.step = @ + 1, !.connected = FALSE]
    BY <1>2 DEF GoesOn
  <2>2. client'.op = client.op /\ client'.step = client.step + 1 /\ client'.connected = FALSE
    BY <2>1 DEF ClientOK
  <2>3. QED BY <1>2, <2>2
<1>3. QED BY <1>1, <1>2

(* Where a request came from, by where it has got to.                      *)
LEMMA CameFrom ==
  ASSUME ClientOK, client.op \in DOMAIN Steps, GoesOn
  PROVE  /\ \A op \in DOMAIN Steps :
              client'.op = op => client.op = op /\ client'.step = client.step + 1
         /\ client' = Idle /\ answered' = "post" => client.op = "post" /\ client.step = 6
         /\ client' = Idle /\ answered' = "recalc" => client.op = "recalc" /\ client.step = 2
<1>1. CASE client.step = Len(Steps[client.op]) /\ client' = Idle
  <2>1. client'.op \notin DOMAIN Steps
    BY <1>1, IdleIsNoRequest
  <2>2. answered' # "none" => answered' = client.op
    BY <1>1, <2>1, GoesOnCases
  <2>3. QED BY <1>1, <2>1, <2>2, StepsTyped
<1>2. CASE client'.op = client.op /\ client'.step = client.step + 1
  <2>1. client' # Idle
    BY <1>2, IdleIsNoRequest
  <2>2. QED BY <1>2, <2>1
<1>3. QED BY <1>1, <1>2, GoesOnCases

(* The config has been asked for once its command was sent, and stays so.  *)
LEMMA ConfigGoesOn ==
  ASSUME ClientOK, ConfigInv, client.op \in DOMAIN Steps, GoesOn,
         Doing("reload") => ConfigAsked',
         Doing("run") \/ Doing("USR1") => (ConfigAsked => ConfigAsked')
  PROVE  ConfigInv'
<1> SUFFICES ASSUME \/ client'.op = "post" /\ client'.step \in {5, 6}
                    \/ client'.op = "recalc" /\ client'.step = 2
                    \/ client' = Idle /\ answered' = "post"
                    \/ client' = Idle /\ answered' = "recalc"
             PROVE  ConfigAsked'
  BY DEF ConfigInv, Answered
<1>1. client.step \in DOMAIN Steps[client.op] /\ client.step \in Nat
  BY DEF ClientOK
<1>2. \/ client.op = "post" /\ client.step \in {4, 5, 6}
      \/ client.op = "recalc" /\ client.step \in {1, 2}
  BY <1>1, CameFrom, StepsOf
<1>3. CASE Doing("reload")
  BY <1>3
<1>4. CASE ~Doing("reload")
  <2>1. \/ client.op = "post" /\ client.step \in {5, 6}
        \/ client.op = "recalc" /\ client.step = 2
    BY <1>1, <1>2, <1>4, StepsAt DEF Doing
  <2>2. Doing("run") \/ Doing("USR1")
    BY <1>1, <2>1, StepsAt DEF Doing
  <2>3. QED BY <2>1, <2>2 DEF ConfigInv
<1>5. QED BY <1>3, <1>4

LEMMA NotAnswered ==
  ASSUME client' = Idle \/ (client'.op \in {"start", "post", "recalc", "kill"} /\ client'.step = 1),
         answered' = "none"
  PROVE  ConfigInv' /\ RunInv'
BY IdleIsNoRequest, StepsOf DEF ConfigInv, RunInv, Answered

LEMMA SignalKeeps ==
  ASSUME TypeOK, NEW s \in Signals, Signal(s)
  PROVE  ConfigAsked => ConfigAsked'
<1>1. CASE Stops
  BY <1>1 DEF Stops, ConfigAsked, Triggers
<1>2. CASE ~Stops
  <2>1. flags \subseteq flags' /\ UNCHANGED <<file, daemon, conf, socket, history>>
    BY <1>2 DEF Signal
  <2>2. QED BY <2>1 DEF ConfigAsked, WillReload, Queued, At, socket, history
<1>3. QED BY <1>1, <1>2

LEMMA WriteQueues ==
  ASSUME TypeOK, NEW command \in Triggers, Write(command)
  PROVE  /\ Queued(command)'
         /\ \A other \in Triggers : Queued(other) => Queued(other)'
         /\ At("run") => Waits(queue', command)
<1> USE DEF At
<1>0. command \in Commands /\ Triggers \subseteq Commands /\ "empty" \notin Triggers
  BY DEF Commands, Triggers
<1>1. CASE InQueue
  <2>1. queue \in Seq(Messages) /\ queue # <<>> /\ queue[Len(queue)] = "empty"
        /\ command \in Messages
    BY <1>0, <1>1 DEF InQueue, TypeOK, Messages
  <2>2. queue' = [queue EXCEPT ![Len(queue)] = command] /\ peer' = peer /\ daemon' = daemon
    BY <1>1 DEF Write
  <2>3. Waits(queue', command)
        /\ \A other \in Commands : Waits(queue, other) => Waits(queue', other)
    BY <2>1, <2>2, WriteKeeps
  <2>4. QED BY <1>0, <2>2, <2>3 DEF Queued, Waits
<1>2. CASE ~InQueue
  <2>1. daemon.at = "accepted" /\ peer = "empty" /\ peer' = command /\ queue' = queue
        /\ daemon' = daemon
    BY <1>2 DEF Write
  <2>2. QED BY <1>0, <2>1 DEF Queued
<1>3. QED BY <1>1, <1>2

LEMMA TypedParts ==
  ASSUME TypeOK
  PROVE  ClientOK /\ (client.op \in DOMAIN Steps => client.step \in DOMAIN Steps[client.op])
BY TypeParts DEF ClientOK

(* A connection leaves both as they were, and is still in the queue.       *)
LEMMA ConnectKeeps ==
  ASSUME TypeOK, ConfigInv, RunInv, NEW command \in Commands, Connect(command)
  PROVE  ConfigInv' /\ RunInv'
<1>1. client'.op = client.op /\ client'.step = client.step /\ client.op \in DOMAIN Steps
  BY DEF Connect, Doing, TypeOK
<1>2. queue \in Seq(Messages) /\ "empty" \in Messages /\ queue' = Append(queue, "empty")
  BY DEF Connect, TypeOK, Messages
<1>3. InQueue'
  BY <1>2 DEF InQueue
<1>4. \A c : Waits(queue, c) => Waits(queue', c)
  BY <1>2, AppendKeeps
<1>5. UNCHANGED <<file, daemon, flags, conf, peer, history>>
  BY DEF Connect
<1>6. ConfigAsked => ConfigAsked'
  BY <1>4, <1>5 DEF ConfigAsked, WillReload, Queued, Waits, At, history
<1>7. ~Answered("post")' /\ ~Answered("recalc")'
  BY <1>1, IdleIsNoRequest DEF Answered
<1>8. ConfigInv'
  BY <1>1, <1>6, <1>7 DEF ConfigInv
<1>9. RunInv'
  BY <1>1, <1>3, <1>4, <1>5, <1>7 DEF RunInv, At, history
<1>10. QED BY <1>8, <1>9

LEMMA CommandKeepsConfig ==
  ASSUME TypeOK, ConfigInv, NEW command \in Commands, GoesOn,
         Refused(command) \/ Write(command) \/ WriteLate(command)
  PROVE  ConfigInv'
<1>1. client.op \in DOMAIN Steps /\ Steps[client.op][client.step] = command
  BY DEF Refused, Write, WriteLate, Doing
<1>2. UNCHANGED <<file, daemon, flags, conf>> /\ lost \subseteq lost'
  BY DEF Refused, Write, WriteLate, history
<1>3. ASSUME Doing("reload") PROVE ConfigAsked'
  <2>1. command = "reload" /\ command \in Triggers
    BY <1>1, <1>3 DEF Doing, Triggers
  <2>2. CASE Write(command)
    BY <2>1, <2>2, WriteQueues DEF ConfigAsked
  <2>3. CASE Refused(command) \/ WriteLate(command)
    BY <2>1, <2>3 DEF ConfigAsked, Refused, WriteLate
  <2>4. QED BY <2>2, <2>3
<1>4. ASSUME Doing("run") \/ Doing("USR1"), ConfigAsked PROVE ConfigAsked'
  <2>1. command = "run" /\ command \in Triggers /\ "reload" \in Triggers
    BY <1>1, <1>4 DEF Doing, Triggers, Commands
  <2>2. Queued("reload") => Queued("reload")'
    <3>1. CASE Write(command)
      BY <2>1, <3>1, WriteQueues
    <3>2. CASE Refused(command) \/ WriteLate(command)
      BY <1>2, <3>2 DEF Refused, WriteLate, Queued, At, socket
    <3>3. QED BY <3>1, <3>2
  <2>3. QED BY <1>2, <1>4, <2>2 DEF ConfigAsked, WillReload, At
<1>5. QED BY <1>1, <1>3, <1>4, ConfigGoesOn, TypedParts

LEMMA CommandKeepsRun ==
  ASSUME TypeOK, RunInv, NEW command \in Commands, GoesOn,
         Refused(command) \/ Write(command) \/ WriteLate(command)
  PROVE  RunInv'
<1>1. client.op \in DOMAIN Steps /\ Steps[client.op][client.step] = command
      /\ client.step \in DOMAIN Steps[client.op]
  BY TypedParts DEF Refused, Write, WriteLate, Doing
<1>2. UNCHANGED <<daemon, ran>>
  BY DEF Refused, Write, WriteLate, history
<1>3. client.op = "post" => client.step \in {4, 5}
  BY <1>1, StepsAt DEF Commands, Triggers
<1>4. ~Answered("post")'
  <2>1. ~(client.op = "post" /\ client.step = 6)
    BY <1>3
  <2>2. QED BY <1>1, <2>1, CameFrom, TypedParts DEF Answered
<1>5. client'.op = "post" => client'.connected = FALSE
  BY <1>1, GoesOnCases, TypedParts, IdleIsNoRequest
<1>6. ASSUME client'.op = "post", client'.step = 6, At("run"), ~ran
      PROVE  Waits(queue', "run") \/ "run" \in lost'
  <2>1. client.op = "post" /\ client.step = 5
    BY <1>1, <1>3, <1>6, CameFrom, TypedParts, StepsOf
  <2>2. command = "run" /\ command \in Triggers
    BY <1>1, <2>1, StepsAt DEF Triggers
  <2>3. CASE Refused(command)
    BY <2>2, <2>3 DEF Refused
  <2>4. CASE Write(command)
    BY <1>6, <2>2, <2>4, WriteQueues
  <2>5. CASE WriteLate(command)
    BY <1>6, <2>1, <2>5 DEF WriteLate, RunInv
  <2>6. QED BY <2>3, <2>4, <2>5
<1>7. QED BY <1>2, <1>4, <1>5, <1>6 DEF RunInv, At

LEMMA TellKeeps ==
  ASSUME TypeOK, ConfigInv, RunInv, NEW s \in {"USR1", "USR2"}, Tell(s)
  PROVE  ConfigInv' /\ RunInv'
<1>1. client.op \in DOMAIN Steps /\ Steps[client.op][client.step] = s
      /\ client.step \in DOMAIN Steps[client.op] /\ s \in Signals
  BY TypedParts DEF Tell, Doing, Signals
<1>2. client.op = "post" /\ client.step = IF s = "USR2" THEN 3 ELSE 6
  BY <1>1, StepsAt
<1>3. ConfigInv'
  <2>1. ~Doing("reload")
    BY <1>1 DEF Doing
  <2>2. QED BY <1>1, <2>1, ConfigGoesOn, SignalKeeps, TypedParts DEF Tell
<1>4. CASE s = "USR2"
  <2>1. client'.op = "post" /\ client'.step = 4
    BY <1>1, <1>2, <1>4, GoesOnCases, TypedParts, StepsTyped DEF Tell
  <2>2. RunInv'
    BY <2>1, IdleIsNoRequest, StepsOf DEF RunInv, Answered
  <2>3. QED BY <1>3, <2>2
<1>5. CASE s = "USR1"
  <2>1. client' = Idle
    BY <1>1, <1>2, <1>5, GoesOnCases, TypedParts, StepsTyped DEF Tell
  <2>2. Signal(s)
    BY DEF Tell
  <2>3. RunAsked'
    <3>1. CASE Stops
      BY <3>1 DEF Stops, RunAsked, Triggers
    <3>2. CASE ~Stops
      <4>1. "USR1" \in flags' /\ UNCHANGED <<daemon, socket, history>>
        BY <1>5, <2>2, <3>2 DEF Signal
      <4>2. CASE At("run") /\ ~ran
        BY <1>2, <1>5, <4>1, <4>2 DEF RunInv, RunAsked, Queued, Waits, socket, history
      <4>3. CASE ~At("run") \/ ran
        BY <4>1, <4>3 DEF RunAsked, WillRun, At, history
      <4>4. QED BY <4>2, <4>3
    <3>3. QED BY <3>1, <3>2
  <2>4. QED BY <1>3, <2>1, <2>3, IdleIsNoRequest, StepsOf DEF RunInv
<1>6. QED BY <1>4, <1>5

LEMMA ServerKeeps ==
  ASSUME TypeOK, ConfigInv, RunInv,
         Server \/ \E op \in {"post", "recalc", "kill"} : Request(op)
  PROVE  ConfigInv' /\ RunInv'
<1>1. CASE \E op \in {"post", "recalc", "kill"} : Request(op)
  BY <1>1, NotAnswered DEF Request, Idle
<1>2. ASSUME NEW code, code # 200, Answers(code)
      PROVE  ConfigInv' /\ RunInv'
  BY <1>2, NotAnswered DEF Answers
<1>3. CASE Rejected \/ SaveFails
  BY <1>2, <1>3 DEF Rejected, SaveFails
<1>4. CASE Open \/ Save
  <2>1. client.op \in DOMAIN Steps /\ client.step \in DOMAIN Steps[client.op]
        /\ Steps[client.op][client.step] \in {"open", "save"} /\ GoesOn
    BY <1>4, TypedParts DEF Open, Save, Doing
  <2>2. client.op = "post" /\ client.step \in {1, 2}
    BY <2>1, StepsAt
  <2>3. client'.op = "post" /\ client'.step \in {2, 3}
    <3>1. client.step # Len(Steps[client.op])
      BY <2>2, StepsTyped
    <3>2. client'.op = client.op /\ client'.step = client.step + 1
      BY <2>1, <3>1, GoesOnCases, TypedParts
    <3>3. QED BY <2>2, <3>2
  <2>4. QED BY <2>3, IdleIsNoRequest, StepsOf DEF ConfigInv, RunInv, Answered
<1>5. ASSUME NEW s \in {"USR1", "USR2"}, Tell(s) \/ TellFails(s)
      PROVE  ConfigInv' /\ RunInv'
  BY <1>2, <1>5, TellKeeps DEF TellFails
<1>6. ASSUME NEW command \in Commands,
             \/ Connect(command) \/ Refused(command)
             \/ Write(command) \/ WriteLate(command)
      PROVE  ConfigInv' /\ RunInv'
  <2>1. CASE Connect(command)
    BY <2>1, ConnectKeeps
  <2>2. CASE ~Connect(command) /\ GoesOn
    BY <1>6, <2>2, CommandKeepsConfig, CommandKeepsRun
  <2>3. CASE ~Connect(command) /\ ~GoesOn
    <3>1. Answers(500) \/ Restarts
      BY <1>6, <2>3 DEF Refused, Write, WriteLate
    <3>2. CASE Restarts
      BY <3>2, NotAnswered DEF Restarts, Idle
    <3>3. QED BY <1>2, <3>1, <3>2
  <2>4. QED BY <2>1, <2>2, <2>3
<1>7. QED BY <1>1, <1>3, <1>4, <1>5, <1>6 DEF Server

-----------------------------------------------------------------------------
LEMMA DaemonKeepsBoth ==
  ASSUME TypeOK, ConfigInv, RunInv, Daemon \/ Crash \/ Operator,
         UNCHANGED <<client, answered>>
  PROVE  ConfigInv' /\ RunInv'
<1>1. ConfigInv'
  BY DaemonKeeps DEF ConfigInv, Answered
<1>2. Answered("post")' => RunAsked'
  BY DaemonKeeps DEF RunInv, Answered
<1>3. At("run")' /\ ~ran' => At("run") /\ ~ran /\ queue' = queue /\ lost' = lost
  BY OldRun
<1>4. RunInv'
  BY <1>2, <1>3 DEF RunInv, InQueue, Waits
<1>5. QED BY <1>1, <1>4

LEMMA OnItsWayInit == Init => ConfigInv /\ RunInv
BY IdleIsNoRequest DEF Init, Idle, ConfigInv, RunInv, Answered

LEMMA OnItsWayStep ==
  TypeOK /\ ConfigInv /\ RunInv /\ [Next]_vars => ConfigInv' /\ RunInv'
<1> SUFFICES ASSUME TypeOK, ConfigInv, RunInv, [Next]_vars
             PROVE  ConfigInv' /\ RunInv'
  OBVIOUS
<1>1. CASE UNCHANGED vars
  BY <1>1 DEF vars, daemonVars, socket, history, ConfigInv, RunInv, ConfigAsked, RunAsked,
              WillReload, WillRun, Queued, Waits, InQueue, Answered, At
<1>2. CASE Next
  BY <1>2, DaemonKeepsBoth, ServerKeeps DEF Next
<1>3. QED BY <1>1, <1>2

(* After a POST /config or a recalc answered 200 the daemon has the saved  *)
(* config or has still to read it, unless the socket lost the reload.      *)
THEOREM ConfigOnItsWay == Spec => []ConfigIsOnItsWay
<1>1. ConfigInv => ConfigIsOnItsWay
  BY DEF ConfigInv, ConfigAsked, ConfigIsOnItsWay
<1>2. QED BY <1>1, TypeInit, TypeStep, OnItsWayInit, OnItsWayStep, PTL DEF Spec

(* After a POST /config answered 200 a run has begun since the save, or    *)
(* will, unless the daemon lost the command for it and the signal too.     *)
THEOREM RunOnItsWay == Spec => []RunIsOnItsWay
<1>1. RunInv => RunIsOnItsWay
  BY DEF RunInv, RunAsked, RunIsOnItsWay
<1>2. QED BY <1>1, TypeInit, TypeStep, OnItsWayInit, OnItsWayStep, PTL DEF Spec
=============================================================================
