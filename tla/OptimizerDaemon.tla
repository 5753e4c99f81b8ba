--------------------------- MODULE OptimizerDaemon ---------------------------
(***************************************************************************)
(* The optimizer daemon (optimizer/src/main.c) and the Unix socket it is   *)
(* commanded through (common/src/unix_domain_socket.c): start, signal      *)
(* flags, the main loop, one command of the socket per round, and what a   *)
(* reload (optimizer_config_set) and a run (optimizer_run) do with the     *)
(* facility config.                                                        *)
(*                                                                         *)
(* A signal only sets a flag, the loop clears it after the work it asked   *)
(* for, and a connection accepted before its client has written is closed  *)
(* unread: each way of asking can be lost.  Since the last request or save *)
(* lost records what the socket refused, what went with the daemon, what   *)
(* was tried and failed, and a reload that was not read (not a run that    *)
(* was not read, which a signal makes up for); ran records that a run has  *)
(* begun.                                                                  *)
(***************************************************************************)
EXTENDS Integers, Sequences

CONSTANTS
  Configs,   \* what a facility file can hold
  NoConfig,  \* an empty file, no facility, no report
  Backlog,   \* the second argument of listen()
  Faults     \* what may fail, of DaemonFaults

DaemonFaults == {"accept", "conf", "crash", "disk"}

ASSUME NoConfigAssumption == NoConfig \notin Configs
ASSUME BacklogAssumption == Backlog \in Nat
ASSUME FaultsAssumption == Faults \subseteq DaemonFaults

VARIABLES
  file,      \* the facility file
  daemon,    \* where the daemon is, and what a run or a reload answers to
  flags,     \* the signal flags that are set
  conf,      \* config.facility_configs
  dirs,      \* config.data_dir and the other paths: set, freed, or NULL
  listening, \* trigger_fd >= 0
  queue,     \* connections waiting for accept()
  peer,      \* the accepted connection
  reported,  \* the config the last reports were made with
  ran,       \* history: a run has begun
  lost       \* history: triggers that were lost

socket  == <<listening, queue, peer>>
history == <<ran, lost>>
daemonVars == <<file, daemon, flags, conf, dirs, socket, reported, history>>

Triggers == {"run", "reload"}
Commands == Triggers \cup {"kill"}
Signals  == {"INT", "TERM", "USR1", "USR2"}
Starting == {"init", "listen", "install"}
Places   == Starting \cup {"down", "top", "run", "reload", "poll", "accepted",
                           "closing"}

InitDaemon ==
  /\ file \in Configs
  /\ daemon = [at |-> "down", by |-> "none"]
  /\ flags = {} /\ conf = NoConfig /\ dirs = "NULL"
  /\ listening = FALSE /\ queue = <<>> /\ peer = "none"
  /\ reported = NoConfig
  /\ ran = FALSE /\ lost = {}

At(place) == daemon.at = place

Goes(place, by) == daemon' = [at |-> place, by |-> by]

(* The process ends; what was asked of it is gone.                         *)
Stops ==
  /\ Goes("down", "none")
  /\ flags' = {} /\ conf' = NoConfig /\ dirs' = "NULL"
  /\ listening' = FALSE /\ queue' = <<>> /\ peer' = "none"
  /\ lost' = Triggers
  /\ UNCHANGED <<file, reported, ran>>

-----------------------------------------------------------------------------
(* optimizer_config_set and optimizer_run, whoever calls them.             *)

(* The paths are freed, read again and the facility files parsed; a file   *)
(* without the obligatory keys counts for none.                            *)
LoadsConfig ==
  /\ conf' = file
  /\ dirs' = "set"
  /\ UNCHANGED history

(* optimizer.conf cannot be read: the paths stay as dangling pointers.     *)
FailsToLoad ==
  /\ "conf" \in Faults
  /\ conf' = NoConfig
  /\ dirs' = "freed"
  /\ lost' = lost \cup {"reload"}
  /\ UNCHANGED ran

StartReload(by) ==
  /\ Goes("reload", by)
  /\ LoadsConfig \/ FailsToLoad
  /\ UNCHANGED <<file, reported>>

StartRun(by) ==
  /\ Goes("run", by)
  /\ ran' = TRUE
  /\ UNCHANGED <<file, conf, dirs, reported, lost>>

(* Freed paths are freed again or used: if the process survives it goes on.*)
DanglingCrash ==
  /\ dirs = "freed"
  /\ At("run") \/ (At("accepted") /\ peer = "reload")
       \/ (At("top") /\ "USR2" \in flags)
  /\ Stops

(* The flag of the signal is cleared after the work, not before it.        *)
Returns(cleared) ==
  /\ Goes(IF daemon.by = "socket" THEN "top" ELSE "poll", "none")
  /\ flags' = flags \ cleared
  /\ UNCHANGED <<file, conf, dirs, socket, ran>>

EndReload ==
  /\ At("reload")
  /\ Returns(IF daemon.by = "USR2" THEN {"USR2"} ELSE {})
  /\ UNCHANGED <<reported, lost>>

EndsRun ==
  /\ At("run")
  /\ Returns(IF daemon.by = "socket" THEN {} ELSE {"USR1"})

(* A run without a facility makes no reports.                              *)
EndRun ==
  /\ EndsRun
  /\ reported' = IF conf = NoConfig THEN reported ELSE conf
  /\ UNCHANGED lost

(* The cache cannot be opened, or a report not be written.                 *)
RunFails ==
  /\ "disk" \in Faults
  /\ EndsRun
  /\ lost' = lost \cup {"run"}
  /\ UNCHANGED reported

-----------------------------------------------------------------------------
(* main(): the start, ...                                                  *)

Start ==
  /\ At("down")
  /\ Goes("init", "none")
  /\ UNCHANGED <<file, flags, conf, dirs, socket, reported, history>>

(* optimizer_init, which exits when no facility config can be read, ...    *)
Configure ==
  /\ At("init")
  /\ file # NoConfig
  /\ LoadsConfig
  /\ Goes("listen", "none")
  /\ UNCHANGED <<file, flags, socket, reported>>

ConfigureFails ==
  /\ At("init")
  /\ file = NoConfig \/ "conf" \in Faults
  /\ Stops

(* ... the socket, ...                                                     *)
Listen ==
  /\ At("listen")
  /\ Goes("install", "none")
  /\ listening' = TRUE
  /\ UNCHANGED <<file, flags, conf, dirs, queue, peer, reported, history>>

(* ... and only then the signal handlers.                                  *)
Install ==
  /\ At("install")
  /\ Goes("top", "none")
  /\ UNCHANGED <<file, flags, conf, dirs, socket, reported, history>>

(* The order of the branches of the main loop.                             *)
Rank(s) == CASE s = "TERM" -> 1 [] s = "INT" -> 2
             [] s = "USR1" -> 3 [] s = "USR2" -> 4

Handles(s) ==
  /\ At("top")
  /\ s \in flags
  /\ \A t \in flags : Rank(s) <= Rank(t)

Exit == Handles("TERM") /\ Stops

Ignore ==
  /\ Handles("INT")
  /\ Goes("poll", "none")
  /\ flags' = flags \ {"INT"}
  /\ UNCHANGED <<file, conf, dirs, socket, reported, history>>

NewData ==
  /\ Handles("USR1")
  /\ StartRun("USR1")
  /\ UNCHANGED <<flags, socket>>

UpdateConfig ==
  /\ Handles("USR2")
  /\ StartReload("USR2")
  /\ UNCHANGED <<flags, socket>>

Timer ==
  /\ At("top") /\ flags = {}
  /\ StartRun("timer")
  /\ UNCHANGED <<flags, socket>>

Quiet ==
  /\ At("top") /\ flags = {}
  /\ Goes("poll", "none")
  /\ UNCHANGED <<file, flags, conf, dirs, socket, reported, history>>

(* uds_server_step: nothing to accept, ...                                 *)
NothingWaits ==
  /\ At("poll")
  /\ queue = <<>>
  /\ Goes("top", "none")
  /\ UNCHANGED <<file, flags, conf, dirs, socket, reported, history>>

(* ... a failure, after which the socket is closed for good, ...           *)
AcceptFails ==
  /\ "accept" \in Faults
  /\ At("poll") /\ listening
  /\ Goes("top", "none")
  /\ listening' = FALSE
  /\ queue' = <<>>
  /\ lost' = lost \cup {c \in Triggers : \E i \in DOMAIN queue : queue[i] = c}
  /\ UNCHANGED <<file, flags, conf, dirs, peer, reported, ran>>

(* ... or a connection, read once, ...                                     *)
Accept ==
  /\ At("poll")
  /\ queue # <<>>
  /\ Goes("accepted", "none")
  /\ peer' = Head(queue)
  /\ queue' = Tail(queue)
  /\ UNCHANGED <<file, flags, conf, dirs, listening, reported, history>>

NothingToRead ==
  /\ At("accepted")
  /\ peer = "empty"
  /\ Goes("closing", "none")
  /\ UNCHANGED <<file, flags, conf, dirs, socket, reported, history>>

(* Mutant: the descriptor of a connection without a command is not closed. *)
CloseLeaks ==
  /\ At("closing")
  /\ Goes("top", "none")
  /\ UNCHANGED <<file, flags, conf, dirs, socket, reported, history>>

(* ... and closed.                                                         *)
Close ==
  /\ At("closing")
  /\ Goes("top", "none")
  /\ peer' = "none"
  /\ UNCHANGED <<file, flags, conf, dirs, listening, queue, reported, history>>

Serves(command) ==
  /\ At("accepted")
  /\ peer = command

ServeRun ==
  /\ Serves("run")
  /\ StartRun("socket")
  /\ peer' = "none"
  /\ UNCHANGED <<flags, listening, queue>>

ServeReload ==
  /\ Serves("reload")
  /\ StartReload("socket")
  /\ peer' = "none"
  /\ UNCHANGED <<flags, listening, queue>>

ServeKill == Serves("kill") /\ Stops

-----------------------------------------------------------------------------
Loop ==
  \/ Exit \/ Ignore \/ NewData \/ UpdateConfig \/ Timer \/ Quiet
  \/ NothingWaits \/ AcceptFails \/ Accept \/ NothingToRead \/ Close
  \/ ServeRun \/ ServeReload \/ ServeKill
  \/ EndReload \/ EndRun \/ RunFails \/ DanglingCrash

Daemon ==
  \/ Start \/ Configure \/ ConfigureFails \/ Listen \/ Install
  \/ Loop

Crash == "crash" \in Faults /\ ~At("down") /\ Stops

(* A signal sets its flag, once the handlers are installed.                *)
Signal(s) ==
  \/ /\ daemon.at \in Starting
     /\ Stops
  \/ /\ daemon.at \notin Starting \cup {"down"}
     /\ flags' = flags \cup {s}
     /\ UNCHANGED <<file, daemon, conf, dirs, socket, reported, history>>

(* systemctl stop, and an interrupt from a terminal, which might as well   *)
(* come when the loop is about to look at its flag.                        *)
Operator == Signal("TERM") \/ (At("top") /\ Signal("INT"))
=============================================================================
