------------------------------ MODULE CMProcess ------------------------------
(***************************************************************************)
(* A connection manager process: tp_run_connection_manager (telepathy-     *)
(* glib/run.c) with its TpBaseConnectionManager (base-connection-          *)
(* manager.c).  It exits when it had no connection for some time, or when  *)
(* the bus is lost.                                                        *)
(*                                                                         *)
(* g_main_loop_quit lets the sources that are ready in this iteration of   *)
(* the main loop run: between quit_loop and the return of g_main_loop_run  *)
(* (phase "quit") calls, signals and timeouts may still be dispatched.     *)
(***************************************************************************)
EXTENDS Naturals, TLAPS

CONSTANT Connections  \* connections that clients may ask for

VARIABLES
  persist,           \* the PERSIST debug flag, set by the environment
  phase,             \* "start", "run", "quit", "exit"
  manager,           \* the static variable manager is not NULL
  connections,       \* priv->connections; each holds a reference to the manager
  connections_exist,
  timeout_id,        \* the timeout is set
  bus,               \* the session bus is there
  answered           \* (history) connections returned by RequestConnection

vars == <<persist, phase, manager, connections, connections_exist, timeout_id, bus, answered>>

Looping == phase \in {"run", "quit"}

(* Mutant: being on D-Bus keeps the manager alive. *)
AliveAlways == TRUE

(* The TpBaseConnectionManager: run.c and the signal handler of each
   connection have a reference, D-Bus has none. *)
Alive == manager \/ connections # {}

Init ==
  /\ persist \in BOOLEAN /\ phase = "start" /\ manager = FALSE
  /\ connections = {} /\ connections_exist = FALSE /\ timeout_id = FALSE
  /\ bus \in BOOLEAN /\ answered = {}

(* tp_run_connection_manager, up to the main loop.  Without a bus, or when the
   name is taken (tp_base_connection_manager_register), it returns at once. *)
Start(registered) ==
  /\ phase = "start"
  /\ registered => bus
  /\ phase' = IF registered THEN "run" ELSE "exit"
  /\ manager' = registered /\ timeout_id' = registered
  /\ UNCHANGED <<persist, connections, connections_exist, bus, answered>>

(* Mutant: the timeout is left to run. *)
NewConnectionKeepsTimer == connections_exist' = TRUE /\ UNCHANGED timeout_id

(* Mutant: the flag is not set. *)
NewConnectionNoFlag == timeout_id' = FALSE /\ UNCHANGED connections_exist

(* new_connection *)
NewConnection == connections_exist' = TRUE /\ timeout_id' = FALSE

(* Mutant: a connection that could not be registered is kept. *)
RequestConnectionKept(c) ==
  /\ Looping /\ Alive /\ bus
  /\ c \notin connections \cup answered
  /\ connections' = connections \cup {c}
  /\ NewConnection
  /\ UNCHANGED <<persist, phase, manager, bus, answered>>

(* tp_base_connection_manager_request_connection; it fails for an invalid or
   unknown protocol, when new_connection fails or the connection cannot be
   registered, and then nothing is kept. *)
RequestConnection(c) ==
  /\ Looping /\ Alive /\ bus
  /\ c \notin connections \cup answered
  /\ connections' = connections \cup {c} /\ answered' = answered \cup {c}
  /\ NewConnection
  /\ UNCHANGED <<persist, phase, manager, bus>>

(* Mutant: the timeout is only set if none ever was. *)
NoMoreConnectionsNoTimer == connections_exist' = FALSE /\ UNCHANGED timeout_id

(* no_more_connections *)
NoMoreConnections == connections_exist' = FALSE /\ timeout_id' = TRUE

(* Mutant: every connection that ends counts as the last one. *)
ShutdownFinishedAny(c) ==
  /\ Looping /\ c \in connections
  /\ connections' = connections \ {c}
  /\ NoMoreConnections
  /\ UNCHANGED <<persist, phase, manager, bus, answered>>

(* connection_shutdown_finished_cb *)
ShutdownFinished(c) ==
  /\ Looping /\ c \in connections
  /\ connections' = connections \ {c}
  /\ IF connections' = {} THEN NoMoreConnections ELSE UNCHANGED <<connections_exist, timeout_id>>
  /\ UNCHANGED <<persist, phase, manager, bus, answered>>

QuitLoop == phase' = "quit" /\ manager' = FALSE

(* Mutant: the debug flag is ignored. *)
TimeoutKills ==
  /\ Looping /\ timeout_id
  /\ timeout_id' = FALSE
  /\ IF ~connections_exist THEN QuitLoop ELSE UNCHANGED <<phase, manager>>
  /\ UNCHANGED <<persist, connections, connections_exist, bus, answered>>

(* kill_connection_manager, after DIE_TIME *)
Timeout ==
  /\ Looping /\ timeout_id
  /\ timeout_id' = FALSE
  /\ IF ~persist /\ ~connections_exist THEN QuitLoop ELSE UNCHANGED <<phase, manager>>
  /\ UNCHANGED <<persist, connections, connections_exist, bus, answered>>

(* dbus_filter_function, told by libdbus that the bus is gone *)
BusLost ==
  /\ Looping /\ bus
  /\ bus' = FALSE
  /\ QuitLoop
  /\ UNCHANGED <<persist, connections, connections_exist, timeout_id, answered>>

(* The rest of tp_run_connection_manager *)
LoopReturns ==
  /\ phase = "quit"
  /\ phase' = "exit" /\ timeout_id' = FALSE
  /\ UNCHANGED <<persist, manager, connections, connections_exist, bus, answered>>

Next ==
  \/ \E registered \in BOOLEAN : Start(registered)
  \/ \E c \in Connections : RequestConnection(c) \/ ShutdownFinished(c)
  \/ Timeout \/ BusLost \/ LoopReturns

Spec == Init /\ [][Next]_vars

-----------------------------------------------------------------------------
TypeOK ==
  /\ persist \in BOOLEAN /\ phase \in {"start", "run", "quit", "exit"}
  /\ manager \in BOOLEAN
  /\ connections \subseteq answered /\ answered \subseteq Connections
  /\ connections_exist \in BOOLEAN /\ timeout_id \in BOOLEAN /\ bus \in BOOLEAN

(* The flag of run.c says whether the manager has connections. *)
FlagIsTrue == connections_exist <=> connections # {}

(* The running process waits to exit exactly when it has no connection: the
   timeout is never lost, and never set while a connection is there. *)
TimerWhenIdle ==
  /\ connections # {} => ~timeout_id
  /\ phase = "run" /\ connections = {} /\ ~persist => timeout_id

(* Unless the bus is lost, the process does not exit while a connection that a
   client was given is alive, not even one asked for while the timeout expires,
   and its main loop is not quit when the PERSIST debug flag is set
   (kill_connection_manager). *)
ExitsIdle ==
  /\ phase = "exit" /\ bus => connections = {}
  /\ phase = "quit" /\ bus => ~persist

(* The main loop is quit without the bus being lost only by a process that had
   no connection, and once it is, no connection is made any more. *)
QuitIsFinal == [][phase = "quit" /\ bus => answered' = answered]_vars

(* A process that has nothing to do exits, unless it is told to persist. *)
IdleExits ==
  (phase = "run" /\ connections = {} /\ ~persist) ~> (connections # {} \/ phase = "exit")

-----------------------------------------------------------------------------
(* Proofs, for every set of connections and either value of the PERSIST flag. *)

(* Once the main loop is quit with the bus there, there is no connection,
   nothing keeps the manager, and the process was not told to persist. *)
QuitIdle ==
  /\ phase = "start" => connections = {}
  /\ phase \in {"quit", "exit"} /\ bus => connections = {} /\ ~manager
  /\ phase = "quit" /\ bus => ~persist

(* The inductive invariant: QuitIdle is what makes ExitsIdle inductive. *)
IInv == TypeOK /\ FlagIsTrue /\ TimerWhenIdle /\ QuitIdle

(* The time a step may take, for a busy machine too. *)
USE SMTT(60)

LEMMA InitIInv == Init => IInv
BY ZenonT(60) DEF Init, IInv, TypeOK, FlagIsTrue, TimerWhenIdle, QuitIdle

LEMMA StepIInv == IInv /\ [Next]_vars => IInv'
<1> SUFFICES ASSUME IInv, [Next]_vars PROVE IInv'
  OBVIOUS
<1> USE DEF IInv, TypeOK, FlagIsTrue, TimerWhenIdle, QuitIdle
<1>1. ASSUME NEW registered \in BOOLEAN, Start(registered) PROVE IInv'
  BY <1>1 DEF Start
<1>2. ASSUME NEW c \in Connections, RequestConnection(c) PROVE IInv'
  BY <1>2, ZenonT(60) DEF RequestConnection, NewConnection, Looping, Alive
<1>3. ASSUME NEW c \in Connections, ShutdownFinished(c) PROVE IInv'
  BY <1>3, ZenonT(60) DEF ShutdownFinished, NoMoreConnections, Looping
<1>4. CASE Timeout
  BY <1>4, ZenonT(60) DEF Timeout, QuitLoop, Looping
<1>5. CASE BusLost
  BY <1>5, ZenonT(60) DEF BusLost, QuitLoop, Looping
<1>6. CASE LoopReturns
  BY <1>6, ZenonT(60) DEF LoopReturns
<1>7. CASE UNCHANGED vars
  BY <1>7 DEF vars
<1> QED
  BY <1>1, <1>2, <1>3, <1>4, <1>5, <1>6, <1>7 DEF Next

(* The invariant of the process: run.c's flag and timeout agree with the
   manager's connections. *)
THEOREM ProcessInvariance == Spec => [](FlagIsTrue /\ TimerWhenIdle)
<1>1. IInv => FlagIsTrue /\ TimerWhenIdle
  BY DEF IInv
<1> QED
  BY <1>1, InitIInv, StepIInv, PTL DEF Spec

(* tp_run_connection_manager returns only without connections or bus, and with
   PERSIST only the loss of the bus quits its main loop. *)
THEOREM ProcessExitsIdle == Spec => []ExitsIdle
<1>1. IInv => ExitsIdle
  BY DEF IInv, ExitsIdle, QuitIdle
<1> QED
  BY <1>1, InitIInv, StepIInv, PTL DEF Spec

(* Once quit_loop was called for want of connections, RequestConnection is not
   answered any more. *)
THEOREM ProcessQuitIsFinal == Spec => QuitIsFinal
<1>1. IInv /\ [Next]_vars => [phase = "quit" /\ bus => answered' = answered]_vars
  BY DEF IInv, TypeOK, QuitIdle, Next, vars, Start, RequestConnection, Alive, ShutdownFinished,
         Timeout, BusLost, LoopReturns
<1> QED
  BY <1>1, InitIInv, StepIInv, PTL DEF Spec, QuitIsFinal
=============================================================================
