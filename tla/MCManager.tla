------------------------------ MODULE MCManager ------------------------------
(* A connection manager: the process, and its connections, through all of the
   life of one (Life), with channel managers (Managers) and with channel
   factories (Factories), and the interests of clients in a connection, which end
   when they leave the bus.  They share no state, so a behaviour is one of any one
   of them, which `part' names. *)
EXTENDS CMProcess

VARIABLES part, conn, asked, held, open, sent,
  alive, inbox, calls, interested_clients, client_interests, watched, emitted, repeated,
  registered

connVars == <<conn, asked, held, open, sent>>
interestVars == <<alive, inbox, calls, interested_clients, client_interests, watched, emitted,
                  repeated, registered>>

Life == INSTANCE BaseConnection WITH
  Targets <- {"contact", "room", "list"}, Anonymous <- {},
  Owner <- [contact |-> "manager", room |-> "factory", list |-> "nobody"],
  Used <- {"Connect", "Disconnect", "RequestChannel", "EnsureChannel"},
  MaxChannels <- 1, MaxCalls <- 2

Managers == INSTANCE BaseConnection WITH
  Targets <- {"contact"}, Anonymous <- {}, Owner <- [contact |-> "manager"],
  Used <- {"RequestChannel", "CreateChannel", "EnsureChannel"}, MaxChannels <- 1, MaxCalls <- 3

Factories == INSTANCE BaseConnection WITH
  Targets <- {"contact", "anonymous"}, Anonymous <- {"anonymous"},
  Owner <- [contact |-> "factory", anonymous |-> "factory"],
  Used <- {"RequestChannel"}, MaxChannels <- 2, MaxCalls <- 2

(* One token is asked for twice in one call, and one is unknown. *)
Lists == {<<"loc">>, <<"loc", "mail">>, <<"mail", "mail">>, <<"unknown", "loc">>, <<"unknown">>}

Interests == INSTANCE ClientInterests WITH
  Clients <- {"c1", "c2"}, Tokens <- {"loc", "mail"}, MaxCalls <- 3, sent <- calls

ASSUME SoundInstances ==
  /\ Life!SoundConstants /\ Managers!SoundConstants /\ Factories!SoundConstants
  /\ Interests!SoundConstants

MCInit ==
  /\ Init /\ Interests!Init
  /\ \/ part = "process" /\ Life!Init
     \/ part \in {"life", "interests"} /\ bus /\ ~persist /\ Life!Init
     \/ part \in {"managers", "factories"} /\ bus /\ ~persist /\ Life!InitConnected

ProcessStep == part = "process" /\ Next /\ UNCHANGED <<part, connVars, interestVars>>
LifeStep == part = "life" /\ Life!Next /\ UNCHANGED <<part, vars, interestVars>>
ManagersStep == part = "managers" /\ Managers!Next /\ UNCHANGED <<part, vars, interestVars>>
FactoriesStep == part = "factories" /\ Factories!Next /\ UNCHANGED <<part, vars, interestVars>>
InterestStep == part = "interests" /\ Interests!Next /\ UNCHANGED <<part, vars, connVars>>

MCNext == ProcessStep \/ LifeStep \/ ManagersStep \/ FactoriesStep \/ InterestStep

MCSpec == MCInit /\ [][MCNext]_<<part, vars, connVars, interestVars>>

-----------------------------------------------------------------------------
(* The types of all parts. *)
TypesOK == TypeOK /\ Interests!TypeOK /\ (part = "life" => Life!TypeOK)

(* Every method call is answered exactly once or kept in one place, and nobody
   waits for a connection that has ended.  Somebody is responsible for a new
   channel, once; a client that made a channel knows of it before everybody hears
   of it; and a new channel without a handle answers only the call it was made
   for. *)
RequestsAnswered ==
  /\ part = "life" => Life!NobodyWaits
  /\ part = "managers" =>
       Managers!AnsweredOrKept /\ Managers!OneHandler /\ Managers!ReturnThenAnnounce
  /\ part = "factories" =>
       Factories!AnsweredOrKept /\ Factories!OneHandler /\ Factories!AnonymousIsPrivate

(* Clients see the status go forward, each status once, whatever the hooks of
   the subclass do in the middle of tp_base_connection_change_status; one that is
   CONNECTED has a self-handle; and no assertion of base-connection.c fails.  The
   process knows whether it has connections, and a timeout is running exactly while
   there are none (new_connection, no_more_connections). *)
StatusIsSound ==
  /\ FlagIsTrue /\ TimerWhenIdle
  /\ part = "life" => Life!StatusStory /\ Life!ConnectedHasSelf /\ Life!AssertionsHold
  /\ part = "factories" => Factories!AssertionsHold

(* What the connection keeps about interests can be derived from the clients'
   calls and from who has left the bus: a client that is gone is forgotten, and
   clients with an interest are watched.  clients-interested and
   clients-uninterested tell when the first client wants a token and the last one
   does not, and alternate. *)
InterestsAreExact ==
  /\ Interests!Derivable /\ Interests!GoneIsForgotten /\ Interests!WatchedIsInterested
  /\ Interests!SignalsTell /\ Interests!SignalsAlternate
=============================================================================
