------------------------------- MODULE MCCalls -------------------------------
(* Calls, tubes and file transfers. In the connection manager: a call with its
   contents and streams, its tones, and its media description offers; and the whole
   of the example manager that makes calls. In the
   client: a TpCallChannel, its queues of tones, a TpDBusTubeChannel, a
   TpStreamTubeChannel and a TpFileTransferChannel. A behaviour is one of any
   one of them, which `part' names. *)
EXTENDS Integers, MediaOffers

VARIABLES part, call, dtmf, ch, app, cont, idles, aborted, tube, peer, acc, ft, wire, svc, self, made

queueVars == <<app, cont, idles, aborted>>
streamVars == <<peer, acc>>
MCVars == <<part, call, dtmf, vars, ch, queueVars, tube, streamVars, ft, wire, svc, self, made>>
exampleVars == <<self, made>>

AllOps == {"ring", "accept", "hangup", "sending", "receiving", "hold", "stream", "failure",
           "endpoint", "remote", "members", "remotehold", "initialising"}

Incoming == INSTANCE BaseMediaCall WITH
  Order <- <<"a">>, Initial <- {"a"}, Requested <- FALSE, Ops <- AllOps
Outgoing == INSTANCE BaseMediaCall WITH
  Order <- <<"a">>, Initial <- {"a"}, Requested <- TRUE, Ops <- AllOps
TwoStreams == INSTANCE BaseMediaCall WITH
  Order <- <<"a", "b">>, Initial <- {"a", "b"}, Requested <- TRUE,
  Ops <- {"accept", "hold", "stream", "remote", "members"}
Accepting == INSTANCE BaseMediaCall WITH
  Order <- <<"a", "b">>, Initial <- {"a", "b"}, Requested <- FALSE,
  Ops <- {"accept", "receiving", "stream", "failure", "members", "hangup"}
Changing == INSTANCE BaseMediaCall WITH
  Order <- <<"a", "b">>, Initial <- {"a"}, Requested <- FALSE,
  Ops <- {"accept", "contents", "stream", "endpoint", "remote", "hangup"}

Tones == INSTANCE CallTones WITH
  Strings <- {<<"1", "2">>, <<"1", "w", "2">>, <<"2", "w">>, <<"1", "p", "2">>, << >>},
  MaxRequests <- 2, MaxChanges <- 3
SteadyTones == INSTANCE CallTones WITH
  Strings <- {<<"1", "2">>, <<"1", "w", "2">>, <<"1", "p">>, << >>}, MaxRequests <- 3, MaxChanges <- 0

(* Two of the descriptions are for one contact. *)
OfferedTo == [d1 |-> "x", d2 |-> "x", d3 |-> "y"]

Calm == INSTANCE CallChannel WITH
  Contacts <- {"x", "y"}, Contents <- {"p", "q"}, HasHold <- TRUE, Early <- FALSE,
  MayFail <- FALSE, MaxChanges <- 3
Hurried == INSTANCE CallChannel WITH
  Contacts <- {"x", "y"}, Contents <- {"p", "q"}, HasHold <- TRUE, Early <- TRUE,
  MayFail <- TRUE, MaxChanges <- 2

Queues == INSTANCE ToneQueue WITH
  Contents <- <<"a", "b">>, MaxRequests <- 2, CancelFirst <- FALSE, Others <- FALSE
SharedQueue == INSTANCE ToneQueue WITH
  Contents <- <<"a">>, MaxRequests <- 3, CancelFirst <- TRUE, Others <- TRUE

DBusOffer == INSTANCE DBusTube WITH Requested <- TRUE, MaxCalls <- 2, MayClose <- TRUE
DBusAccept == INSTANCE DBusTube WITH Requested <- FALSE, MaxCalls <- 2, MayClose <- TRUE

Handles2 == <<7, 8>>
ByPort == INSTANCE StreamTube WITH
  Requested <- TRUE, Access <- "port", Peers <- {1, 2}, Handle <- Handles2, Target <- 0, MayFail <- FALSE
ByCredentials == INSTANCE StreamTube WITH
  Requested <- TRUE, Access <- "credentials", Peers <- {1, 2}, Handle <- Handles2, Target <- 7,
  MayFail <- FALSE
ByOrder == INSTANCE StreamTube WITH
  Requested <- TRUE, Access <- "localhost", Peers <- {1, 2}, Handle <- Handles2, Target <- 0,
  MayFail <- FALSE
Joining == INSTANCE StreamTube WITH
  Requested <- FALSE, Access <- "credentials", Peers <- {}, Handle <- << >>, Target <- 7,
  MayFail <- FALSE
JoiningFails == INSTANCE StreamTube WITH
  Requested <- FALSE, Access <- "credentials", Peers <- {}, Handle <- << >>, Target <- 7,
  MayFail <- TRUE

Provide == INSTANCE FileTransfer WITH Requested <- TRUE, MaxCalls <- 3, Overlap <- FALSE
Receive == INSTANCE FileTransfer WITH Requested <- FALSE, MaxCalls <- 3, Overlap <- FALSE

CallOut == INSTANCE ExampleCall WITH
  Peers <- {"plain", "(busy)", "(terminate)", "self"}, Media <- {<<TRUE, FALSE>>}, Statuses <- {},
  Ops <- {"RequestChannel", "Accept", "Hangup", "AddContent", "Remove", "SetSending",
  "RequestReceiving", "EndpointState", "Close"}, MaxChannels <- 1, MaxContents <- 2, MaxOps <- 5

CallHeld == INSTANCE ExampleCall WITH
  Peers <- {"plain", "(no unhold)", "(inability to unhold)"}, Media <- {<<TRUE, FALSE>>}, Statuses
  <- {}, Ops <- {"RequestChannel", "RequestHold", "Close"}, MaxChannels <- 1, MaxContents <- 2,
  MaxOps <- 5

CallIn == INSTANCE ExampleCall WITH
  Peers <- {"(no answer)"}, Media <- {<<TRUE, TRUE>>, <<FALSE, FALSE>>}, Statuses <- {<<TRUE,
  "">>, <<FALSE, "hi">>}, Ops <- {"RequestChannel", "SetPresence", "Accept", "Hangup",
  "AddContent", "Disconnect", "SetRinging", "SetQueued", "SetSending"}, MaxChannels <- 2,
  MaxContents <- 2, MaxOps <- 5

ASSUME SoundInstances ==
  /\ CallOut!SoundConstants /\ CallHeld!SoundConstants /\ CallIn!SoundConstants
  /\ Incoming!SoundConstants /\ Outgoing!SoundConstants /\ TwoStreams!SoundConstants
  /\ Accepting!SoundConstants
  /\ Changing!SoundConstants /\ Tones!SoundConstants /\ SteadyTones!SoundConstants
  /\ SoundConstants
  /\ Calm!SoundConstants /\ Hurried!SoundConstants /\ Queues!SoundConstants
  /\ SharedQueue!SoundConstants /\ DBusOffer!SoundConstants /\ DBusAccept!SoundConstants
  /\ ByPort!SoundConstants /\ ByCredentials!SoundConstants /\ ByOrder!SoundConstants
  /\ Joining!SoundConstants /\ JoiningFails!SoundConstants
  /\ Provide!SoundConstants /\ Receive!SoundConstants

(* The variables of a part that is not there. *)
NoCall == call = 0 /\ dtmf = 0
NoQueue == app = 0 /\ cont = 0 /\ idles = 0 /\ aborted = FALSE
NoTube == tube = 0 /\ peer = 0 /\ acc = 0 /\ ft = 0
NoWire == wire = << >> /\ svc = 0
NoExample == self = 0 /\ made = 0

CallInit ==
  /\ NoQueue /\ NoTube /\ NoWire /\ ch = 0
  /\ dtmf = 0
  /\ \/ part = "incoming" /\ Incoming!Init
     \/ part = "outgoing" /\ Outgoing!Init
     \/ part = "two streams" /\ TwoStreams!Init
     \/ part = "accepting" /\ Accepting!Init
     \/ part = "changing" /\ Changing!Init

ContentInit ==
  /\ NoQueue /\ NoTube /\ NoWire /\ ch = 0 /\ call = 0
  /\ \/ part = "tones" /\ Tones!Init
     \/ part = "steady tones" /\ SteadyTones!Init
     \/ part = "offers" /\ dtmf = 0

ClientInit ==
  /\ NoCall /\ NoTube
  /\ \/ part = "calm call" /\ NoQueue /\ Calm!Init
     \/ part = "hurried call" /\ NoQueue /\ Hurried!Init
     \/ part = "queues" /\ ch = 0 /\ wire = << >> /\ Queues!Init
     \/ part = "shared queue" /\ ch = 0 /\ wire = << >> /\ SharedQueue!Init

TubeInit ==
  /\ NoCall /\ NoQueue /\ ch = 0
  /\ \/ part = "d-bus offer" /\ peer = 0 /\ acc = 0 /\ ft = 0 /\ DBusOffer!Init
     \/ part = "d-bus accept" /\ peer = 0 /\ acc = 0 /\ ft = 0 /\ DBusAccept!Init
     \/ part = "by port" /\ ft = 0 /\ NoWire /\ ByPort!Init
     \/ part = "by credentials" /\ ft = 0 /\ NoWire /\ ByCredentials!Init
     \/ part = "by order" /\ ft = 0 /\ NoWire /\ ByOrder!Init
     \/ part = "joining" /\ ft = 0 /\ NoWire /\ Joining!Init
     \/ part = "joining fails" /\ ft = 0 /\ NoWire /\ JoiningFails!Init
     \/ part = "provide" /\ tube = 0 /\ peer = 0 /\ acc = 0 /\ Provide!Init
     \/ part = "accept" /\ tube = 0 /\ peer = 0 /\ acc = 0 /\ Receive!Init

ExampleInit ==
  /\ NoCall /\ NoQueue /\ NoTube /\ NoWire /\ ch = 0
  /\ \/ part = "calling" /\ CallOut!Init
     \/ part = "holding" /\ CallHeld!Init
     \/ part = "called" /\ CallIn!Init

MCInit ==
  /\ Init
  /\ (NoExample /\ (CallInit \/ ContentInit \/ ClientInit \/ TubeInit)) \/ ExampleInit

CallStep ==
  /\ UNCHANGED <<part, dtmf, vars, ch, queueVars, tube, streamVars, ft, wire, svc>>
  /\ \/ part = "incoming" /\ Incoming!Next
     \/ part = "outgoing" /\ Outgoing!Next
     \/ part = "two streams" /\ TwoStreams!Next
     \/ part = "accepting" /\ Accepting!Next
     \/ part = "changing" /\ Changing!Next

ContentStep ==
  /\ UNCHANGED <<part, call, ch, queueVars, tube, streamVars, ft, wire, svc>>
  /\ \/ part = "tones" /\ UNCHANGED vars /\ Tones!Next
     \/ part = "steady tones" /\ UNCHANGED vars /\ SteadyTones!Next
     \/ part = "offers" /\ UNCHANGED dtmf /\ Next

ClientStep ==
  /\ UNCHANGED <<part, call, dtmf, vars, tube, streamVars, ft>>
  /\ \/ part = "calm call" /\ UNCHANGED queueVars /\ Calm!Next
     \/ part = "hurried call" /\ UNCHANGED queueVars /\ Hurried!Next
     \/ part = "queues" /\ UNCHANGED <<ch, wire>> /\ Queues!Next
     \/ part = "shared queue" /\ UNCHANGED <<ch, wire>> /\ SharedQueue!Next

StreamStep ==
  /\ UNCHANGED <<part, call, dtmf, vars, ch, queueVars, ft, wire, svc>>
  /\ \/ part = "by port" /\ ByPort!Next
     \/ part = "by credentials" /\ ByCredentials!Next
     \/ part = "by order" /\ ByOrder!Next
     \/ part = "joining" /\ Joining!Next
     \/ part = "joining fails" /\ JoiningFails!Next

TransferStep ==
  /\ UNCHANGED <<part, call, dtmf, vars, ch, queueVars, streamVars>>
  /\ \/ part = "d-bus offer" /\ UNCHANGED ft /\ DBusOffer!Next
     \/ part = "d-bus accept" /\ UNCHANGED ft /\ DBusAccept!Next
     \/ part = "provide" /\ UNCHANGED tube /\ Provide!Next
     \/ part = "accept" /\ UNCHANGED tube /\ Receive!Next

ExampleStep ==
  /\ UNCHANGED <<part, call, dtmf, vars, ch, queueVars, tube, streamVars, ft, wire, svc>>
  /\ \/ part = "calling" /\ CallOut!Next
     \/ part = "holding" /\ CallHeld!Next
     \/ part = "called" /\ CallIn!Next

MCNext ==
  \/ /\ UNCHANGED exampleVars
     /\ CallStep \/ ContentStep \/ ClientStep \/ StreamStep \/ TransferStep
  \/ ExampleStep

MCSpec == MCInit /\ [][MCNext]_MCVars

-----------------------------------------------------------------------------
(* The types of all parts. *)
TypesOK ==
  /\ part = "incoming" => Incoming!TypeOK
  /\ part = "outgoing" => Outgoing!TypeOK
  /\ part = "two streams" => TwoStreams!TypeOK
  /\ part = "accepting" => Accepting!TypeOK
  /\ part = "changing" => Changing!TypeOK
  /\ part = "tones" => Tones!TypeOK
  /\ part = "steady tones" => SteadyTones!TypeOK
  /\ part = "offers" => TypeOK
  /\ part = "calm call" => Calm!TypeOK
  /\ part = "hurried call" => Hurried!TypeOK
  /\ part = "queues" => Queues!TypeOK
  /\ part = "shared queue" => SharedQueue!TypeOK
  /\ part = "d-bus offer" => DBusOffer!TypeOK
  /\ part = "d-bus accept" => DBusAccept!TypeOK
  /\ part = "by port" => ByPort!TypeOK
  /\ part = "by credentials" => ByCredentials!TypeOK
  /\ part = "by order" => ByOrder!TypeOK
  /\ part = "joining" => Joining!TypeOK
  /\ part = "joining fails" => JoiningFails!TypeOK
  /\ part = "provide" => Provide!TypeOK
  /\ part = "accept" => Receive!TypeOK
  /\ part = "calling" => CallOut!TypeOK
  /\ part = "holding" => CallHeld!TypeOK
  /\ part = "called" => CallIn!TypeOK

(* Media flows when it may: an initial stream is told to send exactly when the call
   is accepted and not held and the user wants to; a stream receives only in a call
   that is being accepted, from a contact who sends; a held call is silent, whatever
   the user, the streaming implementation and the contact do in whichever order. In
   the example manager nobody sends before a call is accepted, but for contents that
   were added before. *)
MediaFlowsWhenItMay ==
  /\ part = "incoming" =>
       Incoming!SendsExactlyWhenItMay /\ Incoming!ReceivesOnlyWhenItMay /\ Incoming!HeldIsSilent
  /\ part = "outgoing" =>
       Outgoing!SendsExactlyWhenItMay /\ Outgoing!ReceivesOnlyWhenItMay /\ Outgoing!HeldIsSilent
  /\ part = "two streams" =>
       /\ TwoStreams!SendsExactlyWhenItMay /\ TwoStreams!ReceivesOnlyWhenItMay
       /\ TwoStreams!HeldIsSilent
  /\ part = "accepting" => Accepting!SendsExactlyWhenItMay /\ Accepting!ReceivesOnlyWhenItMay
  /\ part = "changing" =>
       Changing!SendsExactlyWhenItMay /\ Changing!ReceivesOnlyWhenItMay /\ Changing!HeldIsSilent
  /\ part = "calling" => CallOut!QuietUntilAccepted
  /\ part = "holding" => CallHeld!QuietUntilAccepted
  /\ part = "called" => CallIn!QuietUntilAccepted

(* A call gets on: unless it is held with two streams, the subclass is told of the
   acceptance once, and it is told when the streams receive; a request to receive is passed on when it
   can be; a pending hold waits for a stream; the state of the call follows its
   endpoints. The example manager's contacts answer only calls that were made and
   have not ended, and a call that ended is over, whichever timers still run. The
   tones that are played are those asked for, and none after they were stopped; a
   client's requests are played and completed in their order. *)
CallProgresses ==
  /\ part = "incoming" =>
       /\ Incoming!AcceptedOnce /\ Incoming!AcceptanceIsTold /\ Incoming!RequestsArePassedOn
       /\ Incoming!StateFollowsEndpoints
  /\ part = "outgoing" =>
       /\ Outgoing!AcceptedOnce /\ Outgoing!AcceptanceIsTold /\ Outgoing!RequestsArePassedOn
       /\ Outgoing!StateFollowsEndpoints
  /\ part = "two streams" =>
       /\ TwoStreams!AcceptanceIsTold /\ TwoStreams!RequestsArePassedOn
       /\ TwoStreams!PendingHoldWaits
  /\ part = "accepting" =>
       Accepting!AcceptedOnce /\ Accepting!AcceptanceIsTold /\ Accepting!RequestsArePassedOn
  /\ part = "changing" => Changing!AcceptedOnce /\ Changing!RequestsArePassedOn
  /\ part = "calling" => CallOut!AnswersInTime /\ CallOut!EndedIsOver
  /\ part = "holding" => CallHeld!AnswersInTime /\ CallHeld!EndedIsOver
  /\ part = "called" => CallIn!AnswersInTime /\ CallIn!EndedIsOver
  /\ part = "tones" => Tones!PlayedIsAsked /\ Tones!StoppedIsSilent
  /\ part = "steady tones" =>
       SteadyTones!AssertionsHold /\ SteadyTones!PlayedIsAsked /\ SteadyTones!StoppedIsSilent
  /\ part = "queues" =>
       /\ Queues!CompletedInOrder /\ Queues!PlayedBeforeCompleted /\ Queues!CalledBackLast
       /\ Queues!CalledBackWhenDone /\ Queues!QueueMoves
  /\ part = "shared queue" =>
       SharedQueue!CompletedInOrder /\ SharedQueue!CalledBackLast /\ SharedQueue!QueueMoves

(* A TpCallChannel shows the contents and members of the call, and is prepared once,
   when it has its initial members, if none came too early and no call failed. And
   clients of the example manager were told the state, the contents and the hold of
   its calls, which is what was last asked for. *)
CallIsMirrored ==
  /\ part = "calm call" =>
       /\ Calm!ContentsMirrored /\ Calm!MembersMirrored /\ Calm!PreparedIsWhole
       /\ Calm!CoreAnsweredOnce /\ Calm!CoreIsAnswered
  /\ part = "hurried call" => Hurried!ContentsMirrored /\ Hurried!MembersMirrored
  /\ part = "calling" => CallOut!CallIsTold
  /\ part = "holding" => CallHeld!CallIsTold
  /\ part = "called" => CallIn!CallIsTold /\ CallIn!PresenceIsTold

(* Offering and accepting a tube, and providing and accepting a file, are
   answered once; an open tube is seen to be; a closed one answers; a transfer
   starts once.  The two halves of a stream tube's connection, socket and signal,
   find each other in either order, and the contact announced is the one who
   connected. *)
TransfersAreRight ==
  /\ part = "d-bus offer" => DBusOffer!TransfersAreRight
  /\ part = "d-bus accept" => DBusAccept!TransfersAreRight
  /\ part = "provide" => Provide!TransfersAreRight
  /\ part = "accept" => Receive!TransfersAreRight
  /\ part = "by port" =>
       ByPort!NobodyWaitsForAnother /\ ByPort!ContactIsRight /\ ByPort!TableIsAlive
  /\ part = "by credentials" =>
       /\ ByCredentials!NobodyWaitsForAnother /\ ByCredentials!ContactIsRight
       /\ ByCredentials!OnlyTheContact /\ ByCredentials!TableIsAlive
  /\ part = "by order" => ByOrder!NobodyWaitsForAnother /\ ByOrder!TableIsAlive
  /\ part = "joining" =>
       Joining!LocalPaired /\ Joining!AcceptAnsweredOnce /\ Joining!AcceptIsAnswered
  /\ part = "joining fails" => JoiningFails!LocalPaired
=============================================================================
