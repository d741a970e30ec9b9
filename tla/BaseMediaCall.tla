--------------------------- MODULE BaseMediaCall ---------------------------
(***************************************************************************)
(* A call in a connection manager: TpBaseCallChannel, its contents and     *)
(* streams, and the TpBaseMedia* classes that decide when media flows      *)
(* (telepathy-glib/base-call-{channel,content,stream}.c and                *)
(* base-media-call-{channel,content,stream}.c).                            *)
(*                                                                         *)
(* Three parties meet in the object.  The user's client accepts, holds,    *)
(* mutes and hangs up.  The streaming implementation is told, by the       *)
(* SendingState and ReceivingState of each stream, to start or to stop,    *)
(* and answers when it has.  The subclass (the protocol) reports what the  *)
(* remote side does, and is called back through virtual methods.  The      *)
(* subclass itself is external: it is modelled from the calls it is        *)
(* allowed to make and the ones it receives.                               *)
(*                                                                         *)
(* A content has one stream, and one contact is at the other end.  The     *)
(* whole object is one record: every entry point below is a function from  *)
(* the record to the record after the call has returned, its signal        *)
(* handlers included: notify::receiving-state re-enters try_accept().      *)
(***************************************************************************)
EXTENDS Integers, Sequences, FiniteSets, SequencesExt

CONSTANTS Order,      \* the contents (each with its stream), last added first
          Initial,    \* those whose disposition is INITIAL
          Requested,  \* TRUE: we call; FALSE: we are called
          Ops         \* the calls the three parties make in this instance

VARIABLE call

Streams == ToSet(Order)
Sends == {"PENDING_SEND", "SENDING"}
Flowing == {"PENDING_START", "STARTED"}
FlowStates == {"STOPPED", "PENDING_START", "PENDING_STOP", "STARTED"}
CallStates == {"PENDING_INITIATOR", "INITIALISING", "INITIALISED",
               "ACCEPTED", "ACTIVE", "ENDED"}

SoundConstants ==
  /\ IsInjective(Order) /\ Initial \subseteq Streams
  /\ Requested \in BOOLEAN

(***************************************************************************)
(* A stream.  `local' and `remote' are the sending states on D-Bus; `send' *)
(* and `recv' the flow states; `wish' is priv->local_sending, `pending'    *)
(* says that the contact is in priv->receiving_requests; `sfail' and       *)
(* `rfail' are only set inside the failure handlers.  `misled' records     *)
(* that the subclass was told to stop sending while the user wanted to     *)
(* send.                                                                   *)
(***************************************************************************)
NewStream(x) ==
  [in |-> x \in Initial, gone |-> FALSE, connected |-> FALSE, watched |-> FALSE,
   local |-> IF Requested THEN "SENDING" ELSE "PENDING_SEND",
   remote |-> IF Requested THEN "PENDING_SEND" ELSE "SENDING",
   send |-> "STOPPED", recv |-> "STOPPED",
   wish |-> Requested /\ x \notin Initial, remotelyHeld |-> FALSE, stopRequested |-> FALSE,
   pending |-> FALSE, sfail |-> FALSE, rfail |-> FALSE, misled |-> FALSE]

In(c) == SelectSeq(Order, LAMBDA x : c.st[x].in)

\* tp_base_media_call_channel_is_connected()
IsConnected(c) == \A x \in Streams : c.st[x].in => c.st[x].connected

(***************************************************************************)
(* The call state.  Reaching INITIALISING or ACCEPTED when every stream    *)
(* has a connected endpoint moves one state further at once.               *)
(***************************************************************************)
Bumped(state, connected) ==
  IF connected /\ state = "INITIALISING" THEN "INITIALISED"
  ELSE IF connected /\ state = "ACCEPTED" THEN "ACTIVE" ELSE state

set_state(c, state) ==
  IF c.state = state THEN c
  ELSE [c EXCEPT !.state = Bumped(state, IsConnected(c)),
                 !.ringing = @ /\ state = "INITIALISED",
                 !.queued = @ /\ state \in {"INITIALISING", "INITIALISED"}]

\* BUG: the streams that are already connected are not looked at.
set_stateUnbumped(c, state) ==
  IF c.state = state THEN c
  ELSE [c EXCEPT !.state = state,
                 !.ringing = @ /\ state = "INITIALISED",
                 !.queued = @ /\ state \in {"INITIALISING", "INITIALISED"}]

SetState(c, state) == set_state(c, state)

\* _tp_base_media_call_channel_endpoint_state_changed()
EndpointStateChanged(c) ==
  IF c.state \in {"INITIALISING", "ACCEPTED"} /\ IsConnected(c)
  THEN SetState(c, Bumped(c.state, TRUE))
  ELSE IF c.state = "ACTIVE" /\ ~IsConnected(c) THEN SetState(c, "ACCEPTED")
  ELSE c

-----------------------------------------------------------------------------
(***************************************************************************)
(* What flows.  A request to reach a state that is reached, or on its way, *)
(* is ignored (ignore_state_change()).                                     *)
(***************************************************************************)
Flow(old, may) ==
  IF may THEN IF old = "STARTED" THEN old ELSE "PENDING_START"
  ELSE IF old = "STOPPED" THEN old ELSE "PENDING_STOP"

IsHeld(c) == c.hold \in {"PENDING_HOLD", "HELD"}

may_send(c, x) ==
  /\ ~IsHeld(c) /\ c.accepted
  /\ ~c.st[x].remotelyHeld /\ ~c.st[x].sfail /\ c.st[x].wish

\* BUG: the remote side's hold does not stop us.
may_sendToHolder(c, x) ==
  ~IsHeld(c) /\ c.accepted /\ ~c.st[x].sfail /\ c.st[x].wish

MaySend(c, x) == may_send(c, x)

UpdateSendingState(c, x) ==
  [c EXCEPT !.st[x].send = Flow(@, MaySend(c, x))]

SetLocalSending(c, x, b) ==
  IF c.st[x].wish = b THEN c
  ELSE UpdateSendingState([c EXCEPT !.st[x].wish = b], x)

SetRemotelyHeld(c, x, b) ==
  IF c.st[x].remotelyHeld = b THEN c
  ELSE UpdateSendingState([c EXCEPT !.st[x].remotelyHeld = b], x)

may_receive(c, x) ==
  /\ c.locally /\ ~c.st[x].rfail /\ ~IsHeld(c)
  /\ c.st[x].remote \in Sends

\* BUG: a stream is set to receive before the call is accepted.
may_receiveEarly(c, x) ==
  ~c.st[x].rfail /\ ~IsHeld(c) /\ c.st[x].remote \in Sends

MayReceive(c, x) == may_receive(c, x)

\* tp_base_call_stream_update_local_sending_state(), less its signal
LocalSendingState(c, state) ==
  IF state = "SENDING" /\ ~c.accepted /\ ~Requested THEN "PENDING_SEND" ELSE state

\* _tp_base_call_content_accepted() on each content
AcceptReal(c) ==
  [c EXCEPT !.st = [x \in Streams |->
     IF @[x].in /\ x \in Initial /\ @[x].local = "PENDING_SEND"
     THEN [@[x] EXCEPT !.local = LocalSendingState(c, "SENDING")] ELSE @[x]]]

(***************************************************************************)
(* try_accept() asks each content whether it is ready, which on the way    *)
(* sets its streams going; it is called again whenever a watched stream's  *)
(* receiving state changes, so also from inside itself.  GObject does not  *)
(* nest a notification of one property of one object: it runs the handlers *)
(* again when they have returned.                                          *)
(***************************************************************************)
RECURSIVE TryAccept(_)

RECURSIVE Emitted(_, _)
Emitted(c, x) ==
  IF x \in c.again /\ ~c.told
  THEN Emitted(TryAccept([c EXCEPT !.again = @ \ {x}]), x)
  ELSE [c EXCEPT !.emitting = @ \ {x}, !.again = @ \ {x}]

ReceivingStateChanged(c, x) ==
  IF ~c.st[x].watched \/ c.told THEN c
  ELSE IF x \in c.emitting THEN [c EXCEPT !.again = @ \cup {x}]
  ELSE Emitted(TryAccept([c EXCEPT !.emitting = @ \cup {x}]), x)

UpdateReceivingState(c, x) ==
  IF Flow(c.st[x].recv, MayReceive(c, x)) = c.st[x].recv THEN c
  ELSE ReceivingStateChanged([c EXCEPT !.st[x].recv = Flow(@, MayReceive(c, x))], x)

StreamReady(a, x, c) ==
  IF a.c.st[x].remote \notin Sends THEN [c |-> c, ready |-> a.ready]
  ELSE [c |-> UpdateReceivingState(c, x),
        ready |-> a.ready /\ (x \in Initial => a.c.st[x].recv = "STARTED")]

ready_to_accept(a, x) ==
  LET proposed == x \in Initial /\ ~Requested /\ a.c.st[x].local = "PENDING_SEND"
  IN StreamReady(a, x, UpdateSendingState(
       IF proposed THEN SetLocalSending(a.c, x, TRUE) ELSE a.c, x))

\* BUG: the subclass is told without waiting for the streams to receive.
ready_to_acceptAtOnce(a, x) ==
  [ready_to_accept(a, x) EXCEPT !.ready = a.ready]

ReadyToAccept(a, x) == ready_to_accept(a, x)

\* the subclass's accept(), then that of TpBaseCallChannel
TellAccepted(c) ==
  [AcceptReal(c) EXCEPT !.accepts = IF @ < 2 THEN @ + 1 ELSE @, !.told = TRUE]

AcceptIfReady(a) == IF ~a.ready /\ ~IsHeld(a.c) THEN a.c ELSE TellAccepted(a.c)

TryAccept(c) ==
  IF c.told THEN c
  ELSE AcceptIfReady(FoldLeft(ReadyToAccept, [c |-> c, ready |-> TRUE], In(c)))

\* tp_base_media_call_channel_accept(): watch the streams while some are not ready
WaitForStreams(c) ==
  IF c.told THEN c
  ELSE [c EXCEPT !.st = [x \in Streams |->
          IF @[x].in /\ x \in Initial THEN [@[x] EXCEPT !.watched = TRUE] ELSE @[x]]]

\* notify::remote-members: first the stream's own handler, then the channel's
RemoteMembersChanged(c, x) ==
  ReceivingStateChanged(UpdateReceivingState(c, x), x)

\* tp_base_call_stream_update_remote_sending_state()
UpdateRemoteSendingState(c, x, asked) ==
  LET new == IF asked = "SENDING" /\ Requested /\ ~c.accepted THEN "PENDING_SEND" ELSE asked
  IN IF c.st[x].remote = new THEN c
     ELSE RemoteMembersChanged([c EXCEPT !.st[x].remote = new], x)

-----------------------------------------------------------------------------
(***************************************************************************)
(* Hold.  A pending hold state ends when every stream has stopped, or      *)
(* every stream that should flow has started.                              *)
(***************************************************************************)
UpdateFlows(c, x) == UpdateSendingState(UpdateReceivingState(c, x), x)

HoldSeen(a, old, c, now) ==
  [c |-> c,
   stopped |-> a.stopped /\ now.send = "STOPPED" /\ now.recv = "STOPPED",
   started |-> /\ a.started
               /\ old.local = "SENDING" => now.send = "STARTED"
               /\ old.remote \in Sends => now.recv = "STARTED"]

HoldChecked(a, x, c) == HoldSeen(a, a.c.st[x], c, c.st[x])

HoldStep(a, x) == HoldChecked(a, x, UpdateFlows(a.c, x))

HoldDone(a) ==
  IF a.c.hold = "PENDING_HOLD" /\ a.stopped THEN [a.c EXCEPT !.hold = "HELD"]
  ELSE IF a.c.hold = "PENDING_UNHOLD" /\ a.started THEN [a.c EXCEPT !.hold = "UNHELD"]
  ELSE a.c

\* update_hold_state(); before the call is accepted no stream is looked at
update_hold_state(c) ==
  IF c.hold \notin {"PENDING_HOLD", "PENDING_UNHOLD"} THEN c
  ELSE IF ~c.accepted
       THEN HoldDone([c |-> [c EXCEPT !.unseen = TRUE], stopped |-> TRUE, started |-> TRUE])
       ELSE HoldDone(FoldLeft(HoldStep,
              [c |-> [c EXCEPT !.unseen = FALSE], stopped |-> TRUE, started |-> TRUE],
              In(c)))

\* BUG: a hold is over as soon as it is asked for.
update_hold_stateAtOnce(c) ==
  IF c.hold \notin {"PENDING_HOLD", "PENDING_UNHOLD"} THEN c
  ELSE HoldDone([c |-> c, stopped |-> TRUE, started |-> TRUE])

UpdateHoldState(c) == update_hold_state(c)

SetHoldState(c, h) == IF c.hold = h THEN c ELSE UpdateHoldState([c EXCEPT !.hold = h])

\* hold_change_failed(): a stream that cannot start again puts all back on hold
hold_change_failed(c) ==
  IF c.hold # "PENDING_UNHOLD" THEN c
  ELSE UpdateHoldState(FoldLeft(UpdateFlows, SetHoldState(c, "PENDING_HOLD"), In(c)))

\* BUG: the failure of one stream leaves the others to go on.
hold_change_failedAlone(c) == c

HoldChangeFailed(c) == hold_change_failed(c)

-----------------------------------------------------------------------------
\* The constructor of an incoming call asks for INITIALISING before it has a
\* content, when all of its (no) streams are connected.
Init ==
  call = [state |-> IF Requested THEN "PENDING_INITIATOR" ELSE Bumped("INITIALISING", TRUE),
          accepted |-> FALSE, locally |-> FALSE, told |-> FALSE, accepts |-> 0,
          asked |-> FALSE, hold |-> "UNHELD", unseen |-> FALSE,
          ringing |-> FALSE, queued |-> FALSE, closed |-> FALSE,
          emitting |-> {}, again |-> {},
          st |-> [x \in Streams |-> NewStream(x)]]

Allowed(op) == op \in Ops /\ ~call.closed

\* The user's client

SetRinging ==
  /\ Allowed("ring") /\ ~Requested /\ call.state = "INITIALISED"
  /\ call' = [call EXCEPT !.ringing = TRUE, !.queued = @ /\ call.ringing]

SetQueued ==
  /\ Allowed("ring") /\ ~Requested /\ call.state \in {"INITIALISING", "INITIALISED"}
  /\ call' = [call EXCEPT !.queued = TRUE]

\* in the wrong state the method fails, but has set locally_accepted
Accept ==
  /\ Allowed("accept")
  /\ call' =
       IF call.state # (IF Requested THEN "PENDING_INITIATOR" ELSE "INITIALISED")
       THEN [call EXCEPT !.locally = TRUE]
       ELSE WaitForStreams(TryAccept(
              [SetState([call EXCEPT !.locally = TRUE],
                        IF Requested THEN "INITIALISING" ELSE "ACCEPTED")
                 EXCEPT !.accepted = ~Requested, !.asked = TRUE]))

Hangup ==
  /\ Allowed("hangup") /\ call.state # "ENDED"
  /\ call' = SetState(call, "ENDED")

Removed(c, x) == [c EXCEPT !.st[x] = [NewStream(x) EXCEPT !.in = FALSE, !.gone = TRUE]]

Close ==
  /\ Allowed("hangup")
  /\ call' = [FoldLeft(Removed, call, Order) EXCEPT !.closed = TRUE]

\* tp_base_call_channel_add_content(): the stream's "channel" is set, which
\* updates what flows
Added(c, x) == UpdateFlows([c EXCEPT !.st[x].in = TRUE], x)

\* The method, whose subclass adds a content with one stream
AddContent(x) ==
  /\ Allowed("contents") /\ call.state # "ENDED"
  /\ ~call.st[x].in /\ ~call.st[x].gone
  /\ call' = Added(call, x)

\* Remove() and Fail() of a content, Fail() of its only stream
RemoveContent(x) ==
  /\ Allowed("contents") /\ call.st[x].in
  /\ call' = Removed(call, x)

\* The subclass's set_sending(); to start, it sets local-sending.  [external]
VSetSending(c, x, b) ==
  IF b THEN SetLocalSending(c, x, TRUE)
  ELSE [c EXCEPT !.st[x].misled = @ \/ c.st[x].local = "SENDING"]

\* tp_base_media_call_stream_set_sending(): the stream stops before the subclass
\* hears of it
MediaSetSending(c, x, b) ==
  LET stop == SetLocalSending(c, x, FALSE)
  IN IF b THEN VSetSending(c, x, TRUE)
     ELSE [stop EXCEPT !.st[x].stopRequested = @ \/ stop.st[x].send # "STOPPED"]

SetSending(x, b) ==
  /\ Allowed("sending") /\ call.st[x].in
  /\ LET same == (call.st[x].local \in {"SENDING", "PENDING_STOP"}) = b
         c == IF same THEN call ELSE MediaSetSending(call, x, b)
     IN call' = [c EXCEPT !.st[x].local = LocalSendingState(c, IF b THEN "SENDING" ELSE "NONE")]

\* tp_base_media_call_stream_request_receiving(): a stream that does not receive
\* yet remembers the contact
MediaRequestReceiving(c, x, b) ==
  IF b /\ c.st[x].recv # "STARTED"
  THEN UpdateReceivingState([c EXCEPT !.st[x].pending = TRUE], x)
  ELSE IF b THEN c ELSE [c EXCEPT !.st[x].pending = FALSE]

RequestReceiving(x, b) ==
  /\ Allowed("receiving") /\ call.st[x].in
  /\ (call.st[x].remote \in Sends) # b
  /\ call' = MediaRequestReceiving(
       UpdateRemoteSendingState(call, x, IF b THEN "PENDING_SEND" ELSE "PENDING_STOP"), x, b)

RequestHold(b) ==
  /\ Allowed("hold")
  /\ IsHeld(call) # b
  /\ call' = SetHoldState(call, IF b THEN "PENDING_HOLD" ELSE "PENDING_UNHOLD")

-----------------------------------------------------------------------------
\* The streaming implementation

CompleteSendingStateChange(x) ==
  /\ Allowed("stream") /\ call.st[x].in
  /\ call.st[x].send \in {"PENDING_START", "PENDING_STOP"}
  /\ LET stopped == call.st[x].send = "PENDING_STOP"
         c == UpdateHoldState([call EXCEPT !.st[x].send = IF stopped THEN "STOPPED" ELSE "STARTED"])
         d == IF stopped /\ c.st[x].stopRequested THEN VSetSending(c, x, FALSE) ELSE c
     IN call' = [d EXCEPT !.st[x].stopRequested = FALSE]

\* The subclass's report_sending_failure(): we do not send any more.  [external]
VReportSendingFailure(c, x) == [c EXCEPT !.st[x].local = "NONE"]

ReportSendingFailure(x) ==
  /\ Allowed("failure") /\ call.st[x].in /\ call.st[x].send # "STOPPED"
  /\ LET c == HoldChangeFailed([call EXCEPT !.st[x].sfail = TRUE, !.st[x].send = "STOPPED",
                                            !.st[x].stopRequested = FALSE])
         d == IF call.hold # "UNHELD" THEN c
              ELSE VReportSendingFailure([c EXCEPT !.st[x].wish = FALSE], x)
     IN call' = [d EXCEPT !.st[x].sfail = FALSE]

complete_receiving(c, x) ==
  LET stopped == c.st[x].recv = "PENDING_STOP"
      d == UpdateHoldState(ReceivingStateChanged(
             [c EXCEPT !.st[x].recv = IF stopped THEN "STOPPED" ELSE "STARTED"], x))
  IN IF stopped THEN d ELSE [d EXCEPT !.st[x].pending = FALSE]

\* BUG: the requests made while the stream was starting are not passed on.
complete_receivingForgets(c, x) ==
  UpdateHoldState(ReceivingStateChanged([c EXCEPT !.st[x].recv =
      IF c.st[x].recv = "PENDING_STOP" THEN "STOPPED" ELSE "STARTED"], x))

CompleteReceiving(c, x) == complete_receiving(c, x)

CompleteReceivingStateChange(x) ==
  /\ Allowed("stream") /\ call.st[x].in
  /\ call.st[x].recv \in {"PENDING_START", "PENDING_STOP"}
  /\ call' = CompleteReceiving(call, x)

\* The requests to receive are dropped, also of a stream that is stopped.  The
\* subclass's report_receiving_failure(): the contact's media is given up, once
\* the handler that clears receiving_failure has gone on.  [external]
ReportReceivingFailure(x) ==
  /\ Allowed("failure") /\ call.st[x].in
  /\ LET none == [call EXCEPT !.st[x].pending = FALSE]
         c == HoldChangeFailed(ReceivingStateChanged(
                [none EXCEPT !.st[x].recv = "STOPPED", !.st[x].rfail = TRUE], x))
         d == IF call.hold # "UNHELD" THEN c ELSE UpdateRemoteSendingState(c, x, "NONE")
     IN call' = IF call.st[x].recv = "STOPPED" THEN none ELSE [d EXCEPT !.st[x].rfail = FALSE]

EndpointState(x) ==
  /\ Allowed("endpoint") /\ call.st[x].in
  /\ call' = EndpointStateChanged([call EXCEPT !.st[x].connected = ~@])

-----------------------------------------------------------------------------
\* The subclass, on behalf of the remote side

remote_accepted(c, x) ==
  IF x \notin Initial THEN c
  ELSE UpdateSendingState(IF c.st[x].local = "SENDING" THEN SetLocalSending(c, x, TRUE) ELSE c, x)

\* BUG: what the user chose to send before the answer is not started.
remote_acceptedIdle(c, x) == c

RemoteAccepted(c, x) == remote_accepted(c, x)

RemoteAccept ==
  /\ Allowed("remote") /\ Requested /\ ~call.accepted
  /\ call.state \in {"INITIALISED", "INITIALISING"}
  /\ LET c == SetState([call EXCEPT !.accepted = TRUE], "ACCEPTED")
     IN call' = FoldLeft(RemoteAccepted, c, In(c))

RemoteSends(x, state) ==
  /\ Allowed("members") /\ call.st[x].in
  /\ call.st[x].remote # state
  /\ call' = UpdateRemoteSendingState(call, x, state)

\* The contact holds the call or takes it back: call_members_changed_cb()
RemoteHolds(b) ==
  /\ Allowed("remotehold")
  /\ call' = FoldLeft(LAMBDA c, x : SetRemotelyHeld(c, x, b), call, In(call))
  /\ call' # call

RemoteEnds ==
  /\ Allowed("remote") /\ call.state # "ENDED"
  /\ call' = SetState(call, "ENDED")

\* A subclass that still waits for its transport says so.
Initialising ==
  /\ Allowed("initialising") /\ ~Requested /\ call.state = "INITIALISED"
  /\ call' = SetState(call, "INITIALISING")

ClientStep ==
  \/ SetRinging \/ SetQueued \/ Accept \/ Hangup \/ Close
  \/ \E x \in Streams : AddContent(x) \/ RemoveContent(x)
  \/ \E x \in Streams, b \in BOOLEAN : SetSending(x, b) \/ RequestReceiving(x, b)
  \/ \E b \in BOOLEAN : RequestHold(b)

StreamingStep ==
  \E x \in Streams :
    \/ CompleteSendingStateChange(x) \/ CompleteReceivingStateChange(x)
    \/ ReportSendingFailure(x) \/ ReportReceivingFailure(x) \/ EndpointState(x)

RemoteStep ==
  \/ RemoteAccept \/ RemoteEnds \/ Initialising
  \/ \E x \in Streams, state \in {"NONE", "SENDING"} : RemoteSends(x, state)
  \/ \E b \in BOOLEAN : RemoteHolds(b)

Next == ClientStep \/ StreamingStep \/ RemoteStep

Spec == Init /\ [][Next]_call

-----------------------------------------------------------------------------
\* The states have their types; no notification is under way between two calls
\* and the failure flags are only set inside the failure handlers.
TypeOK ==
  /\ call.state \in CallStates
  /\ call.hold \in {"UNHELD", "PENDING_HOLD", "HELD", "PENDING_UNHOLD"}
  /\ call.accepts \in 0..2 /\ call.emitting = {} /\ call.again = {}
  /\ \A x \in Streams :
       /\ call.st[x].local \in {"NONE", "PENDING_SEND", "SENDING", "PENDING_STOP"}
       /\ call.st[x].remote \in {"NONE", "PENDING_SEND", "SENDING", "PENDING_STOP"}
       /\ call.st[x].send \in FlowStates /\ call.st[x].recv \in FlowStates
       /\ ~call.st[x].sfail /\ ~call.st[x].rfail

Live == {x \in Streams : call.st[x].in}

\* Media is sent exactly when it may be: the streaming implementation has been
\* told to send on an initial stream if and only if the call is accepted, nobody
\* holds it and the user wants to send, whatever was said in which order.
SendsExactlyWhenItMay ==
  \A x \in Live :
    /\ call.st[x].send \in Flowing => MaySend(call, x)
    /\ x \in Initial /\ MaySend(call, x) => call.st[x].send \in Flowing

\* Nothing is received that nobody asked for: a stream told to receive belongs to
\* a call the user has tried to accept, its contact is (or is about to be)
\* sending, and the call is not on hold unless the hold came before the call was
\* accepted, when update_hold_state() looks at no stream.
ReceivesOnlyWhenItMay ==
  \A x \in Live : call.st[x].recv \in Flowing =>
    /\ call.locally /\ call.st[x].remote \in Sends
    /\ IsHeld(call) => call.unseen

\* "Held" is said when every stream has stopped (unless, again, the hold came
\* before the call was accepted).
HeldIsSilent ==
  call.hold = "HELD" /\ ~call.unseen =>
    \A x \in Live : call.st[x].send = "STOPPED" /\ call.st[x].recv = "STOPPED"

\* No stream still receives when the channel says it is held: the specification
\* of the Hold interface says it without exception.
HeldMeansHeld ==
  call.hold = "HELD" => \A x \in Live : call.st[x].recv # "STARTED"

\* A pending hold state waits for something: for a stream whose change the
\* streaming implementation has been asked for and has not reported yet.
PendingHoldWaits ==
  call.hold \in {"PENDING_HOLD", "PENDING_UNHOLD"} /\ ~call.closed =>
    \E x \in Live : \/ call.st[x].send \in {"PENDING_START", "PENDING_STOP"}
                    \/ call.st[x].recv \in {"PENDING_START", "PENDING_STOP"}

\* The subclass is told of the acceptance once.
AcceptedOnce == call.accepts <= 1

\* ... and it is not forgotten: when the user's Accept() succeeded and every
\* initial stream the contact sends on is receiving, the subclass was told.
AcceptanceIsTold ==
  /\ call.accepts > 0 => call.asked
  /\ call.asked /\ ~call.closed /\ (\A x \in Live \cap Initial :
                      call.st[x].remote \in Sends => call.st[x].recv = "STARTED")
     => call.accepts > 0

\* A request to receive made while the stream could not is passed to the
\* subclass when it can: none is kept once the stream receives.
RequestsArePassedOn ==
  \A x \in Live : call.st[x].pending => call.st[x].recv # "STARTED"

\* The subclass's set_sending() is called when the user asks to start or to stop
\* sending (base-media-call-stream.c:73): it is never told to stop while the user
\* wants to send.
StopIsWanted == \A x \in Live : ~call.st[x].misled

\* The call state agrees with what happened: accepted calls are ACCEPTED or
\* ACTIVE until they end, and which of the two follows the endpoints.
StateFollowsEndpoints ==
  call.closed \/
  /\ call.accepted => call.state \in {"ACCEPTED", "ACTIVE", "ENDED"}
  /\ call.state \in {"ACCEPTED", "ACTIVE"} => call.accepted
  /\ call.state = "ACTIVE" => IsConnected(call)
  /\ call.state \in {"ACCEPTED", "INITIALISING"} => ~IsConnected(call)
  /\ call.ringing => call.state = "INITIALISED"
  /\ call.queued => call.state \in {"INITIALISING", "INITIALISED"}
=============================================================================
