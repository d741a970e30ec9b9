--------------------------- MODULE ChannelRequest ---------------------------
(***************************************************************************)
(* A channel requested by an application: TpAccountChannelRequest          *)
(* (account-channel-request.c) asks the channel dispatcher for a channel,  *)
(* gets a ChannelRequest object, watches it through a TpChannelRequest     *)
(* proxy (channel-request.c), starts it with Proceed(), and completes one  *)
(* GSimpleAsyncResult when the channel is handled by its own temporary     *)
(* handler (HANDLE), has been prepared (OBSERVE), or exists (FORGET).      *)
(*                                                                         *)
(* acr is the TpAccountChannelRequest with the proxy it holds.  The        *)
(* dispatcher (external) answers calls in order and its replies, signals   *)
(* and calls travel in one ordered queue, as D-Bus messages between two    *)
(* connections do.                                                         *)
(***************************************************************************)
EXTENDS Naturals, Sequences

CONSTANTS
  Actions,      \* the kinds of request: HANDLE, OBSERVE, FORGET
  MaxRehandles, \* how often the dispatcher hands the channel over again
  MayCrash      \* the dispatcher may disappear from the bus

VARIABLES
  acr,    \* the TpAccountChannelRequest and its TpChannelRequest
  calls,  \* calls on their way to the dispatcher, oldest first
  wire,   \* messages of the dispatcher on their way, oldest first
  mc,     \* what the dispatcher makes of the request
  chan    \* the channel: "none", "open" or "closed"

vars == <<acr, calls, wire, mc, chan>>

SoundConstants ==
  /\ Actions \subseteq {"HANDLE", "OBSERVE", "FORGET"}
  /\ MaxRehandles \in Nat
  /\ MayCrash \in BOOLEAN

-----------------------------------------------------------------------------
(* The dispatcher's view: phase, whether our handler accepted the channel,
   and how often the channel was handed over again. *)
Dispatcher ==
  [ phase : {"idle", "made", "working", "calling", "handled", "announced",
             "succeeded", "failed", "crashed"},
    ours : BOOLEAN, again : 0..MaxRehandles ]

TpAccountChannelRequest ==
  [ action    : Actions \cup {"none"},
    result    : {"none", "pending", "idle", "told"},
    value     : {"none", "ok", "error"},
    request   : {"none", "valid", "removed", "lost", "invalid"},
    sigs      : BOOLEAN,
    fired     : BOOLEAN,
    channel   : BOOLEAN,
    cancelled : BOOLEAN,
    cancel_id : BOOLEAN,
    proceed   : {"none", "pending", "lost"},
    preparing : BOOLEAN,
    handler   : {"none", "registered", "gone"},
    handling  : {"none", "one", "many"},
    rehandled : Nat,
    user      : BOOLEAN,
    kept      : BOOLEAN,
    aborted   : BOOLEAN ]

NewAcr ==
  [ action |-> "none", result |-> "none", value |-> "none",
    request |-> "none", sigs |-> FALSE, fired |-> FALSE, channel |-> FALSE,
    cancelled |-> FALSE, cancel_id |-> FALSE, proceed |-> "none",
    preparing |-> FALSE, handler |-> "none", handling |-> "none",
    rehandled |-> 0, user |-> TRUE, kept |-> FALSE, aborted |-> FALSE ]

(* Somebody holds a reference: the application, the result, or the object
   itself until the channel it handles is invalidated. *)
Alive(a) == a.user \/ a.kept \/ a.result \in {"pending", "idle"}

(* tp_account_channel_request_dispose once the last reference is gone: the
   handlers are disconnected, weak_object drops the pending calls, and the
   temporary handler leaves the bus. *)
Unref(a) ==
  IF Alive(a) THEN a
  ELSE [a EXCEPT !.sigs = FALSE, !.cancel_id = FALSE, !.proceed = "none",
                 !.handler = IF @ = "registered" THEN "gone" ELSE @]

(* request_disconnect and complete_result, which asserts that the result is
   still there. *)
CompleteResult(a) ==
  IF a.result = "pending"
  THEN [a EXCEPT !.sigs = FALSE, !.result = "idle"]
  ELSE [a EXCEPT !.aborted = TRUE]

(* request_fail *)
RequestFail(a) == CompleteResult([a EXCEPT !.value = "error"])

(* acr_channel_request_invalidated_cb, when it is connected. *)
InvalidatedCb(a, removed) ==
  IF a.sigs /\ ~removed THEN RequestFail(a) ELSE a

(* BUG: a ChannelRequest that is removed is always a failure. *)
InvalidatedAlwaysFails(a, removed) ==
  IF a.sigs THEN RequestFail(a) ELSE a

Invalidated(a, removed) == InvalidatedCb(a, removed)

(* acr_channel_request_succeeded_with_channel, when it is connected; given
   says whether the dispatcher named the channel. *)
SucceededWithChannel(a, given) ==
  LET b == [a EXCEPT !.channel = @ \/ given]
  IN  IF ~a.sigs THEN a
      ELSE CASE a.action = "HANDLE" -> RequestFail(b)
             [] a.action = "OBSERVE" ->
                  IF b.channel THEN [b EXCEPT !.preparing = TRUE]
                               ELSE RequestFail(b)
             [] a.action = "FORGET" ->
                  CompleteResult([b EXCEPT !.value = "ok"])

(* tp_channel_request_failed_cb *)
FailedCb(a) ==
  Invalidated([a EXCEPT !.request = "invalid"], FALSE)

(* tp_channel_request_succeeded_with_channel_cb: the flag is set after the
   signal has been emitted. *)
SucceededWithChannelCb(a) ==
  [SucceededWithChannel(a, TRUE) EXCEPT !.fired = TRUE]

(* tp_channel_request_succeeded_cb: an old dispatcher did not say which
   channel it was; then the proxy is invalidated with OBJECT_REMOVED. *)
SucceededCb(a) ==
  Invalidated([(IF a.fired THEN a ELSE SucceededWithChannel(a, FALSE))
                 EXCEPT !.fired = TRUE, !.request = "removed"], TRUE)

(* BUG: the legacy signal repeats the emission. *)
SucceededTwice(a) ==
  Invalidated([SucceededWithChannel(a, FALSE)
                 EXCEPT !.fired = TRUE, !.request = "removed"], TRUE)

OnSucceeded(a) == SucceededCb(a)

(* handle_channels of the temporary handler: what the request becomes. *)
HandleChannelsImpl(a, n) ==
  CASE n = "many" -> RequestFail([a EXCEPT !.handling = "none"])
    [] n = "one" /\ a.result # "pending" ->
         [a EXCEPT !.handling = "none", !.rehandled = @ + 1]
    [] n = "one" /\ a.result = "pending" ->
         CompleteResult([a EXCEPT !.handling = "none", !.channel = TRUE,
                                  !.value = "ok", !.kept = (chan = "open")])

(* BUG: nothing keeps the object, so the temporary handler leaves the bus
   as soon as the application lets go of the request. *)
HandleChannelsUnkept(a, n) ==
  [HandleChannelsImpl(a, n) EXCEPT !.kept = FALSE]

HandleChannels(a, n) == HandleChannelsImpl(a, n)

-----------------------------------------------------------------------------
Init ==
  /\ acr = NewAcr
  /\ calls = <<>>
  /\ wire = <<>>
  /\ mc = [phase |-> "idle", ours |-> FALSE, again |-> 0]
  /\ chan = "none"

Runs == ~acr.aborted

Send(c) == calls' = Append(calls, c)

Requests(action, handler) ==
  /\ Runs /\ acr.action = "none" /\ ~acr.cancelled
  /\ acr' = [acr EXCEPT !.action = action, !.result = "pending", !.handler = handler]
  /\ Send("Create")
  /\ UNCHANGED <<wire, mc, chan>>

(* request_and_handle_channel_async, create or ensure: the temporary handler
   is registered first, and its failure ends the request. *)
RequestAndHandle ==
  \/ Requests("HANDLE", "registered")
  \/ /\ Runs /\ acr.action = "none" /\ ~acr.cancelled
     /\ acr' = [acr EXCEPT !.action = "HANDLE", !.result = "idle", !.value = "error"]
     /\ UNCHANGED <<calls, wire, mc, chan>>

(* request_channel_async and request_and_observe_channel_async. *)
RequestChannel == Requests("FORGET", "none")
RequestAndObserve == Requests("OBSERVE", "none")

(* going_to_request with a cancellable that is cancelled already. *)
RequestCancelled(action) ==
  /\ Runs /\ acr.action = "none" /\ acr.cancelled
  /\ acr' = [acr EXCEPT !.action = action, !.result = "idle",
               !.value = "error"]
  /\ UNCHANGED <<calls, wire, mc, chan>>

(* The application cancels: acr_operation_cancelled_cb if it is connected,
   which calls Cancel() unless there is no request to cancel. *)
Cancel ==
  /\ Runs /\ acr.user /\ ~acr.cancelled
  /\ acr' = [acr EXCEPT !.cancelled = TRUE]
  /\ IF acr.cancel_id /\ acr.request = "valid" THEN Send("Cancel")
                                               ELSE UNCHANGED calls
  /\ UNCHANGED <<wire, mc, chan>>

(* acr_request_cb: the answer to CreateChannel or EnsureChannel.  The proxy
   cannot be made when the dispatcher has gone; a cancellable cancelled in
   the meantime is told at once and nothing proceeds. *)
AcrRequestCb(m) ==
  IF m = "refused" \/ mc.phase = "crashed"
  THEN acr' = RequestFail(acr) /\ UNCHANGED calls
  ELSE LET b == [acr EXCEPT !.request = "valid", !.sigs = TRUE,
                            !.cancel_id = TRUE]
       IN  IF acr.cancelled
           THEN acr' = b /\ Send("Cancel")
           ELSE acr' = [b EXCEPT !.proceed = "pending"] /\ Send("Proceed")

(* acr_channel_request_proceed_cb *)
AcrProceedCb(a, error) ==
  LET b == [a EXCEPT !.proceed = "none"]
  IN  IF error THEN RequestFail(b) ELSE b

(* The dispatcher has left the bus: the daemon answers CreateChannel with
   an error; the proxy of the request, bound to the unique name, is lost
   with the call made through it. *)
NameOwnerLost(a) ==
  IF a.request = "none" /\ a.result = "pending" THEN RequestFail(a)
  ELSE [a EXCEPT !.request = IF @ = "valid" THEN "lost" ELSE @,
                 !.proceed = IF @ = "pending" THEN "lost" ELSE @]

(* The next message of the dispatcher reaches the process. *)
Dispatch ==
  /\ Runs /\ wire # <<>>
  /\ wire' = Tail(wire)
  /\ LET m == Head(wire)
         heard == acr.request = "valid"
     IN  CASE m \in {"created", "refused"} /\ acr.result = "pending" ->
                AcrRequestCb(m)
           [] m \in {"proceeded", "proceed-error"} /\ acr.proceed = "pending" ->
                acr' = AcrProceedCb(acr, m = "proceed-error") /\ UNCHANGED calls
           [] m = "Failed" /\ heard -> acr' = FailedCb(acr) /\ UNCHANGED calls
           [] m = "SucceededWithChannel" /\ heard ->
                acr' = SucceededWithChannelCb(acr) /\ UNCHANGED calls
           [] m = "Succeeded" /\ heard ->
                acr' = OnSucceeded(acr) /\ UNCHANGED calls
           [] m \in {"HandleOne", "HandleMany"} ->
                IF acr.handler = "registered"
                THEN /\ acr' = [acr EXCEPT !.handling =
                                  IF m = "HandleOne" THEN "one" ELSE "many"]
                     /\ UNCHANGED calls
                ELSE acr' = acr /\ Send("unhandled")
           [] OTHER -> /\ acr' = IF m = "crash" THEN NameOwnerLost(acr) ELSE acr
                       /\ UNCHANGED calls
  /\ UNCHANGED <<mc, chan>>

(* The name owner is lost: tp_proxy_iface_destroyed_cb queues the
   invalidation of the proxy before the pending call queues its error, both
   at high priority. *)
EmitInvalidated ==
  /\ Runs /\ acr.request = "lost"
  /\ acr' = Invalidated([acr EXCEPT !.request = "invalid"], FALSE)
  /\ UNCHANGED <<calls, wire, mc, chan>>

ProceedLost ==
  /\ Runs /\ acr.proceed = "lost" /\ acr.request # "lost"
  /\ acr' = AcrProceedCb(acr, TRUE)
  /\ UNCHANGED <<calls, wire, mc, chan>>

(* The base client has prepared the channel and calls handle_channels,
   which answers the dispatcher. *)
Handle ==
  /\ Runs /\ acr.handling # "none"
  /\ acr' = HandleChannels(acr, acr.handling)
  /\ Send(IF acr.handling = "one" THEN "accepted" ELSE "unhandled")
  /\ UNCHANGED <<wire, mc, chan>>

(* channel_prepare_cb: whether or not the preparation worked. *)
ChannelPrepareCb ==
  /\ Runs /\ acr.preparing
  /\ acr' = CompleteResult([acr EXCEPT !.preparing = FALSE, !.value = "ok"])
  /\ UNCHANGED <<calls, wire, mc, chan>>

(* The result's idle source calls the application back: the last use of
   the result, which held a reference. *)
CallBack ==
  /\ Runs /\ acr.result = "idle"
  /\ acr.proceed # "lost" /\ acr.request # "lost"
  /\ acr' = Unref([acr EXCEPT !.result = "told"])
  /\ UNCHANGED <<calls, wire, mc, chan>>

(* The application drops its reference, not while its handler prepares. *)
Drop ==
  /\ Runs /\ acr.user /\ acr.action # "none" /\ acr.handling = "none"
  /\ acr' = Unref([acr EXCEPT !.user = FALSE])
  /\ UNCHANGED <<calls, wire, mc, chan>>

(* The channel closes; acr_channel_invalidated_cb drops the reference. *)
ChannelCloses ==
  /\ Runs /\ chan = "open" /\ mc.phase \in {"succeeded", "crashed"}
  /\ acr.handling = "none"
  /\ chan' = "closed"
  /\ acr' = Unref([acr EXCEPT !.kept = FALSE])
  /\ UNCHANGED <<calls, wire, mc>>

-----------------------------------------------------------------------------
(* External: the channel dispatcher.  It answers the oldest call. *)
Answers(from, to, ms) ==
  /\ mc.phase \in from
  /\ mc' = [mc EXCEPT !.phase = to]
  /\ wire' = wire \o ms

McTakes(c) == calls # <<>> /\ Head(calls) = c /\ calls' = Tail(calls)

McAnswers ==
  /\ Runs /\ mc.phase # "crashed"
  /\ \/ /\ McTakes("Create")
        /\ \/ Answers({"idle"}, "made", <<"created">>)
           \/ Answers({"idle"}, "failed", <<"refused">>)
     \/ /\ McTakes("Proceed")
        /\ \/ Answers({"made"}, "working", <<"proceeded">>)
           \/ Answers({"made"}, "failed", <<"proceed-error">>)
     \/ /\ McTakes("Cancel")
        /\ \/ Answers({"made", "working"}, "failed", <<"Failed">>)
           \/ /\ mc.phase \notin {"made", "working"}
              /\ UNCHANGED <<mc, wire>>
     \/ /\ McTakes("accepted")
        /\ mc' = [mc EXCEPT !.ours = TRUE,
                    !.phase = IF @ = "calling" THEN "handled" ELSE @]
        /\ UNCHANGED wire
     \/ /\ McTakes("unhandled")
        /\ IF mc.phase = "calling"
           THEN Answers({"calling"}, "failed", <<"Failed">>)
           ELSE UNCHANGED <<mc, wire>>
  /\ UNCHANGED <<acr, chan>>

(* It finds a channel and gives it to our handler, which was preferred, or
   to another; or the request fails. *)
McWorks ==
  /\ Runs /\ mc.phase = "working"
  /\ \/ /\ acr.handler = "registered"
        /\ \/ Answers({"working"}, "calling", <<"HandleOne">>)
           \/ Answers({"working"}, "calling", <<"HandleMany">>)
        /\ chan' = "open"
     \/ Answers({"working"}, "handled", <<>>) /\ chan' = "open"
     \/ Answers({"working"}, "failed", <<"Failed">>) /\ UNCHANGED chan
  /\ UNCHANGED <<acr, calls>>

(* It announces the success, with the channel unless it is too old. *)
McSucceeds ==
  /\ Runs
  /\ \/ Answers({"handled"}, "announced", <<"SucceededWithChannel">>)
     \/ Answers({"handled", "announced"}, "succeeded", <<"Succeeded">>)
  /\ UNCHANGED <<acr, calls, chan>>

(* Somebody ensures the channel again: our handler gets it once more. *)
McRehandles ==
  /\ Runs /\ mc.phase = "succeeded" /\ mc.ours /\ chan = "open"
  /\ mc.again < MaxRehandles
  /\ acr.handling = "none" /\ wire = <<>>
  /\ mc' = [mc EXCEPT !.again = @ + 1]
  /\ wire' = Append(wire, "HandleOne")
  /\ UNCHANGED <<acr, calls, chan>>

(* The dispatcher crashes: what it has sent still arrives. *)
McCrashes ==
  /\ Runs /\ MayCrash /\ mc.phase \notin {"idle", "crashed"}
  /\ mc' = [mc EXCEPT !.phase = "crashed"]
  /\ wire' = Append(wire, "crash")
  /\ calls' = <<>>
  /\ UNCHANGED <<acr, chan>>

Next ==
  \/ "HANDLE" \in Actions /\ RequestAndHandle
  \/ "FORGET" \in Actions /\ RequestChannel
  \/ "OBSERVE" \in Actions /\ RequestAndObserve
  \/ \E action \in Actions : RequestCancelled(action)
  \/ Cancel \/ Dispatch \/ EmitInvalidated \/ ProceedLost
  \/ Handle \/ ChannelPrepareCb \/ CallBack \/ Drop \/ ChannelCloses
  \/ McAnswers \/ McWorks \/ McSucceeds \/ McRehandles \/ McCrashes

(* The main loop dispatches what is ready; the dispatcher answers. *)
Fairness ==
  /\ WF_vars(Dispatch) /\ WF_vars(EmitInvalidated) /\ WF_vars(ProceedLost)
  /\ WF_vars(Handle) /\ WF_vars(ChannelPrepareCb) /\ WF_vars(CallBack)
  /\ WF_vars(McAnswers) /\ WF_vars(McWorks) /\ WF_vars(McSucceeds)

Spec == Init /\ [][Next]_vars

-----------------------------------------------------------------------------
(* Types. *)
TypeOK ==
  /\ acr \in TpAccountChannelRequest
  /\ acr.rehandled <= MaxRehandles + 1
  /\ mc \in Dispatcher
  /\ chan \in {"none", "open", "closed"}

(* complete_result asserts that there is a result to complete; the answers
   to Proceed(), the preparation of the channel, the handler and the
   invalidation of the ChannelRequest all lead to it. *)
AssertionsHold == ~acr.aborted

(* With a dispatcher that may leave the bus: an answer finds the result gone
   only when the ChannelRequest was invalidated by that loss while Proceed(), the
   handler or the preparation of the channel was still to answer. *)
SettledOnceUnlessLost ==
  acr.aborted => mc.phase = "crashed" /\ acr.request = "invalid" /\ acr.result # "pending"

(* The application learns of the channel it handles: when the dispatcher
   has recorded our temporary handler, the operation is completed with the
   channel, and it has not been told of an error; and it is told that it
   handles the channel only when its handler accepted it. *)
HandledIsTold ==
  /\ mc.ours => acr.result # "pending" /\ acr.value = "ok"
  /\ acr.action = "HANDLE" /\ acr.value = "ok" => acr.channel
  /\ acr.rehandled > 0 => acr.channel /\ acr.value = "ok"

(* The temporary handler stays on the bus as long as the channel it handles
   is open, and nothing outlives the channel once the application has let
   the request go. *)
HandlerLivesWithChannel ==
  /\ acr.action = "HANDLE" /\ acr.value = "ok" /\ chan = "open"
       => acr.handler = "registered"
  /\ ~Alive(acr) => ~acr.sigs /\ acr.handler # "registered"

(* An observed channel is reported only if the dispatcher named it. *)
ObservedIsNamed ==
  acr.action = "OBSERVE" /\ acr.value = "ok" => acr.channel /\ acr.fired

(* Every request is answered: whatever the dispatcher does, and whenever
   the application cancels. *)
RequestAnswered ==
  [](acr.result = "pending" => <>(acr.result = "told" \/ acr.aborted))
=============================================================================
