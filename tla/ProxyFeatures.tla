--------------------------- MODULE ProxyFeatures ---------------------------
(***************************************************************************)
(* Preparation of the features of a TpProxy (telepathy-glib/proxy.c):      *)
(* tp_proxy_prepare_async and the queue of requests that polling works     *)
(* off, for the feature table of one class.  Core features are requests at *)
(* the head of the queue that block the others; a feature may depend on    *)
(* others, need interfaces the remote object only gains when it becomes    *)
(* connected, and be retried at that moment, before it is announced.       *)
(*                                                                         *)
(* The C functions are operators on the world, a record of everything they *)
(* may touch; they are composed as the functions call each other.  The     *)
(* prepare_async functions of the features do not re-enter proxy.c.        *)
(***************************************************************************)
EXTENDS Naturals, Sequences, FiniteSets, SequencesExt

CONSTANTS
  Table,        \* the features of the class, in the order of the datalist
  Unknown,      \* names of features the class does not have
  Core,         \* the core features, one tuple per class, superclass first
  DependsOn,    \* TpProxyFeature.depends_on of each feature
  LateIface,    \* features whose interfaces_needed appear on connection
  NoIface,      \* features whose interfaces_needed never appear
  CanRetry,     \* features with can_retry
  Passive,      \* features with no prepare_async: the subclass prepares them
  BeforeConnected,  \* with prepare_before_signalling_connected_async
  ConnectedFeature, \* TP_CONNECTION_FEATURE_CONNECTED, if a connection
  IsConnection, \* TP_IS_CONNECTION (self)
  MayFail,      \* the subclass uses _tp_proxy_set_features_failed
  MayDie,       \* the proxy may be invalidated
  Calls,        \* the calls of tp_proxy_prepare_async by the application
  CallFeatures  \* the feature lists they may give

Features == Range(Table) \cup Unknown

TableIsSound ==
  /\ Calls \subseteq Nat
  /\ IsInjective(Table)
  /\ Range(Table) \cap Unknown = {}
  /\ \A i \in DOMAIN Core : Range(Core[i]) \subseteq Range(Table)
  /\ DOMAIN DependsOn = Features
  /\ \A f \in Features : Range(DependsOn[f]) \subseteq Features
  \* assert_feature_validity
  /\ \A i \in DOMAIN Core : \A f \in Range(Core[i]) : DependsOn[f] = <<>>

VARIABLES
  state,        \* FeatureState of each feature
  requests,     \* priv->prepare_requests, head first
  results,      \* GSimpleAsyncResults completed in idle, oldest first
  preparing,    \* how many prepare_async of each feature have not called back
  announcing,   \* features whose prepare_before_signalling_... is running
  pending,      \* priv->pending_will_announce_calls
  announce,     \* priv->will_announce_connected_result # NULL
  conn,         \* the TpConnection: "connecting", "announcing" or "connected"
  invalidated,  \* "no", "pending" (emission is an idle source) or "emitted"
  calls,        \* (history) of each call: features, times called back, success
  awaited,      \* (history) features to retry when CONNECTED was about to be announced
  aborted       \* (history) an assertion of proxy.c failed

vars == <<state, requests, results, preparing, announcing, pending, announce,
          conn, invalidated, calls, awaited, aborted>>

World ==
  [ state |-> state, requests |-> requests, results |-> results,
    preparing |-> preparing, announcing |-> announcing, pending |-> pending,
    announce |-> announce, conn |-> conn, invalidated |-> invalidated,
    calls |-> calls, awaited |-> awaited, aborted |-> aborted ]

Become(w) ==
  /\ state' = w.state /\ requests' = w.requests /\ results' = w.results
  /\ preparing' = w.preparing /\ announcing' = w.announcing
  /\ pending' = w.pending /\ announce' = w.announce /\ conn' = w.conn
  /\ invalidated' = w.invalidated /\ calls' = w.calls
  /\ awaited' = w.awaited /\ aborted' = w.aborted

FeatureState ==
  {"INVALID", "UNWANTED", "WANTED", "TRYING", "MISSING_IFACE", "FAILED", "READY"}

(* What a callback passed to an asynchronous function does. *)
Callback(kind, id) == [kind |-> kind, id |-> id]

NoCallback == Callback("NULL", 0)

Callbacks ==
  {Callback("user", id) : id \in Calls}
    \cup {Callback(k, 0) : k \in {"NULL", "depends", "before", "announced"}}

Request(features, core, cb) == [features |-> features, core |-> core, cb |-> cb]

CoreFeatures == UNION {Range(Core[i]) : i \in DOMAIN Core}

Decided == {"INVALID", "MISSING_IFACE", "FAILED", "READY"}

-----------------------------------------------------------------------------
(* tp_proxy_prepare_request_finish: complete the result, if any, in idle. *)
RequestFinish(w, cb, ok) ==
  IF cb = NoCallback THEN w
  ELSE [w EXCEPT !.results = Append(@, [cb |-> cb, ok |-> ok])]

(* core_prepared *)
CorePrepared(w) == w.requests = <<>> \/ ~Head(w.requests).core

(* check_feature_interfaces *)
HasInterfaces(w, f) ==
  f \notin NoIface /\ (f \in LateIface => w.conn # "connecting")

(* Mutant: a dependency that misses its interface may still come. *)
CheckDependsHopes(w, f, can_retry) ==
  LET Check(acc, dep) ==
        LET s == acc.w.state[dep]
        IN  IF acc.failed \/ s = "READY" THEN acc
            ELSE IF s \in {"INVALID", "FAILED"}
            THEN [acc EXCEPT !.failed = TRUE, !.ready = FALSE]
            ELSE IF s = "MISSING_IFACE"
            THEN [acc EXCEPT !.w.state[dep] = "UNWANTED", !.ready = FALSE]
            ELSE [acc EXCEPT !.ready = FALSE]
  IN  FoldLeft(Check, [w |-> w, ready |-> TRUE, failed |-> FALSE], DependsOn[f])

(* Mutant: dependencies need only be on their way. *)
CheckDependsEagerly(w, f, can_retry) ==
  [ w |-> w, failed |-> FALSE,
    ready |-> \A dep \in Range(DependsOn[f]) :
                w.state[dep] \in {"TRYING", "READY"} ]

(* check_depends_ready: the dependencies in order, up to the first that cannot
   be prepared; those that failed and may be retried are wanted again. *)
CheckDependsReady(w, f, can_retry) ==
  LET Check(acc, dep) ==
        LET s == acc.w.state[dep]
        IN  IF acc.failed \/ s = "READY" THEN acc
            ELSE IF s = "INVALID"
                    \/ (s \in {"FAILED", "MISSING_IFACE"}
                          /\ ~(can_retry /\ dep \in CanRetry))
            THEN [acc EXCEPT !.failed = TRUE, !.ready = FALSE]
            ELSE IF s \in {"FAILED", "MISSING_IFACE"}
            THEN [acc EXCEPT !.w.state[dep] = "WANTED", !.ready = FALSE]
            ELSE [acc EXCEPT !.ready = FALSE]
  IN  FoldLeft(Check, [w |-> w, ready |-> TRUE, failed |-> FALSE], DependsOn[f])

(* prepare_feature *)
PrepareFeature(w, f) ==
  IF f \in Passive THEN w ELSE [w EXCEPT !.preparing[f] = @ + 1]

(* What request_is_complete does to a feature that has to be prepared; d is
   what is known of its dependencies. *)
TryOrWait(acc, f, d) ==
  IF d.ready
  THEN [w |-> PrepareFeature([d.w EXCEPT !.state[f] = "TRYING"], f), complete |-> FALSE]
  ELSE IF d.failed THEN [acc EXCEPT !.w = [d.w EXCEPT !.state[f] = "FAILED"]]
  ELSE [w |-> d.w, complete |-> FALSE]

TryFeature(acc, f) ==
  IF HasInterfaces(acc.w, f)
  THEN TryOrWait(acc, f, CheckDependsReady(acc.w, f, FALSE))
  ELSE [acc EXCEPT !.w.state[f] =
          IF IsConnection /\ acc.w.conn # "connected" THEN "MISSING_IFACE" ELSE "FAILED"]

(* Mutant: a feature being prepared counts as complete, unless it is core. *)
RequestIsCompleteEarly(w, req) ==
  LET Look(acc, f) ==
        LET s == acc.w.state[f]
        IN  IF s = "TRYING" THEN [acc EXCEPT !.complete = ~req.core]
            ELSE IF s \in {"UNWANTED", "WANTED"}
            THEN [TryFeature(acc, f) EXCEPT !.complete = ~req.core]
            ELSE acc
  IN  FoldLeft(Look, [w |-> w, complete |-> TRUE], req.features)

(* Mutant: a feature already tried is tried again. *)
RequestIsCompleteAgain(w, req) ==
  LET Look(acc, f) ==
        IF acc.w.state[f] \in {"UNWANTED", "WANTED", "TRYING"}
        THEN TryFeature(acc, f) ELSE acc
  IN  FoldLeft(Look, [w |-> w, complete |-> TRUE], req.features)

(* request_is_complete; the assertion is that only the pseudo-request for the
   core features finds a feature unwanted. *)
RequestIsComplete(w, req) ==
  LET GAssert(acc, s) ==
        IF s # "UNWANTED" THEN acc
        ELSE [acc EXCEPT !.complete = FALSE, !.w.aborted = @ \/ ~req.core]
      LookAt(acc, f, s) ==
        IF s = "TRYING" THEN [acc EXCEPT !.complete = FALSE]
        ELSE IF s \in {"UNWANTED", "WANTED"} /\ (CorePrepared(acc.w) \/ req.core)
        THEN TryFeature(acc, f)
        ELSE acc
      Look(acc, f) == LookAt(GAssert(acc, acc.w.state[f]), f, acc.w.state[f])
  IN  FoldLeft(Look, [w |-> w, complete |-> TRUE], req.features)

(* finish_all_requests *)
FinishAllRequests(w) ==
  FoldLeft(LAMBDA v, req : RequestFinish(v, req.cb, FALSE),
           [w EXCEPT !.requests = <<>>], w.requests)

(* A request, at place i, is finished if r says that it is complete. *)
PollRequest(i, req, r) ==
  IF ~r.complete THEN [w |-> r.w, i |-> i + 1]
  ELSE [w |-> RequestFinish([r.w EXCEPT !.requests = RemoveAt(@, i)], req.cb, TRUE), i |-> i]

(* Mutant: the core features block nothing. *)
PollFeaturesAll(w) ==
  LET Poll(acc, req) == PollRequest(acc.i, req, RequestIsComplete(acc.w, req))
  IN  IF w.invalidated # "no" THEN FinishAllRequests(w)
      ELSE FoldLeft(Poll, [w |-> w, i |-> 1], w.requests).w

(* Mutant: invalidation does not fail the requests. *)
PollFeaturesForever(w) ==
  LET Poll(acc, req) ==
        IF ~CorePrepared(acc.w) /\ acc.i # 1 THEN [acc EXCEPT !.i = @ + 1]
        ELSE PollRequest(acc.i, req, RequestIsComplete(acc.w, req))
  IN  FoldLeft(Poll, [w |-> w, i |-> 1], w.requests).w

(* tp_proxy_poll_features without an error: req is the request at place i. *)
PollFeatures(w) ==
  LET Poll(acc, req) ==
        IF ~CorePrepared(acc.w) /\ acc.i # 1 THEN [acc EXCEPT !.i = @ + 1]
        ELSE PollRequest(acc.i, req, RequestIsComplete(acc.w, req))
  IN  IF w.invalidated # "no" THEN FinishAllRequests(w)
      ELSE FoldLeft(Poll, [w |-> w, i |-> 1], w.requests).w

RECURSIVE PrepareAsync(_, _, _)

(* The end of tp_proxy_prepare_async. *)
Enqueue(w, features, cb) ==
  IF w.invalidated # "no" THEN RequestFinish(w, cb, FALSE)
  ELSE PollFeatures([w EXCEPT !.requests = Append(@, Request(features, FALSE, cb))])

(* tp_proxy_prepare_async: what it does to each feature of the list, with
   prepare_depends, and then the request. *)
PrepareAsync(w, features, cb) ==
  LET Depends(d, f) ==
        IF d.ready THEN [d.w EXCEPT !.state[f] = "WANTED"]
        ELSE IF d.failed THEN [d.w EXCEPT !.state[f] = "FAILED"]
        ELSE [PrepareAsync(d.w, DependsOn[f], Callback("depends", 0))
                EXCEPT !.state[f] = "WANTED"]
      Want(v, f) ==
        IF v.state[f] = "UNWANTED" \/ (v.state[f] = "FAILED" /\ f \in CanRetry)
        THEN Depends(CheckDependsReady(v, f, TRUE), f) ELSE v
  IN  Enqueue(FoldLeft(Want, w, features), features, cb)

(* Mutant: nobody looks at the requests waiting for the feature. *)
SetFeaturePreparedQuietly(w, f, ok) ==
  [w EXCEPT !.state[f] = IF ok THEN "READY" ELSE "FAILED"]

(* _tp_proxy_set_feature_prepared *)
SetFeaturePrepared(w, f, ok) ==
  PollFeatures([w EXCEPT !.state[f] = IF ok THEN "READY" ELSE "FAILED"])

(* signal_connected and will_announced_connected_cb of connection.c *)
SignalConnected(w) ==
  IF w.invalidated # "no" THEN w
  ELSE LET v == SetFeaturePrepared([w EXCEPT !.conn = "connected"],
                                   ConnectedFeature, TRUE)
       IN  FoldLeft(LAMBDA u, f : SetFeaturePrepared(u, f, TRUE), v, Core[1])

(* check_announce_connected *)
CheckAnnounceConnected(w, in_idle) ==
  LET v == [w EXCEPT !.announce = FALSE]
  IN  IF w.pending # 0 THEN w
      ELSE IF in_idle THEN RequestFinish(v, Callback("announced", 0), TRUE)
      ELSE SignalConnected(v)

(* prepare_before_signalling_connected_cb *)
BeforeConnectedCb(w) ==
  CheckAnnounceConnected([w EXCEPT !.pending = @ - 1], FALSE)

(* Mutant: the retries are not waited for. *)
ForeachFeatureNoWait(w, f) ==
  IF w.state[f] = "MISSING_IFACE"
  THEN PrepareAsync([w EXCEPT !.state[f] = "UNWANTED"], <<f>>,
                    Callback("before", 0))
  ELSE w

(* Mutant: the retries are forgotten about. *)
ForeachFeatureNoCallback(w, f) ==
  IF w.state[f] = "MISSING_IFACE"
  THEN PrepareAsync([w EXCEPT !.state[f] = "UNWANTED"], <<f>>, NoCallback)
  ELSE IF w.state[f] = "READY" /\ f \in BeforeConnected
  THEN [w EXCEPT !.pending = @ + 1, !.announcing = @ \cup {f}]
  ELSE w

(* foreach_feature *)
ForeachFeature(w, f) ==
  IF w.state[f] = "MISSING_IFACE"
  THEN PrepareAsync([w EXCEPT !.state[f] = "UNWANTED", !.pending = @ + 1],
                    <<f>>, Callback("before", 0))
  ELSE IF w.state[f] = "READY" /\ f \in BeforeConnected
  THEN [w EXCEPT !.pending = @ + 1, !.announcing = @ \cup {f}]
  ELSE w

(* _tp_proxy_will_announce_connected_async *)
WillAnnounceConnected(w) ==
  CheckAnnounceConnected(
    FoldLeft(ForeachFeature,
             [w EXCEPT !.announce = TRUE, !.aborted = @ \/ w.announce,
                       !.awaited = {f \in Features : w.state[f] = "MISSING_IFACE"}],
             Table),
    TRUE)

(* tp_proxy_emit_invalidated *)
EmitInvalidated(w) ==
  LET GAssert(v) == [v EXCEPT !.aborted = @ \/ v.requests # <<>>]
  IN  GAssert(PollFeatures([w EXCEPT !.invalidated = "emitted"]))

-----------------------------------------------------------------------------
(* tp_proxy_constructor *)
Init ==
  /\ state = [f \in Features |-> IF f \in Unknown THEN "INVALID" ELSE "UNWANTED"]
  /\ requests = [i \in DOMAIN Core |-> Request(Core[i], TRUE, NoCallback)]
  /\ results = <<>>
  /\ preparing = [f \in Features |-> 0]
  /\ announcing = {}
  /\ pending = 0
  /\ announce = FALSE
  /\ conn = IF IsConnection THEN "connecting" ELSE "connected"
  /\ invalidated = "no"
  /\ calls = [id \in Calls |-> [made |-> FALSE, features |-> <<>>,
                                 called |-> 0, ok |-> FALSE]]
  /\ awaited = {}
  /\ aborted = FALSE

(* The application calls tp_proxy_prepare_async.  Calls are numbered in the
   order they are made. *)
UserPrepares(id, features) ==
  /\ ~calls[id].made /\ \A earlier \in Calls : earlier < id => calls[earlier].made
  /\ Become(PrepareAsync([World EXCEPT !.calls[id].made = TRUE,
                                       !.calls[id].features = features],
                         features, Callback("user", id)))

(* The G_PRIORITY_HIGH emission of ::invalidated runs before anything else of
   the main loop. *)
Idle == invalidated # "pending"

(* Mutant: depends_prepare_cb and the application are called back twice. *)
ResultCompletesAgain(w) ==
  LET r == Head(w.results)
  IN  CASE r.cb.kind = "user"    -> [w EXCEPT !.calls[r.cb.id].called = @ + 1,
                                              !.calls[r.cb.id].ok = r.ok]
        [] r.cb.kind = "depends" -> PollFeatures(w)
        [] r.cb.kind = "before"  -> BeforeConnectedCb(w)
        [] r.cb.kind = "announced" -> SignalConnected(w)

(* The callback of the oldest result: the application's, depends_prepare_cb,
   prepare_before_signalling_connected_cb or will_announced_connected_cb. *)
ResultCompletes(w) ==
  LET r == Head(w.results)
      v == [w EXCEPT !.results = Tail(@)]
  IN  CASE r.cb.kind = "user"    -> [v EXCEPT !.calls[r.cb.id].called = @ + 1,
                                              !.calls[r.cb.id].ok = r.ok]
        [] r.cb.kind = "depends" -> PollFeatures(v)
        [] r.cb.kind = "before"  -> BeforeConnectedCb(v)
        [] r.cb.kind = "announced" -> SignalConnected(v)

ResultDispatched == Idle /\ results # <<>> /\ Become(ResultCompletes(World))

(* feature_prepared_cb *)
FeaturePreparedCb(f, ok) ==
  /\ Idle
  /\ preparing[f] > 0
  /\ Become(SetFeaturePrepared([World EXCEPT !.preparing[f] = @ - 1], f, ok))

(* The callback of prepare_before_signalling_connected_async. *)
BeforeConnectedDone(f) ==
  /\ Idle
  /\ f \in announcing
  /\ Become(BeforeConnectedCb([World EXCEPT !.announcing = @ \ {f}]))

(* The subclass found out its core functionality. *)
CoreUnknown(f) ==
  /\ f \in Passive \cap CoreFeatures
  /\ state[f] # "READY" /\ invalidated = "no"
  /\ IsConnection => conn = "connecting"

CoreIntrospected(f) ==
  /\ CoreUnknown(f)
  /\ Become(SetFeaturePrepared(World, f, TRUE))

(* The end of tp_connection_continue_introspection after CONNECTED. *)
ConnectedIntrospected ==
  /\ Idle
  /\ IsConnection /\ conn = "connecting" /\ invalidated = "no"
  /\ Become(WillAnnounceConnected([World EXCEPT !.conn = "announcing"]))

(* _tp_proxy_set_features_failed *)
FeaturesFailed ==
  /\ Idle
  /\ MayFail /\ invalidated = "no" /\ requests # <<>>
  /\ Become(FinishAllRequests(World))

(* tp_proxy_invalidate *)
Invalidate ==
  /\ Idle
  /\ MayDie /\ invalidated = "no"
  /\ Become(EmitInvalidated(World))

(* tp_proxy_iface_destroyed_cb *)
IfaceDestroyed ==
  /\ MayDie /\ invalidated = "no"
  /\ Become([World EXCEPT !.invalidated = "pending"])

(* tp_proxy_emit_invalidated, from the idle source *)
EmitFromIdle ==
  /\ invalidated = "pending"
  /\ Become(EmitInvalidated(World))

SomeFeaturePrepared == \E f \in Features, ok \in BOOLEAN : FeaturePreparedCb(f, ok)
SomeBeforeConnectedDone == \E f \in Features : BeforeConnectedDone(f)
SomeCoreIntrospected == \E f \in Features : CoreIntrospected(f)

Next ==
  \/ \E id \in Calls, features \in CallFeatures : UserPrepares(id, features)
  \/ ResultDispatched
  \/ SomeFeaturePrepared \/ SomeBeforeConnectedDone \/ SomeCoreIntrospected
  \/ ConnectedIntrospected
  \/ FeaturesFailed
  \/ Invalidate
  \/ IfaceDestroyed
  \/ EmitFromIdle

Spec == Init /\ [][Next]_vars

-----------------------------------------------------------------------------
Requests ==
  [features : Seq(Features), core : BOOLEAN, cb : Callbacks]

TypeOK ==
  /\ state \in [Features -> FeatureState]
  /\ requests \in Seq(Requests)
  /\ results \in Seq([cb : Callbacks, ok : BOOLEAN])
  /\ preparing \in [Features -> Nat]
  /\ announcing \subseteq Features
  /\ pending \in Nat
  /\ announce \in BOOLEAN
  /\ conn \in {"connecting", "announcing", "connected"}
  /\ invalidated \in {"no", "pending", "emitted"}
  /\ calls \in [Calls -> [made : BOOLEAN, features : Seq(Features),
                          called : Nat, ok : BOOLEAN]]

Count(seq, Test(_)) == Cardinality({i \in DOMAIN seq : Test(seq[i])})

(* "@callback: if not NULL, called exactly once": every call that was made is
   in exactly one place, the queue of requests, the idle results, or past. *)
EachCallOnce ==
  \A id \in Calls :
    Count(requests, LAMBDA r : r.cb = Callback("user", id))
      + Count(results, LAMBDA r : r.cb = Callback("user", id))
      + calls[id].called
    = IF calls[id].made THEN 1 ELSE 0

(* Of every step: a call is completed successfully only when every feature it asked for was
   prepared or failed (or could not be for want of an interface). *)
SuccessMeansDecided ==
  \A id \in Calls :
    (/\ Callback("user", id) \in {requests[i].cb : i \in DOMAIN requests}
     /\ [cb |-> Callback("user", id), ok |-> TRUE] \in Range(results'))
    => \A f \in Range(calls[id].features) : state'[f] \in Decided

(* tp_proxy_poll_features: no feature is tried before all it depends on are
   ready; nor, unless it is core, before the core features are decided. *)
DependenciesFirst ==
  \A f \in Features \ Unknown : state[f] \in {"TRYING", "READY"} =>
    /\ \A dep \in Range(DependsOn[f]) : state[dep] = "READY"
    /\ f \notin CoreFeatures /\ ~MayFail
         => \A c \in CoreFeatures : state[c] \in Decided \/ f = ConnectedFeature

(* Superclass-to-subclass order of the core features. *)
CoreInOrder ==
  ~MayFail =>
    \A i, j \in DOMAIN Core : i < j =>
      \A c \in Range(Core[j]) : state[c] = "TRYING" =>
        \A b \in Range(Core[i]) : state[b] \in Decided

(* A feature is never being prepared twice at a time, and what is being
   prepared is known to be: TRYING. *)
PreparedOnceAtATime ==
  \A f \in Features : preparing[f] = IF state[f] = "TRYING" /\ f \notin Passive
                                     THEN 1 ELSE 0

(* pending_will_announce_calls is the number of callbacks yet to come, so the
   result is completed exactly once, when the last one has come. *)
AnnounceExact ==
  /\ pending = Count(requests, LAMBDA r : r.cb.kind = "before")
               + Count(results, LAMBDA r : r.cb.kind = "before")
               + Cardinality(announcing)
  /\ announce = (pending # 0)

(* Of every step: CONNECTED is announced only when every feature that was waiting for an
   interface was retried and is decided, if the connection lasts. *)
RetriedBeforeAnnounced ==
  conn = "announcing" /\ conn' = "connected" =>
    \A f \in awaited : state'[f] \in Decided

(* The assertions of proxy.c: the queue is empty after ::invalidated, only the
   core pseudo-requests have unwanted features, and one announcement. *)
AssertionsHold ==
  ~aborted /\ (invalidated = "emitted" => requests = <<>>)

(* Every call is called back. *)
CallsComplete == \A id \in Calls : calls[id].made ~> calls[id].called > 0

(* A call that names a core feature and succeeds finds it ready, however
   often preparing it had failed before (_tp_proxy_set_features_failed). *)
NamedCoreIsReady ==
  \A id \in Calls : calls[id].called > 0 /\ calls[id].ok =>
    \A c \in CoreFeatures \cap Range(calls[id].features) : state[c] = "READY"

=============================================================================
