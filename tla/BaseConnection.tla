--------------------------- MODULE BaseConnection ---------------------------
(***************************************************************************)
(* TpBaseConnection (telepathy-glib/base-connection.c), the half of a      *)
(* connection manager that every protocol shares: the status of one        *)
(* connection, its way to its end, and the queue of channel requests that  *)
(* channel managers and channel factories answer at once or much later.    *)
(*                                                                         *)
(* Every C function is an operator from a world to a world.  The code the  *)
(* library calls back (the subclass, the channel managers and factories)   *)
(* appears as choices: it may answer, fail or keep a request, and its      *)
(* status hooks may change the status again before they return.            *)
(* What leaves the process is in sent, so the properties are about what a  *)
(* client sees.                                                            *)
(***************************************************************************)
EXTENDS Naturals, Sequences, FiniteSets, SequencesExt

CONSTANTS
  Targets,       \* what channels are for: a channel type and a handle
  Anonymous,     \* the targets without a handle
  Owner,         \* target -> "manager", "factory" or "nobody"
  Used,          \* the methods clients call
  MaxChannels,   \* bound: channels made
  MaxCalls       \* bound: method calls clients make

SoundConstants ==
  /\ Anonymous \subseteq Targets
  /\ Owner \in [Targets -> {"manager", "factory", "nobody"}]
  /\ Used \subseteq {"Connect", "Disconnect", "RequestChannel", "CreateChannel", "EnsureChannel"}
  /\ MaxCalls \in Nat /\ MaxChannels \in Nat

VARIABLES
  conn,   \* the TpBaseConnection and its priv
  asked,  \* the method calls made so far; a call is known by its place here
  held,   \* channel requests that managers and factories keep for later
  open,   \* channels that exist, with their targets
  sent    \* replies and signals, oldest first

vars == <<conn, asked, held, open, sent>>

Statuses == {"NEW", "CONNECTING", "CONNECTED", "DISCONNECTED"}

Methods == {"Connect", "Disconnect", "RequestChannel", "CreateChannel", "EnsureChannel"}

Calls == [method : Methods, suppress : BOOLEAN, target : Targets \cup {"none"}]

(***************************************************************************)
(*  requests     channel_requests: the calls whose context is kept         *)
(*  shutting     disconnect_requests # NULL                                *)
(*  disconnects  the contexts in it                                        *)
(*  registered   been_registered: the object and its name are on the bus   *)
(*  finished     shutdown-finished was emitted, the manager let go of it   *)
(*  aborted      (history) a g_assert failed                               *)
(***************************************************************************)
Conns ==
  [ status : Statuses, self_handle : {0, 1}, requests : Seq(1..MaxCalls),
    shutting : BOOLEAN, disconnects : Seq(1..MaxCalls), registered : BOOLEAN,
    finished : BOOLEAN, disposed : BOOLEAN, aborted : BOOLEAN ]

World == [conn |-> conn, asked |-> asked, held |-> held, open |-> open, sent |-> sent]

Become(w) ==
  /\ conn' = w.conn /\ asked' = w.asked /\ held' = w.held
  /\ open' = w.open /\ sent' = w.sent

Send(w, message) == [w EXCEPT !.sent = Append(@, message)]

Return(id, channel, yours) ==
  [type |-> "return", id |-> id, channel |-> channel, yours |-> yours]
Error(id)            == [type |-> "error", id |-> id]
StatusSignal(status) == [type |-> "StatusChanged", status |-> status]
NewChannels(chans)   == [type |-> "NewChannels", channels |-> chans]
NewChannel(c, s)     == [type |-> "NewChannel", channel |-> c, suppress |-> s]
ChannelClosed(c)     == [type |-> "ChannelClosed", channel |-> c]

GAssert(w, p) == [w EXCEPT !.conn.aborted = @ \/ ~p]

ChannelCalls(w) ==
  {i \in DOMAIN w.asked : w.asked[i].method \notin {"Connect", "Disconnect"}}

-----------------------------------------------------------------------------
(* Channel requests *)

(* Mutant: the manager still has the token of the freed request. *)
FreeRequestKeepsToken(w, id) ==
  [GAssert(w, Contains(w.conn.requests, id))
     EXCEPT !.conn.requests = SelectSeq(@, LAMBDA r : r # id)]

(* The request leaves channel_requests and is freed; nobody keeps it. *)
FreeRequest(w, id) ==
  [GAssert(w, Contains(w.conn.requests, id))
     EXCEPT !.conn.requests = SelectSeq(@, LAMBDA r : r # id),
            !.held = @ \ {id}]

(* Mutant: the request stays in the queue after the answer. *)
SatisfyRequestKeeps(w, id, channel, yours) ==
  Send(w, Return(id, channel, yours))

(* satisfy_request *)
SatisfyRequest(w, id, channel, yours) ==
  FreeRequest(Send(w, Return(id, channel, yours)), id)

(* fail_channel_request *)
FailChannelRequest(w, id) == FreeRequest(Send(w, Error(id)), id)

(* Mutant: a channel without a handle answers every request of its type. *)
FindMatchingAnonymous(w, target, id) ==
  SelectSeq(w.conn.requests, LAMBDA r : w.asked[r].target = target)

(* Mutant: a channel answers only the oldest matching request. *)
FindMatchingFirst(w, target, id) ==
  LET match == SelectSeq(w.conn.requests, LAMBDA r : w.asked[r].target = target)
  IN  IF match = <<>> THEN <<>> ELSE <<Head(match)>>

(* find_matching_channel_requests *)
FindMatching(w, target, id) ==
  IF target \in Anonymous
  THEN IF id = 0 THEN <<>> ELSE <<id>>
  ELSE SelectSeq(w.conn.requests, LAMBDA r : w.asked[r].target = target)

SatisfyAll(w, ids, channel) ==
  FoldLeft(LAMBDA v, id : SatisfyRequest(v, id, channel, FALSE), w, ids)

(* Mutant: only the request the channel was made for counts. *)
FactorySatisfyNoSuppress(w, channel, target, id, is_new) ==
  LET match == FindMatching(w, target, id)
      v     == SatisfyAll(w, match, channel)
  IN  IF ~is_new THEN v
      ELSE Send(Send([v EXCEPT !.open = @ \cup {[channel |-> channel, target |-> target]}],
                     NewChannels({channel})),
                NewChannel(channel, id # 0 /\ w.asked[id].suppress))

(* factory_satisfy_requests, from factory_new_channel_cb (is_new) or for a
   channel that request_channel found to exist already *)
FactorySatisfy(w, channel, target, id, is_new) ==
  LET match    == FindMatching(w, target, id)
      suppress == \E i \in DOMAIN match : w.asked[match[i]].suppress
      v        == SatisfyAll(GAssert(w, id = 0 \/ Contains(match, id)), match, channel)
  IN  IF ~is_new THEN v
      ELSE Send(Send([v EXCEPT !.open = @ \cup {[channel |-> channel, target |-> target]}],
                     NewChannels({channel})),
                NewChannel(channel, suppress))

(* factory_channel_error_cb *)
FactoryError(w, target, id) ==
  FoldLeft(FailChannelRequest, w, FindMatching(w, target, id))

(* Mutant: every EnsureChannel is told the channel is its own. *)
ManagerNewChannelYours(w, channel, tokens) ==
  FoldLeft(LAMBDA v, id : SatisfyRequest(v, id, channel, w.asked[id].method = "EnsureChannel"),
           w, tokens)

(* Is the first EnsureChannel told that the channel is its own? *)
FirstEnsure(w, tokens) ==
  LET Method(i) == w.asked[tokens[i]].method
      ensures   == {i \in DOMAIN tokens : Method(i) = "EnsureChannel"}
  IN  IF ensures # {} /\ ensures = DOMAIN tokens THEN tokens[1] ELSE 0

(* The loop of manager_new_channel stops at the first request that decides. *)
SuppressHandler(w, tokens) ==
  LET Call(i) == w.asked[tokens[i]]
      Decides(i) == \/ Call(i).method = "CreateChannel"
                    \/ Call(i).method = "RequestChannel" /\ Call(i).suppress
      seen == {i \in DOMAIN tokens : \A j \in 1..(i - 1) : ~Decides(j)}
  IN  \/ \E i \in seen : Decides(i)
      \/ tokens # <<>> /\ \A i \in seen : Call(i).method # "RequestChannel"

(* manager_new_channel *)
ManagerNewChannel(w, channel, tokens) ==
  LET mine == FirstEnsure(w, tokens)
  IN  FoldLeft(LAMBDA v, id : SatisfyRequest(v, id, channel, id = mine), w, tokens)

(* Mutant: NewChannels is emitted before the calls return. *)
ManagerNewChannelsEarly(w, target, made) ==
  LET v == Send(w, NewChannels({m.channel : m \in ToSet(made)}))
      u == FoldLeft(LAMBDA x, m : ManagerNewChannel(x, m.channel, m.tokens), v, made)
  IN  FoldLeft(LAMBDA x, m : Send(x, NewChannel(m.channel, SuppressHandler(w, m.tokens))),
               u, made)

(* manager_new_channels_cb.  made: the channels, each with the requests it
   answers.  All calls return before the signals are emitted. *)
ManagerNewChannels(w, target, made) ==
  LET new == {m.channel : m \in ToSet(made)}
      v   == FoldLeft(LAMBDA x, m : ManagerNewChannel(x, m.channel, m.tokens), w, made)
      u   == Send([v EXCEPT !.open = @ \cup [channel : new, target : {target}]],
                  NewChannels(new))
  IN  FoldLeft(LAMBDA x, m : Send(x, NewChannel(m.channel, SuppressHandler(w, m.tokens))),
               u, made)

(* manager_channel_closed_cb, factory_channel_closed_cb *)
CloseChannel(w, c) == Send([w EXCEPT !.open = @ \ {c}], ChannelClosed(c.channel))

CloseChannels(w, owner) ==
  FoldSet(LAMBDA c, v : CloseChannel(v, c), w, {c \in w.open : Owner[c.target] = owner})

-----------------------------------------------------------------------------
(* Status *)

(* tp_base_connection_unregister *)
Unregister(w) == [w EXCEPT !.conn.registered = FALSE]

(* tp_base_connection_dispose *)
Dispose(w) ==
  [Unregister(GAssert(w, w.conn.status \in {"DISCONNECTED", "NEW"} /\ w.conn.requests = <<>>))
     EXCEPT !.conn.disposed = TRUE]

(* Mutant: the Disconnect calls are forgotten. *)
FinishShutdownForgets(w) ==
  [w EXCEPT !.conn.shutting = FALSE, !.conn.disconnects = <<>>, !.conn.finished = TRUE]

(* tp_base_connection_finish_shutdown; connection_shutdown_finished_cb drops
   the reference of the connection manager *)
FinishShutdown(w) ==
  IF w.conn.status # "DISCONNECTED" \/ ~w.conn.shutting THEN w
  ELSE [FoldLeft(LAMBDA x, id : Send(x, Return(id, 0, FALSE)), w, w.conn.disconnects)
          EXCEPT !.conn.shutting = FALSE, !.conn.disconnects = <<>>,
                 !.conn.finished = TRUE]

(* Mutant: requests nobody failed are left where they are. *)
CancelRequestsNone(w) == w

(* channel_request_cancel on all that is left *)
CancelRequests(w) == FoldLeft(FailChannelRequest, w, w.conn.requests)

(* What the code called back does: which requests the managers and factories
   fail themselves when they see the end, what the hooks change the status
   to before they return ("none": nothing), whether shut_down is at once. *)
Hooks ==
  [ fails : SUBSET held, at_once : BOOLEAN, connected : {"none", "DISCONNECTED"},
    connecting : {"none", "CONNECTED", "DISCONNECTED"} ]

FailBy(w, owner, ids) ==
  FoldSet(LAMBDA id, v : FailChannelRequest(v, id), w,
          {id \in ids \cap w.held : Owner[w.asked[id].target] = owner})

Ended(w, owner, ids) == CloseChannels(FailBy(w, owner, ids), owner)

DisposeIfFinished(w) == IF w.conn.finished THEN Dispose(w) ELSE w

ShutDown(w, at_once) == IF at_once THEN FinishShutdown(w) ELSE w

SetStatus(w, status) == Send([w EXCEPT !.conn.status = status], StatusSignal(status))

(* tp_base_connection_change_status to DISCONNECTED.  The factories close
   everything before StatusChanged, the managers when they hear of it. *)
EndConnection(w, h) ==
  DisposeIfFinished(Unregister(ShutDown(CancelRequests(
    Ended(SetStatus(Ended(
            [w EXCEPT !.conn.status = "DISCONNECTED", !.conn.shutting = TRUE],
            "factory", h.fails), "DISCONNECTED"), "manager", h.fails)), h.at_once)))

ToDisconnected(w, h) == IF w.conn.status = "DISCONNECTED" THEN w ELSE EndConnection(w, h)

(* What a hook does to the status before it returns. *)
Hooked(w, status, h) ==
  IF status = "DISCONNECTED" THEN ToDisconnected(w, h) ELSE w

ToConnected(w, h) ==
  IF w.conn.status # "CONNECTING" \/ w.conn.self_handle = 0 THEN w
  ELSE Hooked(SetStatus(w, "CONNECTED"), h.connected, h)

(* Mutant: a second attempt to connect is allowed. *)
ToConnectingAgain(w, h) ==
  IF w.conn.status = "CONNECTING" THEN w
  ELSE SetStatus(w, "CONNECTING")

ToConnecting(w, h) ==
  IF w.conn.status # "NEW" THEN w
  ELSE IF h.connecting = "CONNECTED" THEN ToConnected(SetStatus(w, "CONNECTING"), h)
  ELSE Hooked(SetStatus(w, "CONNECTING"), h.connecting, h)

(* tp_base_connection_change_status *)
ChangeStatus(w, status, h) ==
  CASE status = "none"         -> w
    [] status = "DISCONNECTED" -> ToDisconnected(w, h)
    [] status = "CONNECTING"   -> ToConnecting(w, h)
    [] status = "CONNECTED"    -> ToConnected(ToConnecting(w, h), h)

-----------------------------------------------------------------------------
Init ==
  /\ conn = [ status |-> "NEW", self_handle |-> 0, requests |-> <<>>,
              shutting |-> FALSE, disconnects |-> <<>>, registered |-> FALSE,
              finished |-> FALSE, disposed |-> FALSE, aborted |-> FALSE ]
  /\ asked = <<>> /\ held = {} /\ open = {} /\ sent = <<>>

(* tp_base_connection_register.  When the name is taken the connection manager
   drops the connection. *)
Register(ok) ==
  /\ conn.status = "NEW" /\ ~conn.registered /\ ~conn.disposed
  /\ Become(IF ok THEN [World EXCEPT !.conn.registered = TRUE] ELSE Dispose(World))

(* A method call is delivered: the object is on the bus. *)
Called(call) ==
  [World EXCEPT !.asked = Append(@, call)]

Receive(method) ==
  conn.registered /\ method \in Used /\ Len(asked) < MaxCalls

Started(w, ok, h) ==
  IF ~ok THEN ToDisconnected(w, h)
  ELSE IF w.conn.status = "NEW" THEN ToConnecting(w, h) ELSE w

(* tp_base_connection_connect.  start is what start_connecting changes the
   status to, ok what it returns. *)
Connect(start, ok, h) ==
  LET id == Len(asked) + 1
      a  == Called([method |-> "Connect", suppress |-> FALSE, target |-> "none"])
      b  == IF conn.status # "NEW" THEN a ELSE Started(ChangeStatus(a, start, h), ok, h)
  IN  /\ Receive("Connect")
      /\ Become(Send(b, IF conn.status # "NEW" \/ ok THEN Return(id, 0, FALSE) ELSE Error(id)))

(* tp_base_connection_disconnect *)
Disconnect(h) ==
  LET id == Len(asked) + 1
      a  == Called([method |-> "Disconnect", suppress |-> FALSE, target |-> "none"])
      b  == [a EXCEPT !.conn.shutting = TRUE, !.conn.disconnects = Append(@, id)]
  IN  /\ Receive("Disconnect")
      /\ Become(IF conn.shutting THEN GAssert(b, conn.status = "DISCONNECTED")
                ELSE IF conn.status = "DISCONNECTED" THEN Send(a, Return(id, 0, FALSE))
                ELSE ToDisconnected(b, h))

(* tp_base_connection_request_channel, conn_requests_requestotron: a request
   that is not valid, or that comes too early, is refused at once. *)
RefuseRequest(call) ==
  /\ Receive(call.method)
  /\ Become(Send(Called(call), Error(Len(asked) + 1)))

(* ... otherwise it is queued and offered to the channel managers and then, if
   it came by RequestChannel, to the factories: what they do with it. *)
Offered(w, id, answer, channel) ==
  LET target == w.asked[id].target
      made   == <<[channel |-> channel, tokens |-> <<id>>]>>
  IN  CASE answer = "queue"    -> [w EXCEPT !.held = @ \cup {id}]
        [] answer = "fail"     -> FailChannelRequest(w, id)
        [] answer = "existing" ->
             IF Owner[target] = "manager" THEN SatisfyRequest(w, id, channel, FALSE)
             ELSE FactorySatisfy(w, channel, target, id, FALSE)
        [] answer = "new"      ->
             IF Owner[target] = "manager" THEN ManagerNewChannels(w, target, made)
             ELSE FactorySatisfy(w, channel, target, id, TRUE)

Made == UNION {m.channels : m \in {s \in ToSet(sent) : s.type = "NewChannels"}}

Fresh == Cardinality(Made) + 1

CanAnswer(call, answer, channel) ==
  CASE answer = "new"      -> channel = Fresh /\ Fresh <= MaxChannels
    [] answer = "existing" -> /\ call.method # "CreateChannel"
                              /\ [channel |-> channel, target |-> call.target] \in open
    [] OTHER               -> channel = 0

RequestChannel(call, answer, channel) ==
  LET id == Len(asked) + 1
      w  == [Called(call) EXCEPT !.conn.requests = Append(@, id)]
  IN  /\ Receive(call.method)
      /\ conn.status = "CONNECTED"
      /\ CanAnswer(call, answer, channel)
      /\ \/ Owner[call.target] = "manager"
         \/ Owner[call.target] = "factory" /\ call.method = "RequestChannel"
      /\ Become(Offered(w, id, answer, channel))

ChannelCall ==
  [method : {"RequestChannel"}, suppress : BOOLEAN, target : Targets]
    \cup [method : {"CreateChannel"}, suppress : {TRUE}, target : Targets]
    \cup [method : {"EnsureChannel"}, suppress : {FALSE}, target : Targets]

Request ==
  \E call \in ChannelCall :
    \/ RefuseRequest(call)
    \/ \E answer \in {"queue", "fail", "existing", "new"}, channel \in 0..MaxChannels :
         RequestChannel(call, answer, channel)

Queued(target) == {id \in held : asked[id].target = target}

(* A channel manager makes one or two channels, for requests it kept or for
   none; no channel is the answer to two CreateChannel calls. *)
ManagerMakes(target) ==
  /\ conn.status = "CONNECTED" /\ Owner[target] = "manager"
  /\ \E n \in 1..2 :
       /\ Fresh + n - 1 <= MaxChannels
       /\ \E f \in [Queued(target) -> 0..n] :
         LET For(c) == {id \in Queued(target) : f[id] = c}
         IN  /\ \A c \in 1..n :
                  Cardinality({id \in For(c) : asked[id].method = "CreateChannel"}) <= 1
             /\ \E s \in SetToSeqs(For(1)), t \in SetToSeqs(For(2)) :
                  LET first  == [channel |-> Fresh, tokens |-> s]
                      second == [channel |-> Fresh + 1, tokens |-> t]
                  IN  Become(ManagerNewChannels(World, target,
                        IF n = 1 THEN <<first>> ELSE <<first, second>>))

(* request-failed; request-already-satisfied *)
ManagerAnswers(id) ==
  /\ Owner[asked[id].target] = "manager"
  /\ \/ Become(FailChannelRequest(World, id))
     \/ /\ asked[id].method # "CreateChannel"
        /\ \E c \in open : /\ c.target = asked[id].target
                          /\ Become(SatisfyRequest(World, id, c.channel, FALSE))

(* new-channel or channel-error from a factory, for a request or for none *)
FactoryActs(target, id) ==
  /\ conn.status = "CONNECTED" /\ Owner[target] = "factory"
  /\ \/ /\ Fresh <= MaxChannels
        /\ Become(FactorySatisfy(World, Fresh, target, id, TRUE))
     \/ id # 0 /\ Become(FactoryError(World, target, id))

Close(c) == Become(CloseChannel(World, c))

(* Mutant: the self-handle may be unset at any time. *)
SetSelfHandleAny(handle) ==
  /\ ~conn.disposed
  /\ Become([World EXCEPT !.conn.self_handle = handle])

(* Mutant: the handle is counted from one. *)
SetSelfHandleOffByOne(handle) ==
  /\ ~conn.disposed
  /\ Become([World EXCEPT !.conn.self_handle = handle + 1])

(* tp_base_connection_set_self_handle *)
SetSelfHandle(handle) ==
  /\ ~conn.disposed
  /\ conn.status = "CONNECTED" => handle # 0
  /\ Become([World EXCEPT !.conn.self_handle = handle])

(* The subclass changes the status, when the network says so. *)
SubclassChanges(status, h) ==
  /\ ~conn.disposed
  /\ Become(ChangeStatus(World, status, h))

SubclassFinishes ==
  /\ conn.shutting
  /\ Become(Dispose(FinishShutdown(World)))

Next ==
  \/ \E ok \in BOOLEAN : Register(ok)
  \/ \E h \in Hooks :
       \/ \E start \in {"none", "CONNECTING", "CONNECTED", "DISCONNECTED"}, ok \in BOOLEAN :
            Connect(start, ok, h)
       \/ Disconnect(h)
       \/ \E status \in Statuses \ {"NEW"} : SubclassChanges(status, h)
  \/ Request
  \/ \E target \in Targets : ManagerMakes(target)
  \/ \E target \in Targets : \E id \in Queued(target) \cup {0} : FactoryActs(target, id)
  \/ \E id \in held : ManagerAnswers(id)
  \/ \E c \in open : Close(c)
  \/ \E handle \in {0, 1} : SetSelfHandle(handle)
  \/ SubclassFinishes

Spec == Init /\ [][Next]_vars

(* A connection that has reached CONNECTED without a call but Connect. *)
InitConnected ==
  /\ conn = [ status |-> "CONNECTED", self_handle |-> 1, requests |-> <<>>,
              shutting |-> FALSE, disconnects |-> <<>>, registered |-> TRUE,
              finished |-> FALSE, disposed |-> FALSE, aborted |-> FALSE ]
  /\ asked = <<>> /\ held = {} /\ open = {}
  /\ sent = <<StatusSignal("CONNECTING"), StatusSignal("CONNECTED")>>

-----------------------------------------------------------------------------
TypeOK ==
  /\ conn \in Conns
  /\ asked \in Seq(Calls) /\ held \subseteq DOMAIN asked
  /\ open \subseteq [channel : 1..MaxChannels, target : Targets]

(* The assertions of base-connection.c hold: a request is freed once and by
   who has it, the request a channel was made for matches the channel, and a
   connection is disposed of only at its end and without requests. *)
AssertionsHold == ~conn.aborted

Answers(id) == {i \in DOMAIN sent : sent[i].type \in {"return", "error"} /\ sent[i].id = id}

(* Every method call is answered exactly once, or its context is kept, in one
   place: among the channel requests or among the Disconnect calls. *)
AnsweredOrKept ==
  \A id \in DOMAIN asked :
    LET kept == \/ Contains(conn.requests, id) \/ Contains(conn.disconnects, id)
    IN  Cardinality(Answers(id)) = IF kept THEN 0 ELSE 1

(* Nobody waits for a connection that has ended: all channel requests are
   answered when it is DISCONNECTED and has returned to the main loop, and
   everything is when it is disposed of. *)
NobodyWaits ==
  /\ conn.status = "DISCONNECTED" => \A id \in ChannelCalls(World) : Answers(id) # {}
  /\ conn.disposed => \A id \in DOMAIN asked : Answers(id) # {}

Returned(c, i) ==
  {m \in {sent[j] : j \in 1..i} : m.type = "return" /\ m.channel = c}

Owns(m) ==
  \/ m.yours
  \/ asked[m.id].method = "CreateChannel"
  \/ asked[m.id].method = "RequestChannel" /\ asked[m.id].suppress

(* Somebody is responsible for a new channel, once: NewChannel has
   suppress_handler exactly if a call that returned it asked to handle it, and
   Yours is said to at most one EnsureChannel, which then is the only owner. *)
OneHandler ==
  \A i \in DOMAIN sent : sent[i].type = "NewChannel" =>
    LET c      == sent[i].channel
        before == Returned(c, i)
        owners == {m \in before : Owns(m)}
    IN  /\ sent[i].suppress <=> owners # {}
        /\ \A m \in Returned(c, Len(sent)) : m.yours => owners = {m}

(* A client that made a channel knows of it before everybody hears of it; a
   channel is announced once, and closed after that. *)
ReturnThenAnnounce ==
  \A i \in DOMAIN sent : \A c \in 1..MaxChannels :
    /\ sent[i].type = "NewChannels" /\ c \in sent[i].channels =>
         \A j \in DOMAIN sent :
           /\ sent[j].type = "NewChannels" /\ c \in sent[j].channels => i = j
           /\ sent[j].type = "return" /\ sent[j].channel = c
                /\ (sent[j].yours \/ asked[sent[j].id].method = "CreateChannel") => j < i
    /\ sent[i] = ChannelClosed(c) =>
         \E j \in 1..(i - 1) : sent[j].type = "NewChannels" /\ c \in sent[j].channels

(* A channel without a handle answers, when it is new, no call but the one it
   was made for. *)
AnonymousIsPrivate ==
  \A i \in DOMAIN sent : sent[i].type = "NewChannels" =>
    \A c \in sent[i].channels :
      LET before == Returned(c, i)
      IN  (\E m \in before : asked[m.id].target \in Anonymous) => Cardinality(before) = 1

(* Clients see the status go forward, each status once, CONNECTED only by way
   of CONNECTING, whatever the hooks of the subclass do meanwhile. *)
StatusStory ==
  LET story == SelectSeq(sent, LAMBDA m : m.type = "StatusChanged")
      full  == <<StatusSignal("CONNECTING"), StatusSignal("CONNECTED"),
                 StatusSignal("DISCONNECTED")>>
      short == <<StatusSignal("CONNECTING"), StatusSignal("DISCONNECTED")>>
  IN  \/ IsPrefix(story, full) \/ IsPrefix(story, short)
      \/ story = <<StatusSignal("DISCONNECTED")>>

(* A connection that is CONNECTED has a self-handle, always. *)
ConnectedHasSelf == conn.status = "CONNECTED" => conn.self_handle # 0

(* Every Disconnect call returns in the end. *)
DisconnectReturns ==
  \A id \in 1..MaxCalls :
    (id \in DOMAIN asked /\ Contains(conn.disconnects, id)) ~> (Answers(id) # {})

=============================================================================
