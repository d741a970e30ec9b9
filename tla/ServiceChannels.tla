--------------------------- MODULE ServiceChannels ----------------------------
(* Channels as a connection manager makes them: TpBaseChannel, and four kinds of
   channel on top of it, each with the channel manager that announces it.
     "echo"      the chats of examples/cm/echo-message-parts, which come back
                 when they are closed with messages pending
     "csh"       the chat rooms of examples/cm/channelspecific
     "password"  TpBasePasswordChannel and TpSimplePasswordManager
     "config"    a room with a TpBaseRoomConfig, in a manager like that of "csh"
   A channel is known by the handle it is for.  The client hears of channels by
   NewChannels and ChannelClosed only. *)
EXTENDS Naturals, Sequences, FiniteSets, SequencesExt

CONSTANTS
  Kind,        \* "echo", "csh", "password" or "config"
  Targets,     \* the handles that channels are for
  Nick,        \* the user's local handle in a room: 1 (Alice's as well) or 5
  Again,       \* whether the build makes the join timer fire again
  Patient,     \* whether a room is left only after the join timer has fired
  GivesUp,     \* whether the connection disconnects when a prompt is cancelled
  Overlap,     \* whether it prompts again while a password channel is open
  Names, Values,   \* the properties of a room and what their values may be
  MaxMessages, MaxOps   \* bounds

VARIABLES
  self,        \* the connection, its channel manager and the channels
  made         \* the number of things done to them

vars == <<self, made>>

SoundConstants ==
  /\ Kind \in {"echo", "csh", "password", "config"} /\ Targets \subseteq Nat \ {0}
  /\ Nick \in {1, 5} /\ {Again, Patient, GivesUp, Overlap} \subseteq BOOLEAN
  /\ MaxMessages \in Nat /\ MaxOps \in Nat

Group == INSTANCE GroupMixin WITH Handles <- 1 .. 6, Owners <- {0, 11, 12, 13, 20}

NoChannel == [registered |-> FALSE]
SelfHandle == 20         \* of the connection
NoHandle == 0
Exists(w, t) == w.channels[t] # NoChannel
Data(w, t) == w.channels[t].data

-----------------------------------------------------------------------------
(* The TpChannelManager signals, as TpBaseConnection passes them on: the client
   learns the immutable properties, and a request is answered. *)
fill_basic_immutable_properties(chan) ==
  [initiator |-> chan.initiator, requested |-> chan.requested]

emit_new_channel(w, t, tokens) ==
  [w EXCEPT !.known = [u \in DOMAIN @ \cup {t} |->
                         IF u = t THEN fill_basic_immutable_properties(w.channels[t])
                         ELSE @[u]],
            !.epoch[t] = @ + 1,
            !.answers = @ \o [i \in 1 .. tokens |-> <<"new", t>>]]

emit_channel_closed(w, t) ==
  [w EXCEPT !.known = [u \in DOMAIN @ \ {t} |-> @[u]]]

emit_request_already_satisfied(w, t) ==
  [w EXCEPT !.answers = Append(@, <<"existing", t>>)]

emit_request_failed(w, t) == [w EXCEPT !.answers = Append(@, <<"failed", t>>)]

-----------------------------------------------------------------------------
(* TpBaseChannel.  Whoever holds a reference to the channel is counted: the
   manager, a D-Bus call in progress, an update of the configuration. *)
g_object_ref(w, t) == [w EXCEPT !.channels[t].refs = @ + 1]

(* Of a channel that is destroyed already: the last reference frees it. *)
g_object_unref(w, t) ==
  IF w.channels[t].refs = 1 THEN [w EXCEPT !.channels[t] = NoChannel]
  ELSE [w EXCEPT !.channels[t].refs = @ - 1]

tp_base_channel_register(w, t) ==
  IF w.channels[t].registered THEN w ELSE [w EXCEPT !.channels[t].registered = TRUE]

(* The manager gives up its reference: the entry of the table, priv->channel. *)
Forget(w, t) ==
  IF t \in w.held THEN g_object_unref([w EXCEPT !.held = @ \ {t}], t) ELSE w

(* The managers' "closed" handlers.  A chat that is not really destroyed is
   announced again; a table that close_all has taken away is left alone. *)
channel_closed_cb(w, t) ==
  LET a == emit_channel_closed(w, t)
  IN  IF Kind = "password" THEN Forget(a, t)
      ELSE IF ~w.table THEN a
      ELSE IF Kind = "echo" /\ ~w.channels[t].destroyed THEN emit_new_channel(a, t, 0)
      ELSE Forget(a, t)

tp_base_channel_destroyed(w, t) ==
  LET a == [g_object_ref(w, t) EXCEPT !.channels[t].destroyed = TRUE,
                                      !.channels[t].respawning = FALSE]
      b == channel_closed_cb(a, t)
  IN  g_object_unref([b EXCEPT !.channels[t].registered = FALSE], t)

tp_base_channel_reopened_with_requested(w, t, requested, initiator) ==
  LET a == [g_object_ref(w, t) EXCEPT !.channels[t].initiator = initiator,
                                      !.channels[t].requested = requested,
                                      !.channels[t].respawning = TRUE]
  IN  g_object_unref(tp_base_channel_register(channel_closed_cb(a, t), t), t)

tp_base_channel_reopened(w, t, initiator) ==
  tp_base_channel_reopened_with_requested(w, t, FALSE, initiator)

(* Disposing of a channel destroys it first, if nobody has. *)
tp_base_channel_dispose(w, t) ==
  IF w.channels[t].destroyed THEN w ELSE tp_base_channel_destroyed(w, t)

Release(w, t) ==
  IF w.channels[t].refs > 1 THEN [w EXCEPT !.channels[t].refs = @ - 1]
  ELSE [tp_base_channel_dispose(w, t) EXCEPT !.channels[t] = NoChannel]

(* Construction, after which the channel is on the bus. *)
NewChannel(w, t, initiator, data) ==
  tp_base_channel_register(
    [w EXCEPT !.channels[t] = [registered |-> FALSE, destroyed |-> FALSE,
                               respawning |-> FALSE, initiator |-> initiator,
                               requested |-> FALSE, refs |-> 1, data |-> data]], t)

OnBus(w, t) == Exists(w, t) /\ w.channels[t].registered

-----------------------------------------------------------------------------
(* Chats.  What the user sends comes back as a message from the contact, unless
   it is meant for some interface only. *)
send_message(w, t, special) ==
  IF special THEN w
  ELSE [w EXCEPT !.last = @ + 1,
                 !.channels[t].data = Append(@, [id |-> w.last + 1, rescued |-> FALSE,
                                                 epoch |-> w.epoch[t]])]

Acknowledge(w, t, ids) ==
  [w EXCEPT !.channels[t].data = SelectSeq(@, LAMBDA m : m.id \notin ids),
            !.acked = @ \cup ids]

set_rescued(w, t) ==
  [w EXCEPT !.channels[t].data =
     [i \in DOMAIN @ |-> [@[i] EXCEPT !.rescued = TRUE]]]

example_echo_2_channel_close(w, t) ==
  IF w.channels[t].destroyed THEN w
  ELSE IF Data(w, t) # <<>> THEN tp_base_channel_reopened(set_rescued(w, t), t, t)
  ELSE tp_base_channel_destroyed(w, t)

(* What the client told it to throw away. *)
tp_message_mixin_clear(w, t) ==
  [w EXCEPT !.channels[t].data = <<>>,
            !.dropped = @ \cup {Data(w, t)[i].id : i \in DOMAIN Data(w, t)}]

-----------------------------------------------------------------------------
(* Rooms.  Alice is 1, Bob 2, Chris 3 and the anonymous coward 4; the user is
   Nick, or 6 if the server has renamed them. *)
Others == 1 .. 4
Renamed == 6
OwnerOf == [h \in Others |-> IF h = 4 THEN NoHandle ELSE h + 10]

(* The client follows what the mixin sends, which is then read. *)
Follow(view, m) ==
  CASE m.type = "members" ->
         [view EXCEPT !.members = (@ \ (m.del \cup m.lp \cup m.rp)) \cup m.add,
                      !.rp = (@ \ (m.del \cup m.lp \cup m.add)) \cup m.rp]
    [] m.type = "owners" ->
         [view EXCEPT !.owners = [h \in (DOMAIN @ \ m.removed) \cup DOMAIN m.added |->
                                    IF h \in DOMAIN m.added THEN m.added[h] ELSE @[h]]]
    [] m.type = "self" -> [view EXCEPT !.self = m.handle]
    [] OTHER -> view

Sent(w, t, g) ==
  [w EXCEPT !.view[t] = FoldLeft(Follow, @, g.out),
            !.channels[t].data = [g EXCEPT !.out = <<>>]]

suggest_room_identity == Nick

EmptyGroup ==
  [members |-> {}, lp |-> {}, rp |-> {}, info |-> <<>>, owners |-> Group!NoOwners,
   flags |-> {"PROPERTIES"}, self |-> suggest_room_identity, selfRemoval |-> TRUE,
   out |-> <<>>]

join_room(g) ==
  Group!ChangeMembers(Group!AddHandleOwners(g, [h \in {g.self} |-> SelfHandle]),
    {}, {}, {}, {g.self}, [actor |-> SelfHandle, reason |-> "none"])

RenameSelf(g) ==
  Group!ChangeMembers(
    Group!ChangeSelfHandle(Group!AddHandleOwners(g, [h \in {Renamed} |-> SelfHandle]), Renamed),
    {}, {g.self}, {}, {Renamed}, [actor |-> 0, reason |-> "renamed"])

complete_join(g) ==
  LET a == IF g.self \in Others THEN RenameSelf(g) ELSE g
      b == Group!AddHandleOwners(a, OwnerOf)
  IN  Group!ChangeFlags(
        Group!ChangeMembers(b, Others \cup {b.self}, {}, {}, {}, Group!NoCause),
        {"CAN_ADD"}, {})

-----------------------------------------------------------------------------
(* Password channels.  The client is told every change of the status. *)
change_status(w, t, status) ==
  [w EXCEPT !.channels[t].data.status = status]

Final == {"Succeeded", "Server_Failed", "Client_Failed"}

(* "finished": the handler lives as long as the result, which completing it
   frees.  The connection may give up in the callback; the channel's status is
   final by then, so that closing it only destroys it. *)
Disconnected(w) ==
  IF w.held = {} THEN [w EXCEPT !.connected = FALSE]
  ELSE tp_base_channel_destroyed([w EXCEPT !.connected = FALSE], 1)

channel_finished_cb(w, value) ==
  IF ~w.waiting THEN w
  ELSE LET a == [w EXCEPT !.waiting = FALSE, !.answers = Append(@, value)]
       IN  IF GivesUp /\ value = "cancelled" /\ a.connected THEN Disconnected(a) ELSE a

tp_base_password_channel_close(w, t) ==
  IF w.channels[t].destroyed THEN w
  ELSE tp_base_channel_destroyed(
         IF Data(w, t).status \in Final THEN w
         ELSE channel_finished_cb(change_status(w, t, "Client_Failed"), "cancelled"), t)

start_mechanism_with_data(w, t, known, empty) ==
  IF ~known \/ Data(w, t).status # "Not_Started" \/ empty THEN w
  ELSE change_status(
         [change_status(w, t, "In_Progress") EXCEPT !.channels[t].data.password = TRUE],
         t, "Server_Succeeded")

accept_sasl(w, t) ==
  IF Data(w, t).status # "Server_Succeeded" THEN w
  ELSE channel_finished_cb(
         [change_status(w, t, "Succeeded") EXCEPT !.accepted = @ \cup {w.prompts}],
         IF Data(w, t).password THEN "password" ELSE "nothing")

abort_sasl(w, t) ==
  IF Data(w, t).status \in {"Server_Succeeded", "Client_Accepted"}
  THEN [w EXCEPT !.abort = [status |-> Data(w, t).status, ok |-> FALSE]]
  ELSE LET a == [w EXCEPT !.abort = [status |-> Data(w, t).status, ok |-> TRUE]]
       IN  IF Data(w, t).status \in {"Client_Failed", "Server_Failed"} THEN a
           ELSE channel_finished_cb(change_status(a, t, "Client_Failed"), "cancelled")

(* A second prompt while the channel of the first is open only warns. *)
prompt_common_async(w) ==
  LET a == [w EXCEPT !.prompts = @ + 1]
  IN  IF w.held # {} THEN a
      ELSE emit_new_channel(
             NewChannel([a EXCEPT !.held = {1}, !.waiting = TRUE], 1, NoHandle,
                        [status |-> "Not_Started", password |-> FALSE]), 1, 0)

-----------------------------------------------------------------------------
(* The configuration of a room.  What has changed since the client was last told
   is remembered until it is told. *)
NoProperties == <<>>

tp_base_room_config_set_property(w, p, v) ==
  [w EXCEPT !.config.changed = IF w.config.value[p] # v THEN @ \cup {p} ELSE @,
            !.config.value[p] = v]

set_can_update_configuration(w, can) ==
  [w EXCEPT !.config.canChanged = @ \/ w.config.can # can, !.config.can = can]

set_property_mutable(w, p, is) ==
  [w EXCEPT !.config.mutableChanged = @ \/ (p \in w.config.mutable) # is,
            !.config.mutable = IF is THEN @ \cup {p} ELSE @ \ {p}]

(* PropertiesChanged, which reaches the client if the channel is on the bus. *)
Tell(w, c, told) ==
  IF ~OnBus(w, 1) THEN told
  ELSE [told EXCEPT !.value = [p \in Names |-> IF p \in c.changed THEN c.value[p] ELSE @[p]],
                    !.mutable = IF c.mutableChanged THEN c.mutable ELSE @,
                    !.can = IF c.canChanged THEN c.can ELSE @]

emit_properties_changed(w) ==
  [w EXCEPT !.told = Tell(w, w.config, @), !.config.changed = {},
            !.config.mutableChanged = FALSE, !.config.canChanged = FALSE]

set_retrieved(w) ==
  LET a == emit_properties_changed(w)
  IN  IF a.config.retrieved THEN a
      ELSE [a EXCEPT !.config.retrieved = TRUE, !.told.retrieved = @ + 1]

validate_property_type(v) == v \in Values

validate_property(w, p, v) ==
  p \in Names /\ p \in w.config.mutable /\ validate_property_type(v)

validate_properties(w, properties) ==
  \A p \in DOMAIN properties : validate_property(w, p, properties[p])

update_configuration(w, properties) ==
  LET a == [w EXCEPT !.calls = @ + 1]
      refused == [a EXCEPT !.answers = Append(@, <<"refused", a.calls, TRUE>>)]
  IN  IF w.config.ctx # 0 \/ ~w.config.can THEN refused
      ELSE IF DOMAIN properties = {}
      THEN [a EXCEPT !.answers = Append(@, <<"done", a.calls, TRUE>>)]
      ELSE IF ~validate_properties(w, properties) THEN refused
      ELSE [g_object_ref(a, 1) EXCEPT !.config.ctx = a.calls, !.config.validated = properties]

(* The answer carries whether the client was told of every new value before. *)
update_cb(w, ok) ==
  LET c == w.config
      props == c.validated
      a == emit_properties_changed(
             FoldSet(LAMBDA p, x : tp_base_room_config_set_property(x, p, props[p]),
                     w, DOMAIN props))
      done(x) == [x EXCEPT !.answers =
                    Append(@, <<"done", c.ctx, \A p \in DOMAIN props :
                                                 ~OnBus(x, 1) \/ x.told.value[p] = props[p]>>)]
      b == IF ok THEN done(a) ELSE [w EXCEPT !.answers = Append(@, <<"failed", c.ctx, TRUE>>)]
  IN  IF ~Exists(w, 1) THEN [w EXCEPT !.asserts = FALSE]
      ELSE Release([b EXCEPT !.config.ctx = 0, !.config.validated = NoProperties], 1)

-----------------------------------------------------------------------------
(* Requests.  The values of the fixed properties say whether the request is for
   this manager, which answers it at once, or for some other one, of which there is
   none. *)
FixedProperties == {"ChannelType", "TargetHandleType"}
AllowedProperties == {"TargetHandle", "TargetID"}
RequestedProperties ==
  {FixedProperties \cup {"TargetHandle"}, FixedProperties \cup {"TargetHandle", "SMSChannel"}}

asv_has_unknown_properties(names) ==
  names \ (FixedProperties \cup AllowedProperties) # {}

NewRoom(w, t) ==
  LET g == join_room(EmptyGroup)
  IN  [NewChannel(w, t, NoHandle, [g EXCEPT !.out = <<>>]) EXCEPT
         !.timers = @ \cup {t},
         !.view[t] = [members |-> g.members, rp |-> g.rp, owners |-> g.owners, self |-> g.self]]

new_channel(w, t, tokens) ==
  LET a == [w EXCEPT !.held = @ \cup {t}]
  IN  emit_new_channel(CASE Kind = "echo" -> NewChannel(a, t, SelfHandle, <<>>)
                         [] Kind = "csh" -> NewRoom(a, t)
                         [] OTHER -> NewChannel(a, t, NoHandle, <<>>), t, tokens)

request(w, t, ours, names, require_new) ==
  LET a == [w EXCEPT !.answers = <<>>,
                     !.asked = [ours |-> ours, names |-> names, new |-> require_new,
                                known |-> t \in DOMAIN w.known]]
  IN  IF ~ours THEN [a EXCEPT !.answers = << <<"unclaimed", t>> >>]
      ELSE IF asv_has_unknown_properties(names) THEN emit_request_failed(a, t)
      ELSE IF t \notin w.held THEN new_channel(a, t, 1)
      ELSE IF require_new THEN emit_request_failed(a, t)
      ELSE emit_request_already_satisfied(a, t)

create_channel(w, t, ours, names) == request(w, t, ours, names, TRUE)
ensure_channel(w, t, ours, names) == request(w, t, ours, names, FALSE)

(* Disconnection.  The echo and room managers take the table away first, so that
   the channels that are disposed of with it are not looked up in it. *)
DropTable(w) ==
  FoldSet(LAMBDA t, x : Release(x, t), [w EXCEPT !.table = FALSE, !.held = {}], w.held)

tp_simple_password_manager_close_all(w) ==
  IF w.held = {} THEN w ELSE tp_base_password_channel_close(w, 1)

close_all(w) ==
  IF Kind = "password" THEN tp_simple_password_manager_close_all(w) ELSE DropTable(w)

klass_close(w, t) ==
  CASE Kind = "echo" -> example_echo_2_channel_close(w, t)
    [] Kind = "password" -> tp_base_password_channel_close(w, t)
    [] OTHER -> tp_base_channel_destroyed(w, t)

(* A D-Bus call holds a reference to the object while it is dispatched. *)
tp_base_channel_close(w, t) ==
  IF w.channels[t].destroyed THEN w ELSE klass_close(w, t)

tp_base_channel_close_dbus(w, t) ==
  g_object_unref(tp_base_channel_close(g_object_ref(w, t), t), t)

destroyable_destroy(w, t) ==
  LET a == tp_base_channel_close(tp_message_mixin_clear(g_object_ref(w, t), t), t)
  IN  g_object_unref([a EXCEPT !.asserts = @ /\ a.channels[t].destroyed], t)

(* Whoever is not the user may not be removed from a room. *)
remove_member_with_reason(w, t, h) ==
  IF h = Data(w, t).self THEN g_object_unref(tp_base_channel_destroyed(g_object_ref(w, t), t), t)
  ELSE w

-----------------------------------------------------------------------------
NotAsked == [new |-> FALSE]

FirstConfig ==
  [value |-> [p \in Names |-> CHOOSE v \in Values : TRUE], mutable |-> {}, can |-> FALSE,
   changed |-> {}, mutableChanged |-> FALSE, canChanged |-> FALSE, retrieved |-> FALSE,
   ctx |-> 0, validated |-> NoProperties]

Start ==
  [connected |-> TRUE, table |-> TRUE, held |-> {}, known |-> <<>>, answers |-> <<>>,
   channels |-> [t \in Targets |-> NoChannel], epoch |-> [t \in Targets |-> 0],
   asked |-> NotAsked, asserts |-> TRUE,
   last |-> 0, acked |-> {}, dropped |-> {},
   timers |-> {}, view |-> [t \in Targets |-> <<>>],
   prompts |-> 0, waiting |-> FALSE, accepted |-> {}, abort |-> [status |-> "none", ok |-> FALSE],
   config |-> FirstConfig, calls |-> 0,
   told |-> [value |-> FirstConfig.value, mutable |-> {}, can |-> FALSE, retrieved |-> 0]]

Init ==
  /\ self = IF Kind = "config" THEN new_channel(Start, 1, 0) ELSE Start
  /\ made = 0

Do(w) == made < MaxOps /\ self.connected /\ self' = w /\ made' = made + 1
Elapse(w) == self' = w /\ UNCHANGED made

(* EnsureChannel and CreateChannel. *)
Request ==
  /\ Kind \in {"echo", "csh"}
  /\ \E t \in Targets, ours \in BOOLEAN, names \in RequestedProperties :
       /\ t \in self.timers => Exists(self, t)
       /\ \/ Do(create_channel(self, t, ours, names))
          \/ Do(ensure_channel(self, t, ours, names))

Close ==
  \E t \in Targets :
    /\ OnBus(self, t) /\ (Patient => t \notin self.timers)
    /\ Do(tp_base_channel_close_dbus(self, t))

Disconnect ==
  /\ Patient => self.timers = {}
  /\ Do(LET w == self.channels
        IN [close_all([self EXCEPT !.connected = FALSE]) EXCEPT
              !.dropped = IF Kind = "echo"
                          THEN @ \cup UNION {{w[t].data[i].id : i \in DOMAIN w[t].data} :
                                             t \in self.held}
                          ELSE @])

Send ==
  /\ Kind = "echo" /\ self.last < MaxMessages
  /\ \E t \in Targets, special \in BOOLEAN :
       OnBus(self, t) /\ Do(send_message(self, t, special))

Ack ==
  /\ Kind = "echo"
  /\ \E t \in Targets :
       /\ OnBus(self, t)
       /\ \E i \in DOMAIN Data(self, t) : Do(Acknowledge(self, t, {Data(self, t)[i].id}))

Destroy ==
  /\ Kind = "echo"
  /\ \E t \in Targets : OnBus(self, t) /\ Do(destroyable_destroy(self, t))

(* The join timer, which nothing removes and which holds no reference; the
   callback returns nothing, so that it may well be called again. *)
JoinTimer(w, t) ==
  IF Exists(w, t) THEN Sent(w, t, complete_join(Data(w, t))) ELSE [w EXCEPT !.asserts = FALSE]

Join ==
  /\ Kind = "csh"
  /\ \E t \in self.timers :
       Elapse([JoinTimer(self, t) EXCEPT !.timers = IF Again THEN @ ELSE @ \ {t}])

RemoveMembers ==
  /\ Kind = "csh"
  /\ \E t \in Targets :
       /\ OnBus(self, t) /\ (Patient => t \notin self.timers)
       /\ \E h \in {2, Data(self, t).self} :
            /\ Group!MayRemove(Data(self, t), h)
            /\ Do(remove_member_with_reason(self, t, h))

Prompt ==
  /\ Kind = "password" /\ (Overlap \/ self.held = {})
  /\ Do(prompt_common_async(self))

StartMechanism ==
  /\ Kind = "password" /\ OnBus(self, 1)
  /\ \E known, empty \in BOOLEAN : Do(start_mechanism_with_data(self, 1, known, empty))

AcceptSASL == Kind = "password" /\ OnBus(self, 1) /\ Do(accept_sasl(self, 1))

AbortSASL ==
  /\ Kind = "password" /\ OnBus(self, 1)
  /\ Do(LET a == abort_sasl(g_object_ref(self, 1), 1) IN g_object_unref(a, 1))

(* The connection manager learns the configuration and may or may not tell. *)
Configure ==
  /\ Kind = "config" /\ Exists(self, 1)
  /\ \/ \E p \in Names, v \in Values : Do(tp_base_room_config_set_property(self, p, v))
     \/ \E p \in Names, is \in BOOLEAN : Do(set_property_mutable(self, p, is))
     \/ \E can \in BOOLEAN : Do(set_can_update_configuration(self, can))

Emit == Kind = "config" /\ Exists(self, 1) /\ Do(emit_properties_changed(self))

Retrieved == Kind = "config" /\ Exists(self, 1) /\ Do(set_retrieved(self))

Update ==
  /\ Kind = "config" /\ OnBus(self, 1)
  /\ \E S \in SUBSET (Names \cup {"unknown"}) :
       \E props \in [S -> Values \cup {"bad"}] : Do(update_configuration(self, props))

UpdateDone ==
  /\ Kind = "config" /\ self.config.ctx # 0
  /\ \E ok \in BOOLEAN : Elapse(update_cb(self, ok))

Next ==
  \/ Request \/ Close \/ Disconnect
  \/ Send \/ Ack \/ Destroy
  \/ Join \/ RemoveMembers
  \/ Prompt \/ StartMechanism \/ AcceptSASL \/ AbortSASL
  \/ Configure \/ Emit \/ Retrieved \/ Update \/ UpdateDone

Spec == Init /\ [][Next]_vars

-----------------------------------------------------------------------------
TypeOK ==
  /\ self.held \subseteq Targets /\ DOMAIN self.known \subseteq Targets
  /\ \A t \in self.held : Exists(self, t) /\ self.channels[t].refs \in 1 .. 3
  /\ made \in 0 .. MaxOps

(* Whoever follows NewChannels and ChannelClosed (emit_new_channel,
   emit_channel_closed) knows exactly the channels that are on the bus and, while
   connected, those that the manager would list, with the initiator and
   requestedness they have now, however often they were closed and came back. *)
ChannelsMirrored ==
  /\ DOMAIN self.known = {t \in Targets : OnBus(self, t)}
  /\ self.connected => DOMAIN self.known = self.held
  /\ \A t \in DOMAIN self.known :
       /\ self.known[t].initiator = self.channels[t].initiator
       /\ self.known[t].requested = self.channels[t].requested
  /\ ~self.connected => DOMAIN self.known = {} \/ self.config.ctx # 0

(* A message that was received stays pending, whatever the client closes, until
   it is acknowledged or its channel is destroyed or disconnected; those that were
   pending when the chat was closed, and only those, are marked as rescued, and
   the chat is then one that the contact has begun
   (example_echo_2_channel_close). *)
MessagesSurvive ==
  LET pending == UNION {{Data(self, t)[i].id : i \in DOMAIN Data(self, t)} :
                        t \in {u \in Targets : Exists(self, u)}}
  IN  /\ pending = (1 .. self.last) \ (self.acked \cup self.dropped)
      /\ \A t \in Targets : Exists(self, t) =>
           \A i \in DOMAIN Data(self, t) :
             LET m == Data(self, t)[i]
             IN  /\ m.rescued = (m.epoch < self.epoch[t])
                 /\ m.rescued => self.channels[t].initiator = t

(* Every request is answered exactly once: with a new channel only if there was
   none for the handle, with the existing one only if a new one was not demanded,
   and a channel that the client asked for is one that it knows. *)
RequestAnsweredOnce ==
  self.asked # NotAsked =>
    /\ Len(self.answers) = 1
    /\ LET a == self.answers[1][1]
           ask == self.asked
           good == ask.ours /\ "SMSChannel" \notin ask.names
       IN  /\ (a = "new") = (good /\ ~ask.known)
           /\ (a = "existing") = (good /\ ask.known /\ ~ask.new)

(* g_assert (tp_base_channel_is_destroyed (...)) in destroyable_destroy, the
   "it shouldn't have died in the meantime" of update_cb, and a join timer that
   finds its room. *)
AssertionsHold == self.asserts

(* In a room that the user has joined they are a member under their own handle,
   which no one else has and which is owned by the connection's self handle, and
   so is everyone else by theirs, even if the server had to rename the user; and a
   client that follows the group's signals agrees (complete_join). *)
RoomIsRight ==
  \A t \in Targets : Exists(self, t) =>
    LET g == Data(self, t) v == self.view[t]
    IN  /\ v.members = g.members /\ v.rp = g.rp /\ v.self = g.self /\ v.owners = g.owners
        /\ g.owners[g.self] = SelfHandle
        /\ g.members = {} => g.rp = {g.self}
        /\ g.members # {} =>
             /\ g.members = Others \cup {g.self} /\ g.rp = {} /\ g.self \notin Others
             /\ \A h \in Others : g.owners[h] = OwnerOf[h]

(* A prompt for the password is answered exactly once: with the password if and
   only if the client accepted it, and with a cancellation by the time the channel
   is aborted, closed or gone with the connection; then the manager can prompt
   again (prompt_common_async, channel_finished_cb). *)
PromptsAnswered ==
  LET open == self.held # {}
      done == open => self.channels[1].data.status \in Final
  IN  /\ Len(self.answers) = self.prompts - (IF done THEN 0 ELSE 1)
      /\ \A i \in DOMAIN self.answers :
           self.answers[i] = (IF i \in self.accepted THEN "password" ELSE "cancelled")

(* "If the current status is SASL_Status_Succeeded or SASL_Status_Client_Accepted
   then NotAvailable is raised", and otherwise AbortSASL succeeds
   (spec/Channel_Interface_SASL_Authentication.xml). *)
AbortAsSpecified ==
  self.abort.status # "none" =>
    self.abort.ok = (self.abort.status \notin {"Succeeded", "Client_Accepted"})

(* What the client of a room knows differs from the configuration only in
   properties that are marked as changed, while the channel is on the bus; the
   configuration is said to be retrieved once at most
   (tp_base_room_config_emit_properties_changed). *)
ConfigMirrored ==
  LET c == self.config
  IN  /\ OnBus(self, 1) =>
           /\ \A p \in Names : self.told.value[p] # c.value[p] => p \in c.changed
           /\ self.told.mutable # c.mutable => c.mutableChanged
           /\ self.told.can # c.can => c.canChanged
      /\ self.told.retrieved = IF c.retrieved THEN 1 ELSE 0

(* Every UpdateConfiguration call but the one in progress has been answered, once;
   the channel lives while one is in progress, whoever closes it; and when a call
   returns the client has been told all that it changed (update_cb). *)
UpdatesAnswered ==
  LET answered == [i \in DOMAIN self.answers |-> self.answers[i][2]]
  IN  /\ IsInjective(answered)
      /\ Range(answered) = (1 .. self.calls) \ {self.config.ctx}
      /\ self.config.ctx # 0 => Exists(self, 1)
      /\ \A i \in DOMAIN self.answers : self.answers[i][3]

(* An UpdateConfiguration that is refused, or fails, changes nothing
   (update_configuration, validate_properties). *)
UpdateIsWhole ==
  \A i \in (1 .. Len(self'.answers)) \ (1 .. Len(self.answers)) :
    self'.answers[i][1] # "done" => self'.config.value = self.config.value
=============================================================================
