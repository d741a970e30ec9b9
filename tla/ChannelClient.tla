---------------------------- MODULE ChannelClient ----------------------------
(***************************************************************************)
(* TpChannel (telepathy-glib/channel.c): how a client finds out what a     *)
(* channel is, and how it closes, leaves, destroys, joins or unlocks it.   *)
(*                                                                         *)
(* Introspection is a queue of steps; each either finds that its answer is *)
(* known and goes on at once, or makes one method call and goes on when    *)
(* the reply comes.  The connection manager answers in order and may close *)
(* the channel, refuse, or leave the bus at any moment.  Group properties  *)
(* are one call here: GroupChannel has the details.                        *)
(***************************************************************************)
EXTENDS Naturals, Sequences, FiniteSets

CONSTANTS
  Sorts,       \* the channels there may be: see ChannelSorts
  Givens,      \* the sets of fields that may be given when the TpChannel is made
  MaxOps,      \* bound: operations of the user
  MaxFlags     \* bound: changes of the password flags

VARIABLES
  self,        \* the TpChannel
  ops,         \* operation -> what became of it
  calls,       \* method calls that the manager has not handled, oldest first
  wire,        \* replies and signals that the client has not handled
  svc          \* the channel in the connection manager

vars == <<self, ops, calls, wire, svc>>

Ops == 1 .. MaxOps

Fields == {"ChannelType", "TargetHandleType", "TargetHandle", "TargetID", "Interfaces", "Initiator"}

(* contact: the target is a contact, not nobody; answers: the fields that GetAll
   returns, and GetAll fails if there are none; broken: GetInterfaces fails. *)
ChannelSorts ==
  [contact : BOOLEAN, ifaces : SUBSET {"Group", "Destroyable", "Password"},
   answers : SUBSET Fields, broken : BOOLEAN]

SoundConstants ==
  /\ Sorts \subseteq ChannelSorts /\ Givens \subseteq SUBSET Fields
  /\ {MaxOps, MaxFlags} \subseteq Nat

TheHandle == 7
NULL == "NULL"

(* What the fields of a channel of this sort are. *)
Truth(sort) ==
  [ChannelType |-> "Text",
   TargetHandleType |-> IF sort.contact THEN "CONTACT" ELSE "NONE",
   TargetHandle |-> IF sort.contact THEN TheHandle ELSE 0,
   TargetID |-> IF sort.contact THEN "juliet" ELSE "",
   Interfaces |-> sort.ifaces,
   Initiator |-> "romeo"]

Unknown ==
  [ChannelType |-> NULL, TargetHandleType |-> NULL, TargetHandle |-> 0, TargetID |-> NULL,
   Interfaces |-> {NULL}, Initiator |-> NULL]

Known(w, f) == w.self.known[f] # Unknown[f]

Learn(known, fields, truth) == [f \in Fields |-> IF f \in fields THEN truth[f] ELSE known[f]]

(***************************************************************************)
(*  needed     introspect_needed: the steps to come; Freed in the end      *)
(*  known      the immutable properties, as far as they are known          *)
(*  exists     a method of the channel was answered                        *)
(*  verified   (history) exists, or the group properties were answered     *)
(*  conn       whether the TpConnection has its core prepared              *)
(*  contact    target_contact                                              *)
(*  password   the PASSWORD feature, with its flag and, as history, the    *)
(*             value of password-needed when it was last notified, and     *)
(*             whether a removal was heard of before the reply             *)
(*  aborted    (history) a failed g_assert                                 *)
(***************************************************************************)
Introspection ==
  <<"prepare_connection", "get_properties", "get_handle", "get_identifier",
    "get_channel_type", "create_contacts", "get_interfaces", "get_group_properties">>

Freed == <<NULL>>

Password == [state |-> "no", needed |-> FALSE, told |-> FALSE, early |-> FALSE]

World == [self |-> self, ops |-> ops, calls |-> calls]

Become(w) == self' = w.self /\ ops' = w.ops /\ calls' = w.calls

Has(w, iface) == iface \in w.self.known.Interfaces
Valid(w) == w.self.invalid = "no"
CorePrepared(w) == w.self.ready /\ Valid(w)

Send(w, method, op) == [w EXCEPT !.calls = Append(@, [method |-> method, op |-> op])]

(* Operations that wait for the channel to be ready or invalid. *)
Settle(w, from, to, result) ==
  [w EXCEPT !.ops = [i \in Ops |->
     IF @[i].at = from THEN [@[i] EXCEPT !.at = to, !.result = result] ELSE @[i]]]

(* tp_proxy_invalidate: cwr_invalidated, and the failure of preparations. *)
Invalidate(w, why) ==
  IF ~Valid(w) THEN w
  ELSE Settle(Settle([w EXCEPT !.self.invalid = why], "when ready", "told", "error"),
              "preparing", "unprepared", "none")

(* _tp_channel_abort_introspection *)
AbortIntrospection(w) ==
  IF w.self.needed = Freed THEN [w EXCEPT !.self.aborted = TRUE]
  ELSE Invalidate([w EXCEPT !.self.needed = Freed], "introspection")

(* The end of the queue: cwr_ready, then the features. *)
Ready(w) ==
  Settle(Settle([w EXCEPT !.self.needed = Freed, !.self.ready = TRUE],
                "when ready", "told", "ok"),
         "preparing", "prepared", "none")

-----------------------------------------------------------------------------
(* The steps.  Each calls a method, or continues. *)
RECURSIVE ContinueIntrospection(_)

PrepareConnection(w) ==
  IF w.self.conn = "prepared" THEN ContinueIntrospection(w)
  ELSE [w EXCEPT !.self.conn = "preparing"]

HandleKnown(w) ==
  /\ Known(w, "TargetHandleType")
  /\ Known(w, "TargetHandle") \/ w.self.known.TargetHandleType = "NONE"

GetProperties(w) ==
  IF HandleKnown(w) /\ \A f \in {"ChannelType", "TargetID", "Initiator"} : Known(w, f)
  THEN ContinueIntrospection(w)
  ELSE Send(w, "GetAll", 0)

GetHandle(w) ==
  IF HandleKnown(w) THEN ContinueIntrospection(w) ELSE Send(w, "GetHandle", 0)

(* BUG: nobody asks whether there is a handle to inspect. *)
GetIdentifierBlank(w) ==
  ContinueIntrospection(IF ~Known(w, "TargetID")
                        THEN [w EXCEPT !.self.known.TargetID = ""] ELSE w)

(* _tp_channel_get_identifier: nobody has no name. *)
GetIdentifier(w) ==
  LET nobody == ~Known(w, "TargetHandle") \/ w.self.known.TargetHandleType = "NONE"
  IN IF Known(w, "TargetID") THEN ContinueIntrospection(w)
     ELSE IF nobody THEN ContinueIntrospection([w EXCEPT !.self.known.TargetID = ""])
     ELSE Send(w, "InspectHandles", 0)

GetChannelType(w) ==
  IF Known(w, "ChannelType") THEN ContinueIntrospection(w)
  ELSE Send(w, "GetChannelType", 0)

(* _tp_channel_contacts_init asserts that there is no contact yet. *)
CreateContacts(w) ==
  LET k == w.self.known
      made == Known(w, "TargetHandle") /\ Known(w, "TargetID") /\ k.TargetHandleType = "CONTACT"
  IN IF w.self.contact # NULL THEN [w EXCEPT !.self.aborted = TRUE]
     ELSE ContinueIntrospection([w EXCEPT !.self.contact = IF made THEN k.TargetID ELSE NULL])

(* BUG: interfaces that were given are taken as proof that the channel is there. *)
GetInterfacesTrusting(w) ==
  IF Known(w, "Interfaces") THEN ContinueIntrospection(w) ELSE Send(w, "GetInterfaces", 0)

(* _tp_channel_get_interfaces: the channel is not ready before it has answered
   something; the group properties will do. *)
GetInterfaces(w) ==
  IF Known(w, "Interfaces") /\ (w.self.exists \/ Has(w, "Group"))
  THEN ContinueIntrospection(w)
  ELSE Send(w, "GetInterfaces", 0)

GetGroupProperties(w) ==
  IF Has(w, "Group") THEN Send(w, "GroupProperties", 0) ELSE ContinueIntrospection(w)

(* _tp_channel_continue_introspection *)
ContinueIntrospection(w) ==
  LET v == [w EXCEPT !.self.needed = Tail(@)]
  IN CASE w.self.needed = Freed -> [w EXCEPT !.self.aborted = TRUE]
       [] w.self.needed # Freed /\ ~Valid(w) -> [w EXCEPT !.self.needed = Freed]
       [] w.self.needed = <<>> /\ Valid(w) -> Ready(w)
       [] OTHER ->
            CASE Head(w.self.needed) = "prepare_connection" -> PrepareConnection(v)
              [] Head(w.self.needed) = "get_properties" -> GetProperties(v)
              [] Head(w.self.needed) = "get_handle" -> GetHandle(v)
              [] Head(w.self.needed) = "get_identifier" -> GetIdentifier(v)
              [] Head(w.self.needed) = "get_channel_type" -> GetChannelType(v)
              [] Head(w.self.needed) = "create_contacts" -> CreateContacts(v)
              [] Head(w.self.needed) = "get_interfaces" -> GetInterfaces(v)
              [] Head(w.self.needed) = "get_group_properties" -> GetGroupProperties(v)

-----------------------------------------------------------------------------
(* The replies to the steps: `known' is set from what the reply holds. *)
Answered(w, fields) ==
  [w EXCEPT !.self.exists = TRUE, !.self.verified = TRUE,
            !.self.known = Learn(@, fields, Truth(svc.sort))]

(* _tp_channel_got_properties: the gaps are filled by the steps to come. *)
GotProperties(w, error) ==
  ContinueIntrospection(IF error THEN w ELSE Answered(w, svc.sort.answers))

GotHandle(w, error) ==
  IF error THEN AbortIntrospection(w)
  ELSE ContinueIntrospection(Answered(w, {"TargetHandleType", "TargetHandle"}))

(* tp_channel_got_identifier_cb: the connection answers, not the channel. *)
GotIdentifier(w, error) ==
  IF error THEN AbortIntrospection(w)
  ELSE ContinueIntrospection([w EXCEPT !.self.known = Learn(@, {"TargetID"}, Truth(svc.sort))])

GotChannelType(w, error) ==
  IF error THEN AbortIntrospection(w)
  ELSE ContinueIntrospection(Answered(w, {"ChannelType"}))

GotInterfaces(w, error) ==
  IF error THEN AbortIntrospection(w)
  ELSE ContinueIntrospection(Answered(w, {"Interfaces"}))

GotGroupProperties(w, error) ==
  IF error THEN AbortIntrospection(w)
  ELSE ContinueIntrospection([w EXCEPT !.self.verified = TRUE, !.self.group_self = TheHandle])

(* connection_prepared_cb *)
ConnectionPrepared(w, error) ==
  IF error THEN AbortIntrospection(w)
  ELSE ContinueIntrospection([w EXCEPT !.self.conn = "prepared"])

-----------------------------------------------------------------------------
(* The operations.  A method called on a proxy that is invalid, or that has
   not the interface, calls back at once with an error. *)
Result(w, i, result) == [w EXCEPT !.ops[i].at = "idle", !.ops[i].result = result]
AtOnce(w, i, result) == [w EXCEPT !.ops[i].at = "told", !.ops[i].result = result]
Calling(w, i, method) == Send([w EXCEPT !.ops[i].at = "call"], method, i)

(* channel_close_cb *)
CloseCb(w, i, error) == Result(w, i, IF error /\ Valid(w) THEN "error" ELSE "ok")

(* tp_channel_close_async *)
Close(w, i) == IF Valid(w) THEN Calling(w, i, "Close") ELSE CloseCb(w, i, TRUE)

(* BUG: a refused removal counts as one. *)
RemoveSelfCbTrusting(w, i, error) == AtOnce(w, i, "ok")

(* channel_remove_self_cb *)
RemoveSelfCb(w, i, error) ==
  IF Valid(w) /\ error THEN Close(w, i) ELSE AtOnce(w, i, "ok")

(* group_prepared_cb *)
GroupPrepared(w, i) ==
  IF w.ops[i].at = "unprepared" \/ w.self.group_self = 0 THEN Close(w, i)
  ELSE IF Valid(w) THEN Calling(w, i, "RemoveMembersWithReason")
  ELSE RemoveSelfCb(w, i, TRUE)

(* tp_channel_leave_async *)
Leave(w, i) ==
  IF CorePrepared(w) /\ ~Has(w, "Group") THEN Close(w, i)
  ELSE [w EXCEPT !.ops[i].at = IF ~Valid(w) THEN "unprepared"
                               ELSE IF w.self.ready THEN "prepared" ELSE "preparing"]

(* channel_destroy_cb *)
DestroyCb(w, i, error) ==
  IF Valid(w) /\ error THEN Close(w, i) ELSE Result(w, i, "ok")

(* tp_channel_destroy_async *)
Destroy(w, i) ==
  IF CorePrepared(w) /\ ~Has(w, "Destroyable") THEN Close(w, i)
  ELSE IF Valid(w) /\ Has(w, "Destroyable") THEN Calling(w, i, "Destroy")
  ELSE DestroyCb(w, i, TRUE)

(* tp_channel_join_async, for which GROUP must be prepared, and channel_join_cb *)
JoinCb(w, i, error) == Result(w, i, IF error THEN "error" ELSE "ok")
Join(w, i) == Calling(w, i, "AddMembers")

(* tp_channel_provide_password_async and provide_password_cb *)
ProvidePasswordCb(w, i, error, correct) ==
  Result(w, i, IF error THEN "error" ELSE IF correct THEN "ok" ELSE "wrong")

ProvidePassword(w, i) ==
  IF Valid(w) /\ Has(w, "Password") THEN Calling(w, i, "ProvidePassword")
  ELSE ProvidePasswordCb(w, i, TRUE, FALSE)

(* tp_channel_call_when_ready *)
CallWhenReady(w, i) ==
  IF w.self.ready \/ ~Valid(w) THEN AtOnce(w, i, IF Valid(w) THEN "ok" ELSE "error")
  ELSE [w EXCEPT !.ops[i].at = "when ready"]

-----------------------------------------------------------------------------
(* The password feature. *)
NotifyIfNeeded(s, was) ==
  IF was # s.password.needed THEN [s EXCEPT !.password.told = s.password.needed] ELSE s

(* tp_channel_prepare_password_async; an error is ignored. *)
PreparePassword(w) == Send([w EXCEPT !.self.password.state = "getting"], "GetPasswordFlags", 0)

GotPasswordFlags(w, error, flag) ==
  LET s == [w.self EXCEPT !.password.state = IF error THEN "failed" ELSE "ready",
                          !.password.needed = IF error THEN @ ELSE flag]
  IN [w EXCEPT !.self = IF error \/ ~flag THEN s ELSE [s EXCEPT !.password.told = TRUE]]

(* BUG: only what is added is looked at. *)
PasswordFlagsAdded(w, added, removed) ==
  [w EXCEPT !.self = NotifyIfNeeded([@ EXCEPT !.password.needed = @ \/ added],
                                    w.self.password.needed)]

(* password_flags_changed_cb: the flags that are removed are toggled. *)
PasswordFlagsChanged(w, added, removed) ==
  LET with == w.self.password.needed \/ added
      s == [w.self EXCEPT !.password.needed = with # removed,
                          !.password.early = @ \/ (removed /\ w.self.password.state = "getting")]
  IN IF w.self.password.state = "no" THEN w
     ELSE [w EXCEPT !.self = NotifyIfNeeded(s, w.self.password.needed)]

-----------------------------------------------------------------------------
(* tp_channel_connection_invalidated_cb: the handle is meaningless now. *)
ConnectionInvalidated(w) ==
  [Invalidate(w, "connection") EXCEPT !.self.known.TargetHandle = 0]

Handle(w, m) ==
  CASE m.type = "Closed" -> Invalidate(w, "closed")
    [] m.type = "gone" -> ConnectionInvalidated(w)
    [] m.type = "PasswordFlagsChanged" -> PasswordFlagsChanged(w, m.flag, ~m.flag)
    [] m.type = "GetAll" -> GotProperties(w, m.error)
    [] m.type = "GetHandle" -> GotHandle(w, m.error)
    [] m.type = "InspectHandles" -> GotIdentifier(w, m.error)
    [] m.type = "GetChannelType" -> GotChannelType(w, m.error)
    [] m.type = "GetInterfaces" -> GotInterfaces(w, m.error)
    [] m.type = "GroupProperties" -> GotGroupProperties(w, m.error)
    [] m.type = "GetPasswordFlags" -> GotPasswordFlags(w, m.error, m.flag)
    [] m.type = "Close" -> CloseCb(w, m.op, m.error)
    [] m.type = "RemoveMembersWithReason" -> RemoveSelfCb(w, m.op, m.error)
    [] m.type = "Destroy" -> DestroyCb(w, m.op, m.error)
    [] m.type = "AddMembers" -> JoinCb(w, m.op, m.error)
    [] m.type = "ProvidePassword" -> ProvidePasswordCb(w, m.op, m.error, m.flag)


-----------------------------------------------------------------------------
Kinds == {"ready", "close", "leave", "destroy", "join", "password"}

NoOp == [kind |-> "none", at |-> "none", result |-> "none"]

(* tp_channel_constructor, once the properties that were given are stored. *)
Constructed(given, conn, sort) ==
  [needed |-> Introspection, known |-> Learn(Unknown, given, Truth(sort)),
   exists |-> FALSE, verified |-> FALSE, ready |-> FALSE, invalid |-> "no",
   conn |-> conn, contact |-> NULL, group_self |-> 0, password |-> Password, aborted |-> FALSE]

Init ==
  /\ svc \in [sort : Sorts, open : {TRUE}, onBus : {TRUE}, left : {FALSE}, flag : BOOLEAN,
              changes : {0}]
  /\ svc.flag => "Password" \in svc.sort.ifaces
  /\ ops = [i \in Ops |-> NoOp] /\ wire = <<>>
  /\ \E given \in Givens, conn \in {"prepared", "unprepared"} :
       LET w == [self |-> Constructed(given, conn, svc.sort), ops |-> [i \in Ops |-> NoOp],
                 calls |-> <<>>]
       IN /\ self = ContinueIntrospection(w).self
          /\ calls = ContinueIntrospection(w).calls

Begin(i, kind) ==
  LET w == [World EXCEPT !.ops[i].kind = kind]
  IN /\ ops[i] = NoOp /\ \A j \in 1 .. i - 1 : ops[j] # NoOp
     /\ kind = "join" => CorePrepared(World) /\ Has(World, "Group")
     /\ Become(CASE kind = "ready" -> CallWhenReady(w, i)
                 [] kind = "close" -> Close(w, i)
                 [] kind = "leave" -> Leave(w, i)
                 [] kind = "destroy" -> Destroy(w, i)
                 [] kind = "join" -> Join(w, i)
                 [] kind = "password" -> ProvidePassword(w, i))
     /\ UNCHANGED <<wire, svc>>

PreparePasswordFeature ==
  /\ CorePrepared(World) /\ Has(World, "Password") /\ self.password.state = "no"
  /\ Become(PreparePassword(World)) /\ UNCHANGED <<wire, svc>>

(* From the main loop. *)
GroupIsPrepared(i) ==
  /\ ops[i].at \in {"prepared", "unprepared"}
  /\ Become(GroupPrepared(World, i)) /\ UNCHANGED <<wire, svc>>

CompleteInIdle(i) ==
  /\ ops[i].at = "idle"
  /\ ops' = [ops EXCEPT ![i].at = "told"]
  /\ UNCHANGED <<self, calls, wire, svc>>

(* The preparation of the connection fails when it is invalidated; that may
   happen when the success is on its way. *)
ConnectionIsPrepared(error) ==
  /\ self.conn = "preparing"
  /\ error => self.invalid = "connection"
  /\ Become(ConnectionPrepared([World EXCEPT !.self.conn = "failed"], error))
  /\ UNCHANGED <<wire, svc>>

Dispatch ==
  /\ wire # <<>>
  /\ Become(Handle(World, Head(wire)))
  /\ wire' = Tail(wire) /\ UNCHANGED svc

-----------------------------------------------------------------------------
(* The connection manager. *)
Reply(call, error, flag) ==
  [type |-> call.method, op |-> call.op, error |-> error, flag |-> flag]
Signal(type, flag) == [type |-> type, op |-> 0, error |-> FALSE, flag |-> flag]

Fails(call) ==
  CASE call.method = "InspectHandles" -> ~svc.onBus
    [] call.method = "GetAll" -> ~svc.open \/ svc.sort.answers = {}
    [] call.method = "GetInterfaces" -> ~svc.open \/ svc.sort.broken
    [] OTHER -> ~svc.open

Requests == {"Close", "Destroy", "RemoveMembersWithReason", "AddMembers", "ProvidePassword"}

Answer ==
  /\ calls # <<>>
  /\ calls' = Tail(calls)
  /\ LET call == Head(calls)
     IN \/ /\ Fails(call) \/ call.method \in Requests
           /\ wire' = Append(wire, Reply(call, TRUE, FALSE)) /\ UNCHANGED svc
        \/ /\ ~Fails(call) /\ call.method \notin {"Close", "Destroy", "RemoveMembersWithReason"}
           /\ \E flag \in IF call.method = "ProvidePassword" THEN BOOLEAN ELSE {svc.flag} :
                wire' = Append(wire, Reply(call, FALSE, flag))
           /\ UNCHANGED svc
        \/ /\ ~Fails(call) /\ call.method = "RemoveMembersWithReason"
           /\ wire' = Append(wire, Reply(call, FALSE, FALSE)) /\ svc' = [svc EXCEPT !.left = TRUE]
        \/ /\ ~Fails(call) /\ call.method \in {"Close", "Destroy", "RemoveMembersWithReason"}
           /\ wire' \in {wire \o <<Signal("Closed", FALSE), Reply(call, FALSE, FALSE)>>,
                         wire \o <<Reply(call, FALSE, FALSE), Signal("Closed", FALSE)>>}
           /\ svc' = [svc EXCEPT !.open = FALSE, !.left = TRUE]
  /\ UNCHANGED <<self, ops>>

ManagerCloses ==
  /\ svc.open
  /\ svc' = [svc EXCEPT !.open = FALSE, !.left = TRUE]
  /\ wire' = Append(wire, Signal("Closed", FALSE)) /\ UNCHANGED <<self, ops, calls>>

(* It leaves the bus, or the connection is disconnected. *)
ManagerLeaves ==
  /\ svc.onBus
  /\ svc' = [svc EXCEPT !.open = FALSE, !.onBus = FALSE, !.left = TRUE]
  /\ wire' = Append(wire, Signal("gone", FALSE)) /\ UNCHANGED <<self, ops, calls>>

FlagChanges ==
  /\ svc.open /\ "Password" \in svc.sort.ifaces /\ svc.changes < MaxFlags
  /\ svc' = [svc EXCEPT !.flag = ~@, !.changes = @ + 1]
  /\ wire' = Append(wire, Signal("PasswordFlagsChanged", ~svc.flag))
  /\ UNCHANGED <<self, ops, calls>>

Next ==
  \/ \E i \in Ops, kind \in Kinds : Begin(i, kind)
  \/ \E i \in Ops : GroupIsPrepared(i) \/ CompleteInIdle(i)
  \/ \E error \in BOOLEAN : ConnectionIsPrepared(error)
  \/ PreparePasswordFeature \/ Dispatch
  \/ Answer \/ ManagerCloses \/ ManagerLeaves \/ FlagChanges

Spec == Init /\ [][Next]_vars

-----------------------------------------------------------------------------
TypeOK ==
  /\ self.needed = Freed \/ \E i \in 0 .. Len(Introspection) :
       self.needed = SubSeq(Introspection, i + 1, Len(Introspection))
  /\ self.invalid \in {"no", "closed", "connection", "introspection"}
  /\ self.conn \in {"unprepared", "preparing", "prepared", "failed"}
  /\ self.known.TargetHandle \in {0, TheHandle} /\ self.contact \in {NULL, "juliet"}
  /\ self.password \in [state : {"no", "getting", "ready", "failed"}, needed : BOOLEAN,
                        told : BOOLEAN, early : BOOLEAN]
  /\ ops \in [Ops -> [kind : Kinds \cup {"none"},
                      at : {"none", "when ready", "preparing", "prepared", "unprepared", "call",
                            "idle", "told"},
                      result : {"none", "ok", "wrong", "error"}]]

Introspecting == {"GetAll", "GetHandle", "InspectHandles", "GetChannelType", "GetInterfaces",
                  "GroupProperties"}

(* No assertion of channel.c fails: whatever is closed, refused or lost in the
   middle, introspect_needed is there when a reply comes, because one call at most
   is on its way, and none once the queue is freed. *)
AssertionsHold ==
  LET due == Cardinality({i \in DOMAIN calls : calls[i].method \in Introspecting})
               + Cardinality({i \in DOMAIN wire : wire[i].type \in Introspecting})
               + (IF self.conn = "preparing" THEN 1 ELSE 0)
  IN ~self.aborted /\ due = (IF self.needed = Freed THEN 0 ELSE 1)

(* A channel is ready only when a method of it was answered, and then its type,
   its target, its interfaces and its contact are those of the remote channel,
   whichever were given when it was made and whichever GetAll left out.  When the
   connection is gone the handle is. *)
ReadyMeansWhole ==
  /\ self.ready => self.verified
  /\ self.ready /\ self.invalid = "no" =>
       /\ \A f \in Fields \ {"Initiator"} : self.known[f] = Truth(svc.sort)[f]
       /\ self.contact = IF svc.sort.contact THEN "juliet" ELSE NULL
  /\ self.invalid = "connection" => self.known.TargetHandle = 0

(* Whoever is told that the channel was left, closed or destroyed may rely on it:
   the manager has removed the user or closed the channel, however often the
   operation fell back to Close() and whatever failed on the way; the exception is
   a channel whose introspection failed, about which nothing more is asked. *)
SuccessMeansGone ==
  \A i \in Ops :
    ops[i].result = "ok" /\ self.invalid # "introspection" =>
      /\ ops[i].kind = "leave" => svc.left
      /\ ops[i].kind \in {"close", "destroy"} => ~svc.open

(* Nobody waits for a channel that is ready or invalid. *)
NobodyForgotten ==
  \A i \in Ops :
    /\ ops[i].at \in {"when ready", "preparing"} => ~self.ready /\ self.invalid = "no"
    /\ ops[i].kind = "ready" /\ ops[i].result = "ok" => self.ready
    /\ ops[i].at = "call" =>
         \/ \E j \in DOMAIN calls : calls[j].op = i
         \/ \E j \in DOMAIN wire : wire[j].op = i

(* A client that has read everything knows whether the channel needs a password,
   and was notified of it, unless a flag was removed before the first reply. *)
PasswordMirrored ==
  self.password.state = "ready" /\ wire = <<>> =>
    /\ self.password.needed = svc.flag
    /\ ~self.password.early => self.password.told = self.password.needed

(* Introspection comes to an end, and every operation is answered. *)
IntrospectionEnds == <>(self.ready \/ self.invalid # "no")
OperationsAnswered == \A i \in Ops : ops[i] # NoOp ~> ops[i].at = "told"

=============================================================================
