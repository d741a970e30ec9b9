------------------------------- MODULE Contacts -------------------------------
(***************************************************************************)
(* Getting TpContacts by handle or by identifier, and upgrading them to    *)
(* more features (contact.c): a ContactsContext works through a queue of   *)
(* D-Bus calls, and calls back in the end.  Several contexts share the     *)
(* TpContacts of a connection, which also follow the connection's signals. *)
(*                                                                         *)
(* A handle stands for its contact's identifier too.  The value of a       *)
(* feature is the number of times it has changed; -1 is NULL, unknown.     *)
(*                                                                         *)
(* A world w is the contexts w.cx, the contacts w.ct, the signals that the *)
(* connection is connected to, w.tracking, and the calls under way.        *)
(***************************************************************************)
EXTENDS Integers, SequencesExt

CONSTANTS Handles, Valid,     \* contact handles, and those the manager knows
          Features,           \* TpContactFeatures
          HasContacts,        \* the connection has the Contacts interface
          Ifaces, AttrIfaces, \* the features of its interfaces; those in ContactAttributeInterfaces
          Requests,           \* what is asked for: request -> [kind, hs, features, weak]
          Existing,           \* contacts that the application has already
          Unknown,            \* features whose values the manager does not know at first
          Refused,            \* methods that may fail
          MayDie,             \* the connection may be invalidated
          MaxChanges          \* bound: changes of features at the manager

SlowPath == {"ALIAS", "PRESENCE", "AVATAR_TOKEN", "CONTACT_INFO"}
Forced == {"AVATAR_TOKEN", "LOCATION", "CONTACT_INFO", "CLIENT_TYPES"}

SoundConstants ==
  /\ Valid \subseteq Handles /\ AttrIfaces \subseteq Ifaces /\ Ifaces \subseteq Features
  /\ Existing \subseteq Valid /\ (~HasContacts => AttrIfaces = {})
  /\ \A r \in DOMAIN Requests :
       /\ Requests[r].kind \in {"by handle", "by id", "upgrade"}
       /\ Range(Requests[r].hs) \subseteq Handles /\ Requests[r].features \subseteq Features

VARIABLES cx, ct, tracking, calls, kept, failed, value, wire, invalidated, changes
vars == <<cx, ct, tracking, calls, kept, failed, value, wire, invalidated, changes>>

NewContact == [id |-> FALSE, has |-> {}, val |-> [f \in Features |-> -1]]

NoContext ==
  [on |-> "no", handles |-> << >>, contacts |-> << >>, ids |-> << >>, errors |-> {},
   wanted |-> {}, getting |-> {}, todo |-> << >>, next |-> 1,
   haveIds |-> FALSE, dead |-> FALSE, called |-> 0, ok |-> FALSE]

Kind(r) == Requests[r].kind

-----------------------------------------------------------------------------
(***************************************************************************)
(* The TpContacts of the connection.                                       *)
(***************************************************************************)
Ensure(w, S) ==
  [w EXCEPT !.ct = [h \in DOMAIN @ \cup S |-> IF h \in DOMAIN @ THEN @[h] ELSE NewContact]]

SetFeature(contact, f, v) == [contact EXCEPT !.has = @ \cup {f}, !.val[f] = v]

SetFeatureOf(w, S, f, vals) ==
  [w EXCEPT !.ct = [h \in DOMAIN @ |->
     IF h \in S THEN SetFeature(@[h], f, vals[h][f]) ELSE @[h]]]

Identify(w, S) == [w EXCEPT !.ct = [h \in DOMAIN @ |-> IF h \in S THEN [@[h] EXCEPT !.id = TRUE] ELSE @[h]]]

(***************************************************************************)
(* tp_contact_set_attributes: some features are taken to be known to be    *)
(* nothing if their attribute is missing.                                  *)
(***************************************************************************)
SetAttributes(contact, wanted, attrs) ==
  [contact EXCEPT !.id = TRUE,
     !.has = @ \cup (wanted \cap (DOMAIN attrs \cup Forced)),
     !.val = [f \in Features |->
        IF f \in wanted \cap DOMAIN attrs THEN attrs[f]
        ELSE IF f \in wanted \cap Forced THEN -1 ELSE @[f]]]

Referenced(w) ==
  w.kept \cup UNION {Range(w.cx[r].contacts) : r \in DOMAIN w.cx}

(* Mutant: contacts that something refers to are released too. *)
ReleaseUnkept(w) == [w EXCEPT !.ct = [h \in DOMAIN @ \cap w.kept |-> @[h]]]

Release(w) == [w EXCEPT !.ct = [h \in DOMAIN @ \cap Referenced(w) |-> @[h]]]

-----------------------------------------------------------------------------
(***************************************************************************)
(* The context.  While it works it has one source: an idle or a call.      *)
(***************************************************************************)
Set(w, r, c) == [w EXCEPT !.cx[r] = c]

Call(w, r, m, hs) ==
  [w EXCEPT !.cx[r].on = m, !.calls = @ \cup {[r |-> r, m |-> m, hs |-> hs]}]

Fail(w, r) == [w EXCEPT !.cx[r].called = @ + 1]

(***************************************************************************)
(* The user takes references to the contacts.  If one has no identifier    *)
(* an assertion has failed.                                                *)
(***************************************************************************)
Deliver(w, r) ==
  [w EXCEPT !.cx[r].called = @ + 1, !.cx[r].ok = TRUE,
            !.kept = @ \cup Range(w.cx[r].contacts),
            !.failed = @ \/ \E h \in Range(w.cx[r].contacts) : ~w.ct[h].id]

Lacks(w, r, f) == \E h \in Range(w.cx[r].contacts) : f \notin w.ct[h].has

(***************************************************************************)
(* contacts_bind_to_signals: the features we can expect to get from        *)
(* GetContactAttributes.                                                   *)
(***************************************************************************)
BindToSignals(w, r) ==
  [w EXCEPT !.cx[r].getting = w.cx[r].wanted \cap AttrIfaces,
            !.tracking = @ \cup (w.cx[r].wanted \cap AttrIfaces)]

NothingUseful(w, r) ==
  /\ w.cx[r].wanted \cap AttrIfaces = {} /\ w.cx[r].haveIds
  /\ ~(Kind(r) = "by handle" /\ w.cx[r].contacts = << >>)

(* Mutant: the change signal is not connected to. *)
TrackNothing(w, f) == w

Track(w, f) == [w EXCEPT !.tracking = @ \cup {f}]

RECURSIVE Continue(_, _)

GetAttributes(w, r) ==
  IF w.cx[r].handles = << >> THEN Continue(w, r)
  ELSE IF NothingUseful(w, r) THEN Continue(BindToSignals(w, r), r)
  ELSE Call(BindToSignals(w, r), r, "GetContactAttributes", Range(w.cx[r].handles))

(* Mutant: only the first contact is looked at. *)
InspectFirst(w, r) ==
  IF w.ct[w.cx[r].contacts[1]].id THEN Continue(w, r)
  ELSE Call(w, r, "InspectHandles", Range(w.cx[r].handles))

Inspect(w, r) ==
  IF \A h \in Range(w.cx[r].contacts) : w.ct[h].id THEN Continue(w, r)
  ELSE Call(w, r, "InspectHandles", Range(w.cx[r].handles))

GetFeature(w, r, f) ==
  IF f = "CAPABILITIES" THEN Call(w, r, f, Range(w.cx[r].handles))
  ELSE IF Lacks(w, r, f) THEN Call(Track(w, f), r, f, Range(w.cx[r].handles))
  ELSE Continue(Track(w, f), r)

Proc(w, r, step) ==
  CASE step = "attributes" -> GetAttributes(w, r)
    [] step = "inspect" -> Inspect(w, r)
    [] step = "hold one" -> Call(w, r, "HoldOne", {w.cx[r].handles[w.cx[r].next]})
    [] step = "request one" -> Call(w, r, "RequestOne", {w.cx[r].ids[w.cx[r].next]})
    [] OTHER -> GetFeature(w, r, step)

Continue(w, r) ==
  IF w.cx[r].dead THEN w
  ELSE IF w.cx[r].todo = << >> THEN Deliver(w, r)
  ELSE IF invalidated THEN Fail(w, r)
  ELSE Proc([w EXCEPT !.cx[r].todo = Tail(@)], r, Head(w.cx[r].todo))

(***************************************************************************)
(* contacts_context_unref, when the source that ran is gone: the context   *)
(* is freed if it has no other.                                            *)
(***************************************************************************)
Unref(w, r) ==
  IF w.cx[r].on # "none" THEN w
  ELSE Release([w EXCEPT !.cx[r] = [@ EXCEPT !.on = "gone", !.contacts = << >>, !.todo = << >>]])

-----------------------------------------------------------------------------
(***************************************************************************)
(* Starting a context.                                                     *)
(***************************************************************************)
QueueFeatures(c) ==
  LET slow == SelectSeq(<<"ALIAS", "PRESENCE", "AVATAR_TOKEN", "CAPABILITIES", "CONTACT_INFO">>,
                LAMBDA f : /\ f \in c.wanted
                           /\ IF f = "CAPABILITIES" THEN f \notin Ifaces ELSE f \in Ifaces \ AttrIfaces)
  IN [c EXCEPT !.todo = @ \o slow]

RemoveCommonFeatures(c) ==
  [c EXCEPT !.haveIds = \A h \in Range(c.contacts) : ct[h].id,
            !.wanted = {f \in @ : \E h \in Range(c.contacts) : f \notin ct[h].has}]

Context(r) == [NoContext EXCEPT !.wanted = Requests[r].features]

World == [cx |-> cx, ct |-> ct, tracking |-> tracking, calls |-> calls, kept |-> kept, failed |-> failed]

Becomes(w) ==
  /\ cx' = w.cx /\ ct' = w.ct /\ tracking' = w.tracking /\ calls' = w.calls
  /\ kept' = w.kept /\ failed' = w.failed

First == IF HasContacts THEN <<"attributes">> ELSE << >>

(***************************************************************************)
(* With all contacts at hand, no handle has to be held, or inspected.      *)
(***************************************************************************)
WithContacts(r) ==
  QueueFeatures([RemoveCommonFeatures([Context(r) EXCEPT !.handles = Requests[r].hs, !.contacts = Requests[r].hs])
                   EXCEPT !.on = "idle", !.todo = First])

GetContactsByHandle(r) ==
  /\ Kind(r) = "by handle" /\ cx[r].on = "no" /\ ~invalidated
  /\ Becomes(
       IF Range(Requests[r].hs) \subseteq DOMAIN ct THEN Set(World, r, WithContacts(r))
       ELSE IF HasContacts
       THEN Set(World, r, QueueFeatures([Context(r) EXCEPT !.handles = Requests[r].hs, !.on = "idle", !.todo = First]))
       ELSE Call(Set(World, r, QueueFeatures([Context(r) EXCEPT !.handles = Requests[r].hs, !.todo = <<"inspect">>])),
                 r, "HoldAll", Range(Requests[r].hs)))
  /\ UNCHANGED <<value, wire, invalidated, changes>>

GetContactsById(r) ==
  /\ Kind(r) = "by id" /\ cx[r].on = "no" /\ ~invalidated
  /\ Becomes(Call(Set(World, r, QueueFeatures([Context(r) EXCEPT !.ids = Requests[r].hs,
                    !.todo = IF HasContacts THEN <<"attributes">> ELSE <<"inspect">>])),
                  r, "RequestAll", Range(Requests[r].hs)))
  /\ UNCHANGED <<value, wire, invalidated, changes>>

UpgradeContacts(r) ==
  /\ Kind(r) = "upgrade" /\ cx[r].on = "no"
  /\ Range(Requests[r].hs) \subseteq kept \cap {h \in DOMAIN ct : ct[h].id}
  /\ Becomes(Set(World, r, WithContacts(r)))
  /\ UNCHANGED <<value, wire, invalidated, changes>>

IdleContinue(r) ==
  /\ cx[r].on = "idle"
  /\ Becomes(Unref(Continue([World EXCEPT !.cx[r].on = "none"], r), r))
  /\ UNCHANGED <<value, wire, invalidated, changes>>

-----------------------------------------------------------------------------
(***************************************************************************)
(* Replies.                                                                *)
(***************************************************************************)
Again(w, r, step, n) == [w EXCEPT !.cx[r].todo = [i \in 1 .. n |-> step] \o @]

AddContacts(w, r, hs) == [Ensure(w, Range(hs)) EXCEPT !.cx[r].contacts = @ \o hs]

HeldHandles(w, r, reply) ==
  CASE reply.error = "" -> Continue(AddContacts(w, r, w.cx[r].handles), r)
    [] reply.error = "invalid" -> Continue(Again(w, r, "hold one", Len(w.cx[r].handles)), r)
    [] OTHER -> Fail(w, r)

(***************************************************************************)
(* A bad handle is left out: the last one takes its place.                 *)
(***************************************************************************)
RemoveFast(s, i) == SubSeq([s EXCEPT ![i] = Last(s)], 1, Len(s) - 1)

HeldOne(w, r, reply) ==
  CASE reply.error = "" ->
         Continue([AddContacts(w, r, <<w.cx[r].handles[w.cx[r].next]>>) EXCEPT !.cx[r].next = @ + 1], r)
    [] reply.error = "invalid" ->
         Continue([w EXCEPT !.cx[r].handles = RemoveFast(@, w.cx[r].next)], r)
    [] OTHER -> Fail(w, r)

AddRequested(w, r, hs) == [AddContacts(w, r, hs) EXCEPT !.cx[r].handles = @ \o hs]

RequestedHandles(w, r, reply) ==
  CASE reply.error = "" -> Continue(AddRequested(w, r, w.cx[r].ids), r)
    [] reply.error = "invalid" -> Continue(Again(w, r, "request one", Len(w.cx[r].ids)), r)
    [] OTHER -> Fail(w, r)

(* Mutant: the last identifier takes the place of a bad one, as with handles. *)
RequestedOneHandleFast(w, r, reply) ==
  CASE reply.error = "" ->
         Continue([AddRequested(w, r, <<w.cx[r].ids[w.cx[r].next]>>) EXCEPT !.cx[r].next = @ + 1], r)
    [] reply.error = "invalid" ->
         Continue([w EXCEPT !.cx[r].errors = @ \cup {w.cx[r].ids[w.cx[r].next]},
                            !.cx[r].ids = RemoveFast(@, w.cx[r].next)], r)
    [] OTHER -> Fail(w, r)

RequestedOneHandle(w, r, reply) ==
  CASE reply.error = "" ->
         Continue([AddRequested(w, r, <<w.cx[r].ids[w.cx[r].next]>>) EXCEPT !.cx[r].next = @ + 1], r)
    [] reply.error = "invalid" ->
         Continue([w EXCEPT !.cx[r].errors = @ \cup {w.cx[r].ids[w.cx[r].next]},
                            !.cx[r].ids = RemoveAt(@, w.cx[r].next)], r)
    [] OTHER -> Fail(w, r)

Inspected(w, r, reply) ==
  IF reply.error # "" THEN Fail(w, r) ELSE Continue(Identify(w, Range(w.cx[r].contacts)), r)

(***************************************************************************)
(* GetContactAttributes holds the handles too, if there are no contacts    *)
(* yet; one that is not in the reply is invalid.                           *)
(***************************************************************************)
HoldFromReply(w, r, reply) ==
  IF Kind(r) = "by handle" /\ w.cx[r].contacts = << >>
  THEN AddContacts([w EXCEPT !.cx[r].handles = SelectSeq(@, LAMBDA h : h \in Valid)], r,
                   SelectSeq(w.cx[r].handles, LAMBDA h : h \in Valid))
  ELSE w

Attributes(vals, getting) == [f \in {g \in getting : vals[g] # -1} |-> vals[f]]

GotAttributes(w, r, reply) ==
  LET c == w.cx[r]
      set(x) == [x EXCEPT !.ct = [h \in DOMAIN @ |->
        IF h \in Range(x.cx[r].contacts)
        THEN SetAttributes(@[h], c.wanted, Attributes(reply.vals[h], c.getting)) ELSE @[h]]]
  IN IF reply.error # "" THEN Fail(w, r)
     ELSE Continue(set(HoldFromReply(w, r, reply)), r)

(***************************************************************************)
(* The slow path.  "Never mind, we can live without": an error is ignored, *)
(* but if GetAliases is not implemented, RequestAliases may be.            *)
(***************************************************************************)
Known(vals, S, f) == {h \in S : vals[h][f] # -1}

GotFeature(w, r, reply) ==
  IF reply.m = "ALIAS" /\ reply.error = "not implemented"
  THEN Call(w, r, "RequestAliases", Range(w.cx[r].handles))
  ELSE LET f == IF reply.m = "RequestAliases" THEN "ALIAS" ELSE reply.m
       IN IF reply.error # "" THEN Continue(w, r)
          ELSE Continue(SetFeatureOf(w, Known(reply.vals, Range(w.cx[r].contacts), f), f, reply.vals), r)

(***************************************************************************)
(* Capabilities of the connection, which contacts without any of their own *)
(* are taken to have.                                                      *)
(***************************************************************************)
GotConnCapabilities(w, r, reply) ==
  IF reply.error # "" THEN Continue(w, r)
  ELSE Continue(SetFeatureOf(w, Range(w.cx[r].contacts), "CAPABILITIES", reply.vals), r)

GotReply(w, r, reply) ==
  CASE reply.m = "HoldAll" -> HeldHandles(w, r, reply)
    [] reply.m = "HoldOne" -> HeldOne(w, r, reply)
    [] reply.m = "RequestAll" -> RequestedHandles(w, r, reply)
    [] reply.m = "RequestOne" -> RequestedOneHandle(w, r, reply)
    [] reply.m = "InspectHandles" -> Inspected(w, r, reply)
    [] reply.m = "GetContactAttributes" -> GotAttributes(w, r, reply)
    [] reply.m = "CAPABILITIES" -> GotConnCapabilities(w, r, reply)
    [] OTHER -> GotFeature(w, r, reply)

(***************************************************************************)
(* A change signal sets the feature of a contact that exists.              *)
(***************************************************************************)
FeatureChanged(w, m) ==
  IF m.f \in w.tracking /\ m.h \in DOMAIN w.ct
  THEN [w EXCEPT !.ct[m.h] = SetFeature(@, m.f, m.v)]
  ELSE w

Receive ==
  /\ wire # << >> /\ wire' = Tail(wire)
  /\ LET m == Head(wire)
     IN Becomes(IF m.m = "changed" THEN FeatureChanged(World, m)
                ELSE Unref(GotReply([World EXCEPT !.cx[m.r].on = "none"], m.r, m), m.r))
  /\ UNCHANGED <<value, invalidated, changes>>

-----------------------------------------------------------------------------
(***************************************************************************)
(* The manager answers calls, and features change (external).              *)
(***************************************************************************)
Errors(call) ==
  (IF call.m \in {"HoldAll", "HoldOne", "RequestAll", "RequestOne"} /\ ~(call.hs \subseteq Valid)
   THEN {"invalid"} ELSE {""})
    \cup (IF call.m \notin Refused THEN {} ELSE IF call.m = "ALIAS" THEN {"not implemented"} ELSE {"error"})

Answer(call) ==
  /\ call \in calls /\ ~invalidated /\ calls' = calls \ {call}
  /\ \E e \in Errors(call) :
       wire' = Append(wire, [m |-> call.m, r |-> call.r, error |-> e, vals |-> value])
  /\ UNCHANGED <<cx, ct, tracking, kept, failed, value, invalidated, changes>>

Change(h, f) ==
  /\ ~invalidated /\ changes < MaxChanges /\ changes' = changes + 1
  /\ f \in Ifaces /\ h \in Valid
  /\ value' = [value EXCEPT ![h][f] = @ + 1]
  /\ wire' = Append(wire, [m |-> "changed", h |-> h, f |-> f, v |-> value[h][f] + 1])
  /\ UNCHANGED <<cx, ct, tracking, calls, kept, failed, invalidated>>

(***************************************************************************)
(* The connection goes away: all calls fail.                               *)
(***************************************************************************)
Invalidate ==
  /\ MayDie /\ ~invalidated /\ invalidated' = TRUE
  /\ wire' = SetToSeq({[m |-> m.m, r |-> m.r, error |-> "error", vals |-> value] :
               m \in calls \cup {n \in Range(wire) : n.m # "changed"}})
  /\ calls' = {}
  /\ UNCHANGED <<cx, ct, tracking, kept, failed, value, changes>>

(***************************************************************************)
(* The weak object dies: a call is cancelled with it, and the context is   *)
(* freed; an idle, or the call for capabilities, finds out later.          *)
(***************************************************************************)
WeakObjectDies(r) ==
  /\ Requests[r].weak /\ cx[r].on \notin {"no", "gone"} /\ ~cx[r].dead
  /\ IF cx[r].on \in {"idle", "CAPABILITIES"}
     THEN Becomes([World EXCEPT !.cx[r].dead = TRUE]) /\ UNCHANGED wire
     ELSE /\ Becomes(Unref([World EXCEPT !.cx[r] = [@ EXCEPT !.dead = TRUE, !.on = "none"],
                                         !.calls = {call \in @ : call.r # r}], r))
          /\ wire' = SelectSeq(wire, LAMBDA m : m.m = "changed" \/ m.r # r)
  /\ UNCHANGED <<value, invalidated, changes>>

Drop(h) ==
  /\ h \in kept
  /\ Becomes(Release([World EXCEPT !.kept = @ \ {h}]))
  /\ UNCHANGED <<value, wire, invalidated, changes>>

-----------------------------------------------------------------------------
Init ==
  /\ cx = [r \in DOMAIN Requests |-> NoContext]
  /\ ct = [h \in Existing |-> [NewContact EXCEPT !.id = TRUE]]
  /\ kept = Existing /\ tracking = {} /\ calls = {} /\ failed = FALSE
  /\ value = [h \in Handles |-> [f \in Features |-> IF f \in Unknown THEN -1 ELSE 0]]
  /\ wire = << >> /\ invalidated = FALSE /\ changes = 0

ContextStep(r) ==
  GetContactsByHandle(r) \/ GetContactsById(r) \/ UpgradeContacts(r) \/ IdleContinue(r) \/ WeakObjectDies(r)

Next ==
  \/ \E r \in DOMAIN Requests : ContextStep(r)
  \/ Receive \/ Invalidate
  \/ \E call \in calls : Answer(call)
  \/ \E h \in Handles : Drop(h) \/ \E f \in Features : Change(h, f)

Spec == Init /\ [][Next]_vars

-----------------------------------------------------------------------------
TypeOK ==
  /\ DOMAIN ct \subseteq Handles /\ kept \subseteq DOMAIN ct /\ tracking \subseteq Features
  /\ \A r \in DOMAIN Requests :
       Range(cx[r].contacts) \subseteq DOMAIN ct /\ cx[r].called \in Nat

(* The callback is called exactly once, however the context's steps end; only
   if the weak object died it is not called at all, and then the context is
   freed just the same. *)
CalledOnce ==
  \A r \in DOMAIN Requests :
    /\ cx[r].called <= 1
    /\ cx[r].on = "gone" => cx[r].called = 1 \/ cx[r].dead
    /\ cx[r].on \in {"no", "gone"} \/ (cx[r].called = 0 /\ (cx[r].on = "idle" <=> ~\E m \in calls \cup Range(wire) : m.m # "changed" /\ m.r = r))

(* A contact that says it has a feature has the value that the manager has,
   whichever context or signal it came from, once everything sent is handled. *)
ValuesMirror ==
  wire = << >> /\ calls = {} /\ ~invalidated =>
    \A h \in DOMAIN ct : \A f \in ct[h].has : ct[h].val[f] = value[h][f]

(* contacts_context_continue never hands over a contact without identifier:
   g_assert (contact->priv->identifier != NULL). *)
DeliveredHaveIds == ~failed

(* A successful request has given its contacts every feature asked for that the
   connection supports, unless a method for it failed; those asked for by
   identifier are in the order of the identifiers, with the bad ones left out;
   and bad handles and identifiers were left out. *)
Obtainable(r) ==
  {f \in Requests[r].features \cap Ifaces : f \in AttrIfaces \/ f \in SlowPath} \ Unknown

DeliversAll ==
  \A r \in DOMAIN Requests :
    cx'[r].ok /\ ~cx[r].ok =>
      LET hs == IF Kind(r) = "by id" THEN cx'[r].ids ELSE cx'[r].handles
      IN /\ Range(hs) = Range(Requests[r].hs) \cap Valid
         /\ Kind(r) = "by id" => hs = SelectSeq(Requests[r].hs, LAMBDA h : h \in Valid)
         /\ Refused = {} /\ ~invalidated => \A h \in Range(hs) : Obtainable(r) \subseteq ct'[h].has
=============================================================================
