----------------------------- MODULE Connection -----------------------------
(***************************************************************************)
(* Introspection of a TpConnection (telepathy-glib/connection.c) and the   *)
(* status, self-handle and self-contact it shows, against a connection     *)
(* manager whose connection goes from DISCONNECTED through CONNECTING to   *)
(* CONNECTED and may end at any moment.                                    *)
(*                                                                         *)
(* Messages between the two keep their order, as D-Bus guarantees and the  *)
(* idle sources of proxy-methods.c and proxy-signals.c preserve.  A call   *)
(* that was cancelled is as if it had never been made, so it is taken off  *)
(* the wire.  The requests for the self-contact are asynchronous           *)
(* operations of contact.c, finished in any order.                         *)
(***************************************************************************)
EXTENDS Naturals, Sequences, FiniteSets, SequencesExt

CONSTANTS
  Handles,        \* the handles the connection may use as its own
  Refused,        \* the methods that may fail although the connection is there
  MaxSelfChanges  \* bound: how often it changes them

SoundConstants == Handles \subseteq Nat \ {0} /\ MaxSelfChanges \in Nat

VARIABLES
  cm,      \* the connection in the connection manager
  calls,   \* calls it has not handled yet, oldest first
  wire,    \* replies and signals on their way to the TpConnection
  self,    \* the TpConnection and its priv
  getting  \* bag of the TpContacts being made for get_self_contact

vars == <<cm, calls, wire, self, getting>>

(***************************************************************************)
(*  properties   GetAll (Connection) works                                 *)
(*  contacts     it has the Contacts interface                             *)
(*  changes      self-handle changes so far                                *)
(***************************************************************************)
Managers ==
  [ status : {"DISCONNECTED", "CONNECTING", "CONNECTED", "gone"},
    self : Handles, changes : Nat, properties : BOOLEAN, contacts : BOOLEAN ]

(***************************************************************************)
(*  introspection_call, status, introspect_needed (the procedures still to *)
(*  be called), introspecting_after_connected, last_known_self_handle, and *)
(*  introspecting_self_contact as in the struct                            *)
(*  attributes    contact_attribute_interfaces # NULL                      *)
(*  enough        ready_enough_for_contacts                                *)
(*  self_contact  its handle, or 0 for NULL                                *)
(*  announcing    will_announce_connected_result # NULL                    *)
(*  core          TP_CONNECTION_FEATURE_CORE is prepared                   *)
(*  invalidated   # NULL                                                   *)
(*  known         handles whose TpContact the application saw, and keeps   *)
(*  announced     (history) how often CONNECTED was announced              *)
(*  aborted       (history) an assertion of connection.c failed            *)
(*  misused       (history) a g_return_if_fail of contact.c failed         *)
(***************************************************************************)
Connections ==
  [ status : {"UNKNOWN", "DISCONNECTED", "CONNECTING", "CONNECTED"},
    introspection_call : {"NULL", "GetAll", "GetStatus", "GetInterfaces",
                          "GetAttributes", "GetSelfHandle"},
    introspect_needed : Seq({"contacts", "self_handle", "self_contact"}),
    introspecting_after_connected : BOOLEAN,
    introspecting_self_contact : BOOLEAN,
    last_known_self_handle : Handles \cup {0}, self_contact : Handles \cup {0},
    attributes : BOOLEAN, enough : BOOLEAN, announcing : BOOLEAN,
    core : BOOLEAN, invalidated : BOOLEAN, known : SUBSET Handles,
    announced : Nat, aborted : BOOLEAN, misused : BOOLEAN ]

(* stored: the call is introspection_call, and so may be cancelled. *)
Call(method, stored) == [method |-> method, stored |-> stored]

Signal(name, status, handle) ==
  [type |-> "signal", name |-> name, status |-> status, handle |-> handle]

World == [calls |-> calls, wire |-> wire, self |-> self, getting |-> getting]

Become(w) ==
  calls' = w.calls /\ wire' = w.wire /\ self' = w.self /\ getting' = w.getting

-----------------------------------------------------------------------------
(* Make a D-Bus call and keep it as introspection_call. *)
Introspect(w, method) ==
  [w EXCEPT !.calls = Append(@, Call(method, TRUE)),
            !.self.introspection_call = method]

(* tp_proxy_pending_call_cancel (introspection_call) *)
Cancel(w) ==
  [w EXCEPT !.calls = SelectSeq(@, LAMBDA c : ~c.stored),
            !.wire  = SelectSeq(@, LAMBDA m : m.type # "reply" \/ ~m.call.stored),
            !.self.introspection_call = "NULL"]

GAssert(w, p) == [w EXCEPT !.self.aborted = @ \/ ~p]

(* tp_proxy_invalidate, and tp_connection_invalidated which it leads to *)
Invalidate(w) ==
  LET v == IF w.self.introspection_call # "NULL" THEN Cancel(w) ELSE w
  IN  IF w.self.invalidated THEN w
      ELSE [v EXCEPT !.self.invalidated = TRUE, !.self.self_contact = 0]

(* get_self_contact.  Without the Contacts interface (attributes are NULL) a
   TpContact that exists is handed out from an idle source, asking nobody. *)
GetSelfContact(w) ==
  LET h == w.self.last_known_self_handle
  IN  IF ~w.self.enough THEN [w EXCEPT !.self.misused = TRUE]
      ELSE [w EXCEPT !.getting = @ (+) SetToBag(
              {[handle |-> h, idle |-> h \in w.self.known /\ ~w.self.attributes]})]

(* tp_connection_continue_introspection, when there is something to do:
   introspect_contacts, introspect_self_handle or introspect_self_contact.
   The first two go on at once when they have nothing to ask. *)
RunIntrospection(w) ==
  LET Skip(proc) ==
        \/ proc = "contacts" /\ w.self.attributes
        \/ proc = "self_handle" /\ ~w.self.introspecting_after_connected
      skipped  == {i \in DOMAIN w.self.introspect_needed :
                     \A j \in 1..i : Skip(w.self.introspect_needed[j])}
  IN  [w EXCEPT !.self.introspect_needed =
         SubSeq(@, Cardinality(skipped) + 1, Len(@))]

(* tp_connection_continue_introspection *)
ContinueIntrospection(w) ==
  LET u    == RunIntrospection(w)
      next == Head(u.self.introspect_needed)
      v    == [u EXCEPT !.self.introspect_needed = Tail(@)]
      Ask(method) ==
        Introspect(GAssert(v, v.self.introspection_call = "NULL"), method)
  IN  IF w.self.invalidated THEN w
      ELSE IF u.self.introspect_needed = <<>>
      THEN IF u.self.introspecting_after_connected
           THEN [GAssert(u, ~u.self.announcing) EXCEPT !.self.announcing = TRUE]
           ELSE [u EXCEPT !.self.core = TRUE]
      ELSE CASE next = "contacts"     -> Ask("GetAttributes")
             [] next = "self_handle"  -> Ask("GetSelfHandle")
             [] next = "self_contact" ->
                  GetSelfContact([v EXCEPT !.self.introspecting_self_contact = TRUE])

(* tp_connection_add_interfaces_from_introspection *)
AddInterfaces(w, contacts) ==
  IF contacts
  THEN [w EXCEPT !.self.introspect_needed = Append(@, "contacts")]
  ELSE [w EXCEPT !.self.enough = TRUE]

(* Mutant: what the cancelled introspection was going to do is kept. *)
StatusChangedKeepsNeeded(w, status) ==
  IF status # "CONNECTED" THEN [w EXCEPT !.self.status = status]
  ELSE LET v == IF w.self.introspection_call # "NULL"
                   /\ ~w.self.introspecting_after_connected
                THEN Cancel(w)
                ELSE w
           u == [v EXCEPT !.self.introspecting_after_connected = TRUE]
       IN  IF u.self.introspection_call = "NULL" THEN Introspect(u, "GetAll") ELSE u

(* Mutant: CONNECTED is shown at once. *)
StatusChangedAtOnce(w, status) ==
  LET v == [w EXCEPT !.self.status = status,
                     !.self.introspecting_after_connected =
                        @ \/ status = "CONNECTED"]
  IN  IF status = "CONNECTED" /\ v.self.introspection_call = "NULL"
      THEN Introspect(v, "GetAll") ELSE v

(* tp_connection_status_changed *)
StatusChanged(w, status) ==
  IF status # "CONNECTED" THEN [w EXCEPT !.self.status = status]
  ELSE LET v == IF w.self.introspection_call # "NULL"
                   /\ ~w.self.introspecting_after_connected
                THEN [Cancel(w) EXCEPT !.self.introspect_needed = <<>>]
                ELSE w
           u == [v EXCEPT !.self.introspecting_after_connected = TRUE]
       IN  IF u.self.introspection_call = "NULL" THEN Introspect(u, "GetAll") ELSE u

(* Mutant: the end of the connection is a status like any other. *)
StatusChangedCbSurvives(w, status) ==
  IF w.self.status # "UNKNOWN" THEN StatusChanged(w, status) ELSE w

(* tp_connection_status_changed_cb *)
StatusChangedCb(w, status) ==
  LET v == IF w.self.status # "UNKNOWN" THEN StatusChanged(w, status) ELSE w
  IN  IF status = "DISCONNECTED" THEN Invalidate(v) ELSE v

(* Mutant: leaves it to the request under way. *)
OnSelfHandleChangedWaits(w, handle) ==
  IF w.self.last_known_self_handle = 0 THEN w
  ELSE [w EXCEPT !.self.last_known_self_handle = handle]

(* on_self_handle_changed *)
OnSelfHandleChanged(w, handle) ==
  IF w.self.last_known_self_handle = 0 THEN w
  ELSE GetSelfContact([w EXCEPT !.self.last_known_self_handle = handle])

(* _tp_connection_got_properties *)
GotProperties(w, m) ==
  LET v == [w EXCEPT !.self.introspection_call = "NULL"]
      a == AddInterfaces(v, m.contacts)
  IN  IF w.self.invalidated THEN w
      ELSE IF ~m.ok
      THEN IF v.self.status = "UNKNOWN" /\ ~v.self.introspecting_after_connected
           THEN Introspect(v, "GetStatus") ELSE Introspect(v, "GetInterfaces")
      ELSE IF m.status = "CONNECTED"
      THEN ContinueIntrospection(
             [a EXCEPT !.self.introspecting_after_connected = TRUE,
                       !.self.last_known_self_handle = m.handle,
                       !.self.introspect_needed = Append(@, "self_contact")])
      ELSE ContinueIntrospection(StatusChanged(a, m.status))

(* Mutant: the pointer is left behind. *)
CallDoneKeeps(w) == GAssert(w, w.self.introspection_call # "NULL")

(* The assertion and assignment that begin the other callbacks. *)
CallDone(w) ==
  [GAssert(w, w.self.introspection_call # "NULL")
     EXCEPT !.self.introspection_call = "NULL"]

(* Mutant: uses what a failed call returned. *)
GotStatusCbGarbage(w, m) ==
  IF m.ok THEN StatusChanged(CallDone(w), m.status)
  ELSE [CallDone(w) EXCEPT !.self.status = "garbage"]

(* tp_connection_got_status_cb *)
GotStatusCb(w, m) ==
  LET v == StatusChanged(CallDone(w), m.status)
  IN  IF ~m.ok THEN CallDone(w)
      ELSE IF m.status # "CONNECTED" /\ v.self.introspection_call = "NULL"
      THEN Introspect(v, "GetInterfaces")
      ELSE v

(* tp_connection_got_interfaces_cb *)
GotInterfacesCb(w, m) ==
  LET v == GAssert(CallDone(w), w.self.introspect_needed = <<>>)
      a == IF m.ok THEN AddInterfaces(v, m.contacts) ELSE v
  IN  IF w.self.invalidated THEN CallDone(w)
      ELSE ContinueIntrospection(
             [a EXCEPT !.self.introspect_needed = Append(@, "self_handle")])

(* Mutant: an error is the end of it. *)
GotAttributesGivesUp(w, m) ==
  IF ~m.ok THEN CallDone(w)
  ELSE ContinueIntrospection(
         [CallDone(w) EXCEPT !.self.attributes = TRUE, !.self.enough = TRUE])

(* got_contact_attribute_interfaces: an error is as good as an empty list. *)
GotAttributes(w, m) ==
  ContinueIntrospection(
    [GAssert(CallDone(w), ~w.self.attributes)
       EXCEPT !.self.attributes = TRUE, !.self.enough = TRUE])

(* got_self_handle *)
GotSelfHandle(w, m) ==
  IF ~m.ok THEN Invalidate(CallDone(w))
  ELSE ContinueIntrospection(
         [CallDone(w) EXCEPT !.self.last_known_self_handle = m.handle,
                             !.self.introspect_needed = Append(@, "self_contact")])

Receive(w, m) ==
  IF m.type = "signal"
  THEN IF m.name = "StatusChanged" THEN StatusChangedCb(w, m.status)
       ELSE OnSelfHandleChanged(w, m.handle)
  ELSE CASE m.call.method = "GetAll"        -> GotProperties(w, m)
         [] m.call.method = "GetStatus"     -> GotStatusCb(w, m)
         [] m.call.method = "GetInterfaces" -> GotInterfacesCb(w, m)
         [] m.call.method = "GetAttributes" -> GotAttributes(w, m)
         [] m.call.method = "GetSelfHandle" -> GotSelfHandle(w, m)

(* Mutant: any TpContact will do. *)
GotSelfContactAny(w, handle) ==
  LET v == [w EXCEPT !.self.self_contact = handle,
                     !.self.introspecting_self_contact = FALSE]
  IN  IF w.self.introspecting_self_contact THEN ContinueIntrospection(v) ELSE v

(* tp_connection_got_self_contact_cb, given a TpContact, and
   tp_connection_set_self_contact *)
GotSelfContact(w, handle) ==
  LET v == [w EXCEPT !.self.self_contact = handle, !.self.known = @ \cup {handle},
                     !.self.introspecting_self_contact = FALSE]
  IN  IF handle # w.self.last_known_self_handle THEN w
      ELSE IF w.self.introspecting_self_contact THEN ContinueIntrospection(v)
      ELSE v

(* tp_connection_got_self_contact_cb, when the handle was invalid *)
SelfContactFailed(w, handle) ==
  IF handle # w.self.last_known_self_handle THEN w ELSE Invalidate(w)

(* Mutant: the result is not cleared. *)
SignalConnectedKeepsResult(w) ==
  [w EXCEPT !.self.status = "CONNECTED", !.self.core = TRUE, !.self.announced = @ + 1]

(* will_announced_connected_cb and signal_connected *)
SignalConnected(w) ==
  LET v == [w EXCEPT !.self.announcing = FALSE]
  IN  IF w.self.invalidated THEN v
      ELSE [v EXCEPT !.self.status = "CONNECTED", !.self.core = TRUE,
                     !.self.announced = @ + 1]

-----------------------------------------------------------------------------
(* tp_connection_init and tp_connection_constructed *)
Init ==
  /\ cm \in [ status : {"DISCONNECTED", "CONNECTING", "CONNECTED"},
              self : Handles, changes : {0}, properties : BOOLEAN,
              contacts : BOOLEAN ]
  /\ calls = <<Call("GetAll", FALSE)>>
  /\ wire = <<>>
  /\ self = [ status |-> "UNKNOWN", introspection_call |-> "NULL",
              introspect_needed |-> <<>>,
              introspecting_after_connected |-> FALSE,
              introspecting_self_contact |-> FALSE,
              last_known_self_handle |-> 0, self_contact |-> 0,
              attributes |-> FALSE, enough |-> FALSE, announcing |-> FALSE,
              core |-> FALSE, invalidated |-> FALSE, known |-> {},
              announced |-> 0, aborted |-> FALSE, misused |-> FALSE ]
  /\ getting = EmptyBag

(* The connection manager changes the status. *)
ManagerStatus(status) ==
  /\ \/ cm.status = "DISCONNECTED" /\ status = "CONNECTING"
     \/ cm.status = "CONNECTING" /\ status = "CONNECTED"
     \/ cm.status \in {"CONNECTING", "CONNECTED"} /\ status = "gone"
  /\ cm' = [cm EXCEPT !.status = status]
  /\ wire' = Append(wire, Signal("StatusChanged",
               IF status = "gone" THEN "DISCONNECTED" ELSE status, 0))
  /\ UNCHANGED <<calls, self, getting>>

(* ... or the user's own handle: a nickname, for instance. *)
ManagerRenames(handle) ==
  /\ cm.status = "CONNECTED" /\ handle # cm.self /\ cm.changes < MaxSelfChanges
  /\ cm' = [cm EXCEPT !.self = handle, !.changes = @ + 1]
  /\ wire' = Append(wire, Signal("SelfHandleChanged", "", handle))
  /\ UNCHANGED <<calls, self, getting>>

(* It answers a call, well or with an error.  One without the properties of
   Connection fails GetAll; GetSelfHandle needs it to be CONNECTED. *)
ManagerAnswers(ok) ==
  LET c == Head(calls)
  IN  /\ calls # <<>>
      /\ c.method = "GetAll" => ok = (cm.properties /\ cm.status # "gone")
      /\ c.method = "GetSelfHandle" /\ cm.status # "CONNECTED" => ~ok
      /\ ~ok => c.method \in Refused \/ cm.status = "gone" \/ c.method = "GetAll"
      /\ calls' = Tail(calls)
      /\ wire' = Append(wire,
           [ type |-> "reply", call |-> c, ok |-> ok, handle |-> cm.self,
             status |-> IF cm.status = "gone" THEN "DISCONNECTED" ELSE cm.status,
             contacts |-> cm.contacts ])
      /\ UNCHANGED <<cm, self, getting>>

(* The main loop dispatches the next message; signals are no longer connected
   once the TpProxy is invalidated. *)
MessageArrives ==
  /\ wire # <<>>
  /\ UNCHANGED cm
  /\ LET m == Head(wire)
         w == [World EXCEPT !.wire = Tail(@)]
     IN  Become(IF m.type = "signal" /\ self.invalidated THEN w ELSE Receive(w, m))

(* get_self_contact calls back: the TpContact, an invalid handle or an error.
   Once the connection is invalidated only what is idle gives anything else. *)
SelfContactArrives(g, outcome) ==
  /\ BagIn(g, getting)
  /\ g.idle => outcome = "contact"
  /\ self.invalidated /\ ~g.idle => outcome = "error"
  /\ UNCHANGED cm
  /\ LET w == [World EXCEPT !.getting = @ (-) SetToBag({g})]
     IN  Become(CASE outcome = "contact" -> GotSelfContact(w, g.handle)
                  [] outcome = "failed"  -> SelfContactFailed(w, g.handle)
                  [] outcome = "error"   -> Invalidate(w))

(* _tp_proxy_will_announce_connected_async calls back. *)
AnnounceDone ==
  /\ self.announcing
  /\ UNCHANGED cm
  /\ Become(SignalConnected(World))

(* tp_proxy_iface_destroyed_cb: the connection manager crashed. *)
NameOwnerLost ==
  /\ cm.status # "gone" /\ ~self.invalidated
  /\ cm' = [cm EXCEPT !.status = "gone"]
  /\ Become(Invalidate(World))

SomeSelfContactArrives ==
  \E g \in BagToSet(getting), o \in {"contact", "failed", "error"} : SelfContactArrives(g, o)

Next ==
  \/ \E s \in {"CONNECTING", "CONNECTED", "gone"} : ManagerStatus(s)
  \/ \E h \in Handles : ManagerRenames(h)
  \/ \E ok \in BOOLEAN : ManagerAnswers(ok)
  \/ MessageArrives
  \/ SomeSelfContactArrives
  \/ AnnounceDone
  \/ NameOwnerLost

Spec == Init /\ [][Next]_vars

(* The connection manager answers, messages are delivered, contacts are made
   or not, and the features prepared before CONNECTED is announced are done. *)
FairSpec ==
  /\ Spec
  /\ WF_vars(\E ok \in BOOLEAN : ManagerAnswers(ok))
  /\ WF_vars(MessageArrives)
  /\ WF_vars(SomeSelfContactArrives)
  /\ WF_vars(AnnounceDone)

-----------------------------------------------------------------------------
TypeOK ==
  /\ cm \in Managers
  /\ self \in Connections
  /\ \A i \in DOMAIN calls : calls[i].stored \in BOOLEAN
  /\ IsABag(getting)

(* The assertions of connection.c hold: one introspection call at a time, each
   callback for a call that was made, one announcement.  And introspection_call
   is a call on its way, there or back: never a dangling pointer to one that was
   answered, so that cancelling it is safe. *)
AssertionsHold ==
  LET stored == Cardinality({i \in DOMAIN calls : calls[i].stored})
                + Cardinality({i \in DOMAIN wire : wire[i].type = "reply"
                                                   /\ wire[i].call.stored})
  IN  ~self.aborted /\ stored = IF self.introspection_call = "NULL" THEN 0 ELSE 1

(* "the change to status CONNECTED is delayed slightly, until introspection of
   the connection has finished": whoever sees CONNECTED also finds the
   self-contact, enough to make contacts, and nothing left to introspect.  It is
   announced once at most, and only by a connection that was. *)
ConnectedMeansIntrospected ==
  /\ self.announced <= 1 /\ (self.announced = 1 => cm.status \in {"CONNECTED", "gone"})
  /\ self.status = "CONNECTED" /\ ~self.invalidated =>
    /\ self.self_contact # 0
    /\ self.enough /\ (cm.contacts => self.attributes)
    /\ self.introspect_needed = <<>> /\ self.introspection_call = "NULL"
    /\ self.core

Quiet == calls = <<>> /\ wire = <<>> /\ getting = EmptyBag /\ ~self.announcing

(* When nothing is on its way the TpConnection shows the status and the
   self-contact the connection has, however signals and replies crossed. *)
ShowsTheTruth ==
  Quiet /\ ~self.invalidated /\ self.status # "UNKNOWN" =>
    /\ self.status = cm.status
    /\ cm.status = "CONNECTED" => self.self_contact = cm.self

(* A connection that is CONNECTED is shown to be, or is invalidated. *)
EventuallyConnected ==
  cm.status = "CONNECTED" ~> (self.status = "CONNECTED" \/ self.invalidated)

(* "If a feature represents core functionality [...] failure to prepare it
   will result in tp_proxy_prepare_async() finishing unsuccessfully": CORE is
   prepared in the end, or the TpConnection is invalidated. *)
CoreIsDecided == <>(self.core \/ self.invalidated)

(* "g_return_if_fail (self->priv->ready_enough_for_contacts)": the special
   case of contact.c that get_self_contact relies on is ready for it. *)
PreconditionsHold == ~self.misused

=============================================================================
