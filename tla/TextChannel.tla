----------------------------- MODULE TextChannel -----------------------------
(***************************************************************************)
(* Pending messages of a text channel, from end to end: the TpMessageMixin *)
(* of the connection manager (telepathy-glib/message-mixin.c) keeps the    *)
(* messages until they are acknowledged, and the TpTextChannel of a client *)
(* (text-channel.c) mirrors them, through the queue of TpChannel that      *)
(* prepares the contacts an event is about (channel-contacts.c).           *)
(*                                                                         *)
(* Other clients acknowledge messages too.  Signals and replies reach the  *)
(* client in the order they were sent (wire).                              *)
(***************************************************************************)
EXTENDS Integers, Sequences, FiniteSets, SequencesExt

CONSTANTS
  MaxMessages,  \* bound: messages received
  MaxAcks       \* bound: acknowledgements by this client

ASSUME BoundsAreNat == {MaxMessages, MaxAcks} \subseteq Nat

VARIABLES
  pending,   \* ids of the mixin's pending messages, oldest first
  recv_id,   \* the id of the next one
  calls,     \* method calls of this client on their way
  wire,      \* signals and replies on their way to it
  c,         \* its TpTextChannel
  acks,      \* its acknowledgements, with what became of them
  log,       \* (history) ids in the order messages were added by the client
  initial    \* (history) what the PendingMessages property was when asked for

vars == <<pending, recv_id, calls, wire, c, acks, log, initial>>

Ids == 0..(MaxMessages - 1)

Msg(type, ids, call) == [type |-> type, ids |-> ids, call |-> call]

(***************************************************************************)
(*  asked, got_initial_messages                                            *)
(*  pending_messages               ids of the TpSignalledMessages          *)
(*  contacts_queue                 the first item is being prepared        *)
(*  n_preparing_pending_messages                                           *)
(*  prepared    the feature INCOMING_MESSAGES: "no", "yes" or "failed"     *)
(*  valid       the channel is not invalidated                             *)
(***************************************************************************)
Init ==
  /\ pending = <<>> /\ recv_id = 0 /\ calls = <<>> /\ wire = <<>>
  /\ c = [asked |-> FALSE, got_initial_messages |-> FALSE, pending_messages |-> <<>>,
          contacts_queue |-> <<>>, n_preparing_pending_messages |-> 0, prepared |-> "no",
          valid |-> TRUE]
  /\ acks = <<>> /\ log = <<>> /\ initial = {}

(* What the mixin sends reaches the client only while it listens. *)
Send(m) == wire' = IF c.asked /\ c.valid THEN wire \o m ELSE wire

Without(q, ids) == SelectSeq(q, LAMBDA id : ~Contains(ids, id))

-----------------------------------------------------------------------------
(* The connection manager *)

(* tp_message_mixin_take_received, queue_pending *)
TakeReceived ==
  /\ recv_id < MaxMessages
  /\ pending' = Append(pending, recv_id) /\ recv_id' = recv_id + 1
  /\ Send(<<Msg("received", <<recv_id>>, 0)>>)
  /\ UNCHANGED <<calls, c, acks, log, initial>>

(* Mutant: the ids before one that is not known are acknowledged. *)
AcknowledgePartly(ids, call) ==
  LET known == SelectSeq(ids, LAMBDA id : Contains(pending, id))
  IN  /\ pending' = Without(pending, known)
      /\ Send(IF known = ids THEN <<Msg("removed", ids, 0), Msg("ok", <<>>, call)>>
              ELSE <<Msg("error", <<>>, call)>>)

(* tp_message_mixin_acknowledge_pending_messages_async, called by this client
   or (call 0) by another one *)
Acknowledge(ids, call) ==
  LET reply(type) == IF call = 0 THEN <<>> ELSE <<Msg(type, <<>>, call)>>
  IN  IF \A i \in DOMAIN ids : Contains(pending, ids[i])
      THEN /\ pending' = Without(pending, ids)
           /\ Send(<<Msg("removed", ids, 0)>> \o reply("ok"))
      ELSE /\ UNCHANGED pending
           /\ Send(reply("error"))

OtherAcknowledges(id) ==
  /\ Acknowledge(<<id>>, 0)
  /\ UNCHANGED <<recv_id, calls, c, acks, log, initial>>

(* tp_message_mixin_list_pending_messages_async with clear = TRUE *)
OtherClears ==
  /\ pending # <<>>
  /\ pending' = <<>> /\ Send(<<Msg("removed", pending, 0)>>)
  /\ UNCHANGED <<recv_id, calls, c, acks, log, initial>>

(* A call of this client arrives.  Get is tp_message_mixin_get_dbus_property, and
   it may fail, or time out. *)
HandleCall ==
  LET m == Head(calls)
  IN  /\ calls # <<>> /\ calls' = Tail(calls)
      /\ \/ /\ m.type = "ack"
            /\ Acknowledge(m.ids, m.call) /\ UNCHANGED initial
         \/ /\ m.type = "get"
            /\ Send(<<Msg("pending", pending, 0)>>)
            /\ initial' = ToSet(pending) /\ UNCHANGED pending
         \/ /\ m.type = "get"
            /\ Send(<<Msg("failed", <<>>, 0)>>) /\ UNCHANGED <<initial, pending>>
      /\ UNCHANGED <<recv_id, c, acks, log>>

-----------------------------------------------------------------------------
(* The client *)

World == [c |-> c, acks |-> acks, log |-> log]

Become(w) == c' = w.c /\ acks' = w.acks /\ log' = w.log

(* tp_text_channel_prepare_incoming_messages_async *)
Prepare ==
  /\ c.valid /\ ~c.asked
  /\ c' = [c EXCEPT !.asked = TRUE]
  /\ calls' = Append(calls, Msg("get", <<>>, 0))
  /\ UNCHANGED <<pending, recv_id, wire, acks, log, initial>>

(* add_message_received *)
AddMessageReceived(w, id) ==
  [w EXCEPT !.c.pending_messages = Append(@, id), !.log = Append(@, id)]

(* Mutant: the feature is ready with the first message. *)
InitialReadyFirst(w, id) ==
  LET v == AddMessageReceived(w, id)
      n == w.c.n_preparing_pending_messages - 1
  IN  [v EXCEPT !.c.n_preparing_pending_messages = n, !.c.prepared = "yes"]

(* pending_message_sender_ready_cb *)
InitialReady(w, id) ==
  LET v == AddMessageReceived(w, id)
      n == w.c.n_preparing_pending_messages - 1
  IN  [v EXCEPT !.c.n_preparing_pending_messages = n,
                !.c.prepared = IF n = 0 THEN "yes" ELSE @]

(* The callback of a queue item: message_received_sender_ready_cb,
   pending_message_sender_ready_cb, pending_messages_removed_ready_cb or
   acknowledge_pending_messages_ready_cb *)
ItemReady(w, item) ==
  CASE item.type = "received" -> AddMessageReceived(w, item.ids[1])
    [] item.type = "initial"  -> InitialReady(w, item.ids[1])
    [] item.type = "removed"  -> [w EXCEPT !.c.pending_messages = Without(@, item.ids)]
    [] item.type = "ok"       -> [w EXCEPT !.acks[item.call].result = "ok"]

(* Mutant: what is queued when the channel is invalidated is forgotten. *)
ProcessContactsQueueForgets(w) == IF w.c.valid THEN w ELSE [w EXCEPT !.c.contacts_queue = <<>>]

(* process_contacts_queue: if the channel is invalidated all items complete *)
ProcessContactsQueue(w) ==
  IF w.c.valid THEN w
  ELSE FoldLeft(ItemReady, [w EXCEPT !.c.contacts_queue = <<>>], w.c.contacts_queue)

(* contacts_queue_item; the first item of the queue is under way *)
ContactsQueueItem(w, item) ==
  LET v == [w EXCEPT !.c.contacts_queue = Append(@, item)]
  IN  IF w.c.contacts_queue = <<>> THEN ProcessContactsQueue(v) ELSE v

(* contacts_queue_head_ready: the contacts of the first item are prepared *)
QueueHeadReady ==
  LET q == c.contacts_queue
      w == ItemReady([World EXCEPT !.c.contacts_queue = Tail(@)], Head(q))
  IN  /\ q # <<>>
      /\ Become(ProcessContactsQueue(w))
      /\ UNCHANGED <<pending, recv_id, calls, wire, initial>>

(* Mutant: messages are added although the initial ones are to come. *)
MessageReceivedEarly(w, m) == ContactsQueueItem(w, m)

(* Mutant: a message that has no sender to prepare does not wait for others. *)
MessageReceivedAtOnce(w, m) == IF w.c.got_initial_messages THEN ItemReady(w, m) ELSE w

(* message_received_cb *)
MessageReceived(w, m) ==
  IF w.c.got_initial_messages THEN ContactsQueueItem(w, m) ELSE w

(* Mutant: messages are removed without waiting for those in the queue. *)
PendingMessagesRemovedAtOnce(w, m) == ItemReady(w, m)

(* pending_messages_removed_cb *)
PendingMessagesRemoved(w, m) ==
  IF w.c.got_initial_messages THEN ContactsQueueItem(w, m) ELSE w

(* Mutant: one message too few is counted. *)
GetPendingMessagesShort(w, m) ==
  LET v == [w EXCEPT !.c.got_initial_messages = TRUE,
                     !.c.n_preparing_pending_messages = Len(m.ids) - 1,
                     !.c.prepared = IF m.ids = <<>> THEN "yes" ELSE @]
  IN  FoldLeft(LAMBDA u, id : ContactsQueueItem(u, Msg("initial", <<id>>, 0)), v, m.ids)

(* get_pending_messages_cb *)
GetPendingMessages(w, m) ==
  LET v == [w EXCEPT !.c.got_initial_messages = TRUE,
                     !.c.n_preparing_pending_messages = Len(m.ids),
                     !.c.prepared = IF m.ids = <<>> THEN "yes" ELSE @]
  IN  FoldLeft(LAMBDA u, id : ContactsQueueItem(u, Msg("initial", <<id>>, 0)), v, m.ids)

GetPendingMessagesFailed(w) ==
  [w EXCEPT !.c.got_initial_messages = TRUE, !.c.prepared = "failed"]

(* Mutant: success is reported without going through the queue. *)
AcknowledgedAtOnce(w, m) ==
  [w EXCEPT !.acks[m.call].result = m.type]

(* acknowledge_pending_messages_cb *)
Acknowledged(w, m) ==
  IF m.type = "ok" THEN ContactsQueueItem(w, m)
  ELSE [w EXCEPT !.acks[m.call].result = "error"]

Deliver ==
  LET m == Head(wire)
  IN  /\ wire # <<>> /\ wire' = Tail(wire)
      /\ Become(CASE m.type = "received"        -> MessageReceived(World, m)
                  [] m.type = "removed"         -> PendingMessagesRemoved(World, m)
                  [] m.type = "pending"         -> GetPendingMessages(World, m)
                  [] m.type = "failed"          -> GetPendingMessagesFailed(World)
                  [] m.type \in {"ok", "error"} -> Acknowledged(World, m))
      /\ UNCHANGED <<pending, recv_id, calls, initial>>

(* tp_text_channel_ack_messages_async, _ack_message_async and
   _ack_all_pending_messages_async, for messages the client has seen, which
   may be gone by the time *)
AckMessages(ids) ==
  /\ c.valid /\ Len(acks) < MaxAcks
  /\ acks' = Append(acks, [ids |-> ids, result |-> "sent"])
  /\ calls' = Append(calls, Msg("ack", ids, Len(acks) + 1))
  /\ UNCHANGED <<pending, recv_id, wire, c, log, initial>>

(* The channel or the connection goes away: outstanding calls fail, signals
   stop, and an item that is being prepared completes with an error. *)
Invalidate ==
  /\ c.valid
  /\ LET w == IF c.asked /\ ~c.got_initial_messages THEN GetPendingMessagesFailed(World)
              ELSE World
     IN  c' = [w.c EXCEPT !.valid = FALSE]
  /\ calls' = <<>> /\ wire' = <<>>
  /\ LET queued == {i \in DOMAIN acks :
                      \E k \in DOMAIN c.contacts_queue : c.contacts_queue[k].call = i}
     IN  acks' = [i \in DOMAIN acks |->
                    IF acks[i].result = "sent" /\ i \notin queued
                    THEN [acks[i] EXCEPT !.result = "error"] ELSE acks[i]]
  /\ UNCHANGED <<pending, recv_id, log, initial>>

Next ==
  \/ TakeReceived \/ OtherClears \/ HandleCall
  \/ \E i \in DOMAIN pending : OtherAcknowledges(pending[i])
  \/ Prepare \/ Deliver \/ QueueHeadReady \/ Invalidate
  \/ \E i \in DOMAIN log : AckMessages(<<log[i]>>)
  \/ c.pending_messages # <<>> /\ AckMessages(c.pending_messages)

Spec == Init /\ [][Next]_vars

-----------------------------------------------------------------------------
TypeOK ==
  /\ pending \in Seq(Ids) /\ recv_id \in 0..MaxMessages
  /\ c.pending_messages \in Seq(Ids)
  /\ c.n_preparing_pending_messages \in Nat
  /\ c.prepared \in {"no", "yes", "failed"}
  /\ \A i \in DOMAIN acks : acks[i].result \in {"sent", "ok", "error"}

Quiet == calls = <<>> /\ wire = <<>> /\ c.contacts_queue = <<>>

(* When all that was sent has been handled, the client has exactly the pending
   messages of the connection manager, in the same order. *)
MirrorIsTrue == c.valid /\ c.prepared = "yes" /\ Quiet => c.pending_messages = pending

(* At every moment the client's messages are in the order they were received. *)
InOrder ==
  \A i, j \in DOMAIN c.pending_messages :
    i < j => c.pending_messages[i] < c.pending_messages[j]

(* No message is added twice, as an initial message and by a signal. *)
AddedOnce == \A i, j \in DOMAIN log : i # j => log[i] # log[j]

(* When an acknowledgement has succeeded the client has none of its messages
   any more: "to be sure messages are removed from pending_messages". *)
AckedIsRemoved ==
  \A i \in DOMAIN acks : acks[i].result = "ok" =>
    \A k \in DOMAIN acks[i].ids : ~Contains(c.pending_messages, acks[i].ids[k])

(* When the feature is ready all the messages that were pending at first are
   there, or have been. *)
ReadyHasInitial == c.prepared = "yes" => initial \subseteq ToSet(log)

(* An acknowledgement that succeeds took all its messages from the connection
   manager, and one that fails took none of them: they were gone, or stay
   until another acknowledgement. *)
AckIsWhole ==
  calls # <<>> /\ Head(calls).type = "ack" /\ calls' = Tail(calls) =>
    \/ pending' = pending
    \/ Cardinality(ToSet(pending)) - Cardinality(ToSet(pending')) = Cardinality(ToSet(Head(calls).ids))

(* Every acknowledgement ends, by success or failure, whatever happens to the
   channel. *)
AckReturns ==
  \A i \in 1..MaxAcks :
    (i <= Len(acks)) ~> (i <= Len(acks) /\ acks[i].result # "sent")
=============================================================================
