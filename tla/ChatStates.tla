------------------------------ MODULE ChatStates ------------------------------
(***************************************************************************)
(* Chat states: TpMessageMixin (telepathy-glib/message-mixin.c) keeps the  *)
(* chat state of each member of a text channel, and the TpChannel of each  *)
(* client (channel.c) mirrors them: it listens to ChatStateChanged and     *)
(* asks once for the ChatStates property.  The mixin also tells the peer   *)
(* of a private chat that the user is gone when the channel is closed.     *)
(***************************************************************************)
EXTENDS Naturals, Sequences

CONSTANTS
  Members,    \* handles of the members of the channel
  Self,       \* the user's
  Clients,    \* TpChannels of this channel, in any processes
  MaxChanges  \* bound: changes of a state and messages sent

SoundConstants == Self \in Members /\ MaxChanges \in Nat

VARIABLES
  chat_states,  \* of the mixin: a function from some of the members
  send_gone,    \* of the mixin
  closed,       \* maybe_send_gone was called and the channel is closed
  peer,         \* what the peer was last told of the user
  wire,         \* what is on its way to each client
  c,            \* each client: asked, calling, prepared, chat_states
  set,          \* (history) the state each member was last changed to
  changes       \* number of changes made

vars == <<chat_states, send_gone, closed, peer, wire, c, set, changes>>

States == {"inactive", "composing", "gone"}

Init ==
  /\ chat_states = <<>> /\ send_gone = FALSE /\ closed = FALSE /\ peer = "none"
  /\ wire = [k \in Clients |-> <<>>]
  /\ c = [k \in Clients |-> [asked |-> FALSE, calling |-> FALSE, prepared |-> FALSE, chat_states |-> <<>>]]
  /\ set = [h \in Members |-> "inactive"] /\ changes = 0

(* lookup_current_chat_state, and tp_channel_get_chat_state in the client *)
LookupCurrentChatState(table, h) == IF h \in DOMAIN table THEN table[h] ELSE "inactive"

(* tp_g_hash_table_update *)
Update(table, with) ==
  [h \in DOMAIN table \cup DOMAIN with |-> IF h \in DOMAIN with THEN with[h] ELSE table[h]]

Put(table, h, state) == Update(table, [x \in {h} |-> state])

(* Mutant: inactive members are listed with no state. *)
NewChatStatesZero(h, state) == Put(chat_states, h, IF state = "inactive" THEN "none" ELSE state)

(* Mutant: a member who leaves keeps the state it had. *)
NewChatStatesKeepsGone(h, state) ==
  IF state = "inactive" THEN [x \in DOMAIN chat_states \ {h} |-> chat_states[x]]
  ELSE IF state = "gone" THEN chat_states ELSE Put(chat_states, h, state)

NewChatStates(h, state) ==
  IF state \in {"inactive", "gone"} THEN [x \in DOMAIN chat_states \ {h} |-> chat_states[x]]
  ELSE Put(chat_states, h, state)

(* tp_message_mixin_change_chat_state *)
ChangeChatState(h, state) ==
  /\ set' = [set EXCEPT ![h] = state]
  /\ IF state = LookupCurrentChatState(chat_states, h)
     THEN UNCHANGED <<chat_states, wire>>
     ELSE /\ chat_states' = NewChatStates(h, state)
          /\ wire' = [k \in Clients |->
                        IF c[k].asked
                        THEN Append(wire[k], [type |-> "changed", table |-> [x \in {h} |-> state]])
                        ELSE wire[k]]

Count == ~closed /\ changes < MaxChanges /\ changes' = changes + 1

(* The connection manager learns the state of a member. *)
MemberChanges(h, state) ==
  /\ Count /\ h # Self
  /\ ChangeChatState(h, state)
  /\ UNCHANGED <<send_gone, closed, peer, c>>

(* tp_message_mixin_set_chat_state_async; it changes nothing if the state is
   refused or cannot be sent *)
SetChatState(state) ==
  /\ Count /\ state # "gone"
  /\ peer' = state /\ send_gone' = TRUE
  /\ ChangeChatState(Self, state)
  /\ UNCHANGED <<closed, c>>

(* Mutant: a message that was sent is not remembered. *)
SentForgets ==
  Count /\ peer' = "active" /\ UNCHANGED <<chat_states, send_gone, closed, wire, c, set>>

(* tp_message_mixin_sent, without an error: the peer sees the user is there *)
Sent ==
  /\ Count
  /\ peer' = "active" /\ send_gone' = TRUE
  /\ UNCHANGED <<chat_states, closed, wire, c, set>>

(* Mutant: the peer is told in any case. *)
MaybeSendGoneAlways ==
  /\ ~closed /\ closed' = TRUE /\ peer' = "gone" /\ send_gone' = FALSE
  /\ UNCHANGED <<chat_states, wire, c, set, changes>>

(* tp_message_mixin_maybe_send_gone, as a private chat is closed *)
MaybeSendGone ==
  /\ ~closed /\ closed' = TRUE
  /\ peer' = (IF send_gone THEN "gone" ELSE peer) /\ send_gone' = FALSE
  /\ UNCHANGED <<chat_states, wire, c, set, changes>>

(* The channel comes back with its messages: the same mixin, open again. *)
Reopened ==
  /\ closed /\ changes < MaxChanges /\ closed' = FALSE
  /\ changes' = changes + 1
  /\ UNCHANGED <<chat_states, send_gone, peer, wire, c, set>>

(* tp_channel_prepare_chat_states_async *)
Prepare(k) ==
  /\ ~c[k].asked
  /\ c' = [c EXCEPT ![k].asked = TRUE, ![k].calling = TRUE]
  /\ UNCHANGED <<chat_states, send_gone, closed, peer, wire, set, changes>>

(* tp_message_mixin_chat_state_get_dbus_property answers the Get call *)
ReturnChatStates(k) ==
  /\ c[k].calling
  /\ c' = [c EXCEPT ![k].calling = FALSE]
  /\ wire' = [wire EXCEPT ![k] = Append(@, [type |-> "states", table |-> chat_states])]
  /\ UNCHANGED <<chat_states, send_gone, closed, peer, set, changes>>

(* tp_channel_get_initial_chat_states_cb *)
GetInitialChatStates(k, table) ==
  [c EXCEPT ![k].prepared = TRUE, ![k].chat_states = Update(@, table)]

(* tp_channel_chat_state_changed_cb *)
ChatStateChanged(k, table) == [c EXCEPT ![k].chat_states = Update(@, table)]

Deliver(k) ==
  /\ wire[k] # <<>>
  /\ wire' = [wire EXCEPT ![k] = Tail(@)]
  /\ LET m == Head(wire[k])
     IN  c' = IF m.type = "states" THEN GetInitialChatStates(k, m.table)
              ELSE ChatStateChanged(k, m.table)
  /\ UNCHANGED <<chat_states, send_gone, closed, peer, set, changes>>

Next ==
  \/ \E h \in Members, state \in States : MemberChanges(h, state)
  \/ \E state \in States : SetChatState(state)
  \/ Sent \/ MaybeSendGone \/ Reopened
  \/ \E k \in Clients : Prepare(k) \/ ReturnChatStates(k) \/ Deliver(k)

Spec == Init /\ [][Next]_vars

-----------------------------------------------------------------------------
TypeOK ==
  /\ \A h \in DOMAIN chat_states : chat_states[h] \in States
  /\ peer \in States \cup {"none", "active"} /\ send_gone \in BOOLEAN
  /\ \A k \in Clients : DOMAIN c[k].chat_states \subseteq Members

Quiet(k) == c[k].prepared /\ wire[k] = <<>>

(* When all that was sent has been handled, a client and the mixin agree about
   every member who takes part: who is gone for one is inactive for the other
   at most. *)
MirrorUpToGone ==
  \A k \in Clients, h \in Members :
    LET seen == LookupCurrentChatState(c[k].chat_states, h)
        is   == LookupCurrentChatState(chat_states, h)
    IN  Quiet(k) => seen = is \/ (seen = "gone" /\ is = "inactive")

(* "Send GONE if needed": once a private chat is closed, a peer who has seen the
   user there has been told the user is gone, however often it was reopened. *)
PeerToldGone == closed => peer \in {"none", "gone"}

(* Of every step: a peer who has seen nothing of the user is not told either. *)
GoneOnlyIfNeeded == peer = "none" => peer' # "gone"
=============================================================================
