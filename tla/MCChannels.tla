------------------------------ MODULE MCChannels ------------------------------
(* Channels, at both ends: how a client finds out about a channel and leaves it,
   the pending messages and the chat states of a text channel, the members of a
   group, and a connection manager's chats, rooms, password prompts and room
   configurations.  They share no state, so a behaviour
   is one of any one of them, which `part' names. *)
EXTENDS TextChannel

VARIABLES part, chat_states, send_gone, closed, peer, chat_wire, clients, set, changes,
  svc, chan, kicked, group_changes, self, made, channel, ops, requests, replies, remote

chatVars == <<chat_states, send_gone, closed, peer, chat_wire, clients, set, changes>>
groupVars == <<svc, chan, kicked, group_changes>>
serviceVars == <<self, made>>
channelVars == <<channel, ops, requests, replies, remote>>

Chat == INSTANCE ChatStates WITH
  Members <- {"me", "bob"}, Self <- "me", Clients <- {1, 2}, MaxChanges <- 3,
  wire <- chat_wire, c <- clients

NewFlags == {"PROPERTIES", "MEMBERS_CHANGED_DETAILED", "CAN_ADD"}
GroupPlaces == {<<"member", "lp">>}

Group == INSTANCE GroupChannel WITH
  Handles <- {1, 2}, Owners <- {9}, Actors <- {1}, Reasons <- {"renamed"},
  FlagSets <- {NewFlags, {"PROPERTIES"}, {"MEMBERS_CHANGED_DETAILED"}},
  Places <- GroupPlaces, FirstSelf <- 1, SelfRemoval <- TRUE, ConnSelf <- 8,
  MaxChanges <- 2, changes <- group_changes

Chats == INSTANCE ServiceChannels WITH
  Kind <- "echo", Targets <- {1, 2}, Nick <- 5, Again <- FALSE, Patient <- TRUE,
  GivesUp <- FALSE, Overlap <- FALSE, Names <- {}, Values <- {},
  MaxMessages <- 3, MaxOps <- 7

Rooms == INSTANCE ServiceChannels WITH
  Kind <- "csh", Targets <- {1, 2}, Nick <- 1, Again <- FALSE, Patient <- TRUE,
  GivesUp <- FALSE, Overlap <- FALSE, Names <- {}, Values <- {},
  MaxMessages <- 0, MaxOps <- 6

Prompts == INSTANCE ServiceChannels WITH
  Kind <- "password", Targets <- {1}, Nick <- 5, Again <- FALSE, Patient <- TRUE,
  GivesUp <- FALSE, Overlap <- FALSE, Names <- {}, Values <- {},
  MaxMessages <- 0, MaxOps <- 8

Refused == INSTANCE ServiceChannels WITH
  Kind <- "password", Targets <- {1}, Nick <- 5, Again <- FALSE, Patient <- TRUE,
  GivesUp <- TRUE, Overlap <- FALSE, Names <- {}, Values <- {},
  MaxMessages <- 0, MaxOps <- 8

Config == INSTANCE ServiceChannels WITH
  Kind <- "config", Targets <- {1}, Nick <- 5, Again <- FALSE, Patient <- TRUE,
  GivesUp <- FALSE, Overlap <- FALSE, Names <- {"Title", "Limit"}, Values <- {"old", "new"},
  MaxMessages <- 0, MaxOps <- 6

(* A room that can be left and destroyed; a chat with a password in a manager
   without properties; and a channel with no target whose GetInterfaces fails. *)
Sort(contact, ifaces, answers, broken) ==
  [contact |-> contact, ifaces |-> ifaces, answers |-> answers, broken |-> broken]

All == {"ChannelType", "TargetHandleType", "TargetHandle", "TargetID", "Interfaces", "Initiator"}
Some == {"ChannelType", "TargetHandleType", "TargetHandle"}

Protected == Sort(TRUE, {"Password"}, {}, FALSE)

SortsOfChannels ==
  {Sort(TRUE, {"Group", "Destroyable"}, All, FALSE), Protected, Sort(FALSE, {}, Some, TRUE)}

Channel == INSTANCE ChannelClient WITH
  Sorts <- SortsOfChannels, Givens <- {All, Some}, MaxOps <- 2, MaxFlags <- 0,
  self <- channel, calls <- requests, wire <- replies, svc <- remote

Locked == INSTANCE ChannelClient WITH
  Sorts <- {Protected}, Givens <- {All, {}}, MaxOps <- 1, MaxFlags <- 2,
  self <- channel, calls <- requests, wire <- replies, svc <- remote

ASSUME SoundInstances ==
  /\ Chat!SoundConstants /\ Group!SoundConstants /\ Chats!SoundConstants
  /\ Rooms!SoundConstants /\ Prompts!SoundConstants /\ Refused!SoundConstants
  /\ Config!SoundConstants /\ Channel!SoundConstants /\ Locked!SoundConstants

NoService == self = 0 /\ made = 0
NoChannel == channel = 0 /\ ops = 0 /\ requests = 0 /\ replies = 0 /\ remote = 0

PlainGroup ==
  /\ svc.flags = NewFlags /\ svc.ids
  /\ svc.info[2].actor = 0 /\ ~chan.tooOld

(* Without immortal handles and without MemberIdentifiers alike there are no
   contacts: one of the two will do (_tp_channel_contacts_group_init). *)
OneWayTooOld == svc.props /\ ~svc.ids => ~chan.tooOld

ServiceInit ==
  \/ part = "chats" /\ Chats!Init
  \/ part = "rooms" /\ Rooms!Init
  \/ part = "prompts" /\ Prompts!Init
  \/ part = "prompts given up" /\ Refused!Init
  \/ part = "config" /\ Config!Init

MCInit ==
  /\ Init /\ Chat!Init /\ Group!Init
  /\ \/ part \in {"messages", "chat states"} /\ NoService /\ PlainGroup /\ NoChannel
     \/ part = "group" /\ OneWayTooOld /\ NoService /\ NoChannel
     \/ ServiceInit /\ PlainGroup /\ NoChannel
     \/ part = "channel" /\ Channel!Init /\ NoService /\ PlainGroup
     \/ part = "locked" /\ Locked!Init /\ NoService /\ PlainGroup

MessagesStep ==
  part = "messages" /\ Next /\ UNCHANGED <<part, chatVars, groupVars, serviceVars, channelVars>>
ChatStep ==
  part = "chat states" /\ Chat!Next /\ UNCHANGED <<part, vars, groupVars, serviceVars, channelVars>>
GroupStep ==
  part = "group" /\ Group!Next /\ UNCHANGED <<part, vars, chatVars, serviceVars, channelVars>>
ChannelStep ==
  /\ \/ part = "channel" /\ Channel!Next
     \/ part = "locked" /\ Locked!Next
  /\ UNCHANGED <<part, vars, chatVars, groupVars, serviceVars>>
ServiceStep ==
  /\ \/ part = "chats" /\ Chats!Next
     \/ part = "rooms" /\ Rooms!Next
     \/ part = "prompts" /\ Prompts!Next
     \/ part = "prompts given up" /\ Refused!Next
     \/ part = "config" /\ Config!Next
  /\ UNCHANGED <<part, vars, chatVars, groupVars, channelVars>>

MCNext == MessagesStep \/ ChatStep \/ GroupStep \/ ServiceStep \/ ChannelStep

MCSpec == MCInit /\ [][MCNext]_<<part, vars, chatVars, groupVars, serviceVars, channelVars>>

-----------------------------------------------------------------------------
(* The types of all parts. *)
TypesOK ==
  /\ part = "messages" => TypeOK
  /\ part = "chat states" => Chat!TypeOK
  /\ part = "group" => Group!TypeOK
  /\ part = "chats" => Chats!TypeOK
  /\ part = "rooms" => Rooms!TypeOK
  /\ part = "prompts" => Prompts!TypeOK
  /\ part = "prompts given up" => Refused!TypeOK
  /\ part = "config" => Config!TypeOK
  /\ part = "channel" => Channel!TypeOK
  /\ part = "locked" => Locked!TypeOK

(* However signals, replies, removals and the contacts queue cross, a client
   that has handled all that was sent has exactly the pending messages of the
   connection manager; they are always in the order they were received, none
   is added twice, none that was pending at first is missing, and what was
   acknowledged is removed.  Likewise it agrees with the mixin about every
   member's chat state, but who is gone for one may be inactive for the other.
   Closing a chat with messages pending loses none: it comes back with them marked
   as rescued, and whoever follows NewChannels and ChannelClosed knows exactly the
   chats on the bus (tp_base_channel_reopened). *)
MessagesMirrored ==
  /\ part = "messages" =>
       MirrorIsTrue /\ InOrder /\ AddedOnce /\ ReadyHasInitial /\ AckedIsRemoved
  /\ part = "chat states" => Chat!MirrorUpToGone
  /\ part = "chats" => Chats!MessagesSurvive /\ Chats!ChannelsMirrored

(* An acknowledgement is for all of its messages or for none, and reported
   truly.  Once a private chat is closed, a peer who has seen the user there was
   told that the user is gone, and one who has not was not
   (tp_message_mixin_maybe_send_gone).  A request for a channel, a prompt for the
   password and an UpdateConfiguration are each answered exactly once: the prompt
   with the password if and only if the client accepted it, the update only when
   its client has been told the new values, and one that is not done changes
   nothing; the assertions on the way hold (example_echo_2_im_manager_request,
   tp_simple_password_manager_prompt_common_async, update_cb).  Whoever is told
   that a channel was left, closed or destroyed may rely on it, and nobody is left
   waiting for a channel that is ready or gone (tp_channel_leave_async,
   tp_channel_close_async, tp_channel_destroy_async). *)
AnswersAreTrue ==
  [][/\ part = "messages" => AckIsWhole
     /\ part = "chat states" => Chat!PeerToldGone' /\ Chat!GoneOnlyIfNeeded
     /\ part = "chats" => Chats!RequestAnsweredOnce' /\ Chats!AssertionsHold'
     /\ part = "rooms" => Rooms!RequestAnsweredOnce' /\ Rooms!AssertionsHold'
     /\ part = "prompts" => Prompts!PromptsAnswered' /\ Prompts!ChannelsMirrored'
     /\ part = "prompts given up" => Refused!PromptsAnswered' /\ Refused!ChannelsMirrored'
     /\ part = "config" =>
          /\ Config!UpdatesAnswered' /\ Config!AssertionsHold'
          /\ Config!UpdateIsWhole
     /\ part = "channel" => /\ Channel!SuccessMeansGone' /\ Channel!NobodyForgotten'
                            /\ Channel!AssertionsHold'
     /\ part = "locked" => Locked!NobodyForgotten' /\ Locked!AssertionsHold']_<<
        part, vars, chatVars, serviceVars, channelVars>>

(* However the initial properties and the signals were interleaved, on the new
   or on the fallback path, a channel that has read everything agrees with the
   service about who is in which set, the flags, the self handle and the owners,
   and no contact is ever in two of the sets.  When the contacts queue is empty
   the tables of contacts say the same as the sets of handles
   (members_changed_prepared_cb and its siblings).  If the user was removed from
   the group and the channel was then closed, the channel is invalidated with the
   reason of the removal (tp_channel_closed_cb).  In the rooms of a connection
   manager the same holds of a user whom the server renames on entry
   (complete_join), and what the client knows of a room's configuration is true or
   is about to be told (tp_base_room_config_emit_properties_changed).  A channel
   that says it is ready knows its type, target, contact and interfaces, each as
   the manager has it (_tp_channel_continue_introspection), and once the password
   flags were read what it says of the password follows the manager's signals
   (password_flags_changed_cb). *)
GroupMirrored ==
  /\ part = "group" => /\ Group!GroupMirrors /\ Group!AttributesMirror
                       /\ Group!SetsDisjoint /\ Group!ContactsMirror
                       /\ Group!RemovalIsReported
  /\ part = "rooms" => Rooms!RoomIsRight /\ Rooms!ChannelsMirrored
  /\ part = "config" => Config!ConfigMirrored /\ Config!ChannelsMirrored
  /\ part = "channel" => Channel!ReadyMeansWhole
  /\ part = "locked" => Locked!ReadyMeansWhole /\ Locked!PasswordMirrored

(* "ignore the signal if we don't have the initial set yet", says
   tp_channel_handle_owners_changed_cb: no signal that arrives early fails an
   assertion of channel-group.c or channel-contacts.c. *)
EarlySignalsIgnored == Group!NoAssertionFails
=============================================================================
