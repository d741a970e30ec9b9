------------------------------- MODULE MCRoster -------------------------------
(* Contacts and contact lists: the TpBaseContactList of a connection manager,
   with the requests for its channels and the methods called on it; the contact
   list of a TpConnection that follows it; the TpContacts of a connection; and the
   contact list of the example connection manager, the subclass itself.
   A behaviour is one of any one of them, which `part' names. *)
EXTENDS Integers, Sequences

VARIABLES part, l, data, ops, asked, seen, used, c, wire, calls,
  cx, ct, tracking, kept, failed, value, invalidated, changes, self, made

listVars == <<l, data, ops, asked, seen, used>>
clientVars == <<listVars, c, wire, calls>>
contactVars == <<cx, ct, tracking, kept, failed, value, invalidated, changes>>
exampleVars == <<self, made>>

ListMethods == {"Fail", "CreateChannel", "EnsureChannel", "RequestSubscription", "RemoveContacts",
                "BlockContacts", "UnblockContacts", "RequestBlockedContacts",
                "AddMembers", "RemoveMembers"}
GroupMethods == {"Fail", "CreateChannel", "EnsureChannel", "AddToGroup", "RemoveFromGroup",
                 "SetGroupMembers", "SetContactGroups", "RemoveGroup", "RenameGroup", "Close",
                 "AddMembers", "RemoveMembers"}

Lists == INSTANCE BaseContactList WITH
  Contacts <- {1, 2}, Groups <- {},
  States <- {<<"YES", "ASK">>, <<"ASK", "YES">>, <<"REMOVED_REMOTELY", "NO">>},
  Tokens <- {"t1", "t2"}, CanBlock <- TRUE, Persists <- TRUE, NativeRename <- TRUE,
  CountGroups <- TRUE, Used <- ListMethods, MaxChanges <- 1

Native == INSTANCE BaseContactList WITH
  Contacts <- {1, 2}, Groups <- {"g", "h"}, States <- {},
  Tokens <- {"t1", "t2"}, CanBlock <- FALSE, Persists <- FALSE, NativeRename <- TRUE,
  CountGroups <- TRUE, Used <- GroupMethods, MaxChanges <- 1

Emulated == INSTANCE BaseContactList WITH
  Contacts <- {1, 2}, Groups <- {"g", "h"}, States <- {},
  Tokens <- {"t1", "t2"}, CanBlock <- FALSE, Persists <- FALSE, NativeRename <- FALSE,
  CountGroups <- TRUE, Used <- GroupMethods, MaxChanges <- 1

Roster == INSTANCE ContactList WITH
  Contacts <- {1, 2}, Groups <- {}, States <- {<<"YES", "ASK">>, <<"NO", "YES">>},
  CanBlock <- FALSE, NativeRename <- FALSE, MaxChanges <- 3, Features <- {"list"}, Held <- {2}

Grouped == INSTANCE ContactList WITH
  Contacts <- {1}, Groups <- {"g", "h"}, States <- {},
  CanBlock <- FALSE, NativeRename <- TRUE, MaxChanges <- 4, Features <- {"groups"}, Held <- {}

Blocking == INSTANCE ContactList WITH
  Contacts <- {1, 2}, Groups <- {}, States <- {},
  CanBlock <- TRUE, NativeRename <- FALSE, MaxChanges <- 4, Features <- {"blocking"}, Held <- {2}

Request(k, hs, features, w) == [kind |-> k, hs |-> hs, features |-> features, weak |-> w]

NewContacts == INSTANCE Contacts WITH
  Handles <- {1, 2, 3}, Valid <- {1, 2}, Features <- {"ALIAS", "AVATAR_TOKEN"}, HasContacts <- TRUE,
  Ifaces <- {"ALIAS", "AVATAR_TOKEN"}, AttrIfaces <- {"AVATAR_TOKEN"}, Existing <- {2},
  Unknown <- {"AVATAR_TOKEN"}, Refused <- {}, MayDie <- FALSE, MaxChanges <- 1,
  Requests <- << Request("by handle", <<1, 3, 2>>, {"AVATAR_TOKEN", "ALIAS"}, TRUE),
                 Request("by id", <<3, 1>>, {"ALIAS"}, FALSE),
                 Request("upgrade", <<2>>, {"AVATAR_TOKEN"}, FALSE) >>

OldContacts == INSTANCE Contacts WITH
  Handles <- {1, 2, 3}, Valid <- {1, 2}, Features <- {"ALIAS", "CAPABILITIES"}, HasContacts <- FALSE,
  Ifaces <- {"ALIAS"}, AttrIfaces <- {}, Existing <- {}, Unknown <- {},
  Refused <- {"ALIAS", "RequestAliases"}, MayDie <- TRUE, MaxChanges <- 1,
  Requests <- << Request("by handle", <<1, 3, 2>>, {"ALIAS"}, TRUE),
                 Request("by id", <<3, 1, 2>>, {"ALIAS", "CAPABILITIES"}, TRUE) >>

Server == INSTANCE ExampleContactList WITH
  Contacts <- {"guillaume", "helen"}, Friends <- {"guillaume"}, Asked <- {"helen"}, Wanting <- {},
  Hated <- {}, Cancelling <- {}, Available <- {"guillaume", "helen"}, Me <- "helen",
  Tags <- {"Cambridge", "Montreal"},
  RosterTags <- [f \in {"guillaume", "helen"} |-> IF f = "helen" THEN {} ELSE {"Cambridge"}],
  MaxCalls <- 3

Strangers == INSTANCE ExampleContactList WITH
  Contacts <- {"wim", "me@cancel"}, Friends <- {}, Asked <- {}, Wanting <- {"wim"},
  Hated <- {"wim"}, Cancelling <- {"me@cancel"}, Available <- {}, Me <- "wim",
  Tags <- {"Cambridge"}, RosterTags <- << >>, MaxCalls <- 3

(* How identifiers are normalised: to "" if they are not valid. *)
Normalized ==
  [x \in {"a", "A", "b", "?"} |-> CASE x = "A" -> "a" [] x = "?" -> "" [] OTHER -> x]
SomeIds == {<< >>, <<"a", "A">>, <<"b", "?">>, <<"A", "b">>}

IntSets == INSTANCE Handles WITH
  Kind <- "sets", Bits <- 2, GuintMax <- 5, MaxRight <- 2, MaxHeap <- 0, Elements <- {}, IdLists <-
  {}, Normal <- << >>, Static <- << >>, Async <- FALSE, MaxCalls <- 0

Heap == INSTANCE Handles WITH
  Kind <- "heap", Bits <- 1, GuintMax <- 0, MaxRight <- 0, MaxHeap <- 5, Elements <- 1..6, IdLists
  <- {}, Normal <- << >>, Static <- << >>, Async <- FALSE, MaxCalls <- 0

Names == INSTANCE Handles WITH
  Kind <- "repo", Bits <- 1, GuintMax <- 0, MaxRight <- 0, MaxHeap <- 0, Elements <- {}, IdLists <-
  SomeIds, Normal <- Normalized, Static <- << >>, Async <- FALSE, MaxCalls <- 3

AsyncNames == INSTANCE Handles WITH
  Kind <- "repo", Bits <- 1, GuintMax <- 0, MaxRight <- 0, MaxHeap <- 0, Elements <- {}, IdLists <-
  SomeIds, Normal <- Normalized, Static <- << >>, Async <- TRUE, MaxCalls <- 2

StaticNames == INSTANCE Handles WITH
  Kind <- "repo", Bits <- 1, GuintMax <- 0, MaxRight <- 0, MaxHeap <- 0, Elements <- {}, IdLists <-
  {<<"a", "b">>, <<"b", "?">>}, Normal <- Normalized, Static <- <<"a", "b">>, Async <- FALSE,
  MaxCalls <- 3

ASSUME SoundInstances ==
  /\ IntSets!SoundConstants /\ Heap!SoundConstants /\ Names!SoundConstants
  /\ AsyncNames!SoundConstants /\ StaticNames!SoundConstants
  /\ Server!SoundConstants /\ Strangers!SoundConstants
  /\ Lists!SoundConstants /\ Native!SoundConstants /\ Emulated!SoundConstants
  /\ Roster!SoundConstants /\ Grouped!SoundConstants /\ Blocking!SoundConstants
  /\ NewContacts!SoundConstants /\ OldContacts!SoundConstants

(* The variables of a part that is not there. *)
NoList == l = 0 /\ data = 0 /\ ops = 0 /\ asked = 0 /\ seen = 0 /\ used = 0
NoClient == c = 0 /\ wire = << >> /\ calls = {}
NoContacts ==
  /\ cx = 0 /\ ct = 0 /\ tracking = 0 /\ kept = 0 /\ failed = 0 /\ value = 0
  /\ invalidated = 0 /\ changes = 0

NoExample == self = 0 /\ made = 0

ListInit ==
  /\ NoExample
  /\ NoClient /\ NoContacts
  /\ \/ part = "lists" /\ Lists!Init
     \/ part = "native groups" /\ Native!Init
     \/ part = "emulated groups" /\ Emulated!Init

ClientInit ==
  /\ NoExample
  /\ NoContacts
  /\ \/ part = "roster" /\ Roster!Init
     \/ part = "client groups" /\ Grouped!Init
     \/ part = "blocking" /\ Blocking!Init

ContactInit ==
  /\ NoExample
  /\ NoList /\ c = 0
  /\ \/ part = "contacts" /\ NewContacts!Init
     \/ part = "old contacts" /\ OldContacts!Init

ExampleInit ==
  /\ NoList /\ NoClient /\ NoContacts
  /\ \/ part = "server" /\ Server!Init
     \/ part = "strangers" /\ Strangers!Init
     \/ part = "sets" /\ IntSets!Init
     \/ part = "heap" /\ Heap!Init
     \/ part = "handles" /\ Names!Init
     \/ part = "asynchronous handles" /\ AsyncNames!Init
     \/ part = "static handles" /\ StaticNames!Init

MCInit == ListInit \/ ClientInit \/ ContactInit \/ ExampleInit

ListStep ==
  /\ UNCHANGED <<part, c, wire, calls, contactVars, exampleVars>>
  /\ \/ part = "lists" /\ Lists!Next
     \/ part = "native groups" /\ Native!Next
     \/ part = "emulated groups" /\ Emulated!Next

ClientStep ==
  /\ UNCHANGED <<part, contactVars, exampleVars>>
  /\ \/ part = "roster" /\ Roster!Next
     \/ part = "client groups" /\ Grouped!Next
     \/ part = "blocking" /\ Blocking!Next

ContactStep ==
  /\ UNCHANGED <<part, listVars, c, exampleVars>>
  /\ \/ part = "contacts" /\ NewContacts!Next
     \/ part = "old contacts" /\ OldContacts!Next

ExampleStep ==
  /\ UNCHANGED <<part, clientVars, contactVars>>
  /\ \/ part = "server" /\ Server!Next
     \/ part = "strangers" /\ Strangers!Next
     \/ part = "sets" /\ IntSets!Next
     \/ part = "heap" /\ Heap!Next
     \/ part = "handles" /\ Names!Next
     \/ part = "asynchronous handles" /\ AsyncNames!Next
     \/ part = "static handles" /\ StaticNames!Next

MCNext == ListStep \/ ClientStep \/ ContactStep \/ ExampleStep

MCSpec == MCInit /\ [][MCNext]_<<part, clientVars, contactVars, exampleVars>>

-----------------------------------------------------------------------------
(* The types of all parts. *)
TypesOK ==
  /\ part = "lists" => Lists!TypeOK
  /\ part = "native groups" => Native!TypeOK
  /\ part = "emulated groups" => Emulated!TypeOK
  /\ part = "roster" => Roster!TypeOK
  /\ part = "client groups" => Grouped!TypeOK
  /\ part = "blocking" => Blocking!TypeOK
  /\ part = "contacts" => NewContacts!TypeOK
  /\ part = "old contacts" => OldContacts!TypeOK
  /\ part = "server" => Server!TypeOK
  /\ part = "strangers" => Strangers!TypeOK
  /\ part = "sets" => IntSets!TypeOK
  /\ part = "heap" => Heap!TypeOK
  /\ part = "handles" => Names!TypeOK
  /\ part = "asynchronous handles" => AsyncNames!TypeOK
  /\ part = "static handles" => StaticNames!TypeOK

(* Whatever the subclass does and is asked to do, a TpBaseContactList that has
   received its list has in its list and group channels exactly the contacts
   that the subclass's data calls for, and a D-Bus client that only follows the
   signals knows all of the data.  A TpConnection that has handled everything the
   manager sent has the manager's contacts, the state of its list and the
   contacts' subscription states, but for contacts with two changes in the queue at
   a time; its groups, each once but for those that got their name by a rename; and
   its blocked contacts, each once, who know that they are blocked.  Its CONTACT_LIST
   is not ready with a list in state SUCCESS and no contacts, unless that state came
   between the preparation and its idle callback.  And the clients of the example manager were told what its list would
   say now: states, groups, blocked contacts and presences, but for the contacts
   that it adds or drops silently. *)
ListMirrored ==
  /\ part = "lists" => Lists!ChannelsMirror /\ Lists!ListenerKnows
  /\ part = "native groups" => Native!ChannelsMirror /\ Native!ListenerKnows
  /\ part = "emulated groups" => Emulated!ChannelsMirror /\ Emulated!ListenerKnows
  /\ part = "roster" => Roster!RosterMirrored /\ Roster!StatesMirrored /\ Roster!SuccessHasRoster
  /\ part = "client groups" => Grouped!GroupsMirrored
  /\ part = "blocking" => Blocking!BlockedMirrored
  /\ part = "server" => Server!ListIsTold /\ Server!PresenceIsTold /\ Server!OneStateEach
  /\ part = "strangers" => Strangers!ListIsTold /\ Strangers!PresenceIsTold /\ Strangers!OneStateEach

(* Every channel request and every method call on the contact list is answered
   once, and kept until then, though the list may fail, the connection go away
   and the subclass's methods fail (fail_channel_requests, announce_channel); all
   but the requests for channels that come after the list has failed. *)
ListAnswers ==
  /\ part = "lists" => Lists!AnsweredOrKept
  /\ part = "native groups" => Native!AnsweredOrKept
  /\ part = "emulated groups" => Emulated!AnsweredOrKept

(* A request for contacts calls back exactly once, unless its weak object died, and
   never with a contact whose identifier is not known. When all is handled, every
   feature that a TpContact says it has, has the value that it has at the manager,
   whichever of the contexts and signals brought it. Whatever is done to them, the
   sets of handles are the sets that they should be, and TpHeap gives its elements
   in order, unless one was removed from its inside; an identifier has one handle,
   and requests for handles are answered once, all or nothing. *)
ContactsAreRight ==
  /\ part = "contacts" =>
       NewContacts!CalledOnce /\ NewContacts!DeliveredHaveIds /\ NewContacts!ValuesMirror
  /\ part = "old contacts" =>
       OldContacts!CalledOnce /\ OldContacts!DeliveredHaveIds /\ OldContacts!ValuesMirror
  /\ part = "sets" => IntSets!SetsAreRight
  /\ part = "heap" => Heap!HeapIsOrdered
  /\ part = "handles" => Names!OneHandleEach /\ Names!RequestsAnswered
  /\ part = "asynchronous handles" => AsyncNames!OneHandleEach /\ AsyncNames!RequestsAnswered
  /\ part = "static handles" => StaticNames!OneHandleEach /\ StaticNames!RequestsAnswered

(* A request that succeeds gives the contacts of all valid handles or identifiers,
   identifiers in their order, with all features that can be had. And a handle keeps
   its identifier for ever. *)
RequestsDeliverAll ==
  [][/\ part = "contacts" => NewContacts!DeliversAll
     /\ part = "old contacts" => OldContacts!DeliversAll
     /\ part = "handles" => Names!HandlesArePermanent
     /\ part = "asynchronous handles" => AsyncNames!HandlesArePermanent]_<<part, contactVars, exampleVars>>
=============================================================================
