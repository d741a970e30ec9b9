----------------------------- MODULE ContactList -----------------------------
(***************************************************************************)
(* The contact list, the groups and the blocked contacts of a TpConnection *)
(* (connection-contact-list.c), as they follow those of a connection       *)
(* manager that uses TpBaseContactList.  Signals and replies reach the     *)
(* client in the order the manager sends them.                             *)
(*                                                                         *)
(* `c` is what TpConnection keeps.  Its handlers are operators on `c`.     *)
(***************************************************************************)
EXTENDS Integers, FiniteSets, SequencesExt

CONSTANTS Contacts, Groups, States, CanBlock, NativeRename, MaxChanges,
          Features,    \* the features that the application prepares
          Held         \* contacts to which the application keeps a reference

VARIABLES l, data, ops, asked, seen, used,   \* those of BaseContactList
          c, wire, calls

serviceVars == <<l, data, ops, asked, seen, used>>
vars == <<serviceVars, c, wire, calls>>

Service == INSTANCE BaseContactList WITH
  Tokens <- {"client"}, Persists <- FALSE, CountGroups <- TRUE,
  Used <- {"Fail", "RequestBlockedContacts"}

SoundConstants ==
  Service!SoundConstants /\ Features \subseteq {"list", "groups", "blocking"} /\ Held \subseteq Contacts

NewContact == [st |-> <<"UNKNOWN", "UNKNOWN">>, blocked |-> FALSE]

NewClient ==
  [prep |-> [f \in {"props", "list", "groups", "blocking"} |-> "no"],
   props_fetched |-> FALSE, state |-> "NONE",
   roster_fetched |-> FALSE, roster |-> {}, queue |-> << >>,
   contacts |-> [h \in Held |-> NewContact], bound |-> FALSE,
   groups_fetched |-> FALSE, groups |-> << >>,
   blocked_fetched |-> FALSE, blocked |-> << >>, blocked_queue |-> << >>,
   upgrading |-> FALSE, blocked_upgrading |-> FALSE,
   \* What properties make exceptions of: contacts with two changes waiting in
   \* the queue, groups named by a rename, a roster nobody fetches.
   late |-> {}, renamed |-> {}, missed |-> FALSE]

-----------------------------------------------------------------------------
(***************************************************************************)
(* TpContact objects: one exists while something has a reference to it.    *)
(***************************************************************************)
HeadOf(q, none) == IF q = << >> THEN none ELSE Head(q)

Referenced(x) ==
  x.roster \cup Range(x.blocked) \cup Held
    \cup HeadOf(x.queue, [new |-> {}]).new
    \cup HeadOf(x.blocked_queue, [contacts |-> {}]).contacts

Unref(x) == [x EXCEPT !.contacts = [h \in DOMAIN @ \cap Referenced(x) |-> @[h]]]

EnsureContacts(x, S) ==
  [x EXCEPT !.contacts = [h \in DOMAIN @ \cup S |->
     IF h \in DOMAIN @ THEN @[h] ELSE NewContact]]

SetStates(x, S, states) ==
  [x EXCEPT !.contacts = [h \in DOMAIN @ |-> IF h \in S THEN [@[h] EXCEPT !.st = states[h]] ELSE @[h]]]

SetBlocked(x, S, value) ==
  [x EXCEPT !.contacts =
     [h \in DOMAIN @ |-> IF h \in S THEN [@[h] EXCEPT !.blocked = value] ELSE @[h]]]

-----------------------------------------------------------------------------
(***************************************************************************)
(* ContactsChanged: a queue, whose head's new contacts are upgraded.       *)
(***************************************************************************)
(* Mutant: the contacts that the item removes stay in the roster. *)
PopRosterKeeping(x, item) ==
  Unref([x EXCEPT !.roster = @ \cup item.new, !.queue = Tail(@), !.upgrading = FALSE])

PopRoster(x, item) ==
  Unref([x EXCEPT !.roster = (@ \ item.removals) \cup item.new, !.queue = Tail(@), !.upgrading = FALSE])

StartUpgrade(x, new) ==
  SetStates(EnsureContacts([x EXCEPT !.queue[1].new = new, !.upgrading = TRUE], new),
            new, Head(x.queue).changes)

RECURSIVE ProcessQueuedContactsChanged(_)
ContactsChangedHeadReady(x) == ProcessQueuedContactsChanged(PopRoster(x, Head(x.queue)))
ProcessQueuedContactsChanged(x) ==
  IF x.queue = << >> THEN x
  ELSE IF DOMAIN Head(x.queue).changes \subseteq x.roster THEN ContactsChangedHeadReady(x)
  ELSE StartUpgrade(x, DOMAIN Head(x.queue).changes \ x.roster)

(* The contacts that items behind the head of the queue change. *)
AwaitingTheirTurn(q) == UNION {DOMAIN q[i].changes : i \in DOMAIN q \ {1}}

QueueContactsChanged(x, sig) ==
  [x EXCEPT !.queue = Append(@, [changes |-> sig.changes, removals |-> sig.removals, new |-> {}]),
            !.late = @ \cup (DOMAIN sig.changes \cap AwaitingTheirTurn(x.queue))]

ContactsChangedWithId(x, sig) ==
  IF ~x.roster_fetched THEN x
  ELSE IF x.queue # << >> THEN QueueContactsChanged(x, sig)
  ELSE ProcessQueuedContactsChanged(QueueContactsChanged(x, sig))

(***************************************************************************)
(* The TpContacts themselves listen to the older signal, which follows.    *)
(***************************************************************************)
ContactsChanged(x, sig) ==
  IF ~x.bound THEN x
  ELSE SetStates(SetStates(x, DOMAIN sig.changes, sig.changes),
                 sig.removals, [h \in sig.removals |-> <<"NO", "NO">>])

(***************************************************************************)
(* Preparing CONTACT_LIST: the properties, then the roster if the manager  *)
(* has it; otherwise when it says so, once the feature is prepared.        *)
(***************************************************************************)
GotContactListAttributes(x, reply) ==
  IF reply.error THEN [x EXCEPT !.state = "FAILURE", !.prep["list"] = IF @ = "ready" THEN @ ELSE "failing"]
  ELSE SetStates(
         EnsureContacts(
           [x EXCEPT !.roster_fetched = TRUE, !.roster = DOMAIN reply.states, !.state = "SUCCESS",
                     !.prep["list"] = IF @ = "ready" THEN @ ELSE "idle"],
           DOMAIN reply.states),
         DOMAIN reply.states, reply.states)

FetchesRoster(x, state) ==
  x.props_fetched /\ state # x.state /\ state = "SUCCESS" /\ x.prep["list"] = "ready"

ContactListStateChanged(x, state) ==
  IF ~x.props_fetched THEN x
  ELSE IF FetchesRoster(x, state) THEN [x EXCEPT !.bound = TRUE]
  ELSE [x EXCEPT !.state = state, !.missed = @ \/ (state = "SUCCESS" /\ x.prep["list"] = "idle")]

PrepareContactListProps(x, reply) ==
  IF reply.error THEN [x EXCEPT !.props_fetched = TRUE, !.prep["props"] = "failing"]
  ELSE [x EXCEPT !.props_fetched = TRUE, !.state = reply.state, !.prep["props"] = "idle"]

-----------------------------------------------------------------------------
(***************************************************************************)
(* Groups: an array of names.  Removing one moves the last to its place.   *)
(***************************************************************************)
RemoveFast(names, name) ==
  IF name \notin Range(names) THEN names
  ELSE LET i == SelectInSeq(names, LAMBDA n : n = name)
       IN SubSeq([names EXCEPT ![i] = Last(names)], 1, Len(names) - 1)

GroupsSignal(x, sig) ==
  IF ~x.groups_fetched THEN x
  ELSE CASE sig.type = "GroupsCreated" -> [x EXCEPT !.groups = @ \o SetToSeq(sig.names)]
         [] sig.type = "GroupsRemoved" ->
              [x EXCEPT !.groups = FoldSet(LAMBDA n, names : RemoveFast(names, n), @, sig.names)]
         [] sig.type = "GroupRenamed" ->
              [x EXCEPT !.groups = Append(RemoveFast(@, sig.old), sig.new), !.renamed = @ \cup {sig.new}]

PrepareContactGroups(x, reply) ==
  IF reply.error THEN [x EXCEPT !.prep["groups"] = "failing"]
  ELSE [x EXCEPT !.groups_fetched = TRUE, !.groups = @ \o SetToSeq(reply.names), !.prep["groups"] = "idle"]

-----------------------------------------------------------------------------
(***************************************************************************)
(* Blocked contacts: a queue like that of the roster.  The first item is   *)
(* the reply to RequestBlockedContacts, and completes the preparation.     *)
(***************************************************************************)
BlockedUpgraded(x, item) ==
  [x EXCEPT !.blocked = FoldSet(LAMBDA h, s : RemoveFirst(s, h), @ \o SetToSeq(item.added), item.removed)]

PrepareAll(x, item) ==
  IF ~item.result THEN x
  ELSE [x EXCEPT !.prep["blocking"] = "idle",
                 !.contacts = [h \in DOMAIN @ |-> [@[h] EXCEPT !.blocked = h \in Range(x.blocked)]]]

PopBlocked(x) ==
  Unref([PrepareAll(x, Head(x.blocked_queue)) EXCEPT !.blocked_queue = Tail(@), !.blocked_upgrading = FALSE])

StartBlockedUpgrade(x, item) ==
  SetBlocked(SetBlocked(
    EnsureContacts([x EXCEPT !.blocked_queue[1].contacts = item.added \cup item.removed,
                             !.blocked_upgrading = TRUE], item.added \cup item.removed),
    item.added, TRUE), item.removed, FALSE)

RECURSIVE ProcessQueuedBlockedChanged(_)
BlockedChangedHeadReady(x) == ProcessQueuedBlockedChanged(PopBlocked(x))
ProcessQueuedBlockedChanged(x) ==
  IF x.blocked_queue = << >> THEN x
  ELSE IF Head(x.blocked_queue).added \cup Head(x.blocked_queue).removed = {}
       THEN BlockedChangedHeadReady(x)
  ELSE StartBlockedUpgrade(x, Head(x.blocked_queue))

AddToBlockedChangedQueue(x, added, removed, result) ==
  LET y == [x EXCEPT !.blocked_queue = Append(@,
              [added |-> added, removed |-> removed, contacts |-> {}, result |-> result])]
  IN IF x.blocked_queue = << >> THEN ProcessQueuedBlockedChanged(y) ELSE y

RequestBlockedContactsReply(x, reply) ==
  IF reply.error THEN [x EXCEPT !.blocked_fetched = TRUE, !.prep["blocking"] = "failing"]
  ELSE AddToBlockedChangedQueue([x EXCEPT !.blocked_fetched = TRUE], reply.blocked, {}, TRUE)

BlockedContactsChanged(x, sig) ==
  IF ~x.blocked_fetched THEN x
  ELSE AddToBlockedChangedQueue(x, sig.blocked, sig.unblocked, FALSE)

-----------------------------------------------------------------------------
Init == Service!Init /\ c = NewClient /\ wire = << >> /\ calls = {}

(***************************************************************************)
(* What the manager does, and the messages it sends.                       *)
(***************************************************************************)
Messages(sig) == IF sig.type = "ContactsChanged" THEN <<[sig EXCEPT !.type = "ContactsChangedWithID"], sig>> ELSE <<sig>>

Signals(out) == FlattenSeq([i \in DOMAIN out |-> Messages(out[i])])

BlockedReply(x, d) ==
  IF x.answered["client"] = l.answered["client"] THEN << >>
  ELSE <<[type |-> "BlockedContacts", error |-> x.state # "SUCCESS", blocked |-> d.blocked]>>

Sends == wire' = wire \o Signals(l'.out) \o BlockedReply(l', data')

ServiceStep == Service!ServerStep /\ l'.conn /\ Sends /\ UNCHANGED <<c, calls>>

ServiceGetsBlocked ==
  /\ "BlockedContacts" \in calls /\ calls' = calls \ {"BlockedContacts"}
  /\ Service!RequestBlockedContacts("client")
  /\ Sends /\ UNCHANGED c

ReplyTo(call) ==
  CASE call = "Props" -> [type |-> call, error |-> FALSE, state |-> l.state]
    [] call = "Attributes" -> [type |-> call, error |-> Service!GetState(l) # "SUCCESS", states |-> data.states]
    [] call = "GroupProps" ->
         [type |-> call, error |-> FALSE, names |-> IF l.state = "SUCCESS" THEN DOMAIN data.groups ELSE {}]
    [] call = "BlockingProps" -> [type |-> call]

ServiceReplies(call) ==
  /\ call \in calls \ {"BlockedContacts"} /\ calls' = calls \ {call}
  /\ wire' = Append(wire, ReplyTo(call)) /\ UNCHANGED <<serviceVars, c>>

(* GetAll fails.  That of ContactBlocking does not stop the preparation. *)
ServiceRefuses(call) ==
  /\ call \in calls \cap {"Props", "GroupProps", "BlockingProps"} /\ calls' = calls \ {call}
  /\ wire' = Append(wire, [type |-> call, error |-> TRUE]) /\ UNCHANGED <<serviceVars, c>>

-----------------------------------------------------------------------------
(***************************************************************************)
(* The application prepares a feature; tp_proxy sees that properties come  *)
(* first.  complete_in_idle makes the feature ready, or failed, some time  *)
(* later.                                                                  *)
(***************************************************************************)
PrepareProps ==
  /\ "list" \in Features /\ c.prep["props"] = "no"
  /\ c' = [c EXCEPT !.prep["props"] = "wait"] /\ calls' = calls \cup {"Props"}
  /\ UNCHANGED <<serviceVars, wire>>

PrepareContactList ==
  /\ c.prep["props"] = "ready" /\ c.prep["list"] = "no"
  /\ IF c.state = "SUCCESS"
     THEN c' = [c EXCEPT !.prep["list"] = "wait", !.bound = TRUE] /\ calls' = calls \cup {"Attributes"}
     ELSE c' = [c EXCEPT !.prep["list"] = "idle"] /\ UNCHANGED calls
  /\ UNCHANGED <<serviceVars, wire>>

PrepareOther(f, call) ==
  /\ f \in Features /\ c.prep[f] = "no"
  /\ c' = [c EXCEPT !.prep[f] = "wait"] /\ calls' = calls \cup {call}
  /\ UNCHANGED <<serviceVars, wire>>

Completes(f) ==
  /\ c.prep[f] \in {"idle", "failing"}
  /\ c' = [c EXCEPT !.prep[f] = IF @ = "idle" THEN "ready" ELSE "failed"]
  /\ UNCHANGED <<serviceVars, wire, calls>>

Handle(x, m) ==
  CASE m.type = "StateChanged" -> ContactListStateChanged(x, m.state)
    [] m.type = "ContactsChangedWithID" -> ContactsChangedWithId(x, m)
    [] m.type = "ContactsChanged" -> ContactsChanged(x, m)
    [] m.type \in {"GroupsCreated", "GroupsRemoved", "GroupRenamed"} -> GroupsSignal(x, m)
    [] m.type = "GroupsChanged" -> x
    [] m.type = "BlockedContactsChanged" -> BlockedContactsChanged(x, m)
    [] m.type = "Props" -> PrepareContactListProps(x, m)
    [] m.type = "Attributes" -> GotContactListAttributes(x, m)
    [] m.type = "GroupProps" -> PrepareContactGroups(x, m)
    [] m.type = "BlockingProps" -> x
    [] m.type = "BlockedContacts" -> RequestBlockedContactsReply(x, m)

(***************************************************************************)
(* New calls that handling a message makes.                                *)
(***************************************************************************)
NewCalls(x, m) ==
  (IF m.type = "StateChanged" /\ FetchesRoster(x, m.state) THEN {"Attributes"} ELSE {})
    \cup (IF m.type = "BlockingProps" THEN {"BlockedContacts"} ELSE {})

Receive ==
  /\ wire # << >> /\ wire' = Tail(wire)
  /\ c' = Handle(c, Head(wire)) /\ calls' = calls \cup NewCalls(c, Head(wire))
  /\ UNCHANGED serviceVars

NewContactsUpgraded ==
  /\ c.upgrading /\ c' = ContactsChangedHeadReady(c)
  /\ UNCHANGED <<serviceVars, wire, calls>>

BlockedContactsUpgraded ==
  /\ c.blocked_upgrading
  /\ c' = BlockedChangedHeadReady(BlockedUpgraded(c, Head(c.blocked_queue)))
  /\ UNCHANGED <<serviceVars, wire, calls>>

Next ==
  \/ ServiceStep \/ ServiceGetsBlocked \/ \E call \in calls : ServiceReplies(call) \/ ServiceRefuses(call)
  \/ PrepareProps \/ PrepareContactList
  \/ PrepareOther("groups", "GroupProps") \/ PrepareOther("blocking", "BlockingProps")
  \/ \E f \in DOMAIN c.prep : Completes(f)
  \/ Receive \/ NewContactsUpgraded \/ BlockedContactsUpgraded

Spec == Init /\ [][Next]_vars

-----------------------------------------------------------------------------
Quiet == wire = << >> /\ calls = {} /\ ~c.upgrading /\ ~c.blocked_upgrading

TypeOK ==
  /\ c.roster \subseteq Contacts /\ DOMAIN c.contacts \subseteq Contacts
  /\ Range(c.groups) \subseteq Groups /\ Range(c.blocked) \subseteq Contacts
  /\ calls \subseteq {"Props", "Attributes", "GroupProps", "BlockingProps", "BlockedContacts"}

(* However the roster, its changes and the preparation of new contacts
   overlapped, a TpConnection that has handled everything has the contacts that
   the connection manager has, and the state of the list.  (If GetAll failed, it
   knows the state from the next StateChanged only.) *)
RosterMirrored ==
  Quiet => /\ c.roster_fetched => c.roster = DOMAIN data.states
           /\ c.prep["props"] \in {"idle", "ready"} => c.state = l.state

(* The contacts then have the subscription states that they have at the
   manager: "it is only a change of subscription states. That's already handled
   by the TpContact itself" (process_queued_contacts_changed).  The exception: of
   two changes of a contact that wait in the queue together, the first makes the
   TpContact, and the second was announced before there was one to handle it. *)
StatesMirrored ==
  Quiet /\ c.roster_fetched =>
    \A h \in c.roster \ c.late : c.contacts[h].st = data.states[h]

(* It then has all the groups, and each once.  The exception: TpBaseContactList
   follows GroupRenamed by GroupsCreated with the same new name, and
   contact_group_renamed_cb and contact_groups_created_cb both add it.  The group is
   listed twice, and when it is removed one of the two stays. *)
GroupsMirrored ==
  Quiet /\ c.groups_fetched /\ l.state = "SUCCESS" =>
    /\ DOMAIN data.groups \subseteq Range(c.groups)
    /\ Range(c.groups) \subseteq DOMAIN data.groups \cup c.renamed
    /\ \A i, j \in DOMAIN c.groups : c.groups[i] = c.groups[j] => i = j \/ c.groups[i] \in c.renamed

(* And each blocked contact once; and the contacts that exist know of
   themselves whether they are blocked. *)
BlockedMirrored ==
  Quiet /\ c.prep["blocking"] = "ready" /\ l.state = "SUCCESS" =>
    /\ Range(c.blocked) = data.blocked /\ Len(c.blocked) = Cardinality(data.blocked)
    /\ \A h \in DOMAIN c.contacts : c.contacts[h].blocked = (h \in data.blocked)

(* Once CONTACT_LIST is prepared, "If contact-list-state is SUCCESS, all
   TpContact objects will also be created" (TP_CONNECTION_FEATURE_CONTACT_LIST).
   The exception: the list arrives after prepare_contact_list_async has found that
   there is none, and before the feature is ready; then nobody fetches it. *)
SuccessHasRoster ==
  c.prep["list"] = "ready" /\ c.state = "SUCCESS" => c.roster_fetched \/ c.missed
=============================================================================
