--------------------------- MODULE BaseContactList ---------------------------
(***************************************************************************)
(* The contact list of a connection manager, base-contact-list.c.  A       *)
(* subclass (external) keeps the contacts, their subscription states, the  *)
(* blocked contacts and the groups in `data`; it tells the base class of   *)
(* every change, which keeps the old contact list and group channels up to *)
(* date, answers requests for them, and emits the signals of the           *)
(* ContactList, ContactGroups and ContactBlocking interfaces.              *)
(*                                                                         *)
(* `l` is the TpBaseContactList.  Its functions are operators on `l`; they *)
(* append the signals they emit to l.out, which holds those of one step.   *)
(***************************************************************************)
EXTENDS Integers, FiniteSets, SequencesExt

CONSTANTS Contacts,     \* the contact handles
          Groups,       \* names of groups: valid, normalized, and with a handle
          States,       \* the subscription states contacts take, <<subscribe, publish>>
          Tokens,       \* channel requests and method calls
          CanBlock, Persists,  \* what the subclass implements
          NativeRename, \* the subclass renames groups itself
          CountGroups,  \* it passes groups_changed the number of groups, and not -1
          Used,         \* the methods called on it
          MaxChanges    \* bound: changes made by the subclass of its own accord

SoundConstants == MaxChanges \in Nat /\ CanBlock \in BOOLEAN /\ "no token" \notin Tokens

Mixin == INSTANCE GroupMixin WITH Handles <- Contacts, Owners <- {}

None == "no token"
ListNames == {"subscribe", "publish", "stored", "deny"}
ChannelNames == ListNames \cup Groups

NoContacts == [h \in {} |-> <<"NO", "NO">>]
NoGroups == [g \in {} |-> {}]
NoRequests == [ch \in {} |-> << >>]

NewList ==
  [conn |-> TRUE, state |-> "NONE", failure |-> FALSE,
   chans |-> [ch \in {} |-> {}],   \* lists and groups: the channel objects
   known |-> {},                   \* those announced by NewChannels
   table |-> TRUE,                 \* channel_requests is not NULL
   requests |-> NoRequests, blockedRequests |-> << >>,
   answered |-> [t \in Tokens |-> 0],
   forgotten |-> {},               \* requests that came when channel_requests was NULL
   out |-> << >>]

Emit(x, sig) == [x EXCEPT !.out = Append(@, sig)]
Answer(x, S) == [x EXCEPT !.answered = [t \in Tokens |-> @[t] + (IF t \in S THEN 1 ELSE 0)]]

(***************************************************************************)
(* get_state: what the D-Bus methods and contacts_changed go by.           *)
(***************************************************************************)
GetState(x) == IF ~x.conn \/ x.failure THEN "FAILURE" ELSE x.state

-----------------------------------------------------------------------------
(***************************************************************************)
(* Channels and the requests for them.  A channel in the keys of           *)
(* channel_requests has not been announced.  If the table is NULL, GLib    *)
(* warns, and nothing is remembered or found: the request is forgotten.    *)
(***************************************************************************)
EmptyChannel ==
  [members |-> {}, lp |-> {}, rp |-> {}, info |-> [h \in {} |-> Mixin!NoCause],
   owners |-> Mixin!NoOwners, out |-> << >>]

AssociateRequest(x, ch, t) ==
  IF ~x.table THEN [x EXCEPT !.forgotten = @ \cup ({t} \ {None})]
  ELSE [x EXCEPT !.requests = Mixin!Updated(@,
          [k \in {ch} |-> Append(IF ch \in DOMAIN @ THEN @[ch] ELSE << >>, t)])]

AddChannel(x, ch, t) ==
  AssociateRequest([x EXCEPT !.chans = Mixin!Updated(@, [k \in {ch} |-> EmptyChannel])], ch, t)

EnsureChannel(x, ch) == IF ch \in DOMAIN x.chans THEN x ELSE AddChannel(x, ch, None)

Unannounced(x) == DOMAIN x.requests
Waiting(x, ch) == IF ch \in DOMAIN x.requests THEN Range(x.requests[ch]) \ {None} ELSE {}

AnnounceChannel(x, ch) ==
  [Answer(x, Waiting(x, ch)) EXCEPT !.requests = Mixin!Without(@, {ch}), !.known = @ \cup {ch}]

(* Mutant: the table is dropped, and its requests with it. *)
FailChannelRequestsSilently(x) == [x EXCEPT !.table = FALSE, !.requests = NoRequests]

FailChannelRequests(x) ==
  [Answer(x, UNION {Waiting(x, ch) : ch \in DOMAIN x.requests})
     EXCEPT !.table = FALSE, !.requests = NoRequests]

FailBlockedContactRequests(x) ==
  [Answer(x, Range(x.blockedRequests)) EXCEPT !.blockedRequests = << >>]

(***************************************************************************)
(* tp_group_mixin_change_members on one of the channels.                   *)
(***************************************************************************)
Changed(ch, add, del, lp, rp) == Mixin!ChangeMembers(ch, add, del, lp, rp, Mixin!NoCause)

ChangeMembers(x, ch, add, del, lp, rp) ==
  [x EXCEPT !.chans[ch] = [Changed(@, add, del, lp, rp) EXCEPT !.out = << >>]]

Really(x, ch, add, del) == Changed(x.chans[ch], add, del, {}, {}).out # << >>

-----------------------------------------------------------------------------
(***************************************************************************)
(* The contacts of a set whose first or second state is one of V.          *)
(***************************************************************************)
Those(states, S, i, V) == {h \in S : states[h][i] \in V}

NoState == {"NO", "UNKNOWN", "REMOVED_REMOTELY"}

ChangeSubscribe(x, states, changed, removed) ==
  ChangeMembers(x, "subscribe", Those(states, changed, 1, {"YES"}),
    Those(states, changed, 1, NoState) \cup removed, {}, Those(states, changed, 1, {"ASK"}))

ChangePublish(x, states, changed, removed) ==
  ChangeMembers(x, "publish", Those(states, changed, 2, {"YES"}),
    Those(states, changed, 2, NoState) \cup removed, Those(states, changed, 2, {"ASK"}), {})

ChangeStored(x, changed, removed) ==
  IF "stored" \in DOMAIN x.chans THEN ChangeMembers(x, "stored", changed, removed, {}, {}) ELSE x

EmitContactsChanged(x, changes, removals) ==
  IF DOMAIN changes \cup removals = {} THEN x
  ELSE Emit(x, [type |-> "ContactsChanged", changes |-> changes, removals |-> removals])

ContactsChangedInternal(x, states, changed, removed) ==
  IF GetState(x) # "SUCCESS" THEN x
  ELSE EmitContactsChanged(
         ChangeStored(
           ChangePublish(
             ChangeSubscribe(x, states, changed, removed), states, changed, removed),
           changed, removed),
         [h \in changed |-> states[h]], removed)

(* Mutant: no signal if contacts are only unblocked. *)
EmitBlockedChangedIfBlocked(x, blocked, unblocked) ==
  IF blocked = {} THEN x
  ELSE Emit(x, [type |-> "BlockedContactsChanged", blocked |-> blocked, unblocked |-> unblocked])

EmitBlockedChanged(x, blocked, unblocked) ==
  IF blocked \cup unblocked = {} THEN x
  ELSE Emit(x, [type |-> "BlockedContactsChanged", blocked |-> blocked, unblocked |-> unblocked])

ContactBlockingChanged(x, nowBlocked, changed) ==
  IF GetState(x) # "SUCCESS" THEN x
  ELSE EmitBlockedChanged(
         ChangeMembers(x, "deny", changed \cap nowBlocked, changed \ nowBlocked, {}, {}),
         changed \cap nowBlocked, changed \ nowBlocked)

(***************************************************************************)
(* The group functions look at priv->state, and not at get_state: they are *)
(* not to be called after disconnection.                                   *)
(***************************************************************************)
AnnounceGroups(x, fresh) ==
  IF fresh = {} THEN x
  ELSE Emit(FoldSet(LAMBDA g, y : AnnounceChannel(y, g), x, fresh),
            [type |-> "GroupsCreated", names |-> fresh])

AnnounceNew(x, names) == AnnounceGroups(x, names \cap Unannounced(x))

GroupsCreated(x, names) ==
  IF names = {} \/ x.state # "SUCCESS" THEN x
  ELSE AnnounceNew(FoldSet(LAMBDA g, y : EnsureChannel(y, g), x, names), names)

(***************************************************************************)
(* groups_changed: creates the groups that do not exist, and signals only  *)
(* those whose members really changed.  If n_removed is -1 it takes the    *)
(* length of `added' for that of `removed': none, if that is NULL.         *)
(***************************************************************************)
Counted(added, removed) == IF CountGroups \/ added # {} THEN removed ELSE {}

MoveContacts(x, contacts, to, from) ==
  [x EXCEPT !.chans = [ch \in DOMAIN @ |->
     IF ch \in to \cup from
     THEN [Changed(@[ch], IF ch \in to THEN contacts ELSE {},
                          IF ch \in from THEN contacts ELSE {}, {}, {}) EXCEPT !.out = << >>]
     ELSE @[ch]]]

EmitGroupsChanged(x, contacts, to, from) ==
  IF to \cup from = {} THEN x
  ELSE Emit(MoveContacts(x, contacts, to, from),
            [type |-> "GroupsChanged", contacts |-> contacts, added |-> to, removed |-> from])

ChangeGroups(x, contacts, added, removed) ==
  EmitGroupsChanged(x, contacts,
    {g \in added \cap DOMAIN x.chans : Really(x, g, contacts, {})},
    {g \in removed \cap DOMAIN x.chans : Really(x, g, {}, contacts)})

GroupsChanged(x, contacts, added, removed) ==
  IF contacts = {} \/ x.state # "SUCCESS" THEN x
  ELSE ChangeGroups(GroupsCreated(x, added), contacts, added, Counted(added, removed))

CloseChannels(x, S) == [x EXCEPT !.chans = Mixin!Without(@, S), !.known = @ \ S]

(***************************************************************************)
(* groups_removed and group_renamed are called while the subclass still    *)
(* has the old members, and empty the channels before closing them.        *)
(***************************************************************************)
EmitRegrouped(x, contacts, added, removed) ==
  IF contacts = {} THEN x
  ELSE Emit(x, [type |-> "GroupsChanged", contacts |-> contacts,
                added |-> added, removed |-> removed])

CloseGroups(x, groups, gone) ==
  IF gone = {} THEN x
  ELSE EmitRegrouped(
         Emit(CloseChannels(x, gone), [type |-> "GroupsRemoved", names |-> gone]),
         UNION {groups[g] : g \in gone \cap DOMAIN groups}, {}, gone)

GroupsRemoved(x, groups, names) ==
  IF x.state # "SUCCESS" THEN x ELSE CloseGroups(x, groups, names \cap DOMAIN x.chans)

AnnounceIfNew(x, ch) == IF ch \in Unannounced(x) THEN AnnounceChannel(x, ch) ELSE x

EmitGroupRenamed(x, old, new) ==
  [x EXCEPT !.out = @ \o << [type |-> "GroupRenamed", old |-> old, new |-> new],
                            [type |-> "GroupsCreated", names |-> {new}],
                            [type |-> "GroupsRemoved", names |-> {old}] >>]

GroupRenamed(x, groups, old, new) ==
  IF x.state # "SUCCESS" THEN x
  ELSE EmitRegrouped(
         EmitGroupRenamed(
           CloseChannels(
             ChangeMembers(AnnounceIfNew(EnsureChannel(x, new), new), new, groups[old], {}, {}, {}),
             {old}),
           old, new),
         groups[old], {new}, {old})

-----------------------------------------------------------------------------
(***************************************************************************)
(* The state of the list, as the subclass reports it.                      *)
(***************************************************************************)
StateChanged(x) == Emit(x, [type |-> "StateChanged", state |-> x.state])

SetListPending(x) == StateChanged([x EXCEPT !.state = "WAITING"])

SetListFailed(x) ==
  FailBlockedContactRequests(FailChannelRequests(
    StateChanged([x EXCEPT !.state = "FAILURE", !.failure = TRUE])))

ReturnBlockedContacts(x) ==
  [Answer(x, Range(x.blockedRequests)) EXCEPT !.blockedRequests = << >>]

ReceiveBlocked(x, d) ==
  IF ~CanBlock THEN x
  ELSE ReturnBlockedContacts(
         ContactBlockingChanged(EnsureChannel(x, "deny"), d.blocked, d.blocked))

ReceiveGroups(x, d) ==
  FoldSet(LAMBDA g, y : GroupsChanged(y, d.groups[g], {g}, {}),
          GroupsCreated(x, DOMAIN d.groups), DOMAIN d.groups)

EnsureLists(x) ==
  FoldSet(LAMBDA ch, y : EnsureChannel(y, ch), x,
          {"subscribe", "publish"} \cup (IF Persists THEN {"stored"} ELSE {}))

AnnounceLists(x) ==
  FoldSet(LAMBDA ch, y : AnnounceChannel(y, ch), x, ListNames \cap DOMAIN x.chans)

SetListReceived(x, d) ==
  StateChanged(ReceiveGroups(AnnounceLists(ReceiveBlocked(
    ContactsChangedInternal(EnsureLists([x EXCEPT !.state = "SUCCESS"]), d.states,
                            DOMAIN d.states, {}),
    d)), d))

(***************************************************************************)
(* Disconnection: everything is let go, but priv->state stays as it is.    *)
(***************************************************************************)
FreeContents(x) ==
  [FailBlockedContactRequests(FailChannelRequests(x))
     EXCEPT !.conn = FALSE, !.chans = [ch \in {} |-> {}], !.known = {}]

-----------------------------------------------------------------------------
(***************************************************************************)
(* The subclass (external).  A world is the base class and the data        *)
(* together; each operator changes the data and reports the change.        *)
(***************************************************************************)
SetState(w, h, st) ==
  LET states == Mixin!Updated(w.data.states, [k \in {h} |-> st])
  IN [l |-> ContactsChangedInternal(w.l, states, {h}, {}),
      data |-> [w.data EXCEPT !.states = states]]

RemoveContact(w, h) ==
  LET states == Mixin!Without(w.data.states, {h})
  IN [l |-> ContactsChangedInternal(w.l, states, {}, {h}),
      data |-> [w.data EXCEPT !.states = states]]

SetBlocked(w, blocked, changed) ==
  [l |-> ContactBlockingChanged(w.l, blocked, changed),
   data |-> [w.data EXCEPT !.blocked = blocked]]

MembersOf(d, g) == IF g \in DOMAIN d.groups THEN d.groups[g] ELSE {}

AddToGroup(w, g, S) ==
  [l |-> GroupsChanged(GroupsCreated(w.l, {g}), S, {g}, {}),
   data |-> [w.data EXCEPT !.groups =
               Mixin!Updated(@, [k \in {g} |-> S \cup MembersOf(w.data, g)])]]

RemoveFromGroup(w, g, S) ==
  IF g \notin DOMAIN w.data.groups THEN w
  ELSE [l |-> GroupsChanged(w.l, S, {}, {g}), data |-> [w.data EXCEPT !.groups[g] = @ \ S]]

SetGroupMembers(w, g, S) ==
  RemoveFromGroup(AddToGroup(w, g, S), g, MembersOf(w.data, g) \ S)

SetContactGroups(w, g, S) ==
  LET others == {k \in DOMAIN w.data.groups : S \subseteq w.data.groups[k]} \ {g}
  IN [l |-> GroupsChanged(w.l, S, {g}, others),
      data |-> [w.data EXCEPT !.groups =
        [k \in DOMAIN @ \cup {g} |->
           IF k = g THEN S \cup MembersOf(w.data, g) ELSE MembersOf(w.data, k) \ S]]]

RemoveGroup(w, g) ==
  IF g \notin DOMAIN w.data.groups THEN w
  ELSE [l |-> GroupsRemoved(w.l, w.data.groups, {g}),
        data |-> [w.data EXCEPT !.groups = Mixin!Without(@, {g})]]

RenameGroup(w, old, new) ==
  IF old \notin DOMAIN w.data.groups \/ new \in DOMAIN w.data.groups THEN w
  ELSE [l |-> GroupRenamed(w.l, w.data.groups, old, new),
        data |-> [w.data EXCEPT !.groups =
          Mixin!Updated(Mixin!Without(@, {old}), [k \in {new} |-> w.data.groups[old]])]]

-----------------------------------------------------------------------------
VARIABLES l, data,
          ops,      \* virtual methods that the subclass is working on
          asked,    \* the tokens of requests and calls made so far
          seen,     \* what a D-Bus client knows from the signals alone
          used      \* changes made so far

vars == <<l, data, ops, asked, seen, used>>

Init ==
  /\ l = NewList
  /\ data = [states |-> NoContacts, blocked |-> {}, groups |-> NoGroups]
  /\ ops = {} /\ asked = {} /\ used = 0
  /\ seen = data

(***************************************************************************)
(* A client that follows the signals, from the first one.                  *)
(***************************************************************************)
HearGroups(groups, sig) ==
  [g \in DOMAIN groups |->
     (groups[g] \cup (IF g \in sig.added THEN sig.contacts ELSE {}))
       \ (IF g \in sig.removed THEN sig.contacts ELSE {})]

Hear(s, sig) ==
  CASE sig.type = "ContactsChanged" ->
         [s EXCEPT !.states = Mixin!Without(Mixin!Updated(@, sig.changes), sig.removals)]
    [] sig.type = "BlockedContactsChanged" ->
         [s EXCEPT !.blocked = (@ \cup sig.blocked) \ sig.unblocked]
    [] sig.type = "GroupsCreated" ->
         [s EXCEPT !.groups = Mixin!Updated([g \in sig.names |-> {}], @)]
    [] sig.type = "GroupsRemoved" -> [s EXCEPT !.groups = Mixin!Without(@, sig.names)]
    [] sig.type = "GroupsChanged" -> [s EXCEPT !.groups = HearGroups(@, sig)]
    [] OTHER -> s

Step(w) == l' = w.l /\ data' = w.data /\ seen' = FoldLeft(Hear, seen, w.l.out)

(***************************************************************************)
(* The world at the start of a step: no signal has been emitted in it yet. *)
(***************************************************************************)
Now == [l |-> [l EXCEPT !.out = << >>], data |-> data]

Does(x) == [Now EXCEPT !.l = x]

-----------------------------------------------------------------------------
(***************************************************************************)
(* What the server makes the subclass do.  Contacts may change at any      *)
(* time: before the list is received, and after disconnection, the base    *)
(* class takes no notice.  Groups change while there is a connection.      *)
(***************************************************************************)
ListPending ==
  /\ l.conn /\ l.state = "NONE"
  /\ Step(Does(SetListPending(Now.l))) /\ UNCHANGED <<ops, asked, used>>

ListFailed ==
  /\ l.conn /\ l.state \in {"NONE", "WAITING"} /\ "Fail" \in Used
  /\ Step(Does(SetListFailed(Now.l))) /\ UNCHANGED <<ops, asked, used>>

ListReceived ==
  /\ l.conn /\ l.state \in {"NONE", "WAITING"}
  /\ Step(Does(SetListReceived(Now.l, data))) /\ UNCHANGED <<ops, asked, used>>

Change == used < MaxChanges /\ used' = used + 1 /\ UNCHANGED <<ops, asked>>

ContactChanges(h, st) ==
  /\ h \in DOMAIN data.states => data.states[h] # st
  /\ Change /\ Step(SetState(Now, h, st))

ContactRemoved(h) ==
  /\ h \in DOMAIN data.states
  /\ Change /\ Step(RemoveContact(Now, h))

Toggled(S, h) == IF h \in S THEN S \ {h} ELSE S \cup {h}

BlockingChanges(h) ==
  /\ CanBlock
  /\ Change /\ Step(SetBlocked(Now, Toggled(data.blocked, h), {h}))

GroupJoined(g, h) ==
  /\ l.conn /\ h \notin MembersOf(data, g)
  /\ Change /\ Step(AddToGroup(Now, g, {h}))

GroupLeft(g, h) ==
  /\ l.conn /\ h \in MembersOf(data, g)
  /\ Change /\ Step(RemoveFromGroup(Now, g, {h}))

GroupDropped(g) ==
  /\ l.conn /\ g \in DOMAIN data.groups
  /\ Change /\ Step(RemoveGroup(Now, g))

GroupGetsName(old, new) ==
  /\ l.conn /\ NativeRename
  /\ old \in DOMAIN data.groups /\ new \notin DOMAIN data.groups
  /\ Change /\ Step(RenameGroup(Now, old, new))

Disconnected ==
  /\ l.conn /\ Step(Does(FreeContents(Now.l))) /\ UNCHANGED <<ops, asked, used>>

-----------------------------------------------------------------------------
(***************************************************************************)
(* Requests and calls: each has a token, and is answered, or starts a      *)
(* virtual method, or waits in the list.                                   *)
(***************************************************************************)
Ask(t, method) == method \in Used /\ t \notin asked /\ asked' = asked \cup {t} /\ UNCHANGED used

Reply(t) == Step(Does(Answer(Now.l, {t}))) /\ UNCHANGED ops
Wait(x) == Step(Does(x)) /\ UNCHANGED ops
Call(op, g, S, to, t) ==
  ops' = ops \cup {[op |-> op, g |-> g, S |-> S, to |-> to, t |-> t]}

(***************************************************************************)
(* request_helper, for CreateChannel and EnsureChannel.                    *)
(***************************************************************************)
Impossible(ch) == (ch = "stored" /\ ~Persists) \/ (ch = "deny" /\ ~CanBlock)

RequestChannel(t, ch, create) ==
  /\ Ask(t, IF create THEN "CreateChannel" ELSE "EnsureChannel")
  /\ \/ (~l.conn \/ Impossible(ch)) /\ Reply(t)
     \/ /\ l.conn /\ ~Impossible(ch) /\ ch \notin DOMAIN l.chans
        /\ Step(Does(AddChannel(Now.l, ch, t)))
        /\ IF ch \in Groups THEN Call("CreateGroup", ch, {}, ch, None) ELSE UNCHANGED ops
     \/ /\ l.conn /\ ch \in DOMAIN l.chans
        /\ IF ~create /\ ch \in Unannounced(l) THEN Wait(AssociateRequest(Now.l, ch, t))
           ELSE Reply(t)

(***************************************************************************)
(* The methods of ContactGroups: check_group_change and the method's own   *)
(* conditions, then the virtual method.  A rename that the subclass does   *)
(* not implement is emulated: the members of now are added to the new      *)
(* group, and then the old group is removed.                               *)
(***************************************************************************)
CannotRename(old, new) == old \notin DOMAIN l.chans \/ new \in DOMAIN l.chans

ContactGroupsCall(t, m, g, S, to) ==
  /\ Ask(t, m)
  /\ IF GetState(l) # "SUCCESS" \/ (m = "RenameGroup" /\ CannotRename(g, to)) THEN Reply(t)
     ELSE /\ Step(Now)
          /\ IF m = "RenameGroup" /\ ~NativeRename
             THEN Call("RenameAdd", g, MembersOf(data, g), to, t)
             ELSE Call(m, g, S, to, t)

(***************************************************************************)
(* Close on a group channel deletes the group, if it is empty.             *)
(***************************************************************************)
GroupChannelClose(t, g) ==
  /\ Ask(t, "Close") /\ g \in l.known
  /\ Step(Does(Answer(Now.l, {t})))
  /\ IF l.chans[g].members # {} \/ GetState(l) # "SUCCESS" THEN UNCHANGED ops
     ELSE Call("RemoveGroup", g, {}, g, None)

(***************************************************************************)
(* AddMembers and RemoveMembers of the channels.  RequestSubscription      *)
(* stands for all that end with a contact in some state.                   *)
(***************************************************************************)
AddToList(ch) == IF ch = "deny" THEN "BlockContacts" ELSE "RequestSubscription"

RemoveFromList(ch) ==
  IF ch = "deny" THEN "UnblockContacts"
  ELSE IF ch = "stored" THEN "RemoveContacts" ELSE "RequestSubscription"

ListChannelCall(t, ch, m, h, st) ==
  /\ Ask(t, m) /\ ch \in l.known
  /\ IF GetState(l) # "SUCCESS" THEN Reply(t)
     ELSE Step(Now) /\ Call(IF m = "AddMembers" THEN AddToList(ch) ELSE RemoveFromList(ch), "", {h}, st, t)

GroupChannelCall(t, g, m, h) ==
  /\ Ask(t, m) /\ g \in l.known
  /\ IF GetState(l) # "SUCCESS" THEN Reply(t)
     ELSE Step(Now) /\ Call(IF m = "AddMembers" THEN "AddToGroup" ELSE "RemoveFromGroup", g, {h}, g, t)

(***************************************************************************)
(* The methods of ContactList, and those of ContactBlocking, which do not  *)
(* wait for the list.                                                      *)
(***************************************************************************)
ContactListCall(t, m, h, st) ==
  /\ Ask(t, m)
  /\ IF (IF m \in {"BlockContacts", "UnblockContacts"} THEN ~(CanBlock /\ l.conn) ELSE GetState(l) # "SUCCESS")
     THEN Reply(t)
     ELSE Step(Now) /\ Call(m, "", {h}, st, t)

RequestBlockedContacts(t) ==
  /\ Ask(t, "RequestBlockedContacts")
  /\ IF CanBlock /\ l.conn /\ l.state \in {"NONE", "WAITING"}
     THEN Wait([Now.l EXCEPT !.blockedRequests = Append(@, t)])
     ELSE Reply(t)

-----------------------------------------------------------------------------
(***************************************************************************)
(* The subclass finishes a virtual method: it has made the change and told *)
(* the base class, or it failed.  Then the callback answers the call;      *)
(* create_group_cb answers nothing.                                        *)
(***************************************************************************)
GroupOps == {"CreateGroup", "AddToGroup", "RemoveFromGroup", "RemoveGroup",
             "RenameGroup", "RenameAdd", "RenameRemove", "SetGroupMembers", "SetContactGroups"}

Perform(w, op) ==
  CASE op.op \in {"CreateGroup", "AddToGroup"} -> AddToGroup(w, op.g, op.S)
    [] op.op = "SetGroupMembers" -> SetGroupMembers(w, op.g, op.S)
    [] op.op = "SetContactGroups" -> SetContactGroups(w, op.g, op.S)
    [] op.op = "RenameAdd" -> AddToGroup(w, op.to, op.S)
    [] op.op = "RemoveFromGroup" -> RemoveFromGroup(w, op.g, op.S)
    [] op.op \in {"RemoveGroup", "RenameRemove"} -> RemoveGroup(w, op.g)
    [] op.op = "RenameGroup" -> RenameGroup(w, op.g, op.to)
    [] op.op = "RequestSubscription" -> SetState(w, CHOOSE h \in op.S : TRUE, op.to)
    [] op.op = "RemoveContacts" -> RemoveContact(w, CHOOSE h \in op.S : TRUE)
    [] op.op = "BlockContacts" -> SetBlocked(w, w.data.blocked \cup op.S, op.S)
    [] op.op = "UnblockContacts" -> SetBlocked(w, w.data.blocked \ op.S, op.S)

AnswerOp(w, op) == [w EXCEPT !.l = Answer(@, {op.t})]

OpSucceeds(op) ==
  /\ op \in ops /\ (op.op \in GroupOps => l.conn)
  /\ IF op.op = "RenameAdd"
     THEN /\ Step(Perform(Now, op))
          /\ ops' = (ops \ {op}) \cup {[op EXCEPT !.op = "RenameRemove"]}
     ELSE Step(AnswerOp(Perform(Now, op), op)) /\ ops' = ops \ {op}
  /\ UNCHANGED <<asked, used>>

OpFails(op) ==
  /\ op \in ops /\ ops' = ops \ {op}
  /\ Step(AnswerOp(Now, op))
  /\ UNCHANGED <<asked, used>>

-----------------------------------------------------------------------------
ServerStep ==
  \/ ListPending \/ ListFailed \/ ListReceived \/ Disconnected
  \/ \E h \in Contacts :
       \/ \E st \in States : ContactChanges(h, st)
       \/ ContactRemoved(h) \/ BlockingChanges(h)
       \/ \E g \in Groups : GroupJoined(g, h) \/ GroupLeft(g, h)
  \/ \E g, to \in Groups : GroupDropped(g) \/ GroupGetsName(g, to)

CallStep ==
  \E t \in Tokens :
    \/ \E ch \in ChannelNames, create \in BOOLEAN : RequestChannel(t, ch, create)
    \/ \E g, to \in Groups, h \in Contacts :
         \/ \E m \in {"AddToGroup", "RemoveFromGroup", "SetGroupMembers", "SetContactGroups"} :
              ContactGroupsCall(t, m, g, {h}, g)
         \/ ContactGroupsCall(t, "RemoveGroup", g, {}, g)
         \/ g # to /\ ContactGroupsCall(t, "RenameGroup", g, {}, to)
         \/ GroupChannelClose(t, g)
         \/ \E m \in {"AddMembers", "RemoveMembers"} : GroupChannelCall(t, g, m, h)
    \/ \E h \in Contacts, st \in States :
         \/ \E ch \in ListNames, m \in {"AddMembers", "RemoveMembers"} : ListChannelCall(t, ch, m, h, st)
         \/ \E m \in {"RequestSubscription", "RemoveContacts", "BlockContacts", "UnblockContacts"} :
              ContactListCall(t, m, h, st)
    \/ RequestBlockedContacts(t)

OpStep == \E op \in ops : OpSucceeds(op) \/ OpFails(op)

Next == ServerStep \/ CallStep \/ OpStep

Spec == Init /\ [][Next]_vars

-----------------------------------------------------------------------------
Ready == l.conn /\ l.state = "SUCCESS" /\ ~l.failure

TypeOK ==
  /\ l.state \in {"NONE", "WAITING", "FAILURE", "SUCCESS"}
  /\ DOMAIN l.chans \subseteq ChannelNames /\ l.known \subseteq ChannelNames
  /\ DOMAIN l.requests \subseteq ChannelNames
  /\ \A ch \in DOMAIN l.requests : l.requests[ch] \in Seq(Tokens \cup {None})
  /\ Range(l.blockedRequests) \cup l.forgotten \subseteq Tokens
  /\ data.blocked \subseteq Contacts /\ DOMAIN data.states \subseteq Contacts
  /\ asked \subseteq Tokens

(* Once the list is received, the contact list channels and the group channels
   have exactly the members and pending members that the subclass's states,
   blocked contacts and groups call for, and the group channels announced are
   those of the groups that exist. *)
ChannelsMirror ==
  LET of(i, v) == Those(data.states, DOMAIN data.states, i, {v})
  IN Ready =>
       /\ l.chans["subscribe"].members = of(1, "YES") /\ l.chans["subscribe"].rp = of(1, "ASK")
       /\ l.chans["publish"].members = of(2, "YES") /\ l.chans["publish"].lp = of(2, "ASK")
       /\ Persists => l.chans["stored"].members = DOMAIN data.states
       /\ CanBlock => l.chans["deny"].members = data.blocked
       /\ l.known \cap Groups = DOMAIN data.groups
       /\ \A g \in DOMAIN data.groups : l.chans[g].members = data.groups[g]

(* A D-Bus client that does nothing but follow the signals knows, once the list
   is received, every contact's states, who is blocked, and the groups and their
   members. *)
ListenerKnows == Ready => seen = data

(* Every channel request and method call is answered at most once, and until
   then it is kept: with its channel, in the queue for blocked contacts or by a
   virtual method.  The failure of the list and the end of the connection answer
   all that are kept; only channel requests that come when the list has failed,
   and channel_requests is NULL, are lost (associate_request).  No channel waits to
   be announced without a request, so that fail_channel_requests never fails the
   request NULL. *)
Kept(t) ==
  \/ \E ch \in DOMAIN l.requests : t \in Range(l.requests[ch])
  \/ t \in Range(l.blockedRequests)
  \/ \E op \in ops : op.t = t

AnsweredOrKept ==
  /\ \A t \in asked : l.answered[t] <= 1 /\ (l.answered[t] = 0 => Kept(t) \/ t \in l.forgotten)
  /\ \A ch \in DOMAIN l.requests : None \notin Range(l.requests[ch])
=============================================================================
