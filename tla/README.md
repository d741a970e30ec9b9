# telepathy-glib in TLA+

Models of telepathy-glib and of its example connection managers, checked with
TLC on small instances and, in part, proved with TLAPS for every instance. Every
definition is a translation of C code; `PROJECT.json` gives, under `map`, the
lines that the definitions stand for (helpers whose lines another definition
covers already, and most of the class tables, are not repeated there).

telepathy-glib is both ends of the Telepathy D-Bus protocols. The **client side**
(`TpProxy` and its subclasses) mirrors remote objects: it connects to their
signals, asks for their state, and applies signals and replies in the order the
bus delivers them. The **service side** (`TpBaseConnection`, the mixins,
`tp_run_connection_manager`) is what connection managers are built from. Both are
single-threaded: the hard part is not threads but callbacks, idle sources, replies
and signals that are interleaved by the main loop, processes that come and go, and
user code that calls back into the library from inside of it.

What makes the parts correct: memory is freed once and not used afterwards; every
call is answered and every callback called exactly once, or never once it was
cancelled; mirrors are true when everything that was sent has been handled; media
flow and files are sent only when they may; operations end; and the assertions of
the code hold. `hazards` in `PROJECT.json` lists, line by line, where that is in
danger, and the properties that would show it.

## 1. Modules

| module | models (sources under `src/`) |
|---|---|
| **the client's proxies** | |
| `PendingCall`, `MethodCall`, `PendingCallProofs` | D-Bus calls of a `TpProxy` (`proxy-methods.c` and the stubs that `tools/glib-client-gen.py` makes); what a call promises, abstractly; the proofs |
| `SignalConnection` | signal connections and their queued invocations (`proxy-signals.c`, `proxy.c`) |
| `ProxyFeatures` | feature preparation, for any table of features (`proxy.c`) |
| `Connection` | a `TpConnection` and the connection it introspects (`connection.c`) |
| `NameOwnerWatch` | name owner watches of several `TpDBusDaemon`s, composed with the bus daemon (`dbus-daemon.c`) |
| **connection managers** | |
| `CMProcess` | the process (`run.c`, `base-connection-manager.c`), with its proofs |
| `BaseConnection` | status and channel requests (`base-connection.c`), against the contract of channel managers, factories and the subclass |
| `ClientInterests` | interests of clients that may leave the bus (`base-connection.c`) |
| `Handles` | `intset.c`, `handle-set.c`, `heap.c`, the handle repositories and the handle methods at both ends |
| **channels** | |
| `ChannelClient` | a `TpChannel`: introspection, password, join, leave, close, destroy (`channel.c`) |
| `TextChannel` | pending messages: mixin, bus and client with its contacts queue (`message-mixin.c`, `text-channel.c`, `channel-contacts.c`) |
| `ChatStates` | chat states: mixin, bus and several clients |
| `GroupMixin`, `GroupChannel` | groups: the service side; with the bus and the client side (`group-mixin.c`, `channel-group.c`, `channel-contacts.c`) |
| `ServiceChannels` | `TpBaseChannel`, and on it the chats and rooms of the examples, password channels and room configuration |
| **contacts** | |
| `Contacts` | the contexts that get and upgrade `TpContact`s (`contact.c`) |
| `BaseContactList` | the contact list of a manager (`base-contact-list.c`, `contact-list-channel.c`) |
| `ContactList` | extends it with the client that follows it (`connection-contact-list.c`) |
| `ExampleContactList` | the subclass in `examples/cm/contactlist` |
| **accounts and dispatching** | |
| `Account`, `AccountManager` | `account.c`, `account-manager.c` |
| `ConnectionManager`, `ConnectionManagerProofs` | a client's view of a manager that starts, exits and is replaced (`connection-manager.c`); the proofs |
| `BaseClient` | observers, approvers and handlers, and the contexts of their calls (`base-client.c`, `*-context.c`) |
| `ChannelRequest` | a request from the call to its answer (`account-channel-request.c`, `channel-request.c`) |
| `DispatchOperation` | an approver's view of new channels (`channel-dispatch-operation.c`), with its proofs |
| `Protocols` | protocols, parameters, `.manager` files, capabilities, checks of names, listing of managers |
| **calls and transfers** | |
| `BaseMediaCall` | when media flow: `base-call-*.c`, `base-media-call-*.c` |
| `CallTones`, `MediaOffers` | tones and media description offers of a content; `MediaOffers` with its proofs |
| `CallChannel`, `ToneQueue` | the client's view of a call, and of its tones (`call-channel.c`, `call-content.c`) |
| `ExampleCall` | the connection manager in `examples/cm/call` |
| `DBusTube`, `StreamTube`, `FileTransfer` | `dbus-tube-channel.c`, `stream-tube-channel.c`, `file-transfer-channel.c`; the first and the last with their proofs |
| **all classes** | |
| `Objects` | GObject properties, D-Bus properties, disposal, for 72 classes |
| **instances for TLC** | |
| `MCProxy`, `MCManager`, `MCChannels`, `MCRoster`, `MCClients`, `MCCalls`, `MCLiveness` | one per run |

### How they are written

A C structure is a record, and a C function an operator from record to record,
named after it in camel case (`handle_members_changed` is
`HandleMembersChanged`), composed as the C functions call each other. An action is
one dispatch of the main loop, one call by the user, or one step of a peer; it
contains all that the handler does. User callbacks that may do anything are split:
the model stops inside the loop that calls them, and any user operation may happen
there. A failed `g_assert` stops the model and sets a flag that an invariant
(`AssertionsHold`) is about. The bus keeps messages between two processes in
order. D-Bus libraries, GLib, peers and subclasses are `external` in the map and
do what their callers rely on.

Names, texts, details of errors and payloads are left out, or are elements of
small sets. History variables (what was called back, what was sent to whom) are
read by properties only.

How variables correspond to the code:

* `PendingCall`: `pc[c]` is `TpProxyPendingCall`, `frame[c]` the caller of a run
  call. `SignalConnection`: `sc[s]` is `TpProxySignalConnection`, `idles` the main
  loop's sources, `stack` the callbacks that are running. `ProxyFeatures`: `state`
  is `features_state`, `requests` `prepare_requests`, `results` completions in idle
  sources, `announce` the `pending_will_announce_calls` counter. `Connection`: `cm`
  is the remote connection, `wire` what it sent, `self` `TpConnectionPrivate`.
  `NameOwnerWatch`: the tables of `dbus-daemon.c`; `frame` is the loop over
  callbacks in which user code runs.
* `BaseConnection`: `conn` holds status, requests and disconnect calls, `held` and
  `open` what channel managers hold and which channels exist. `CMProcess`: the
  static variables of `run.c` under their own names.
* `TextChannel`, `ChatStates`, `GroupChannel`, `ContactList`, `CallChannel`: the
  service's record, the messages on the wire, the client's record with its contacts
  queue. `ChannelClient`: `self` is `TpChannelPrivate`, `calls` the method calls the
  service has not yet answered.
* `ConnectionManager`: `cm` is the `TpConnectionManager`, `svc` the process and the
  number of its run, `call` the one call that is unanswered; each protocol is
  remembered with the run that named it.
* `BaseClient`: `ctxs` are the contexts of method calls, `base[k]` a client.
  `ChannelRequest`: `acr` is the `TpAccountChannelRequest`, `mc` the dispatcher.
  `DispatchOperation`: `cdo` is the proxy, `svc` the operation.
* `BaseMediaCall`: `call` holds the channel with its contents and streams.
  `MediaOffers`: `content` is the part of `TpBaseMediaCallContent` about offers, `md`
  the descriptions. `DBusTube`, `FileTransfer`: `tube` and `ft` are the channel with
  the operation under way (`result`), `svc` the connection manager's side.

Next to some definitions stands a **mutant**, a variant with a likely mistake (a
dropped guard, a missing reset, a swapped order). Nothing uses it; `PROJECT.json`
lists, for every property, a mutant of the code that violates it.

## 2. Runs

The components of an area share no state. An area is therefore checked in one run,
whose variable `part`, chosen at the start and never changed, names the component
that moves: the reachable states are the union of those of the parts, and nothing
is multiplied. Each property of a run joins what is to be said about one theme; its
comment says what, and the conjuncts are stated and commented in the modules of the
components. Every run also checks the types of its parts (`TypesOK`).

| run | parts and bounds | properties |
|---|---|---|
| `proxy` | two asynchronous calls and a run call on one DBusGProxy; two signal connections, two signals, callbacks nested twice, a weak object; features of `TpConnection`, of a subclass with a core, a retried and a late feature, and of `TpConnectionManager`, two or three prepare calls; a `TpConnection` with any call refused and two changes of the self handle; one TpDBusDaemon with three watches and two owner changes, whose callbacks may drop it, two with a watch each and one owner change | `NoDanglingReference`, `NoReplyDropped`, `CallbackDiscipline`, `PromiseKept` (the refinement of `MethodCall`) about calls; `SignalsAreSound`; `PreparationIsSound`; `ToldInOrder`; `ConnectionIsTrue`; `WatchersAreTold` |
| `manager` | a process with four connections, with and without PERSIST; the life of a connection, two calls; three calls to channel managers, two to factories; two clients, two tokens, five argument lists | `ExitsIdle`, `QuitIsFinal`, `RequestsAnswered`, `StatusIsSound`, `InterestsAreExact` |
| `channels` | three messages and two acknowledgements; two members, two clients, three changes of chat state; a group of two contacts with an owner and two changes, new and old services, with and without MemberIdentifiers; chats, rooms, prompts and configurations of up to two channels and six to eight operations; channels of three sorts with two operations, one with a password and two changes of flags | `MessagesMirrored`, `GroupMirrored`, `AnswersAreTrue` |
| `roster` | lists and groups of two contacts with one change by the subclass and two calls; a client of such a list with three or four changes, a rename among them, and calls that may fail; three overlapping requests for contacts, with the Contacts interface and on the slow path; the example's list with friends and with strangers, three calls; sets of integers up to 5 in words of 2 bits, heaps of 5, repositories with three calls | `ListMirrored`, `ListAnswers`, `ContactsAreRight`, `RequestsDeliverAll` |
| `clients` | two handlers, a delegating handler, an observer and approver, two contexts each; an account with two connections and four changes; an account manager with two accounts and four changes; a request with three actions, re-handled twice, with a dispatcher that may crash; dispatch operations of two channels with rivals; a connection manager of two protocols with a good, a bad or no file, two or three runs of the process; protocols, files, capabilities, names up to 5 characters; an object of each class, two writes and two disposals | `RequestsSettled`, `AccountsMirrored`, `ManagersMirrored`, `NeverDegrades`, `ObjectsAreSound` |
| `calls` | incoming and outgoing calls with every operation, two streams that hold, two that a call starts when it is accepted, changing contents; dial strings with and without changes of the call; three offers for two contacts; a call prepared in calm and in haste; tones over two contents, and over one that others use; tubes and files at both ends; the example's calls | `MediaFlowsWhenItMay`, `CallProgresses`, `AnsweredInOrder`, `CallIsMirrored`, `TransfersAreRight` |
| `liveness` | smaller instances of twelve parts | `OperationsComplete`, `NewsArrive`, `NothingLingers` |

In `proxy`, `manager`, `channels`, `clients` and `calls` one component is extended
rather than instantiated (`PendingCall`, `CMProcess`, `TextChannel`,
`ConnectionManager`, `MediaOffers`); its constants are in the `.cfg`, and properties
of its own are checked under their own names: they hold of its initial state in the
other parts. `NeverDegrades` is checked of the manager with a file; for the others
it is proved.

**Bounds.** Two of everything that can race, and three where a third is needed (a
watch made while one is called and another cancelled; a message that overtakes
while one is prepared and one is removed; an offer queued behind one that is queued
behind the current one). Every bound is a constant of its module and a guard of the
action it limits; `MaxChanges` and its like bound what the environment does, never
what the code does. The whole state space of each instance is searched; nothing is
cut by a constraint. The only symmetry is that of the owners of a bus name in
`proxy` (`AnyOwner`): they are compared for equality only, and no property there is
temporal in more than one step.

`CHECK_DEADLOCK FALSE` stands where bounded environments may stop.

**Fairness**, spelt out in `MCLiveness`: weak fairness of idle sources and timeouts
(the main loop runs), of delivery (the bus drops nothing, and dbus-glib completes
every call with a reply, an error, or the destruction of the proxy), of callbacks
that return, of peers that answer a call, and of subclasses that finish what they
began (`shut_down` leads to `finish_shutdown`, `prepare_async` calls back, CORE is
announced). Users need not do anything: cancelling, disconnecting and acknowledging
are not fair.

### Disagreements with the code's own words

Five runs expect a violation. Each is a finding in `PROJECT.json`, with the line
quoted.

* `pending_call_run_quit`: a `tp_cli_*_run_*` call whose main loop is quit by the
  user returns FALSE without the promised error, and its idle callback later writes
  into a stack frame that is gone.
* `group_early_signals`: HandleOwnersChangedDetailed before the reply to GetAll
  fails an assertion, although a comment says that such a signal is ignored.
* `call_without_hold`: a `TpCallChannel` of a manager without the Hold interface is
  never prepared, since nothing sets `hold_state_retrieved`.
* `dbus_tube_closing`: a D-Bus tube that closes while it is being offered answers
  its caller twice, and the second time fails `g_assert (priv->result != NULL)`.
* `partial_delegation`: if the dispatcher takes some of the channels that a client
  delegates and not others, `path_is_in_array` looks for the others past the end of
  the list, although the documentation says how both sorts are returned.

## 3. Proofs

Each theorem holds for every value of the constants; the bounds of the models (how
often the environment acts) are arbitrary numbers in them. `SoundConstants` of a
module says what its constants are, and nothing more; theorems have it as a
hypothesis, and the MC modules assume it of the instances they make. The one other
assumption on constants is `DisjointCalls` of `PendingCall` (a call is asynchronous
or a run call).

| module | theorems |
|---|---|
| `PendingCallProofs` | `Invariance`, `TypeCorrect`, `FreedIsUnreferenced` (`NoDanglingReference`), `IfaceIsThere`, `RepliesAreTaken` (`NoReplyDropped`), `CallbackOnce` (`CallbackDiscipline`), `CallsKeepTheirPromise` (`PromiseKept`) |
| `CMProcess` | `ProcessInvariance`, `ProcessExitsIdle` (`ExitsIdle`), `ProcessQuitIsFinal` (`QuitIsFinal`) |
| `ConnectionManagerProofs` | `ManagerInvariance`, `ManagerIntrospects`, `ManagerShowsOneRun`, `ManagerIsCurrent`, `ManagerSignals`, `ManagerIsMirrored` (`ManagersMirrored`), `ManagerNeverDegrades` (`NeverDegrades`) |
| `MediaOffers` | `OffersInvariance`, `OffersAreAnsweredInOrder` (`AnsweredInOrder`) |
| `DispatchOperation` | `OperationInvariance`, `OperationIsRight` |
| `DBusTube` | `TubeInvariance`, `TubeTransfersAreRight` (the parts of `TransfersAreRight` about D-Bus tubes), `OpenTubeAssertionsHold` (`AssertionsHold`, if the channel does not close) |
| `FileTransfer` | `TransferInvariance`, `FileTransfersAreRight` (the parts about files) |

The proofs have one shape. A lemma for each C function says what it makes of a
structure: its type, the fields it changes and those it leaves alone. A step for
each action shows that the inductive invariant is preserved, conjunct by conjunct,
from those lemmas alone. TLC checked each inductive invariant on the instances
before it was proved.

**Pending calls** (any sets of asynchronous and run calls). The invariant says of
every structure (`CallInv`) which owner still has it and which fields that implies:
it is freed exactly when both owners are done, dbus-glib holds the proxy pointer
until it is finished, the callback is outstanding exactly until it was called or
cancelled. None of the properties is inductive without that. `CallsKeepTheirPromise`
is the refinement: `Seen` maps a structure to a call of `MethodCall`, every step
maps to a step of one call, of several calls that the loss of the service decides at
once, or to a stutter.

**The process** (any set of connections). Beside the types and the two halves of
"a timeout runs exactly while there are no connections" the invariant has
`QuitIdle`: a main loop that was quit with the bus there has no connection, no
reference to the manager, and no PERSIST flag. That makes `ExitsIdle` inductive: an
answer to RequestConnection needs the manager, which nothing keeps alive any more.

**Connection managers, seen by a client** (any protocols, with any or no file, old
or new managers, any number of runs of the process). That the live information is of
one run, and of the present one once all is quiet, needs to be known of every stage
on the way: `OneCall` (at most one call or reply is outstanding, and replies that were
cancelled are ignored), `Stages` (which call belongs to which stage of the
introspection), `Owners` (the last of the name changes on their way
says what is so now, and without one the client knows it), `Runs` (what was found
so far is of one run, and a reply that comes before the next news of the process is of
the same), `Sources` (what is shown, and where it came from) and `Completes`
(the introspection of a process that goes on running does not stop before all of its
protocols were found). `ManagerNeverDegrades` is the
action property: no callback replaces live information by that of the file, or
either by nothing.

**Dispatch operations** (any channels, given with AddDispatchOperation or not, with or
without a rival). A claim by a TpBaseClient, or one that closes, leaves or destroys,
acts on the channels of the proxy, not on those of the dispatcher, so that it is right
only because of the order of the messages. `Lists` says of every list of channels, the
proxy's and those in replies on their way, that it is the dispatcher's but for channels
whose ChannelLost is behind it; `FillsOnce` that GetAll is called once, after the
channels that were given; `Claiming` that the answer to a Claim() that succeeded has
every ChannelLost before it and Finished behind it. When that answer is dispatched, the
two lists are then equal. The proofs are about `ClaimIsWhole` and
`PlainClaimIsHonest`; that the other four ways to claim report the truth is not
claimed, since they do not (section 4).

**Media description offers** (any descriptions and contacts). The invariant ties
four places together: the current offer, its result and its cancellable are there
together (`Coherent`); the current offer is on the bus, or its cancellation waits in
an idle source, and no other is either (`OnTheBus`); what was asked
is what was answered, then what is current, then what is queued (`Ordered`), each
once and none of them dropped (`Distinct`), and a content that was disposed of has
nothing left to answer (`AtRest`). From it follow that no assertion fails, that one offer at a time is on the bus, that
local and remote descriptions stay paired, and that offers are answered once and in
order.

**D-Bus tubes** (both directions, closing at any moment, any number of calls).
`ReadFirst`: the state is read once and before anything is asked; `OpensOnce`: the
tube opens once, and no news of its state follows; the other conjuncts are the
properties, which are inductive beside these. Proving it changed the model twice:
the service could reopen a tube that was closed, and a second Offer was never
answered, neither of which the code or a connection manager does. The
assertion in `complete_operation` does not hold if the channel closes (above); that
closing is the only cause is `OpenTubeAssertionsHold`. Its invariant `OneStage` says
that one thing at a time is done for the call under way, its preparation, then Offer or
Accept, then waiting for the tube to open, then the connection, so that whichever
callback comes next has a call to answer.

**File transfers** (both directions, any number of calls, none before an earlier one
was answered: `~Overlap`). `OneCall` says what the result stands for at each stage
(opening the file, setting the URI, calling, failing), `Replies` and `InOrder` that
replies and states arrive as the connection manager gave them, `Silence` that nothing
follows the closing, `Starts` that the transfer has started exactly if the address and
the state Open are both known. With overlapping calls the assertion of
`operation_failed` fails; TLC finds that too.

### Only model-checked

* Liveness, and what follows from fairness: TLAPS has no rule for it here.
* Recursive definitions and folds: induction over data is not available, so what a
  loop over a sequence computes cannot be proved. The reference counts of
  `SignalConnection`, the requests of `BaseConnection`, the tables of
  `ClientInterests`, `TextChannel`, `GroupMixin`, `BaseContactList` and
  `BaseMediaCall` are sums or loops of this kind, and `Handles`, `Contacts`,
  `ChannelClient`, `NameOwnerWatch`, `ProxyFeatures`, `ContactList`, `ToneQueue` use
  recursive operators.
* Not yet attempted: `Connection`, `Account`, `AccountManager`, `ChannelRequest`,
  `ChatStates`, `CallTones`, `CallChannel`, `StreamTube`,
  `BaseClient`, `ServiceChannels` and the examples.

## 4. Met while modelling

Behaviour that a reader of the code might not expect. The models have it as the code
has it; where a property would be false because of it, the property names the
exception, or an instance leaves the case out.

**Proxies.** A feature whose interface is missing and whose retry is due is only
retried when something else polls; a cycle of dependencies is never broken. If GetAll
and then GetStatus fail, CORE of a `TpConnection` is never decided
(`connection.c:1292`, against `proxy.c:1924-1926`). A self handle that changes between
the reply to GetAll and the one that makes the connection ready for contacts runs into
a `g_return_if_fail` (`connection.c:957`, `contact.c:4539-4542`). A callback that drops
the last reference to a TpDBusDaemon leaves `noc_idle_context_invoke` with a freed
list element (`dbus-daemon.c:313`, against 229); it is the only way to do so
(`MisuseIsTheLastUnref`). A watch made inside a callback may be
told the same owner twice, and a destroy notify that cancels another watch of the name
can destroy user data twice.

**Channels.** Two more windows like that of `group_early_signals`: SelfContactChanged
whose contact is prepared before the reply to GetAll, and, on the fallback path,
MembersChanged between GetAllMembers and GetLocalPendingMembersWithInfo.
`_tp_channel_group_set_one_lp` keeps an old `actor_contact`; `change_members` replaces
local-pending information without a signal if nobody is new in any set; added owners
are not announced on external objects that share a mixin. The reason of a removal is
kept when the user is added again, so that a channel closed much later still reports it
(`channel.c:1279`). A change of chat state from
GONE to INACTIVE is not signalled (`MirrorUpToGone`). PasswordFlagsChanged before the
reply to GetPasswordFlags notifies, and the reply may then change the flag without
notifying (`channel.c:1474-1520`). After a failed introspection `leave` and `close`
report success though no Close() was sent (`channel.c:2551-2575`). The callback of
`tp_channel_call_when_ready` is called twice if it runs a nested loop in which the
channel is invalidated; `run_until_ready` asserts `ready` though its documentation
allows the loop to be quit (2191-2193).

**Channels of a manager.** AbortSASL does the opposite of its specification
(`base-password-channel.c:592-593`); a prompt while an earlier channel is open is never
answered (`simple-password-manager.c:354`); a disconnection inside the prompt callback
during Close destroys the channel twice; `normalize_room` lacks a return
(`conn.c:137-141`); the examples never set "requested", and use `channels` when it is
NULL after a disconnection; `complete_join` is a void function used as a GSourceFunc
whose timeout holds no reference.

**Contact lists.** `create_group_cb` of the example answers nothing on failure; after
`set_list_failed` later requests lose their tokens, since `channel_requests` is NULL;
group functions look at the state after the disconnection; `set_list_received` after a
failure does not clear it; an emulated rename loses members who join between the
snapshot and the removal; `tp_base_contact_list_groups_changed` computes `n_removed`
from `added` (`base-contact-list.c:4069-4076`). The client lists a renamed group twice,
and keeps one of the two when it is removed, since GroupRenamed is followed by
GroupsCreated (`connection.c:2159` promises the groups that exist); of two changes of a
new contact that are queued together the states of the second are lost; a list that
arrives between the preparation of CONTACT_LIST and its end is never fetched; and if
GetAll on the list fails, its state is unknown until the next ContactListStateChanged. The example leaves a rejected requester
in `contacts`, adds contacts silently in `authorize_publication` and
`receive_unauthorized`, keeps removed names in `all_tags`, and announces no alias.

**Contacts and handles.** `contact_avatar_retrieved` may set an older token back;
`mime_file_written` leaks. `tp_intset_symmetric_difference` leaves `largest_ever`, so
that enumeration misses members (`intset.c:779-806`), and iteration does not end if
(guint) -1 is a member. `tp_heap_remove` inside the heap sifts from the root
(`heap.c:186-229`): the order is lost, and later extracts may lose or repeat an element.
`connection_requested_handles` leaks on a reply of the wrong length. Client interests
are derivable from the calls only while the connection is registered.

**Accounts and dispatching.** The feature CONNECTION of an account that meets a change
in its "idle" phase may hide the connection for ever (`account.c:243-244`);
`insert_account` connects its handlers again on each re-validation; that a change of
UNSET or OFFLINE is ignored can contradict the documentation of 0.17.5. A client's
prepare callbacks hold no reference on it; request-added may follow request-removed; a
channel that one client delegates stays in another's `my_chans`. A request whose
dispatcher leaves the bus while Proceed() is unanswered fails an assertion: the loss
answers the caller, and the error of Proceed() answers again
(`account-channel-request.c:674`, `SettledOnceUnlessLost`). An operation whose channels are claimed by a rival
may report success for the claim of a TpBaseClient (`channel-dispatch-operation.c`,
~1505). The "trigger re-introspection" of `connection-manager.c` does nothing once
protocols are known, and without always-introspect an activation that finds a good file
may go unanswered.

**Protocols and objects.** "0" and "false" as defaults are read as TRUE
(`protocol.c:1468-1470`, against 1449-1453); 'q' is tested where 'n' is meant (1545);
vCard fields and URI schemes are not read from files; unsigned 64-bit numbers wrap; a
file with parameters only makes CORE prepared; the room list's `with_server` is that of
the first class (`capabilities.c:1076-1078`). Leaks: TpCallContent's channel,
TpContactSearch's server, TpTLSCertificateRejection's error, TpTLSCertificate's parent;
not safe to dispose of twice: TpContactSearch, TpTLSCertificateRejection. The chat
rooms of the example do not finalize their group mixin.

**Calls.** A failed Accept leaves `locally_accepted` TRUE; streams that are not initial
are not started by `remote_accept`; CallMembersChanged sets `remotely_held` for streams
without members; the removal of a content re-evaluates neither acceptance, hold nor
state. With two streams and a hold a call may be accepted twice, and a pending hold may
be left without a stream to wait for after a failure. A tone requested when the call
changes may fail an assertion (`base-media-call-content.c:1062`); offers queued when a
content goes are dropped unanswered, one that is cancelled is completed later, and one
made after that goes on the bus and nothing cancels it. In
the client, CallMembersChanged before the reply to GetAll prepares too early, and two
failing replies answer twice. A tone request whose cancellable is already cancelled is
never called back (`call-channel.c`, ~1721), and tones that another client stops
complete requests early. In the example, ringing after the end re-adds a removed member
(`call-channel.c:563-601`), and a content added before acceptance sends at once.

**Transfers.** A stream tube whose contact cannot be had, or that closes, never answers
`accept_async`; failing to send credentials answers twice; "Can't reoffer Tube!" answers
nothing; with access control LOCALHOST the first waiting connection is taken to be the
one that was announced. Overlapping calls on a file transfer fail an assertion
(`file-transfer-channel.c:187`).

**Read but not modelled.** Resetting a contact search while another reset runs leaves
the second unanswered (`contact-search.c:583-595`, against 570-572), and its `keys` point
into what a reset freed; a room list tests `server` the wrong way round and may emit
"failed" twice; `enabled` of the debug client is never refreshed.

Assumed of peers: the account manager sends the change of Valid before
AccountValidityChanged; the dispatcher refuses Cancel while it calls the handler;
NameOwnerChanged precedes the error NoReply; a connection manager answers calls in
order.

## 5. Checking

    tlc -config Proxy.cfg MCProxy              tlapm PendingCallProofs.tla
    tlc -config Manager.cfg MCManager          tlapm CMProcess.tla
    tlc -config Channels.cfg MCChannels        tlapm ConnectionManagerProofs.tla
    tlc -config Roster.cfg MCRoster            tlapm MediaOffers.tla
    tlc -config Clients.cfg MCClients          tlapm DBusTube.tla
    tlc -config Calls.cfg MCCalls              tlapm FileTransfer.tla
    tlc -config Liveness.cfg MCLiveness        tlapm DispatchOperation.tla

    tlc -config PendingCallRunQuit.cfg PendingCall     (expected to fail)
    tlc -config GroupEarlySignals.cfg MCChannels       (expected to fail)
    tlc -config CallWithoutHold.cfg CallChannel        (expected to fail)
    tlc -config DBusTubeClosing.cfg DBusTube           (expected to fail)
    tlc -config PartialDelegation.cfg MCClients        (expected to fail)

Each run ends within four minutes on two cores; the largest, `channels`, has 2.3
million states. The proofs take from a quarter of a minute (`CMProcess`) to five
minutes (`ConnectionManagerProofs`).

## 6. Not modelled

`components` in `PROJECT.json` lists every part of the repository and what of it is
modelled. Left out altogether:

* parts without a lifecycle: messages as containers, D-Bus and value utilities, error
  tables, code generators (what `glib-client-gen.py` makes for method calls is in
  `PendingCall`), requests for accounts, wrappers of one call, the contacts mixin, which
  only collects attributes, and factories of proxies, which are a cache by path;
* deprecated parts that a modelled one has replaced: the text mixin, channel factories
  (their contract is in `BaseConnection`), the old interface of properties;
* presence mixins, contact search, room lists, debugging and TLS certificates: each shows
  what signals bring and has no protocol of its own beyond one call.
