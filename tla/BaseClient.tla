------------------------------ MODULE BaseClient ------------------------------
(***************************************************************************)
(* TpBaseClient (base-client.c): the Telepathy clients of one process, the *)
(* contexts of the method calls that the channel dispatcher makes on them  *)
(* (observe-channels-context.c, add-dispatch-operation-context.c,          *)
(* handle-channels-context.c), and the channels they handle.               *)
(*                                                                         *)
(* `base[k]` is what client k keeps, `ctxs` the contexts in the order of   *)
(* the calls, `table` the clients whose my_chans is in the table shared by *)
(* the clients of a D-Bus connection.  The dispatcher and the application  *)
(* that implements the virtual methods are external.                       *)
(***************************************************************************)
EXTENDS Integers, FiniteSets, SequencesExt

CONSTANTS Clients, Channels, Requests,
          Roles,       \* client -> subset of {"observe", "approve", "handle"}
          Delegates,   \* clients that called set_delegated_channels_callback()
          Announced,   \* requests that the dispatcher announces with AddRequest
          Preferred,   \* request -> its preferred handler, "" without the hint
          MaxContexts, MaxDelegations

VARIABLES base, table, ctxs, invalid, deleg, handler,
          stray        \* path_is_in_array() has left its array

vars == <<base, table, ctxs, invalid, deleg, handler, stray>>

SoundConstants ==
  /\ Roles \in [Clients -> SUBSET {"observe", "approve", "handle"}]
  /\ Delegates \subseteq Clients /\ Requests = DOMAIN Preferred /\ Announced \subseteq Requests
  /\ {MaxContexts, MaxDelegations} \subseteq Nat

NewBase == [registered |-> FALSE, alive |-> TRUE, requests |-> << >>, adding |-> {}, mine |-> {}]

Init ==
  /\ base = [k \in Clients |-> NewBase]
  /\ table = {} /\ ctxs = << >> /\ invalid = {} /\ deleg = {}
  /\ handler = [c \in Channels |-> "none"] /\ stray = FALSE

-----------------------------------------------------------------------------
(***************************************************************************)
(* Registration.  A handler shares its my_chans with the other clients on  *)
(* the connection, so that each of them can answer for all.                *)
(***************************************************************************)
IsHandler(k) == "handle" \in Roles[k]

Register(k) ==
  /\ base[k].alive /\ ~base[k].registered /\ Roles[k] # {}
  /\ base' = [base EXCEPT ![k].registered = TRUE]
  /\ table' = IF IsHandler(k) THEN table \cup {k} ELSE table
  /\ UNCHANGED <<ctxs, invalid, deleg, handler, stray>>

UnregisterFrom(t, k) == IF base[k].registered /\ IsHandler(k) THEN t \ {k} ELSE t

\* BUG: the borrowed my_chans stays in the table
UnregisterNothing(t, k) == t

DropFromTable(t, k) == UnregisterFrom(t, k)

Unregister(k) ==
  /\ base[k].registered
  /\ table' = DropFromTable(table, k)
  /\ base' = [base EXCEPT ![k].registered = FALSE]
  /\ UNCHANGED <<ctxs, invalid, deleg, handler, stray>>

HandledChannels == UNION {base[k].mine : k \in table}

InPreparation(k) == \E i \in DOMAIN ctxs : ctxs[i].client = k /\ ctxs[i].num_pending > 0

(* The last reference to a client is dropped.  The callers of the contexts'
   preparation, of AddRequest and of DelegateChannels need the client. *)
Dispose(k) ==
  /\ base[k].alive /\ ~InPreparation(k) /\ base[k].adding = {}
  /\ \A d \in deleg : d.client # k
  /\ table' = DropFromTable(table, k)
  /\ base' = [base EXCEPT ![k] = [NewBase EXCEPT !.alive = FALSE]]
  /\ handler' = [c \in Channels |-> IF handler[c] = k THEN "none" ELSE handler[c]]
  /\ UNCHANGED <<ctxs, invalid, deleg, stray>>

-----------------------------------------------------------------------------
(***************************************************************************)
(* Channels become handled and cease to be.                                *)
(***************************************************************************)
AddHandledChannels(b, k, cs) ==
  IF b[k].alive THEN [b EXCEPT ![k].mine = @ \cup (Range(cs) \ invalid)] ELSE b

\* BUG: a channel that closed before the context was accepted is handled
AddClosedChannels(b, k, cs) ==
  IF b[k].alive THEN [b EXCEPT ![k].mine = @ \cup Range(cs)] ELSE b

NowHandling(b, k, cs) == AddHandledChannels(b, k, cs)

ChanInvalidated(c) ==
  /\ c \notin invalid
  /\ invalid' = invalid \cup {c}
  /\ base' = [k \in Clients |-> [base[k] EXCEPT !.mine = @ \ {c}]]
  /\ handler' = [handler EXCEPT ![c] = "none"]
  /\ UNCHANGED <<table, ctxs, deleg, stray>>

-----------------------------------------------------------------------------
(***************************************************************************)
(* A context.  `answers` counts the replies sent to the caller.            *)
(***************************************************************************)
Context(kind, k, cs, rs, waits) ==
  [kind |-> kind, client |-> k, channels |-> cs, requests |-> rs, state |-> "NONE",
   waits |-> waits, num_pending |-> 0, called |-> FALSE, done |-> FALSE, answers |-> 0, held |-> TRUE]

Refuse(kind, k) == [Context(kind, k, << >>, << >>, {}) EXCEPT !.answers = 1, !.held = FALSE]

Open(x) == x.state \in {"NONE", "DELAYED"} /\ x.answers = 0

Accept(x) == IF Open(x) THEN [x EXCEPT !.state = "DONE", !.answers = @ + 1] ELSE x
Fail(x) == IF Open(x) THEN [x EXCEPT !.state = "FAILED", !.answers = @ + 1] ELSE x
Delay(x) == IF x.state = "NONE" THEN [x EXCEPT !.state = "DELAYED"] ELSE x

\* The context's own dispose answers a caller that nobody has answered.
Emptied(x) == [x EXCEPT !.held = FALSE, !.channels = << >>, !.requests = << >>]
DisposeContext(x) == Emptied(Fail(x))

\* BUG: a delayed context that is dropped answers nothing
DisposeUndelayed(x) == Emptied(IF x.state = "NONE" THEN Fail(x) ELSE x)

UnrefContext(x) == DisposeContext(x)

\* The account and the connection, each channel, and the dispatch operation.
PrepareCount(x) ==
  Len(x.channels) + (IF "operation" \in x.waits THEN 3 ELSE 2)

\* BUG: the dispatch operation is prepared and not counted
PrepareCountNoOperation(x) == Len(x.channels) + 2

NumPending(x) == PrepareCount(x)

ContextPrepare(x) == [x EXCEPT !.num_pending = NumPending(x)]

\* What the virtual method does with the context before it returns.
Behaviours == {"accept", "fail", "delay", "nothing"}

Behave(x, how) ==
  CASE how = "accept" -> Accept(x)
    [] how = "fail" -> Fail(x)
    [] how = "delay" -> Delay(x)
    [] how = "nothing" -> x

(* The virtual method is called; an implementation that forgets the context
   makes the call fail, and the context outlives the call only if delayed. *)
FailIfNone(x) == IF x.state = "NONE" THEN Fail(x) ELSE x
CallMethod(x, how) ==
  LET y == FailIfNone(Behave([x EXCEPT !.called = TRUE], how))
  IN IF y.state = "DELAYED" THEN y ELSE UnrefContext(y)

-----------------------------------------------------------------------------
(***************************************************************************)
(* ObserveChannels, AddDispatchOperation and HandleChannels.               *)
(***************************************************************************)
Orders(S) == {s \in [1..Cardinality(S) -> S] : IsInjective(s)}

HasFreeContext == Len(ctxs) < MaxContexts

Calling(x) ==
  /\ ctxs' = Append(ctxs, x)
  /\ UNCHANGED <<base, table, invalid, deleg, handler, stray>>

(* The method is not implemented, no channel is given, or one of the objects
   that the call names cannot be made. *)
RefuseCall(kind, k) ==
  /\ HasFreeContext /\ base[k].registered
  /\ Calling(Refuse(kind, k))

ObserveChannels(k, cs, operation) ==
  /\ HasFreeContext /\ base[k].registered /\ "observe" \in Roles[k]
  /\ Calling(ContextPrepare(Context("observe", k, cs, << >>,
       {"account", "connection"} \cup Range(cs) \cup IF operation THEN {"operation"} ELSE {})))

AddDispatchOperation(k, cs) ==
  /\ HasFreeContext /\ base[k].registered /\ "approve" \in Roles[k]
  /\ Calling(ContextPrepare(Context("approve", k, cs, << >>,
       {"account", "connection", "operation"} \cup Range(cs))))

(* The dispatcher hands a channel to one client at a time, and again to the
   client that handles it when the channel is requested again. *)
MayHandle(k, c) ==
  /\ handler[c] \in {"none", k} /\ c \notin invalid
  /\ \A i \in DOMAIN ctxs :
       ctxs[i].kind = "handle" /\ ctxs[i].client # k /\ c \in Range(ctxs[i].channels) => ~ctxs[i].held

HandleChannels(k, cs, rs) ==
  /\ HasFreeContext /\ base[k].registered /\ IsHandler(k)
  /\ \A c \in Range(cs) : MayHandle(k, c)
  /\ Calling(ContextPrepare(Context("handle", k, cs, rs, {"account", "connection"} \cup Range(cs))))

(* The handler named by the requests that ask for delegation: every such
   request overwrites the choice of the one before it. *)
HandlerToDelegate(rs) ==
  FoldLeft(LAMBDA h, r : IF Preferred[r] # "" THEN Preferred[r] ELSE h, "", rs)

MustDelegate(x) ==
  /\ x.kind = "handle" /\ x.client \in Delegates
  /\ HandlerToDelegate(x.requests) \notin {"", x.client}
  /\ Range(x.channels) \subseteq HandledChannels

Delegation(k, cs) == [client |-> k, channels |-> cs, 
   n |-> CHOOSE n \in 0..Cardinality(deleg) : \A d \in deleg : d.n # n]

(* DelegateChannels is called before the context is accepted, and nothing
   listens to the context's "done" yet. *)
DelegateIfNeeded(i, x) ==
  /\ MustDelegate(x)
  /\ deleg' = deleg \cup {Delegation(x.client, Reverse(x.channels))}
  /\ ctxs' = [ctxs EXCEPT ![i] = UnrefContext(Accept(x))]
  /\ UNCHANGED <<base, table, invalid, handler, stray>>

\* The caller of HandleChannels is told that the client handles the channels.
Takes(x, y) == x.kind = "handle" /\ x.state # "DONE" /\ y.state = "DONE"
HandlerAfter(x, y) ==
  IF Takes(x, y) /\ base[x.client].alive
    THEN [c \in Channels |-> IF c \in Range(x.channels) \ invalid THEN x.client ELSE handler[c]]
    ELSE handler

(* "done" was connected before the virtual method is called. *)
Become(i, x, y) ==
  /\ ctxs' = [ctxs EXCEPT ![i] = y]
  /\ base' = IF Takes(x, y) THEN NowHandling(base, x.client, x.channels) ELSE base
  /\ handler' = HandlerAfter(x, y)
  /\ UNCHANGED <<table, invalid, deleg, stray>>

ContextPrepared(i, x) ==
  \/ DelegateIfNeeded(i, x)
  \/ ~MustDelegate(x) /\ \E how \in Behaviours : Become(i, x, CallMethod(x, how))

(* The preparation of one proxy has ended, well or badly. *)
ProxyPrepared(i, p) ==
  LET x == [ctxs[i] EXCEPT !.waits = @ \ {p}, !.num_pending = @ - 1]
  IN /\ p \in ctxs[i].waits
     /\ IF x.num_pending = 0 /\ ~x.called
          THEN ContextPrepared(i, x)
          ELSE /\ ctxs' = [ctxs EXCEPT ![i] = x]
               /\ UNCHANGED <<base, table, invalid, deleg, handler, stray>>

\* The application answers a context that it delayed, or forgets it.
Answer(i, how) ==
  /\ ctxs[i].held /\ ctxs[i].state = "DELAYED"
  /\ Become(i, ctxs[i], UnrefContext(Behave(ctxs[i], how)))

-----------------------------------------------------------------------------
(***************************************************************************)
(* Delegation.                                                             *)
(***************************************************************************)
DelegateChannels(k, cs) ==
  /\ base[k].alive /\ IsHandler(k) /\ Cardinality(deleg) < MaxDelegations
  /\ Range(cs) \subseteq base[k].mine
  /\ deleg' = deleg \cup {Delegation(k, cs)}
  /\ UNCHANGED <<base, table, ctxs, invalid, handler, stray>>

(* path_is_in_array() does not compare its index with the length: it leaves
   a nonempty array that does not contain the path.  What follows is undefined,
   and the behaviour ends there. *)
PathIsInArray(array, c) == c \in array
LeavesArray(array, c) == array # {} /\ c \notin array

DelegateFails(d) ==
  /\ d \in deleg
  /\ deleg' = deleg \ {d}
  /\ UNCHANGED <<base, table, ctxs, invalid, handler, stray>>

NoLongerHandling(b, d, delegated) ==
  [b EXCEPT ![d.client].mine = {c \in @ : c \notin Range(d.channels) \/ ~PathIsInArray(delegated, c)}]

\* BUG: the channels stay among those the client handles
StillHandling(b, d, delegated) == b

AfterDelegation(b, d, delegated) == NoLongerHandling(b, d, delegated)

(* The dispatcher has passed some of the channels to another handler.  Its
   account of who handles them changes before the reply is sent. *)
DelegateReplyStrays(d, delegated) ==
  /\ d \in deleg /\ \E c \in Range(d.channels) : LeavesArray(delegated, c)
  /\ stray' = TRUE
  /\ UNCHANGED <<base, table, ctxs, invalid, deleg, handler>>

DelegateReply(d, delegated) ==
  /\ d \in deleg /\ ~\E c \in Range(d.channels) : LeavesArray(delegated, c)
  /\ deleg' = deleg \ {d}
  /\ base' = AfterDelegation(base, d, delegated)
  /\ handler' = [c \in Channels |->
       IF c \in delegated /\ handler[c] = d.client THEN "other" ELSE handler[c]]
  /\ UNCHANGED <<table, ctxs, invalid, stray>>

-----------------------------------------------------------------------------
(***************************************************************************)
(* Requests that the client is likely to be asked to handle.               *)
(***************************************************************************)
AddRequest(k, r) ==
  /\ base[k].registered /\ r \notin Range(base[k].requests) /\ r \notin base[k].adding
  /\ base' = [base EXCEPT ![k].requests = Append(@, r), ![k].adding = @ \cup {r}]
  /\ UNCHANGED <<table, ctxs, invalid, deleg, handler, stray>>

RequestAccountPrepared(k, r) ==
  /\ r \in base[k].adding
  /\ base' = [base EXCEPT ![k].adding = @ \ {r}]
  /\ UNCHANGED <<table, ctxs, invalid, deleg, handler, stray>>

RemoveRequest(k, r) ==
  /\ base[k].registered /\ r \in Range(base[k].requests)
  /\ base' = [base EXCEPT ![k].requests = SelectSeq(@, LAMBDA q : q # r)]
  /\ UNCHANGED <<table, ctxs, invalid, deleg, handler, stray>>

-----------------------------------------------------------------------------
ChannelLists == UNION {Orders(S) : S \in SUBSET Channels \ {{}}}
RequestLists == UNION {Orders(S) : S \in SUBSET Requests}

ClientStep(k) ==
  \/ Register(k) \/ Unregister(k) \/ Dispose(k)
  \/ \E kind \in {"observe", "approve", "handle"} : RefuseCall(kind, k)
  \/ \E cs \in ChannelLists :
       \/ \E operation \in BOOLEAN : ObserveChannels(k, cs, operation)
       \/ AddDispatchOperation(k, cs)
       \/ \E rs \in RequestLists : HandleChannels(k, cs, rs)
       \/ DelegateChannels(k, cs)
  \/ \E r \in Announced : AddRequest(k, r) \/ RequestAccountPrepared(k, r) \/ RemoveRequest(k, r)

Next ==
  /\ ~stray
  /\ \/ \E k \in Clients : ClientStep(k)
     \/ \E c \in Channels : ChanInvalidated(c)
     \/ \E i \in DOMAIN ctxs :
          \/ \E p \in ctxs[i].waits : ProxyPrepared(i, p)
          \/ \E how \in Behaviours : Answer(i, how)
     \/ \E d \in deleg :
          \/ DelegateFails(d)
          \/ \E delegated \in SUBSET Range(d.channels) :
               DelegateReply(d, delegated) \/ DelegateReplyStrays(d, delegated)

Spec == Init /\ [][Next]_vars

-----------------------------------------------------------------------------
(* The types of the clients and of the contexts; a context is prepared in as
   many steps as it waits for. *)
TypeOK ==
  /\ \A k \in Clients :
       /\ base[k].requests \in RequestLists /\ base[k].adding \subseteq Requests
       /\ base[k].mine \subseteq Channels
  /\ table \subseteq Clients /\ invalid \subseteq Channels
  /\ handler \in [Channels -> Clients \cup {"none", "other"}]
  /\ \A i \in DOMAIN ctxs :
       /\ ctxs[i].state \in {"NONE", "DELAYED", "DONE", "FAILED"}
       /\ ctxs[i].num_pending = Cardinality(ctxs[i].waits)

(* Every call of the dispatcher is answered, and once: neither an
   implementation that forgets its context, nor one that delays and then drops
   it, leaves the dispatcher waiting, and no path answers a call twice. *)
AnsweredOnce ==
  \A i \in DOMAIN ctxs :
    /\ ctxs[i].answers <= 1
    /\ (ctxs[i].answers = 1) = ~ctxs[i].held

(* The application sees a context only when the account, the connection, the
   dispatch operation and all the channels have been prepared. *)
CalledWhenPrepared ==
  \A i \in DOMAIN ctxs : ctxs[i].called => ctxs[i].waits = {}

(* HandledChannels is what the dispatcher believes: a client handles exactly
   the channels whose HandleChannels it has accepted and that have neither
   closed nor been delegated since, in whatever order the application accepts,
   the channels close and the dispatcher answers. *)
HandlesWhatItAccepted ==
  \A k \in Clients : base[k].alive => base[k].mine = {c \in Channels : handler[c] = k}

(* The table that the clients of a connection share holds only the channels of
   registered handlers that are still alive: it borrows them. *)
TableIsAlive ==
  \A k \in table : base[k].alive /\ base[k].registered /\ IsHandler(k)

(* A client that delegates channels may be told that some of them "have been
   properly delegated" and others "have not been delegated"
   (tp_base_client_delegate_channels_finish): looking for a channel never leaves the
   list of those that were delegated (path_is_in_array). *)
DelegationStaysInBounds == ~stray
=============================================================================
