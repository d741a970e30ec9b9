------------------------------ MODULE MCProxy ------------------------------
(* The parts of TpProxy: its pending calls, the connections to its signals,
   and the preparation of its features, for three classes of proxies; its subclass
   TpConnection; and its subclass TpDBusDaemon with the watches on a name, by one
   object with three watches and by two objects with one each.  They share no state, so a behaviour of this module is
   one of any one of them: `part' tells which, and the others stay as they were. *)
EXTENDS PendingCall, SequencesExt

CONSTANT BusNames  \* the unique names that may own the name that is watched

VARIABLES part, sc, idles, stack, proxy, iface,
  state, requests, results, preparing, announcing, pending, announce, conn,
  invalidated, calls, awaited, aborted,
  cm, conn_calls, wire, self, getting,
  bus, bus_calls, inbox, bus_idles, daemons, d, loop, used, told, ended

signalVars == <<sc, idles, stack, proxy, iface>>
featureVars == <<state, requests, results, preparing, announcing, pending, announce, conn,
                 invalidated, calls, awaited, aborted>>
objectVars == <<cm, conn_calls, wire, self, getting>>
watchVars == <<bus, bus_calls, inbox, bus_idles, daemons, d, loop, used, told, ended>>

Signals == INSTANCE SignalConnection WITH
  Conns <- {"s1", "s2"}, WeakObjects <- {"o1"}, NoObject <- "none",
  MaxSignals <- 2, MaxDepth <- 2

NoDeps(fs) == [f \in fs |-> <<>>]

(* TpConnection, with one feature of each kind: CONTACT_LIST depends on
   CONTACT_LIST_PROPERTIES, and both need an interface that is gained late. *)
ConnTable == <<"CORE", "CONNECTED", "CAPABILITIES", "CONTACT_LIST", "CONTACT_LIST_PROPERTIES">>
ConnDeps == [NoDeps(Range(ConnTable) \cup {"BOGUS"}) EXCEPT
               !["CONTACT_LIST"] = <<"CONTACT_LIST_PROPERTIES">>]
ConnCalls == {<<"CONTACT_LIST", "CAPABILITIES">>, <<"CONNECTED">>,
              <<"CONTACT_LIST_PROPERTIES">>, <<"BOGUS">>}

Conn == INSTANCE ProxyFeatures WITH
  Table <- ConnTable, Unknown <- {"BOGUS"}, Core <- << <<"CORE">> >>, DependsOn <- ConnDeps,
  LateIface <- {"CONTACT_LIST", "CONTACT_LIST_PROPERTIES"}, NoIface <- {}, CanRetry <- {},
  Passive <- {"CORE", "CONNECTED"}, BeforeConnected <- {}, ConnectedFeature <- "CONNECTED",
  IsConnection <- TRUE, MayFail <- FALSE, MayDie <- TRUE,
  Calls <- {1, 2, 3}, CallFeatures <- ConnCalls

(* TpTestsMyConnProxy of the tests: a subclass with a core feature of its own,
   a feature that may be retried, one to prepare before CONNECTED is announced. *)
MyTable == <<"MY_CORE", "A", "B", "RETRY", "RETRY_DEP", "BEFORE", "LATER", "CORE", "CONNECTED">>
MyDeps == [NoDeps(Range(MyTable)) EXCEPT !["B"] = <<"A">>, !["RETRY_DEP"] = <<"RETRY", "A">>]

My == INSTANCE ProxyFeatures WITH
  Table <- MyTable, Unknown <- {}, Core <- << <<"CORE">>, <<"MY_CORE">> >>, DependsOn <- MyDeps,
  LateIface <- {"LATER"}, NoIface <- {}, CanRetry <- {"RETRY"},
  Passive <- {"CORE", "CONNECTED"}, BeforeConnected <- {"BEFORE"}, ConnectedFeature <- "CONNECTED",
  IsConnection <- TRUE, MayFail <- FALSE, MayDie <- TRUE,
  Calls <- {1, 2}, CallFeatures <- {<<"B">>, <<"RETRY_DEP">>, <<"BEFORE", "LATER">>}

(* TpConnectionManager, which reports failures with _tp_proxy_set_features_failed. *)
Manager == INSTANCE ProxyFeatures WITH
  Table <- <<"CORE">>, Unknown <- {}, Core <- << <<"CORE">> >>, DependsOn <- NoDeps({"CORE"}),
  LateIface <- {}, NoIface <- {}, CanRetry <- {}, Passive <- {"CORE"}, BeforeConnected <- {},
  ConnectedFeature <- "CONNECTED", IsConnection <- FALSE, MayFail <- TRUE, MayDie <- TRUE,
  Calls <- {1, 2, 3}, CallFeatures <- {<<>>, <<"CORE">>}

(* TpConnection itself, with any call refused and two changes of its own handle. *)
Introspection == INSTANCE Connection WITH
  Handles <- {1, 2}, Refused <- {"GetStatus", "GetAttributes", "GetSelfHandle"},
  MaxSelfChanges <- 2, calls <- conn_calls

One == INSTANCE NameOwnerWatch WITH
  NDaemons <- 1, NWatches <- 3, Owners <- BusNames, MaxChanges <- 2,
  WatchInside <- TRUE, UnrefInside <- TRUE, OnDestroy <- <<0, 0, 0>>,
  calls <- bus_calls, idles <- bus_idles, frame <- loop

Two == INSTANCE NameOwnerWatch WITH
  NDaemons <- 2, NWatches <- 2, Owners <- BusNames, MaxChanges <- 1,
  WatchInside <- FALSE, UnrefInside <- FALSE, OnDestroy <- <<0, 0>>,
  calls <- bus_calls, idles <- bus_idles, frame <- loop

ASSUME SoundInstances ==
  /\ Introspection!SoundConstants /\ Signals!SoundConstants
  /\ Conn!TableIsSound /\ My!TableIsSound /\ Manager!TableIsSound
  /\ One!SoundConstants /\ Two!SoundConstants

(* Nothing but its identity tells one owner of the name from another. *)
AnyOwner == Permutations(BusNames)

Absent == cm = 0 /\ conn_calls = << >> /\ wire = << >> /\ self = 0 /\ getting = << >>

Unwatched == One!Init /\ bus.owner = ""

MCInit ==
  /\ Init /\ Signals!Init
  /\ \/ part \in {"calls", "signals", "connection"} /\ Conn!Init /\ Absent /\ Unwatched
     \/ part = "subclass" /\ My!Init /\ Absent /\ Unwatched
     \/ part = "manager" /\ Manager!Init /\ Absent /\ Unwatched
     \/ part = "introspection" /\ Manager!Init /\ Introspection!Init /\ Unwatched
     \/ part = "one" /\ Manager!Init /\ Absent /\ One!Init
     \/ part = "two" /\ Manager!Init /\ Absent /\ Two!Init

CallsStep ==
  part = "calls" /\ Next /\ UNCHANGED <<part, signalVars, featureVars, objectVars, watchVars>>
SignalStep ==
  part = "signals" /\ Signals!Next /\ UNCHANGED <<part, vars, featureVars, objectVars, watchVars>>
FeatureStep ==
  /\ \/ part = "connection" /\ Conn!Next
     \/ part = "subclass" /\ My!Next
     \/ part = "manager" /\ Manager!Next
  /\ UNCHANGED <<part, vars, signalVars, objectVars, watchVars>>
IntrospectionStep ==
  /\ part = "introspection" /\ Introspection!Next
  /\ UNCHANGED <<part, vars, signalVars, featureVars, watchVars>>
WatchStep ==
  /\ \/ part = "one" /\ One!Next
     \/ part = "two" /\ Two!Next
  /\ UNCHANGED <<part, vars, signalVars, featureVars, objectVars>>

MCNext == CallsStep \/ SignalStep \/ FeatureStep \/ IntrospectionStep \/ WatchStep

MCSpec == MCInit /\ [][MCNext]_<<part, vars, signalVars, featureVars, objectVars, watchVars>>
-----------------------------------------------------------------------------
(* The types of all parts. *)
TypesOK ==
  /\ part = "calls" => TypeOK
  /\ part = "signals" => Signals!TypeOK
  /\ part = "connection" => Conn!TypeOK
  /\ part = "subclass" => My!TypeOK
  /\ part = "manager" => Manager!TypeOK
  /\ part = "introspection" => Introspection!TypeOK
  /\ part = "one" => One!TypeOK
  /\ part = "two" => Two!TypeOK

(* A signal connection is handled in order and in memory that is there: the
   reference counts are exact when it is disconnected from a callback or because
   its weak object dies, and it points to its proxy only while the proxy lives;
   its idle sources are its queue of invocations, in order - g_assert (popped ==
   invocation) in tp_proxy_signal_invocation_run - and once it is disconnected no
   callback starts any more. *)
SignalsAreSound ==
  part = "signals" =>
    /\ Signals!RefcountsExact /\ Signals!ProxyPointerValid /\ Signals!NoUseAfterFree
    /\ Signals!SourcesMatchQueue /\ Signals!NoCallbackAfterDisconnect

(* Features are prepared in order and told of truly: none is tried before what
   it depends on is ready and the core is decided, core features from superclass
   to subclass, none twice at a time (tp_proxy_poll_features); the assertions of
   proxy.c hold; the callback of tp_proxy_prepare_async is called exactly once,
   pending_will_announce_calls counts the callbacks yet to come, and a successful
   call that names a core feature finds it ready, however often preparing it had
   failed (_tp_proxy_set_features_failed). *)
PreparationIsSound ==
  /\ part = "connection" => /\ Conn!DependenciesFirst /\ Conn!PreparedOnceAtATime
                            /\ Conn!AssertionsHold /\ Conn!EachCallOnce
  /\ part = "subclass" => My!CoreInOrder /\ My!AssertionsHold /\ My!AnnounceExact
  /\ part = "manager" => Manager!NamedCoreIsReady

(* The user hears of things in their order: a reply in hand is kept when the
   DBusGProxy is destroyed, and ::invalidated is emitted after the signals queued
   before; a tp_proxy_prepare_async succeeds when every feature it named is
   decided, and CONNECTED is announced when what waited for an interface was
   retried. *)
ToldInOrder ==
  [][/\ part = "calls" => RepliesAreKept
     /\ part = "signals" => Signals!QueuedSignalsRunFirst
     /\ part = "connection" => Conn!SuccessMeansDecided
     /\ part = "subclass" => My!RetriedBeforeAnnounced]_<<vars, signalVars, featureVars>>

(* A TpConnection tells the truth: its introspection has one call at a time, and
   the one it may cancel is on its way; CONNECTED is announced once, with the
   introspection done and the self-contact there; and when nothing is on its way
   it shows the status and the self-contact of the connection, however signals
   and replies crossed. *)
ConnectionIsTrue ==
  part = "introspection" =>
    /\ Introspection!AssertionsHold /\ Introspection!ConnectedMeansIntrospected
    /\ Introspection!ShowsTheTruth

(* Outside the loop over callbacks every watcher was last told the owner its
   TpDBusDaemon knows, whenever it joined; when nothing is under way that is the
   owner the name has, however signals, the reply and earlier watches crossed; and
   a callback is called again only when the owner changes.  A cancelled watch is
   not called back, not even in the loop under way; its user data is destroyed,
   once; the list of daemons is used after it changed only when a callback dropped
   the last reference to its TpDBusDaemon; and there is one match rule for every TpDBusDaemon that watches, and none
   left behind. *)
WatchersAreTold ==
  /\ part = "one" => /\ One!ToldWhatIsKnown /\ One!QuietMeansTrue
                     /\ One!NotAfterCancel /\ One!DestroyedOnce
                     /\ One!NothingLeaks /\ One!OneRuleEach /\ One!MisuseIsTheLastUnref
  /\ part = "two" => Two!QuietMeansTrue /\ Two!ToldChangesOnly /\ Two!OneRuleEach
=============================================================================
