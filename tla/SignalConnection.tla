-------------------------- MODULE SignalConnection --------------------------
(***************************************************************************)
(* TpProxySignalConnection (telepathy-glib/proxy-signals.c): connections   *)
(* of callbacks to the D-Bus signals of one TpProxy, with the parts of     *)
(* proxy.c that invalidate and dispose of the proxy.                       *)
(*                                                                         *)
(* A signal is not delivered at once: it becomes an invocation, queued on  *)
(* the connection and as an idle source of the main loop.  A connection is *)
(* owned by dbus-glib (the closure connected to the signal) and by each of *)
(* its invocations; an invocation also owns the TpProxy, which owns        *)
(* nothing but tells the connections when it is invalidated.  User         *)
(* callbacks may re-enter the main loop, disconnect and drop references.   *)
(*                                                                         *)
(* The C functions are operators on the world, a record of everything they *)
(* may touch; they are composed as the functions call each other.          *)
(***************************************************************************)
EXTENDS Naturals, Sequences, FiniteSets, SequencesExt

CONSTANTS
  Conns,        \* the signal connections that are ever made
  WeakObjects,  \* the objects that may be given as weak_object
  NoObject,     \* NULL
  MaxSignals,   \* bound: signals received per connection
  MaxDepth      \* bound: nested dispatches of user callbacks

SoundConstants == MaxSignals \in Nat /\ MaxDepth \in Nat /\ NoObject \notin WeakObjects

VARIABLES
  sc,      \* the TpProxySignalConnection of each connection
  idles,   \* the G_PRIORITY_HIGH idle sources of the main loop, oldest first
  stack,   \* the invocations whose user callback is running, innermost last
  proxy,   \* the TpProxy
  iface    \* the DBusGProxy: "alive", "destroyed" or "finalized"

vars == <<sc, idles, stack, proxy, iface>>

(***************************************************************************)
(*  st        dying: unreferenced, waiting for _finish_free               *)
(*  refcount, proxy (# NULL), iface_proxy (# NULL), weak_object, and the   *)
(*  invocations queue as in the struct; an invocation is the number of the *)
(*  signal it carries                                                      *)
(*  closure   dbus-glib has the connection in a closure                    *)
(*  received  how many signals it was given                                *)
(*  destroyed (history) how often the user's destroy callback ran          *)
(*  disconnected (history) by the user or by the death of the weak object  *)
(*  stale     (history) used after it was freed                            *)
(***************************************************************************)
Connections ==
  [ st : {"unborn", "live", "dying", "freed"}, refcount : Nat,
    proxy : BOOLEAN, iface_proxy : BOOLEAN, weak_object : WeakObjects \cup {NoObject},
    invocations : Seq(Nat), closure : BOOLEAN, received : Nat,
    destroyed : Nat, disconnected : BOOLEAN, stale : BOOLEAN ]

Unborn ==
  [ st |-> "unborn", refcount |-> 0, proxy |-> FALSE, iface_proxy |-> FALSE,
    weak_object |-> NoObject, invocations |-> <<>>, closure |-> FALSE,
    received |-> 0, destroyed |-> 0, disconnected |-> FALSE, stale |-> FALSE ]

(***************************************************************************)
(*  user         the application holds a reference                         *)
(*  refcount     all the references                                        *)
(*  invalidated  # NULL;  emitted: the signal ::invalidated was emitted    *)
(***************************************************************************)
Proxies ==
  [ user : BOOLEAN, refcount : Nat, invalidated : BOOLEAN, emitted : BOOLEAN ]

Source(kind, s, n) == [kind |-> kind, sc |-> s, n |-> n]

Sources ==
  {Source("emit", NoObject, 0)}
    \cup {Source("free", s, 0) : s \in Conns}
    \cup {Source("run", s, n) : s \in Conns, n \in 1..MaxSignals}

World == [sc |-> sc, idles |-> idles, proxy |-> proxy]

Become(w) == sc' = w.sc /\ idles' = w.idles /\ proxy' = w.proxy

-----------------------------------------------------------------------------
(* Mutant: frees at once, as before fd.o bug 14750. *)
ScUnrefFreesAtOnce(w, s) ==
  IF w.sc[s].refcount > 1
  THEN [w EXCEPT !.sc[s].refcount = @ - 1]
  ELSE [w EXCEPT !.sc[s].refcount = 0, !.sc[s].proxy = FALSE,
                 !.sc[s].destroyed = @ + 1, !.sc[s].st = "freed",
                 !.sc[s].weak_object = NoObject]

(* Mutant: _finish_free is never queued. *)
ScUnrefNeverFrees(w, s) ==
  IF w.sc[s].refcount > 1
  THEN [w EXCEPT !.sc[s].refcount = @ - 1]
  ELSE [w EXCEPT !.sc[s].refcount = 0, !.sc[s].proxy = FALSE,
                 !.sc[s].destroyed = @ + 1, !.sc[s].st = "dying"]

(* tp_proxy_signal_connection_unref *)
ScUnref(w, s) ==
  IF w.sc[s].refcount > 1
  THEN [w EXCEPT !.sc[s].refcount = @ - 1]
  ELSE [w EXCEPT !.sc[s].refcount = 0, !.sc[s].proxy = FALSE,
                 !.sc[s].destroyed = @ + 1, !.sc[s].st = "dying",
                 !.idles = Append(@, Source("free", s, 0))]

(* tp_proxy_signal_connection_dropped: dbus-glib frees the closure. *)
Dropped(w, s) == ScUnref([w EXCEPT !.sc[s].closure = FALSE], s)

(* tp_proxy_signal_connection_disconnect_dbus_glib *)
DisconnectDBusGlib(w, s) ==
  IF w.sc[s].iface_proxy
  THEN Dropped([w EXCEPT !.sc[s].iface_proxy = FALSE], s)
  ELSE w

(* Mutant: stays connected to dbus-glib. *)
ProxyInvalidatedCbForgetsDBus(w, s) == [w EXCEPT !.sc[s].proxy = FALSE]

(* tp_proxy_signal_connection_proxy_invalidated *)
ProxyInvalidatedCb(w, s) ==
  DisconnectDBusGlib([w EXCEPT !.sc[s].proxy = FALSE], s)

(* tp_proxy_emit_invalidated reaches the connections still listening. *)
EmitInvalidated(w) ==
  FoldLeft(LAMBDA v, s : IF v.sc[s].proxy THEN ProxyInvalidatedCb(v, s) ELSE v,
           [w EXCEPT !.proxy.emitted = TRUE],
           SetToSeq(Conns))

(* tp_proxy_invalidate *)
Invalidate(w) ==
  IF w.proxy.invalidated THEN w
  ELSE EmitInvalidated([w EXCEPT !.proxy.invalidated = TRUE])

(* g_object_unref of the TpProxy: tp_proxy_dispose for the last reference *)
ProxyUnref(w) ==
  LET v == [w EXCEPT !.proxy.refcount = @ - 1]
  IN  IF v.proxy.refcount = 0 THEN Invalidate(v) ELSE v

(* Mutant: the queued idle sources stay behind. *)
DisconnectKeepsSources(w, s) ==
  DisconnectDBusGlib(w, s)

(* tp_proxy_signal_connection_disconnect: every queued invocation lets go of
   the proxy, which may die of it, its source is removed, and it lets go of
   the connection. *)
Disconnect(w, s) ==
  LET Cancel(v, n) ==
        LET popped == [v EXCEPT !.sc[s].invocations = Tail(@)]
            gone   == ProxyUnref(popped)
        IN  ScUnref([gone EXCEPT
                       !.idles = SelectSeq(@, LAMBDA i : i # Source("run", s, n))],
                    s)
      v == FoldLeft(Cancel, w, w.sc[s].invocations)
  IN  IF v.sc[s].st = "live" THEN DisconnectDBusGlib(v, s) ELSE v

(* Whoever disconnects a connection that was freed uses freed memory. *)
UserDisconnected(w, s) ==
  IF w.sc[s].st = "freed"
  THEN [w EXCEPT !.sc[s].stale = TRUE]
  ELSE Disconnect([w EXCEPT !.sc[s].disconnected = TRUE], s)

(* tp_proxy_signal_connection_lost_weak_ref *)
LostWeakRef(w, s) ==
  UserDisconnected([w EXCEPT !.sc[s].weak_object = NoObject], s)

(* Mutant: g_queue_push_head for g_queue_push_tail. *)
TakeResultsAtHead(w, s) ==
  LET n == w.sc[s].received + 1
  IN  [w EXCEPT !.proxy.refcount = @ + 1,
                !.sc[s].refcount = @ + 1,
                !.sc[s].received = n,
                !.sc[s].invocations = <<n>> \o @,
                !.idles = Append(@, Source("run", s, n))]

(* Mutant: the idle source is never added. *)
TakeResultsNoSource(w, s) ==
  LET n == w.sc[s].received + 1
  IN  [w EXCEPT !.proxy.refcount = @ + 1,
                !.sc[s].refcount = @ + 1,
                !.sc[s].received = n,
                !.sc[s].invocations = Append(@, n)]

(* tp_proxy_signal_connection_v0_take_results *)
TakeResults(w, s) ==
  LET n == w.sc[s].received + 1
  IN  [w EXCEPT !.proxy.refcount = @ + 1,
                !.sc[s].refcount = @ + 1,
                !.sc[s].received = n,
                !.sc[s].invocations = Append(@, n),
                !.idles = Append(@, Source("run", s, n))]

-----------------------------------------------------------------------------
Init ==
  /\ sc = [s \in Conns |-> Unborn]
  /\ idles = <<>>
  /\ stack = <<>>
  /\ proxy = [user |-> TRUE, refcount |-> 1, invalidated |-> FALSE, emitted |-> FALSE]
  /\ iface = "alive"

(* Mutant: weak_object is not initialised. *)
ConnectUninit(s) ==
  /\ sc[s].st = "unborn"
  /\ proxy.refcount > 0
  /\ ~proxy.invalidated
  /\ sc' = [sc EXCEPT ![s] = [Unborn EXCEPT
                !.st = "live", !.refcount = 1, !.proxy = TRUE,
                !.iface_proxy = TRUE, !.weak_object = "garbage", !.closure = TRUE]]
  /\ UNCHANGED <<idles, stack, proxy, iface>>

(* tp_proxy_signal_connection_v0_new, on a proxy that is still valid *)
Connect(s) ==
  /\ sc[s].st = "unborn"
  /\ proxy.refcount > 0
  /\ ~proxy.invalidated
  /\ \E o \in WeakObjects \cup {NoObject} :
       sc' = [sc EXCEPT ![s] = [Unborn EXCEPT
                !.st = "live", !.refcount = 1, !.proxy = TRUE,
                !.iface_proxy = TRUE, !.weak_object = o, !.closure = TRUE]]
  /\ UNCHANGED <<idles, stack, proxy, iface>>

(* dbus-glib dispatches a signal to a connected closure: the generated
   collect callback calls _v0_take_results. *)
SignalArrives(s) ==
  /\ sc[s].closure
  /\ iface = "alive"
  /\ sc[s].received < MaxSignals
  /\ Become(TakeResults(World, s))
  /\ UNCHANGED <<stack, iface>>

(* GLib dispatches the oldest idle source. *)
Dispatch(kind) ==
  /\ idles # <<>>
  /\ Head(idles).kind = kind

Dispatched == [World EXCEPT !.idles = Tail(@)]

(* tp_proxy_signal_invocation_run up to the call of the user callback *)
RunInvocation ==
  /\ Dispatch("run")
  /\ Len(stack) < MaxDepth
  /\ LET s == Head(idles).sc
     IN  /\ Become([Dispatched EXCEPT !.sc[s].invocations = Tail(@)])
         /\ stack' = Append(stack, [sc |-> s, n |-> Head(idles).n])
  /\ UNCHANGED iface

(* Mutant: the invocation keeps its reference to the connection. *)
InvocationReturnsLeaks ==
  /\ stack # <<>>
  /\ Become(ProxyUnref(World))
  /\ stack' = Front(stack)
  /\ UNCHANGED iface

(* the rest of tp_proxy_signal_invocation_run: the invocation lets go of the
   proxy, then of the connection *)
InvocationReturns ==
  /\ stack # <<>>
  /\ Become(ScUnref(ProxyUnref(World), Last(stack).sc))
  /\ stack' = Front(stack)
  /\ UNCHANGED iface

(* _tp_proxy_signal_connection_finish_free *)
FinishFree ==
  /\ Dispatch("free")
  /\ Become([Dispatched EXCEPT !.sc[Head(idles).sc].weak_object = NoObject,
                               !.sc[Head(idles).sc].st = "freed"])
  /\ UNCHANGED <<stack, iface>>

(* the idle source of tp_proxy_iface_destroyed_cb, then its destroy notify *)
EmitFromIdle ==
  /\ Dispatch("emit")
  /\ Become(ProxyUnref(EmitInvalidated(Dispatched)))
  /\ UNCHANGED <<stack, iface>>

(* Mutant: the emission overtakes the invocations already queued. *)
IfaceDestroyedUrgent ==
  /\ iface = "alive"
  /\ iface' = "destroyed"
  /\ sc' = [s \in Conns |-> [sc[s] EXCEPT !.iface_proxy = FALSE]]
  /\ IF proxy.invalidated
     THEN UNCHANGED <<idles, proxy>>
     ELSE /\ proxy' = [proxy EXCEPT !.invalidated = TRUE, !.refcount = @ + 1]
          /\ idles' = <<Source("emit", NoObject, 0)>> \o idles
  /\ UNCHANGED stack

(* The name owner is lost: DBusGProxy::destroy reaches
   tp_proxy_iface_destroyed_cb (if the proxy still has the interface) and
   _tp_proxy_signal_connection_dgproxy_destroy of each connection. *)
IfaceDestroyed ==
  /\ iface = "alive"
  /\ iface' = "destroyed"
  /\ sc' = [s \in Conns |-> [sc[s] EXCEPT !.iface_proxy = FALSE]]
  /\ IF proxy.invalidated
     THEN UNCHANGED <<idles, proxy>>
     ELSE /\ proxy' = [proxy EXCEPT !.invalidated = TRUE, !.refcount = @ + 1]
          /\ idles' = Append(idles, Source("emit", NoObject, 0))
  /\ UNCHANGED stack

(* The last reference to the DBusGProxy goes away: its closures are freed. *)
IfaceFinalized ==
  /\ iface = "destroyed"
  /\ iface' = "finalized"
  /\ Become(FoldLeft(LAMBDA v, s : IF v.sc[s].closure THEN Dropped(v, s) ELSE v,
                     World, SetToSeq(Conns)))
  /\ UNCHANGED stack

(* The application invalidates the proxy (subclasses do, with an error). *)
UserInvalidates ==
  /\ proxy.refcount > 0
  /\ ~proxy.invalidated
  /\ Become(Invalidate(World))
  /\ UNCHANGED <<stack, iface>>

(* The application drops its reference to the proxy. *)
UserUnrefs ==
  /\ proxy.user
  /\ Become(ProxyUnref([World EXCEPT !.proxy.user = FALSE]))
  /\ UNCHANGED <<stack, iface>>

(* The application disconnects, within the documented rules: not twice, not
   after the weak object died, not after ::invalidated. *)
UserDisconnects(s) ==
  /\ sc[s].st # "unborn"
  /\ ~sc[s].disconnected
  /\ ~proxy.emitted
  /\ Become(UserDisconnected(World, s))
  /\ UNCHANGED <<stack, iface>>

(* A weak object dies.  GObject takes the list of its weak references and
   calls them one after another; one of them may have dropped the last
   reference to the proxy first (a pending call of the same object). *)
WeakObjectDies(o) ==
  /\ \E s \in Conns : sc[s].weak_object = o
  /\ \E unrefs \in BOOLEAN :
       /\ unrefs => proxy.user
       /\ Become(FoldLeft(LostWeakRef,
                   IF unrefs THEN ProxyUnref([World EXCEPT !.proxy.user = FALSE])
                             ELSE World,
                   SetToSeq({s \in Conns : sc[s].weak_object = o})))
  /\ UNCHANGED <<stack, iface>>

Next ==
  \/ \E s \in Conns : Connect(s) \/ SignalArrives(s) \/ UserDisconnects(s)
  \/ RunInvocation
  \/ InvocationReturns
  \/ FinishFree
  \/ EmitFromIdle
  \/ IfaceDestroyed
  \/ IfaceFinalized
  \/ UserInvalidates
  \/ UserUnrefs
  \/ \E o \in WeakObjects : WeakObjectDies(o)

Spec == Init /\ [][Next]_vars

-----------------------------------------------------------------------------
Running(s) == Cardinality({i \in DOMAIN stack : stack[i].sc = s})

Queued == MapThenSumSet(LAMBDA s : Len(sc[s].invocations), Conns)

(* The state has the types of the struct and of the sources. *)
TypeOK ==
  /\ sc \in [Conns -> Connections]
  /\ idles \in Seq(Sources)
  /\ proxy \in Proxies
  /\ iface \in {"alive", "destroyed", "finalized"}

(* The reference counts are exact: a connection is owned by dbus-glib's
   closure, by each queued invocation and by each running one; the proxy by
   the application, by each invocation and by the idle source that will emit
   ::invalidated. *)
RefcountsExact ==
  /\ \A s \in Conns :
       /\ sc[s].refcount = (IF sc[s].closure THEN 1 ELSE 0)
                             + Len(sc[s].invocations) + Running(s)
       /\ sc[s].st = "live" <=> sc[s].refcount > 0
       /\ sc[s].destroyed = IF sc[s].st \in {"dying", "freed"} THEN 1 ELSE 0
  /\ proxy.refcount =
       (IF proxy.user THEN 1 ELSE 0) + Queued + Len(stack)
         + Len(SelectSeq(idles, LAMBDA i : i.kind = "emit"))

(* g_assert (popped == invocation) in tp_proxy_signal_invocation_run: the
   idle sources of a connection are its queue, in the order of arrival. *)
SourcesMatchQueue ==
  \A s \in Conns :
    LET mine == SelectSeq(idles, LAMBDA i : i.kind = "run" /\ i.sc = s)
    IN  /\ [i \in DOMAIN mine |-> mine[i].n] = sc[s].invocations
        /\ \A i, j \in DOMAIN mine : i < j => mine[i].n < mine[j].n

(* g_object_ref (sc->proxy) in _v0_take_results never sees NULL, and no
   connection points to a proxy that is gone: as long as a signal can arrive
   the connection has a proxy, and it has one only while the proxy lives. *)
ProxyPointerValid ==
  \A s \in Conns :
    /\ sc[s].closure /\ iface = "alive" => sc[s].proxy
    /\ sc[s].proxy => proxy.refcount > 0

(* Nobody who follows the documentation of
   tp_proxy_signal_connection_disconnect touches freed memory, not even when
   the weak object's death is what kills the connection (fd.o #14750). *)
NoUseAfterFree ==
  \A s \in Conns : ~sc[s].stale

(* Once disconnected by the user or by its weak object's death, a connection
   has nothing queued: its callback never starts again. *)
NoCallbackAfterDisconnect ==
  \A s \in Conns : sc[s].disconnected => sc[s].invocations = <<>>

(* Of every step: when the service goes away, ::invalidated is emitted after every signal
   received before: "any queued-up method calls and signal handlers will run
   first" (tp_proxy_iface_destroyed_cb). *)
QueuedSignalsRunFirst ==
  EmitFromIdle => \A s \in Conns : sc[s].invocations = <<>>

(* Every queued invocation leaves the queue: it is run or it is cancelled. *)
InvocationsHandled ==
  \A s \in Conns : sc[s].invocations # <<>> ~> sc[s].invocations = <<>>

(* A connection that was disconnected, or whose proxy was invalidated, is
   eventually freed. *)
ConnectionsFreed ==
  \A s \in Conns :
    sc[s].st # "unborn" /\ (sc[s].disconnected \/ proxy.emitted)
      ~> sc[s].st = "freed"
=============================================================================
