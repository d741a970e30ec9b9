---------------------------- MODULE PendingCall ----------------------------
(***************************************************************************)
(* TpProxyPendingCall (telepathy-glib/proxy-methods.c): one asynchronous   *)
(* D-Bus method call made through a TpProxy.                               *)
(*                                                                         *)
(* The structure has an implicit reference count of two: dbus-glib owns it *)
(* until _v0_completed, the main loop owns it from the moment the idle     *)
(* source is queued until that source is destroyed; whoever lets go last   *)
(* frees it.  A reply, an explicit cancellation, the death of the weak     *)
(* object and the destruction of the DBusGProxy race for the one callback. *)
(*                                                                         *)
(* The struct is a record and every C function that changes it is an       *)
(* operator from record to record, composed as the C functions call each   *)
(* other; the actions say when dbus-glib, GLib or the user calls them.     *)
(* dbus-glib is external: it is modelled by how proxy-methods.c and the    *)
(* code made by tools/glib-client-gen.py use it.                           *)
(***************************************************************************)
EXTENDS Naturals

CONSTANTS
  AsyncCalls,   \* calls made by tp_cli_*_call_*: cancel_must_raise is FALSE
  RunCalls      \* calls made by tp_cli_*_run_*:  cancel_must_raise is TRUE

ASSUME DisjointCalls == AsyncCalls \cap RunCalls = {}

Calls == AsyncCalls \cup RunCalls

VARIABLES
  pc,           \* the TpProxyPendingCall of each call
  frame,        \* the stack frame of each run call's caller: see Frames
  ifaceAlive    \* the DBusGProxy shared by the calls has not been destroyed

vars == <<pc, frame, ifaceAlive>>

-----------------------------------------------------------------------------
(***************************************************************************)
(* The structure.                                                          *)
(*  st       allocated or not                                              *)
(*  raise    cancel_must_raise                                             *)
(*  invoke   invoke_callback # NULL                                        *)
(*  result   what error and args hold: nothing, out-arguments, the remote  *)
(*           error, NAME_OWNER_LOST or CANCELLED                           *)
(*  weak     weak_object # NULL                                            *)
(*  iface    iface_proxy # NULL                                            *)
(*  idle     the idle source; idle_source # 0 is idle # "none"             *)
(*  idle_completed, dbus_completed  as in the struct                       *)
(*  dbus     dbus-glib's side: "pending" until the reply is dispatched,    *)
(*           "dispatched" while it still holds user_data, then "finished"  *)
(*  called   (history) how often the callback ran                          *)
(*  outcome  (history) what the callback was given                         *)
(*  cancelled (history) cancelled before the callback ran                  *)
(***************************************************************************)
Results == {"none", "reply", "remote", "lost", "cancelled"}

PendingCalls ==
  [ st             : {"unborn", "live", "freed"},
    raise          : BOOLEAN,
    invoke         : BOOLEAN,
    result         : Results,
    weak           : BOOLEAN,
    iface          : BOOLEAN,
    idle           : {"none", "queued", "running", "done"},
    idle_completed : BOOLEAN,
    dbus_completed : BOOLEAN,
    dbus           : {"none", "pending", "dispatched", "finished"},
    called         : {0, 1},
    outcome        : Results,
    cancelled      : BOOLEAN ]

Unborn ==
  [ st |-> "unborn", raise |-> FALSE, invoke |-> FALSE, result |-> "none",
    weak |-> FALSE, iface |-> FALSE, idle |-> "none",
    idle_completed |-> FALSE, dbus_completed |-> FALSE, dbus |-> "none",
    called |-> 0, outcome |-> "none", cancelled |-> FALSE ]

(***************************************************************************)
(* The _run_state_ of a tp_cli_*_run_* function, a local variable of the   *)
(* function: it is alive while the function waits in its own main loop.    *)
(* value is what success and *error say ("none": FALSE and no error).      *)
(***************************************************************************)
Frames ==
  [ status : {"none", "waiting", "returned"}, completed : BOOLEAN,
    value : Results ]

(* Mutant: the struct comes from g_slice_new instead of g_slice_new0. *)
PendingCallNewUninit(raise, weak) ==
  [Unborn EXCEPT !.st = "live", !.raise = raise, !.invoke = TRUE,
                 !.weak = weak, !.iface = TRUE, !.dbus = "pending",
                 !.result = "garbage"]

(* tp_proxy_pending_call_v0_new, then the D-Bus call is started and given
   to tp_proxy_pending_call_v0_take_pending_call. *)
PendingCallNew(raise, weak) ==
  [ st |-> "live", raise |-> raise, invoke |-> TRUE, result |-> "none",
    weak |-> weak, iface |-> TRUE, idle |-> "none",
    idle_completed |-> FALSE, dbus_completed |-> FALSE, dbus |-> "pending",
    called |-> 0, outcome |-> "none", cancelled |-> FALSE ]

(* g_idle_add_full (..., _idle_invoke, pc, _idle_completed) *)
IdleAdd(p) == [p EXCEPT !.idle = "queued"]

(* tp_proxy_pending_call_free: drops the weak reference and the handler on
   the DBusGProxy, and hands user_data to its destructor. *)
PendingCallFree(p) ==
  [p EXCEPT !.st = "freed", !.result = "none", !.weak = FALSE, !.iface = FALSE]

(* Mutant: a reply already queued is not looked for. *)
DgproxyDestroyAlways(p) ==
  [IdleAdd([p EXCEPT !.result = "lost"]) EXCEPT !.iface = FALSE]

(* _tp_proxy_pending_call_dgproxy_destroy *)
DgproxyDestroy(p) ==
  LET q == IF p.idle = "none"
           THEN IdleAdd([p EXCEPT !.result = "lost"])
           ELSE p
  IN  [q EXCEPT !.iface = FALSE]

(* Mutant: frees without asking whether the idle source is done. *)
CompletedFreesEarly(p) ==
  LET q == IF p.idle = "none" /\ p.iface THEN DgproxyDestroy(p) ELSE p
  IN  PendingCallFree([q EXCEPT !.dbus_completed = TRUE, !.dbus = "finished"])

(* Mutant: leaves the freeing to the idle source, which may be gone. *)
CompletedNeverFrees(p) ==
  LET q == IF p.idle = "none" /\ p.iface THEN DgproxyDestroy(p) ELSE p
  IN  [q EXCEPT !.dbus_completed = TRUE, !.dbus = "finished"]

(* tp_proxy_pending_call_v0_completed, run by dbus-glib when it drops its
   user_data. *)
Completed(p) ==
  LET q == IF p.idle = "none" /\ p.iface THEN DgproxyDestroy(p) ELSE p
      r == [q EXCEPT !.dbus_completed = TRUE, !.dbus = "finished"]
  IN  IF r.idle_completed THEN PendingCallFree(r) ELSE r

(* _tp_proxy_pending_call_idle_completed, the idle source's destructor *)
IdleCompleted(p) ==
  LET q == [p EXCEPT !.idle = "done", !.idle_completed = TRUE]
  IN  IF q.dbus_completed THEN PendingCallFree(q) ELSE q

(* Mutant: the D-Bus call is left running. *)
DBusCancelCallForgotten(p) == p

(* dbus_g_proxy_cancel_call: drops user_data of a call still pending, and
   does nothing to one whose reply is being dispatched. *)
DBusCancelCall(p) == IF p.dbus = "pending" THEN Completed(p) ELSE p

(* Mutant: a call whose result is already queued is not cancelled. *)
CancelTooLate(p) ==
  IF p.idle_completed THEN p
  ELSE LET q == CASE p.idle # "none" -> p
                  [] p.raise -> [p EXCEPT !.result = "cancelled"]
                  [] OTHER -> [p EXCEPT !.invoke = FALSE]
           r == IF q.idle = "none" THEN IdleAdd(q) ELSE q
           s == [r EXCEPT !.cancelled = @ \/ r.called = 0]
       IN  IF ~s.dbus_completed THEN DBusCancelCall(s) ELSE s

(* tp_proxy_pending_call_cancel.  pending_call is never NULL here: it is
   taken before the call is known to anybody. *)
Cancel(p) ==
  IF p.idle_completed THEN p
  ELSE LET q == IF p.raise
                THEN [p EXCEPT !.result = "cancelled"]
                ELSE [p EXCEPT !.invoke = FALSE]
           r == IF q.idle = "none" THEN IdleAdd(q) ELSE q
           s == [r EXCEPT !.cancelled = @ \/ r.called = 0]
       IN  IF ~s.dbus_completed THEN DBusCancelCall(s) ELSE s

(* tp_proxy_pending_call_lost_weak_ref *)
LostWeakRef(p) == Cancel([p EXCEPT !.weak = FALSE])

(* Mutant: the DBusGProxy is let go as soon as the results are in. *)
TakeResultsDropsIface(p, result) ==
  IF p.result = "none" /\ p.idle = "none"
  THEN IdleAdd([p EXCEPT !.result = result, !.iface = FALSE])
  ELSE p

(* tp_proxy_pending_call_v0_take_results, with its early returns *)
TakeResults(p, result) ==
  IF p.result = "none" /\ p.idle = "none"
  THEN IdleAdd([p EXCEPT !.result = result])
  ELSE p

(* tp_proxy_pending_call_idle_invoke up to and including the call of the
   callback; the arguments now belong to the callback. *)
IdleInvoke(p) ==
  [p EXCEPT !.idle = "running", !.invoke = FALSE, !.called = @ + 1,
            !.outcome = p.result]

(* the rest of tp_proxy_pending_call_idle_invoke, then the source dies *)
IdleInvokeReturn(p) == IdleCompleted([p EXCEPT !.result = "none"])

-----------------------------------------------------------------------------
Init ==
  /\ pc = [c \in Calls |-> Unborn]
  /\ frame = [c \in Calls |->
                [status |-> "none", completed |-> FALSE, value |-> "none"]]
  /\ ifaceAlive = TRUE

Update(c, p) == pc' = [pc EXCEPT ![c] = p]

(* tp_cli_*_call_*: refused (the callback runs at once, with the error)
   unless the proxy still has the interface. *)
BeginAsync(c) ==
  /\ c \in AsyncCalls
  /\ pc[c].st = "unborn"
  /\ ifaceAlive
  /\ \E weak \in BOOLEAN : Update(c, PendingCallNew(FALSE, weak))
  /\ UNCHANGED <<frame, ifaceAlive>>

(* tp_cli_*_run_* up to g_main_loop_run: no weak object. *)
BeginRun(c) ==
  /\ c \in RunCalls
  /\ pc[c].st = "unborn"
  /\ ifaceAlive
  /\ Update(c, PendingCallNew(TRUE, FALSE))
  /\ frame' = [frame EXCEPT ![c].status = "waiting"]
  /\ UNCHANGED ifaceAlive

(* dbus-glib dispatches the reply, an error reply or its own timeout error:
   the generated collect callback ends the call and takes the results. *)
DispatchReply(c) ==
  /\ pc[c].dbus = "pending"
  /\ \E result \in {"reply", "remote"} :
       Update(c, [TakeResults(pc[c], result) EXCEPT !.dbus = "dispatched"])
  /\ UNCHANGED <<frame, ifaceAlive>>

(* dbus-glib drops user_data after dispatching the reply. *)
DropUserData(c) ==
  /\ pc[c].dbus = "dispatched"
  /\ Update(c, Completed(pc[c]))
  /\ UNCHANGED <<frame, ifaceAlive>>

(* The service's name loses its owner: dbus-glib drops the user_data of
   every pending call, then emits "destroy", which reaches the calls that
   still have their handler connected.  libdbus dispatches one message at a
   time, so no reply is half-dispatched here. *)
DestroyIface ==
  /\ ifaceAlive
  /\ \A c \in Calls : pc[c].dbus # "dispatched"
  /\ ifaceAlive' = FALSE
  /\ pc' = [c \in Calls |->
              LET p == IF pc[c].dbus = "pending" THEN Completed(pc[c]) ELSE pc[c]
              IN  IF p.iface THEN DgproxyDestroy(p) ELSE p]
  /\ UNCHANGED frame

(* The user cancels an asynchronous call it still owns. *)
UserCancel(c) ==
  /\ c \in AsyncCalls
  /\ pc[c].st = "live"
  /\ ~pc[c].idle_completed
  /\ Update(c, Cancel(pc[c]))
  /\ UNCHANGED <<frame, ifaceAlive>>

WeakObjectDies(c) ==
  /\ pc[c].weak
  /\ Update(c, LostWeakRef(pc[c]))
  /\ UNCHANGED <<frame, ifaceAlive>>

(* GLib dispatches the idle source of a cancelled call: no callback. *)
DispatchIdleCancelled(c) ==
  /\ pc[c].idle = "queued"
  /\ ~pc[c].invoke
  /\ Update(c, IdleCompleted(pc[c]))
  /\ UNCHANGED <<frame, ifaceAlive>>

(* GLib dispatches the idle source and an asynchronous call's callback
   starts; it may do anything, re-entering the main loop included, before
   AsyncCallbackReturns. *)
DispatchIdleAsync(c) ==
  /\ c \in AsyncCalls
  /\ pc[c].idle = "queued"
  /\ pc[c].invoke
  /\ Update(c, IdleInvoke(pc[c]))
  /\ UNCHANGED <<frame, ifaceAlive>>

AsyncCallbackReturns(c) ==
  /\ c \in AsyncCalls
  /\ pc[c].idle = "running"
  /\ Update(c, IdleInvokeReturn(pc[c]))
  /\ UNCHANGED <<frame, ifaceAlive>>

(* GLib dispatches the idle source of a run call: the generated
   _finish_running_ callback calls no user code; it writes through its
   pointer to the caller's frame and quits the caller's main loop. *)
DispatchIdleRun(c) ==
  /\ c \in RunCalls
  /\ pc[c].idle = "queued"
  /\ pc[c].invoke
  /\ Update(c, IdleInvokeReturn(IdleInvoke(pc[c])))
  /\ frame' = [frame EXCEPT ![c].completed = TRUE, ![c].value = pc[c].result]
  /\ UNCHANGED ifaceAlive

(* The run function returns after its loop was quit by the callback. *)
RunReturn(c) ==
  /\ frame[c].status = "waiting"
  /\ frame[c].completed
  /\ frame' = [frame EXCEPT ![c].status = "returned"]
  /\ UNCHANGED <<pc, ifaceAlive>>

(* The user quits the main loop of a run call that has not completed: the
   run function cancels the call and returns FALSE at once. *)
RunQuit(c) ==
  /\ frame[c].status = "waiting"
  /\ ~frame[c].completed
  /\ Update(c, Cancel(pc[c]))
  /\ frame' = [frame EXCEPT ![c].status = "returned"]
  /\ UNCHANGED ifaceAlive

CallStep(c) ==
  \/ BeginAsync(c)
  \/ BeginRun(c)
  \/ DispatchReply(c)
  \/ DropUserData(c)
  \/ UserCancel(c)
  \/ WeakObjectDies(c)
  \/ DispatchIdleCancelled(c)
  \/ DispatchIdleAsync(c)
  \/ AsyncCallbackReturns(c)
  \/ DispatchIdleRun(c)
  \/ RunReturn(c)
  \/ RunQuit(c)

Next ==
  \/ \E c \in Calls : CallStep(c)
  \/ DestroyIface

Spec == Init /\ [][Next]_vars

-----------------------------------------------------------------------------
(* Every struct has the fields and ranges of struct _TpProxyPendingCall. *)
TypeOK ==
  /\ pc \in [Calls -> PendingCalls]
  /\ frame \in [Calls -> Frames]
  /\ ifaceAlive \in BOOLEAN

(* A freed structure is referenced by nobody: not by dbus-glib, not by an
   idle source still queued or running, and no weak-object or DBusGProxy
   handler is left connected to it (tp_proxy_pending_call_free). *)
NoDanglingReference ==
  \A c \in Calls :
    pc[c].st = "freed" =>
      /\ pc[c].dbus = "finished"
      /\ pc[c].idle = "done"
      /\ ~pc[c].weak
      /\ ~pc[c].iface

(* "Implicitly asserts that iface_proxy is non-NULL" in
   tp_proxy_pending_call_cancel: as long as dbus-glib may still hold the
   call, the call still holds its DBusGProxy. *)
CancelFindsIface ==
  \A c \in Calls :
    pc[c].st = "live" /\ ~pc[c].dbus_completed => pc[c].iface

(* The early returns of take_results are never taken: when dbus-glib can
   still dispatch a reply, no result is stored and no idle source queued,
   so no reply is lost. *)
NoReplyDropped ==
  \A c \in Calls :
    pc[c].dbus = "pending" => pc[c].idle = "none" /\ pc[c].result = "none"

(* The callback runs at most once; a call cancelled before its callback ran
   calls back with CANCELLED if cancel_must_raise and not at all otherwise,
   whatever reply was already queued (struct comment, "Explicitly
   cancelled - All phases"). *)
CallbackDiscipline ==
  \A c \in Calls :
    /\ pc[c].called <= 1
    /\ pc[c].called = 1 => pc[c].outcome # "none"
    /\ pc[c].cancelled /\ ~pc[c].raise => pc[c].called = 0
    /\ pc[c].cancelled /\ pc[c].called = 1 => pc[c].outcome = "cancelled"

(* Of every step: results already taken are only replaced by a cancellation: neither the
   destruction of the DBusGProxy nor a late completion overwrites a reply
   (struct comment, "Phase 2: ignored, we use the results we've already
   got"). *)
RepliesAreKept ==
  \A c \in Calls :
    /\ pc[c].result \in {"reply", "remote", "lost"}
    /\ pc[c].called = 0
    /\ pc'[c].called = 0
    /\ ~pc'[c].cancelled
    => pc'[c].result = pc[c].result

(* What the caller sees of a structure: it waits until its idle source is
   queued; what is decided then is the result, until the callback has it. *)
Seen(p) ==
  [at |-> CASE p.st = "unborn" -> "none"
            [] p.st = "freed" -> "released"
            [] p.st = "live" /\ p.idle = "none" -> "waiting"
            [] p.st = "live" /\ p.idle = "queued" -> IF p.invoke THEN "decided" ELSE "settled"
            [] p.st = "live" /\ p.idle = "running" -> "telling"
            [] OTHER -> "settled",
   what |-> IF p.called = 1 THEN p.outcome ELSE IF p.invoke THEN p.result ELSE "none"]

Promise == INSTANCE MethodCall WITH
  Raising <- RunCalls, call <- [c \in Calls |-> Seen(pc[c])], there <- ifaceAlive

(* The structure, its two owners and the idle source implement the call that
   MethodCall promises: each is decided by one event, told once of what was
   decided, and its user_data released after that, whatever else happens to the
   structure (proxy-methods.c, the comment on the life of a pending call). *)
PromiseKept == Promise!Spec

(* Every call that was made is eventually freed, and unless it was
   cancelled its callback has run by then. *)
EveryCallCompletes ==
  \A c \in Calls :
    pc[c].st = "live" ~>
      /\ pc[c].st = "freed"
      /\ pc[c].called = 1 \/ pc[c].cancelled

(* The documentation of every tp_cli_*_run_* function: quitting the loop
   makes it return FALSE with error set to TP_DBUS_ERROR_CANCELLED. *)
RunQuitSetsError ==
  \A c \in RunCalls :
    frame[c].status = "returned" => frame[c].value # "none"
=============================================================================
