------------------------- MODULE PendingCallProofs -------------------------
(***************************************************************************)
(* Proofs about PendingCall, for any sets of calls.                        *)
(*                                                                         *)
(* The inductive invariant speaks of one structure at a time (CallInv):    *)
(* every C function takes a structure satisfying it to one satisfying it,  *)
(* and the actions only replace structures by what those functions return. *)
(***************************************************************************)
EXTENDS PendingCall, TLAPS

(* What is true of every structure between two steps: who still holds it,
   which of its fields that implies, and what the callback has been given. *)
CallInv(p) ==
  /\ p \in PendingCalls
  /\ p.st = "unborn" => p = Unborn
  /\ p.st # "unborn" => p.dbus # "none"
  /\ p.dbus_completed <=> p.dbus = "finished"
  /\ p.idle_completed <=> p.idle = "done"
  /\ p.st = "freed" <=> p.idle_completed /\ p.dbus_completed
  /\ p.st = "freed" => ~p.weak /\ ~p.iface
  /\ p.dbus = "pending" => p.idle = "none" /\ p.result = "none"
  /\ p.dbus \in {"pending", "dispatched"} => p.iface
  /\ p.idle = "none" => p.dbus \in {"none", "pending"}
  /\ p.st = "live" /\ p.idle = "none" => p.invoke /\ ~p.cancelled
  /\ p.idle \in {"none", "queued"} => p.called = 0
  /\ p.idle = "running" => p.called = 1
  /\ p.invoke => p.called = 0 /\ p.idle # "done"
  /\ p.invoke /\ p.idle = "queued" => p.result # "none"
  /\ p.called = 1 => p.outcome # "none" /\ ~p.invoke
  /\ p.cancelled /\ ~p.raise => ~p.invoke /\ p.called = 0
  /\ p.cancelled /\ p.raise /\ p.called = 0 => p.result = "cancelled"
  /\ p.cancelled /\ p.called = 1 => p.outcome = "cancelled"
  /\ p.raise /\ p.st = "live" => p.invoke \/ p.called = 1
  /\ p.raise => ~p.weak

(* The inductive invariant. *)
IInv ==
  /\ pc \in [Calls -> PendingCalls]
  /\ frame \in [Calls -> Frames]
  /\ ifaceAlive \in BOOLEAN
  /\ \A c \in Calls : CallInv(pc[c])
  /\ \A c \in Calls : pc[c].st # "unborn" => (pc[c].raise <=> c \in RunCalls)
  /\ \A c \in Calls : frame[c].status # "none" => c \in RunCalls
  /\ \A c \in Calls : frame[c].status = "waiting" /\ ~frame[c].completed =>
                        pc[c].st = "live" /\ ~pc[c].idle_completed

-----------------------------------------------------------------------------
(* What the C functions do to one structure. *)

(* The time a step may take, for a busy machine too. *)
USE SMTT(60)

(* A fresh structure satisfies the invariant (tp_proxy_pending_call_v0_new). *)
LEMMA NewInv ==
  ASSUME NEW raise \in BOOLEAN, NEW weak \in BOOLEAN, raise => ~weak
  PROVE  /\ CallInv(PendingCallNew(raise, weak))
         /\ PendingCallNew(raise, weak).raise = raise
         /\ PendingCallNew(raise, weak).st = "live"
         /\ ~PendingCallNew(raise, weak).idle_completed
  BY DEF CallInv, PendingCallNew, PendingCalls, Results

(* _tp_proxy_pending_call_dgproxy_destroy keeps the invariant of a structure
   dbus-glib has let go of; it is the step of tp_proxy_pending_call_v0_completed
   that turns a completion without a result into NAME_OWNER_LOST. *)
LEMMA DgproxyDestroyInv ==
  ASSUME NEW p, CallInv(p), p.st # "unborn", p.dbus = "finished"
  PROVE  /\ CallInv(DgproxyDestroy(p))
         /\ DgproxyDestroy(p).raise = p.raise
         /\ DgproxyDestroy(p).st = p.st
         /\ DgproxyDestroy(p).idle_completed = p.idle_completed
<1>1. p.idle # "none" /\ DgproxyDestroy(p) = [p EXCEPT !.iface = FALSE]
  BY Zenon DEF CallInv, DgproxyDestroy, PendingCalls
<1>. QED  BY ZenonT(60), <1>1 DEF CallInv, PendingCalls, Unborn

(* tp_proxy_pending_call_v0_completed keeps the invariant when dbus-glib
   still holds the structure. *)
LEMMA CompletedInv ==
  ASSUME NEW p, CallInv(p), p.dbus \in {"pending", "dispatched"}
  PROVE  /\ CallInv(Completed(p))
         /\ Completed(p).raise = p.raise
         /\ Completed(p).st \in {"live", "freed"}
         /\ Completed(p).idle_completed = p.idle_completed
         /\ p.dbus = "pending" => Completed(p).st = "live"
         /\ Completed(p).dbus = "finished"
<1>0. p \in PendingCalls /\ p.st = "live"
  BY DEF CallInv, PendingCalls, Unborn
<1>1. CASE p.idle = "none"
  <2>1. Completed(p) = [p EXCEPT !.result = "lost", !.idle = "queued",
                                 !.iface = FALSE, !.dbus_completed = TRUE,
                                 !.dbus = "finished"]
    BY Zenon, <1>1 DEF CallInv, Completed, DgproxyDestroy, IdleAdd, PendingCalls
  <2>2. Completed(p) \in PendingCalls
    BY ZenonT(40), <1>0, <2>1 DEF PendingCalls, Results
  <2>. QED  BY <1>0, <1>1, <2>1, <2>2 DEF CallInv, PendingCalls
<1>2. CASE p.idle \in {"queued", "running"}
  <2>1. Completed(p) = [p EXCEPT !.dbus_completed = TRUE, !.dbus = "finished"]
    BY Zenon, <1>2 DEF CallInv, Completed, PendingCalls
  <2>. QED  BY ZenonT(60), <1>0, <1>2, <2>1 DEF CallInv, PendingCalls
<1>3. CASE p.idle = "done"
  <2>1. Completed(p) = [p EXCEPT !.dbus_completed = TRUE, !.dbus = "finished",
                                 !.st = "freed", !.result = "none",
                                 !.weak = FALSE, !.iface = FALSE]
    BY <1>3 DEF CallInv, Completed, PendingCallFree, PendingCalls
  <2>2. Completed(p) \in PendingCalls
    BY ZenonT(40), <1>0, <2>1 DEF PendingCalls, Results
  <2>. QED  BY <1>0, <1>3, <2>1, <2>2 DEF CallInv, PendingCalls
<1>4. p.idle \in {"none", "queued", "running", "done"}
  BY <1>0, Zenon DEF PendingCalls
<1>. QED  BY <1>1, <1>2, <1>3, <1>4, Zenon

(* The destructor of the idle source keeps the invariant, whether the source
   was skipped (the call was cancelled) or its callback has returned. *)
LEMMA IdleCompletedInv ==
  ASSUME NEW p, CallInv(p), p.idle = "queued", ~p.invoke
  PROVE  CallInv(IdleCompleted(p)) /\ IdleCompleted(p).raise = p.raise
<1>0. p \in PendingCalls /\ p.st = "live" /\ ~p.raise
  BY DEF CallInv, PendingCalls, Unborn
<1>1. CASE p.dbus_completed
  <2>1. IdleCompleted(p) = [p EXCEPT !.idle = "done", !.idle_completed = TRUE,
                                     !.st = "freed", !.result = "none",
                                     !.weak = FALSE, !.iface = FALSE]
    BY <1>0, <1>1 DEF IdleCompleted, PendingCallFree, PendingCalls
  <2>2. IdleCompleted(p) \in PendingCalls
    BY ZenonT(40), <1>0, <2>1 DEF PendingCalls, Results
  <2>. QED  BY <1>0, <1>1, <2>1, <2>2 DEF CallInv, PendingCalls
<1>2. CASE ~p.dbus_completed
  <2>1. IdleCompleted(p) = [p EXCEPT !.idle = "done", !.idle_completed = TRUE]
    BY <1>0, <1>2 DEF IdleCompleted, PendingCalls
  <2>2. IdleCompleted(p) \in PendingCalls
    BY ZenonT(40), <1>0, <2>1 DEF PendingCalls
  <2>. QED  BY <1>0, <1>2, <2>1, <2>2 DEF CallInv, PendingCalls
<1>. QED  BY <1>1, <1>2

(* The end of tp_proxy_pending_call_idle_invoke, after the callback. *)
LEMMA IdleInvokeReturnInv ==
  ASSUME NEW p, CallInv(p), p.idle = "running"
  PROVE  CallInv(IdleInvokeReturn(p)) /\ IdleInvokeReturn(p).raise = p.raise
<1>0. p \in PendingCalls /\ p.st = "live" /\ p.called = 1 /\ ~p.invoke
  BY DEF CallInv, PendingCalls, Unborn
<1>1. CASE p.dbus_completed
  <2>1. IdleInvokeReturn(p) = [p EXCEPT !.result = "none", !.idle = "done",
                                        !.idle_completed = TRUE, !.st = "freed",
                                        !.weak = FALSE, !.iface = FALSE]
    BY Zenon, <1>0, <1>1 DEF IdleInvokeReturn, IdleCompleted, PendingCallFree, PendingCalls
  <2>2. IdleInvokeReturn(p) \in PendingCalls
    BY ZenonT(40), <1>0, <2>1 DEF PendingCalls, Results
  <2>. QED  BY <1>0, <1>1, <2>1, <2>2 DEF CallInv, PendingCalls
<1>2. CASE ~p.dbus_completed
  <2>1. IdleInvokeReturn(p) = [p EXCEPT !.result = "none", !.idle = "done",
                                        !.idle_completed = TRUE]
    BY <1>0, <1>2 DEF IdleInvokeReturn, IdleCompleted, PendingCalls
  <2>2. IdleInvokeReturn(p) \in PendingCalls
    BY ZenonT(40), <1>0, <2>1 DEF PendingCalls, Results
  <2>. QED  BY <1>0, <1>2, <2>1, <2>2 DEF CallInv, PendingCalls
<1>. QED  BY <1>1, <1>2

(* tp_proxy_pending_call_idle_invoke calls the callback of a call that was
   not cancelled, with a result. *)
LEMMA IdleInvokeInv ==
  ASSUME NEW p, CallInv(p), p.idle = "queued", p.invoke
  PROVE  /\ CallInv(IdleInvoke(p))
         /\ IdleInvoke(p).raise = p.raise
         /\ IdleInvoke(p).idle = "running"
<1>0. p \in PendingCalls /\ p.st = "live" /\ p.called = 0
  BY DEF CallInv, PendingCalls, Unborn
<1>1. p.called + 1 = 1 /\ p.result \in Results
  BY <1>0 DEF PendingCalls
<1>2. IdleInvoke(p) = [p EXCEPT !.idle = "running", !.invoke = FALSE,
                                !.called = 1, !.outcome = p.result]
  BY <1>0, <1>1 DEF IdleInvoke
<1>3. IdleInvoke(p) \in PendingCalls
  BY ZenonT(60), <1>0, <1>1, <1>2 DEF PendingCalls
<1>4. CallInv(IdleInvoke(p))
  BY <1>0, <1>1, <1>2, <1>3 DEF CallInv, PendingCalls
<1>. QED  BY <1>0, <1>2, <1>4 DEF PendingCalls

(* The collect callback always stores its results: when dbus-glib can still
   dispatch a reply neither early return of take_results is taken. *)
LEMMA TakeResultsInv ==
  ASSUME NEW p, CallInv(p), p.dbus = "pending", NEW result \in {"reply", "remote"}
  PROVE  /\ CallInv([TakeResults(p, result) EXCEPT !.dbus = "dispatched"])
         /\ [TakeResults(p, result) EXCEPT !.dbus = "dispatched"].raise = p.raise
<1>. DEFINE s == [TakeResults(p, result) EXCEPT !.dbus = "dispatched"]
<1>0. p \in PendingCalls /\ p.st = "live" /\ p.idle = "none" /\ p.result = "none"
  BY DEF CallInv, PendingCalls, Unborn
<1>1. s = [p EXCEPT !.result = result, !.idle = "queued", !.dbus = "dispatched"]
  BY <1>0 DEF TakeResults, IdleAdd, PendingCalls
<1>. HIDE DEF s
<1>2. s \in PendingCalls
  BY Zenon, <1>0, <1>1 DEF PendingCalls, Results
<1>3. s.raise = p.raise
  BY <1>0, <1>1 DEF PendingCalls
<1>4. CallInv(s)
  BY <1>0, <1>1, <1>2 DEF CallInv, PendingCalls
<1>. QED  BY <1>3, <1>4 DEF s

(* tp_proxy_pending_call_cancel keeps the invariant, even though it queues
   the idle source before dbus-glib has dropped the call. *)
LEMMA CancelInv ==
  ASSUME NEW p, CallInv(p), p.st = "live"
  PROVE  CallInv(Cancel(p)) /\ Cancel(p).raise = p.raise
<1>0. p \in PendingCalls /\ p.dbus # "none"
  BY DEF CallInv
<1>1. CASE p.idle_completed
  BY <1>1 DEF Cancel
<1>2. CASE ~p.idle_completed /\ p.dbus = "pending" /\ p.raise
  <2>1. Cancel(p) = [p EXCEPT !.result = "cancelled", !.idle = "queued",
                              !.cancelled = TRUE, !.dbus_completed = TRUE,
                              !.dbus = "finished"]
    BY Zenon, <1>0, <1>2 DEF CallInv, Cancel, DBusCancelCall, Completed, IdleAdd, PendingCalls
  <2>2. Cancel(p) \in PendingCalls
    BY ZenonT(40), <1>0, <2>1 DEF PendingCalls, Results
  <2>3. Cancel(p).raise = p.raise
    BY <1>0, <2>1 DEF PendingCalls
  <2>4. CallInv(Cancel(p))
    BY <1>0, <1>2, <2>1, <2>2 DEF CallInv, PendingCalls
  <2>. QED  BY <2>3, <2>4
<1>3. CASE ~p.idle_completed /\ p.dbus = "pending" /\ ~p.raise
  <2>1. Cancel(p) = [p EXCEPT !.invoke = FALSE, !.idle = "queued",
                              !.cancelled = TRUE, !.dbus_completed = TRUE,
                              !.dbus = "finished"]
    BY ZenonT(60), <1>0, <1>3 DEF CallInv, Cancel, DBusCancelCall, Completed, IdleAdd, PendingCalls
  <2>2. Cancel(p) \in PendingCalls
    BY ZenonT(40), <1>0, <2>1 DEF PendingCalls
  <2>3. Cancel(p).raise = p.raise
    BY <1>0, <2>1 DEF PendingCalls
  <2>4. CallInv(Cancel(p))
    BY <1>0, <1>3, <2>1, <2>2 DEF CallInv, PendingCalls
  <2>. QED  BY <2>3, <2>4
<1>4. CASE ~p.idle_completed /\ p.dbus # "pending" /\ p.raise
  <2>1. Cancel(p) = [p EXCEPT !.result = "cancelled",
                              !.cancelled = p.cancelled \/ p.called = 0]
    BY Zenon, <1>0, <1>4 DEF CallInv, Cancel, DBusCancelCall, PendingCalls
  <2>2. Cancel(p) \in PendingCalls
    BY ZenonT(40), <1>0, <2>1 DEF PendingCalls, Results
  <2>3. Cancel(p).raise = p.raise
    BY <1>0, <2>1 DEF PendingCalls
  <2>4. CallInv(Cancel(p))
    BY <1>0, <1>4, <2>1, <2>2 DEF CallInv, PendingCalls
  <2>. QED  BY <2>3, <2>4
<1>5. CASE ~p.idle_completed /\ p.dbus # "pending" /\ ~p.raise
  <2>1. Cancel(p) = [p EXCEPT !.invoke = FALSE,
                              !.cancelled = p.cancelled \/ p.called = 0]
    BY Zenon, <1>0, <1>5 DEF CallInv, Cancel, DBusCancelCall, PendingCalls
  <2>2. Cancel(p) \in PendingCalls
    BY ZenonT(40), <1>0, <2>1 DEF PendingCalls
  <2>3. Cancel(p).raise = p.raise
    BY <1>0, <2>1 DEF PendingCalls
  <2>4. CallInv(Cancel(p))
    BY <1>0, <1>5, <2>1, <2>2 DEF CallInv, PendingCalls
  <2>. QED  BY <2>3, <2>4
<1>. QED  BY <1>1, <1>2, <1>3, <1>4, <1>5

(* tp_proxy_pending_call_lost_weak_ref: forgetting the weak object and
   cancelling. *)
LEMMA LostWeakRefInv ==
  ASSUME NEW p, CallInv(p), p.weak
  PROVE  CallInv(LostWeakRef(p)) /\ LostWeakRef(p).raise = p.raise
<1>1. p \in PendingCalls /\ p.st = "live"
  BY DEF CallInv, PendingCalls, Unborn
<1>2. /\ CallInv([p EXCEPT !.weak = FALSE])
      /\ [p EXCEPT !.weak = FALSE].st = "live"
      /\ [p EXCEPT !.weak = FALSE].raise = p.raise
  BY ZenonT(60), <1>1 DEF CallInv, PendingCalls
<1>. QED  BY Zenon, <1>2, CancelInv DEF LostWeakRef

-----------------------------------------------------------------------------
(* Replacing one structure by one satisfying CallInv, with the frames left
   alone, keeps the invariant provided a waiting caller's call stays live. *)
LEMMA UpdateInv ==
  ASSUME IInv, NEW c \in Calls, NEW p, CallInv(p), Update(c, p),
         UNCHANGED <<frame, ifaceAlive>>, p.raise <=> c \in RunCalls,
         frame[c].status = "waiting" /\ ~frame[c].completed =>
           p.st = "live" /\ ~p.idle_completed
  PROVE  IInv'
<1>1. p \in PendingCalls
  BY DEF CallInv
<1>2. pc' = [pc EXCEPT ![c] = p]
  BY DEF Update
<1>3. \A d \in Calls : pc'[d] = IF d = c THEN p ELSE pc[d]
  BY <1>2 DEF IInv
<1>4. pc' \in [Calls -> PendingCalls]
  BY <1>1, <1>2 DEF IInv
<1>5. \A d \in Calls : CallInv(pc'[d])
  BY <1>3 DEF IInv
<1>6. \A d \in Calls : pc'[d].st # "unborn" => (pc'[d].raise <=> d \in RunCalls)
  BY <1>3 DEF IInv
<1>. QED  BY <1>3, <1>4, <1>5, <1>6 DEF IInv

(* Only run calls have a caller waiting in a frame. *)
LEMMA WaitingIsRun ==
  ASSUME IInv, NEW c \in AsyncCalls
  PROVE  c \in Calls /\ c \notin RunCalls /\ frame[c].status = "none"
  BY DisjointCalls DEF IInv, Calls, Frames

(* The initial states satisfy the invariant. *)
LEMMA InitInv == Init => IInv
<1>. SUFFICES ASSUME Init PROVE IInv
  OBVIOUS
<1>1. CallInv(Unborn)
  BY DEF CallInv, Unborn, PendingCalls, Results
<1>2. \A c \in Calls : pc[c] = Unborn /\ frame[c].status = "none"
  BY DEF Init
<1>3. Unborn \in PendingCalls
  BY <1>1 DEF CallInv
<1>4. \A c \in Calls : pc[c].st = "unborn"
  BY <1>2 DEF Unborn
<1>5. /\ pc \in [Calls -> PendingCalls] /\ frame \in [Calls -> Frames]
      /\ ifaceAlive \in BOOLEAN
  BY <1>3 DEF Init, Frames, Results
<1>. QED  BY <1>1, <1>2, <1>4, <1>5 DEF IInv

(* Every step of a call keeps the invariant. *)
LEMMA CallStepInv ==
  ASSUME IInv, NEW c \in Calls, CallStep(c)
  PROVE  IInv'
<1>0. CallInv(pc[c]) /\ pc[c] \in PendingCalls
  BY DEF IInv, CallInv
<1>1. CASE BeginAsync(c)
  <2>1. PICK weak \in BOOLEAN : Update(c, PendingCallNew(FALSE, weak))
    BY Zenon, <1>1 DEF BeginAsync
  <2>2. CallInv(PendingCallNew(FALSE, weak)) /\ ~PendingCallNew(FALSE, weak).raise
    BY Zenon, NewInv
  <2>. QED  BY Zenon, <1>1, <2>1, <2>2, WaitingIsRun, UpdateInv DEF BeginAsync
<1>2. CASE BeginRun(c)
  <2>. DEFINE p == PendingCallNew(TRUE, FALSE)
  <2>1. /\ CallInv(p) /\ p.st = "live" /\ ~p.idle_completed /\ p \in PendingCalls
        /\ p.raise
    BY Zenon, NewInv DEF CallInv
  <2>. HIDE DEF p
  <2>2. /\ pc' = [pc EXCEPT ![c] = p]
        /\ frame' = [frame EXCEPT ![c].status = "waiting"]
        /\ ifaceAlive' = ifaceAlive
        /\ c \in RunCalls
    BY <1>2 DEF BeginRun, Update, p
  <2>3. pc' \in [Calls -> PendingCalls] /\ frame' \in [Calls -> Frames]
    BY <2>1, <2>2 DEF IInv, Frames
  <2>4. \A d \in Calls : CallInv(pc'[d])
    BY <2>1, <2>2 DEF IInv
  <2>5. \A d \in Calls : pc'[d].st # "unborn" => (pc'[d].raise <=> d \in RunCalls)
    BY <2>1, <2>2 DEF IInv, Calls
  <2>. QED  BY <2>1, <2>2, <2>3, <2>4, <2>5 DEF IInv, Frames
<1>3. CASE DispatchReply(c)
  <2>1. PICK result \in {"reply", "remote"} :
          Update(c, [TakeResults(pc[c], result) EXCEPT !.dbus = "dispatched"])
    BY <1>3 DEF DispatchReply
  <2>. DEFINE p == [TakeResults(pc[c], result) EXCEPT !.dbus = "dispatched"]
  <2>2. CallInv(p) /\ p.raise = pc[c].raise
    BY Zenon, <1>0, <1>3, <2>1, TakeResultsInv DEF DispatchReply
  <2>3. pc[c].idle = "none" /\ pc[c].st = "live" /\ ~pc[c].idle_completed
    BY <1>0, <1>3 DEF DispatchReply, CallInv, PendingCalls, Unborn
  <2>4. p.st = "live" /\ ~p.idle_completed
    BY <1>0, <2>3 DEF TakeResults, IdleAdd, PendingCalls
  <2>. QED  BY Zenon, <1>3, <2>1, <2>2, <2>3, <2>4, UpdateInv DEF DispatchReply, IInv
<1>4. CASE DropUserData(c)
  <2>. DEFINE p == Completed(pc[c])
  <2>1. /\ CallInv(p) /\ p.raise = pc[c].raise
        /\ p.idle_completed = pc[c].idle_completed
        /\ p.st \in {"live", "freed"}
    BY <1>0, <1>4, CompletedInv DEF DropUserData
  <2>2. pc[c].st # "unborn"
    BY <1>0, <1>4 DEF DropUserData, CallInv, Unborn
  <2>. HIDE DEF p
  <2>3. ~pc[c].idle_completed => p.st = "live" /\ ~p.idle_completed
    BY <2>1 DEF CallInv
  <2>4. Update(c, p) /\ UNCHANGED <<frame, ifaceAlive>>
    BY <1>4 DEF DropUserData, p
  <2>. QED  BY <2>1, <2>2, <2>3, <2>4, UpdateInv DEF IInv
<1>5. CASE UserCancel(c)
  <2>1. CallInv(Cancel(pc[c])) /\ ~Cancel(pc[c]).raise
    BY <1>0, <1>5, CancelInv, WaitingIsRun DEF UserCancel, IInv
  <2>. QED  BY <1>5, <2>1, WaitingIsRun, UpdateInv DEF UserCancel
<1>6. CASE WeakObjectDies(c)
  <2>2. pc[c].st # "unborn" /\ ~pc[c].raise
    BY <1>0, <1>6 DEF WeakObjectDies, CallInv, Unborn
  <2>1. CallInv(LostWeakRef(pc[c])) /\ ~LostWeakRef(pc[c]).raise
    BY <1>0, <1>6, <2>2, LostWeakRefInv DEF WeakObjectDies
  <2>3. c \in AsyncCalls
    BY <2>2 DEF IInv, Calls
  <2>. QED  BY <1>6, <2>1, <2>3, WaitingIsRun, UpdateInv DEF WeakObjectDies
<1>7. CASE DispatchIdleCancelled(c)
  <2>2. pc[c].st = "live" /\ ~pc[c].raise
    BY <1>0, <1>7 DEF DispatchIdleCancelled, CallInv, Unborn, PendingCalls
  <2>1. CallInv(IdleCompleted(pc[c])) /\ ~IdleCompleted(pc[c]).raise
    BY <1>0, <1>7, <2>2, IdleCompletedInv DEF DispatchIdleCancelled
  <2>3. c \in AsyncCalls
    BY <2>2 DEF IInv, Calls
  <2>. QED  BY <1>7, <2>1, <2>3, WaitingIsRun, UpdateInv DEF DispatchIdleCancelled
<1>8. CASE DispatchIdleAsync(c)
  <2>0. ~pc[c].raise
    BY <1>0, <1>8, WaitingIsRun DEF DispatchIdleAsync, IInv, CallInv, Unborn
  <2>1. CallInv(IdleInvoke(pc[c])) /\ ~IdleInvoke(pc[c]).raise
    BY <1>0, <1>8, <2>0, IdleInvokeInv DEF DispatchIdleAsync
  <2>. QED  BY <1>8, <2>1, WaitingIsRun, UpdateInv DEF DispatchIdleAsync
<1>9. CASE AsyncCallbackReturns(c)
  <2>0. ~pc[c].raise
    BY <1>0, <1>9, WaitingIsRun DEF AsyncCallbackReturns, IInv, CallInv, Unborn
  <2>1. CallInv(IdleInvokeReturn(pc[c])) /\ ~IdleInvokeReturn(pc[c]).raise
    BY <1>0, <1>9, <2>0, IdleInvokeReturnInv DEF AsyncCallbackReturns
  <2>. QED  BY <1>9, <2>1, WaitingIsRun, UpdateInv DEF AsyncCallbackReturns
<1>10. CASE DispatchIdleRun(c)
  <2>. DEFINE p == IdleInvokeReturn(IdleInvoke(pc[c]))
  <2>1. CallInv(p) /\ p.raise = pc[c].raise
    BY <1>0, <1>10, IdleInvokeInv, IdleInvokeReturnInv DEF DispatchIdleRun
  <2>2. c \in RunCalls /\ pc[c].st = "live" /\ pc[c].result \in Results
    BY <1>0, <1>10 DEF DispatchIdleRun, CallInv, PendingCalls, Unborn
  <2>. HIDE DEF p
  <2>3. /\ pc' = [pc EXCEPT ![c] = p]
        /\ frame' = [frame EXCEPT ![c].completed = TRUE, ![c].value = pc[c].result]
        /\ ifaceAlive' = ifaceAlive
    BY <1>10 DEF DispatchIdleRun, Update, p
  <2>4. pc' \in [Calls -> PendingCalls] /\ frame' \in [Calls -> Frames]
    <3>. DEFINE f == [frame[c] EXCEPT !.completed = TRUE, !.value = pc[c].result]
    <3>1. f \in Frames
      BY Zenon, <2>2 DEF IInv, Frames
    <3>2. frame' = [frame EXCEPT ![c] = f]
      BY ZenonT(60), <2>3 DEF IInv, Frames
    <3>. HIDE DEF f
    <3>3. p \in PendingCalls
      BY <2>1 DEF CallInv
    <3>4. pc \in [Calls -> PendingCalls] /\ frame \in [Calls -> Frames]
      BY DEF IInv
    <3>. QED  BY Zenon, <2>3, <3>1, <3>2, <3>3, <3>4
  <2>5. \A d \in Calls : CallInv(pc'[d])
    BY <2>1, <2>3 DEF IInv
  <2>6. \A d \in Calls : pc'[d].st # "unborn" => (pc'[d].raise <=> d \in RunCalls)
    BY <2>1, <2>2, <2>3 DEF IInv, Calls
  <2>7. \A d \in Calls : frame'[d].status = frame[d].status
                         /\ (frame'[d].completed \/ d # c)
    BY <2>3 DEF IInv, Frames
  <2>8. \A d \in Calls : d # c => frame'[d] = frame[d] /\ pc'[d] = pc[d]
    BY <2>3 DEF IInv
  <2>. QED  BY <2>3, <2>4, <2>5, <2>6, <2>7, <2>8 DEF IInv
<1>11. CASE RunReturn(c)
  <2>1. frame' \in [Calls -> Frames]
    BY <1>11 DEF RunReturn, IInv, Frames
  <2>2. \A d \in Calls : /\ frame'[d].completed = frame[d].completed
                         /\ d # c => frame'[d] = frame[d]
                         /\ d = c => frame'[d].status = "returned"
                                     /\ frame[d].status = "waiting"
    BY <1>11 DEF RunReturn, IInv, Frames
  <2>. QED  BY <1>11, <2>1, <2>2 DEF RunReturn, IInv
<1>12. CASE RunQuit(c)
  <2>. DEFINE p == Cancel(pc[c])
  <2>1. c \in RunCalls /\ pc[c].st = "live"
    BY <1>12 DEF RunQuit, IInv
  <2>2. CallInv(p) /\ p.raise
    BY <1>0, <2>1, CancelInv DEF IInv
  <2>. HIDE DEF p
  <2>3. /\ pc' = [pc EXCEPT ![c] = p]
        /\ frame' = [frame EXCEPT ![c].status = "returned"]
        /\ ifaceAlive' = ifaceAlive
    BY <1>12 DEF RunQuit, Update, p
  <2>4. pc' \in [Calls -> PendingCalls] /\ frame' \in [Calls -> Frames]
    BY <2>2, <2>3 DEF IInv, Frames, CallInv
  <2>5. \A d \in Calls : CallInv(pc'[d])
    BY <2>2, <2>3 DEF IInv
  <2>6. \A d \in Calls : pc'[d].st # "unborn" => (pc'[d].raise <=> d \in RunCalls)
    BY <2>1, <2>2, <2>3 DEF IInv, Calls
  <2>7. \A d \in Calls : /\ d # c => frame'[d] = frame[d] /\ pc'[d] = pc[d]
                         /\ d = c => frame'[d].status = "returned"
    BY <2>3 DEF IInv, Frames
  <2>. QED  BY <2>1, <2>3, <2>4, <2>5, <2>6, <2>7 DEF IInv
<1>. QED  BY <1>1, <1>2, <1>3, <1>4, <1>5, <1>6, <1>7, <1>8, <1>9, <1>10,
             <1>11, <1>12 DEF CallStep

(* The destruction of the DBusGProxy keeps the invariant: what it does to
   each structure depends on whether dbus-glib still had it pending. *)
LEMMA DestroyIfaceInv ==
  ASSUME IInv, DestroyIface
  PROVE  IInv'
<1>. DEFINE d(c) == IF pc[c].dbus = "pending" THEN Completed(pc[c]) ELSE pc[c]
            e(c) == IF d(c).iface THEN DgproxyDestroy(d(c)) ELSE d(c)
<1>1. ASSUME NEW c \in Calls
      PROVE  /\ CallInv(d(c))
             /\ d(c).dbus \in {"none", "finished"}
             /\ d(c).raise = pc[c].raise
             /\ d(c).st = pc[c].st
             /\ d(c).idle_completed = pc[c].idle_completed
  <2>1. CallInv(pc[c]) /\ pc[c].dbus # "dispatched"
    BY DEF IInv, DestroyIface
  <2>2. CASE pc[c].dbus = "pending"
    <3>1. pc[c].st = "live"
      BY <2>1, <2>2 DEF CallInv, PendingCalls, Unborn
    <3>. QED  BY <2>1, <2>2, <3>1, CompletedInv
  <2>3. CASE pc[c].dbus # "pending"
    <3>1. d(c) = pc[c]
      BY <2>3
    <3>2. pc[c].dbus \in {"none", "pending", "dispatched", "finished"}
      BY <2>1 DEF CallInv, PendingCalls
    <3>. QED  BY <2>1, <2>3, <3>1, <3>2
  <2>. QED  BY <2>2, <2>3
<1>. HIDE DEF d
<1>2. ASSUME NEW c \in Calls
      PROVE  /\ CallInv(e(c))
             /\ e(c).raise = pc[c].raise
             /\ e(c).st = pc[c].st
             /\ e(c).idle_completed = pc[c].idle_completed
  <2>1. CASE d(c).iface
    <3>1. d(c).st # "unborn" /\ d(c).dbus = "finished"
      BY <1>1, <2>1 DEF CallInv, Unborn
    <3>. QED  BY <1>1, <2>1, <3>1, DgproxyDestroyInv
  <2>2. CASE ~d(c).iface
    BY <1>1, <2>2
  <2>. QED  BY <2>1, <2>2
<1>3. pc' = [c \in Calls |-> e(c)] /\ frame' = frame /\ ifaceAlive' = FALSE
  BY DEF DestroyIface, d
<1>. HIDE DEF e
<1>4. pc' \in [Calls -> PendingCalls]
  BY <1>2, <1>3 DEF CallInv
<1>5. \A c \in Calls : pc'[c] = e(c)
  BY <1>3
<1>. QED  BY ZenonT(60), <1>2, <1>3, <1>4, <1>5 DEF IInv

-----------------------------------------------------------------------------
(* IInv is an invariant of the specification. *)
THEOREM Invariance == Spec => []IInv
<1>1. IInv /\ [Next]_vars => IInv'
  <2>. SUFFICES ASSUME IInv, [Next]_vars PROVE IInv'
    OBVIOUS
  <2>1. CASE \E c \in Calls : CallStep(c)
    BY <2>1, CallStepInv
  <2>2. CASE DestroyIface
    BY <2>2, DestroyIfaceInv
  <2>3. CASE UNCHANGED vars
    BY <2>3 DEF vars, IInv
  <2>. QED  BY <2>1, <2>2, <2>3 DEF Next
<1>. QED  BY <1>1, InitInv, PTL DEF Spec

(* Every structure always has the fields and ranges of
   struct _TpProxyPendingCall. *)
THEOREM TypeCorrect == Spec => []TypeOK
<1>1. IInv => TypeOK
  BY DEF IInv, TypeOK
<1>. QED  BY <1>1, Invariance, PTL

(* A structure freed by tp_proxy_pending_call_free is referenced by nobody,
   whichever of its two owners let go last. *)
THEOREM FreedIsUnreferenced == Spec => []NoDanglingReference
<1>1. IInv => NoDanglingReference
  BY DEF IInv, CallInv, NoDanglingReference
<1>. QED  BY <1>1, Invariance, PTL

(* Whenever tp_proxy_pending_call_cancel would call
   dbus_g_proxy_cancel_call, the structure has its DBusGProxy. *)
THEOREM IfaceIsThere == Spec => []CancelFindsIface
<1>1. IInv => CancelFindsIface
  BY DEF IInv, CallInv, CancelFindsIface, PendingCalls
<1>. QED  BY <1>1, Invariance, PTL

(* tp_proxy_pending_call_v0_take_results never drops a reply. *)
THEOREM RepliesAreTaken == Spec => []NoReplyDropped
<1>1. IInv => NoReplyDropped
  BY DEF IInv, CallInv, NoReplyDropped
<1>. QED  BY <1>1, Invariance, PTL

(* The callback runs at most once, and cancellation is honoured however
   late it comes. *)
THEOREM CallbackOnce == Spec => []CallbackDiscipline
<1>1. IInv => CallbackDiscipline
  BY DEF IInv, CallInv, CallbackDiscipline, PendingCalls
<1>. QED  BY <1>1, Invariance, PTL
-----------------------------------------------------------------------------
(* What the C functions do to what the caller sees. *)

(* A structure without its idle source waits, and nothing is decided yet. *)
LEMMA WaitingSeen ==
  ASSUME NEW p, CallInv(p), p.dbus = "pending"
  PROVE  Seen(p) = [at |-> "waiting", what |-> "none"]
<1>1. /\ p.st = "live" /\ p.idle = "none" /\ p.called = 0 /\ p.result = "none"
  BY DEF CallInv, PendingCalls, Unborn
<1>. QED  BY <1>1 DEF Seen

(* The collect callback decides the call (take_results). *)
LEMMA TakeResultsSeen ==
  ASSUME NEW p, CallInv(p), p.dbus = "pending", NEW result \in {"reply", "remote"}
  PROVE  Seen([TakeResults(p, result) EXCEPT !.dbus = "dispatched"])
           = [at |-> "decided", what |-> result]
<1>. DEFINE s == [TakeResults(p, result) EXCEPT !.dbus = "dispatched"]
<1>0. /\ p \in PendingCalls /\ p.st = "live" /\ p.idle = "none" /\ p.result = "none"
      /\ p.called = 0 /\ p.invoke
  BY DEF CallInv, PendingCalls, Unborn
<1>1. s = [p EXCEPT !.result = result, !.idle = "queued", !.dbus = "dispatched"]
  BY <1>0 DEF TakeResults, IdleAdd, PendingCalls
<1>. HIDE DEF s
<1>2. /\ s.st = "live" /\ s.idle = "queued" /\ s.invoke /\ s.called = 0 /\ s.result = result
  BY <1>0, <1>1 DEF PendingCalls
<1>3. Seen(s) = [at |-> "decided", what |-> result]
  BY <1>2 DEF Seen
<1>. QED  BY <1>3 DEF s

(* A pending call that dbus-glib drops is lost (v0_completed). *)
LEMMA LostSeen ==
  ASSUME NEW p, CallInv(p), p.dbus = "pending"
  PROVE  Seen(Completed(p)) = [at |-> "decided", what |-> "lost"]
<1>0. /\ p \in PendingCalls /\ p.st = "live" /\ p.idle = "none" /\ p.called = 0
      /\ p.invoke /\ p.iface /\ ~p.idle_completed
  BY DEF CallInv, PendingCalls, Unborn
<1>1. Completed(p) = [p EXCEPT !.result = "lost", !.idle = "queued", !.iface = FALSE,
                               !.dbus_completed = TRUE, !.dbus = "finished"]
  BY Zenon, <1>0 DEF Completed, DgproxyDestroy, IdleAdd, PendingCalls
<1>. DEFINE s == Completed(p)
<1>2. s.st = "live" /\ s.idle = "queued" /\ s.invoke /\ s.called = 0 /\ s.result = "lost"
  BY <1>0, <1>1 DEF PendingCalls
<1>. HIDE DEF s
<1>3. Seen(s) = [at |-> "decided", what |-> "lost"]
  BY <1>2 DEF Seen
<1>. QED  BY <1>3 DEF s

(* A dispatched call that dbus-glib drops is released if its idle source is
   done, and the caller sees nothing otherwise. *)
LEMMA DroppedSeen ==
  ASSUME NEW p, CallInv(p), p.dbus = "dispatched"
  PROVE  \/ Seen(Completed(p)) = Seen(p)
         \/ /\ Seen(p).at = "settled"
            /\ Seen(Completed(p)) = [at |-> "released", what |-> Seen(p).what]
<1>0. p \in PendingCalls /\ p.st = "live" /\ p.idle # "none"
  BY DEF CallInv, PendingCalls, Unborn
<1>. DEFINE s == Completed(p)
<1>1. CASE p.idle # "done"
  <2>1. s = [p EXCEPT !.dbus_completed = TRUE, !.dbus = "finished"]
    BY Zenon, <1>0, <1>1 DEF CallInv, Completed, PendingCalls
  <2>2. /\ s.st = p.st /\ s.idle = p.idle /\ s.invoke = p.invoke /\ s.called = p.called
        /\ s.result = p.result /\ s.outcome = p.outcome
    BY <1>0, <2>1 DEF PendingCalls
  <2>. HIDE DEF s
  <2>3. Seen(s) = Seen(p)
    BY <2>2 DEF Seen
  <2>. QED  BY <2>3 DEF s
<1>2. CASE p.idle = "done"
  <2>1. s = [p EXCEPT !.dbus_completed = TRUE, !.dbus = "finished", !.st = "freed",
                      !.result = "none", !.weak = FALSE, !.iface = FALSE]
    BY <1>0, <1>2 DEF CallInv, Completed, PendingCallFree, PendingCalls
  <2>2. /\ s.st = "freed" /\ s.invoke = p.invoke /\ s.called = p.called
        /\ s.outcome = p.outcome /\ ~p.invoke
    BY <1>0, <1>2, <2>1 DEF CallInv, PendingCalls
  <2>. HIDE DEF s
  <2>3. Seen(p).at = "settled" /\ Seen(s) = [at |-> "released", what |-> Seen(p).what]
    BY <1>0, <1>2, <2>2 DEF Seen
  <2>. QED  BY <2>3 DEF s
<1>. QED  BY <1>1, <1>2

(* The caller does not see the handler on the DBusGProxy go. *)
LEMMA DgproxyDestroySeen ==
  ASSUME NEW p, CallInv(p), p.st # "unborn", p.dbus = "finished"
  PROVE  Seen(DgproxyDestroy(p)) = Seen(p)
<1>. DEFINE s == DgproxyDestroy(p)
<1>1. p.idle # "none" /\ s = [p EXCEPT !.iface = FALSE] /\ p \in PendingCalls
  BY Zenon DEF CallInv, DgproxyDestroy, PendingCalls
<1>2. /\ s.st = p.st /\ s.idle = p.idle /\ s.invoke = p.invoke /\ s.called = p.called
      /\ s.result = p.result /\ s.outcome = p.outcome
  BY <1>1 DEF PendingCalls
<1>. HIDE DEF s
<1>3. Seen(s) = Seen(p)
  BY <1>2 DEF Seen
<1>. QED  BY <1>3 DEF s

(* Cancelling a call whose caller has not been told withdraws it, or, if it
   must raise, decides it anew; later the caller sees nothing of it. *)
LEMMA CancelSeen ==
  ASSUME NEW p, CallInv(p), p.st = "live"
  PROVE  \/ Seen(Cancel(p)) = Seen(p)
         \/ /\ Seen(p).at \in {"waiting", "decided"}
            /\ Seen(Cancel(p)) = IF p.raise THEN [at |-> "decided", what |-> "cancelled"]
                                            ELSE [at |-> "settled", what |-> "none"]
<1>0. p \in PendingCalls /\ p.dbus # "none"
  BY DEF CallInv
<1>. DEFINE s == Cancel(p)
<1>1. CASE p.idle_completed
  BY <1>1 DEF Cancel
<1>2. CASE ~p.idle_completed /\ p.dbus = "pending" /\ p.raise
  <2>0. p.idle = "none" /\ p.called = 0 /\ p.invoke
    BY <1>0, <1>2 DEF CallInv
  <2>1. s = [p EXCEPT !.result = "cancelled", !.idle = "queued", !.cancelled = TRUE,
                      !.dbus_completed = TRUE, !.dbus = "finished"]
    BY Zenon, <1>0, <1>2 DEF CallInv, Cancel, DBusCancelCall, Completed, IdleAdd, PendingCalls
  <2>. HIDE DEF s
  <2>2. s.st = "live" /\ s.idle = "queued" /\ s.invoke /\ s.called = 0 /\ s.result = "cancelled"
    BY <1>0, <2>0, <2>1 DEF PendingCalls
  <2>3. Seen(p).at = "waiting" /\ Seen(s) = [at |-> "decided", what |-> "cancelled"]
    BY <2>0, <2>2 DEF Seen
  <2>. QED  BY <1>2, <2>3 DEF s
<1>3. CASE ~p.idle_completed /\ p.dbus = "pending" /\ ~p.raise
  <2>0. p.idle = "none" /\ p.called = 0
    BY <1>0, <1>3 DEF CallInv
  <2>1. s = [p EXCEPT !.invoke = FALSE, !.idle = "queued", !.cancelled = TRUE,
                      !.dbus_completed = TRUE, !.dbus = "finished"]
    BY Zenon, <1>0, <1>3 DEF CallInv, Cancel, DBusCancelCall, Completed, IdleAdd, PendingCalls
  <2>. HIDE DEF s
  <2>2. s.st = "live" /\ s.idle = "queued" /\ ~s.invoke /\ s.called = 0
    BY <1>0, <2>0, <2>1 DEF PendingCalls
  <2>3. Seen(p).at = "waiting" /\ Seen(s) = [at |-> "settled", what |-> "none"]
    BY <2>0, <2>2 DEF Seen
  <2>. QED  BY <1>3, <2>3 DEF s
<1>4. CASE ~p.idle_completed /\ p.dbus # "pending" /\ p.raise
  <2>0. p.idle \in {"queued", "running"} /\ (p.idle = "queued" => p.called = 0 /\ p.invoke)
        /\ (p.idle = "running" => p.called = 1)
    BY <1>0, <1>4 DEF CallInv, PendingCalls
  <2>1. s = [p EXCEPT !.result = "cancelled", !.cancelled = p.cancelled \/ p.called = 0]
    BY Zenon, <1>0, <1>4 DEF CallInv, Cancel, DBusCancelCall, PendingCalls
  <2>. HIDE DEF s
  <2>2. /\ s.st = p.st /\ s.idle = p.idle /\ s.invoke = p.invoke /\ s.called = p.called
        /\ s.result = "cancelled" /\ s.outcome = p.outcome
    BY <1>0, <2>1 DEF PendingCalls
  <2>3. CASE p.idle = "queued"
    <3>1. Seen(p).at = "decided" /\ Seen(s) = [at |-> "decided", what |-> "cancelled"]
      BY <2>0, <2>2, <2>3 DEF Seen
    <3>. QED  BY <1>4, <3>1 DEF s
  <2>4. CASE p.idle = "running"
    <3>1. Seen(s) = Seen(p)
      BY <2>0, <2>2, <2>4 DEF Seen
    <3>. QED  BY <3>1 DEF s
  <2>. QED  BY <2>0, <2>3, <2>4
<1>5. CASE ~p.idle_completed /\ p.dbus # "pending" /\ ~p.raise
  <2>0. p.idle \in {"queued", "running"} /\ (p.idle = "queued" => p.called = 0)
        /\ (p.idle = "running" => p.called = 1)
    BY <1>0, <1>5 DEF CallInv, PendingCalls
  <2>1. s = [p EXCEPT !.invoke = FALSE, !.cancelled = p.cancelled \/ p.called = 0]
    BY ZenonT(60), <1>0, <1>5 DEF CallInv, Cancel, DBusCancelCall, PendingCalls
  <2>. HIDE DEF s
  <2>2. /\ s.st = p.st /\ s.idle = p.idle /\ ~s.invoke /\ s.called = p.called
        /\ s.outcome = p.outcome
    BY <1>0, <2>1 DEF PendingCalls
  <2>3. CASE p.idle = "queued"
    <3>1. /\ Seen(s) = [at |-> "settled", what |-> "none"]
          /\ Seen(p).at = "decided" \/ Seen(s) = Seen(p)
      BY <2>0, <2>2, <2>3 DEF Seen
    <3>. QED  BY <1>5, <3>1 DEF s
  <2>4. CASE p.idle = "running"
    <3>1. Seen(s) = Seen(p)
      BY <2>0, <2>2, <2>4 DEF Seen
    <3>. QED  BY <3>1 DEF s
  <2>. QED  BY <2>0, <2>3, <2>4
<1>. QED  BY <1>1, <1>2, <1>3, <1>4, <1>5

(* The death of the weak object is a cancellation. *)
LEMMA LostWeakRefSeen ==
  ASSUME NEW p, CallInv(p), p.weak
  PROVE  \/ Seen(LostWeakRef(p)) = Seen(p)
         \/ /\ Seen(p).at \in {"waiting", "decided"}
            /\ Seen(LostWeakRef(p)) = [at |-> "settled", what |-> "none"]
<1>. DEFINE q == [p EXCEPT !.weak = FALSE]
<1>1. p \in PendingCalls /\ p.st = "live" /\ ~p.raise
  BY DEF CallInv, PendingCalls, Unborn
<1>2. CallInv(q) /\ q.st = "live" /\ ~q.raise
  BY ZenonT(60), <1>1 DEF CallInv, PendingCalls
<1>3. /\ q.st = p.st /\ q.idle = p.idle /\ q.invoke = p.invoke /\ q.called = p.called
      /\ q.result = p.result /\ q.outcome = p.outcome
  BY <1>1 DEF PendingCalls
<1>4. LostWeakRef(p) = Cancel(q)
  BY DEF LostWeakRef
<1>. HIDE DEF q
<1>5. Seen(q) = Seen(p)
  BY <1>3 DEF Seen
<1>. QED  BY <1>2, <1>4, <1>5, CancelSeen

(* The end of the idle source of a call that was withdrawn. *)
LEMMA IdleCompletedSeen ==
  ASSUME NEW p, CallInv(p), p.idle = "queued", ~p.invoke
  PROVE  /\ Seen(p).at = "settled"
         /\ \/ Seen(IdleCompleted(p)) = Seen(p)
            \/ Seen(IdleCompleted(p)) = [at |-> "released", what |-> Seen(p).what]
<1>. DEFINE s == IdleCompleted(p)
<1>0. p \in PendingCalls /\ p.st = "live" /\ p.called = 0
  BY DEF CallInv, PendingCalls, Unborn
<1>1. CASE p.dbus_completed
  <2>1. s = [p EXCEPT !.idle = "done", !.idle_completed = TRUE, !.st = "freed",
                      !.result = "none", !.weak = FALSE, !.iface = FALSE]
    BY <1>0, <1>1 DEF IdleCompleted, PendingCallFree, PendingCalls
  <2>. HIDE DEF s
  <2>2. s.st = "freed" /\ ~s.invoke /\ s.called = 0
    BY <1>0, <2>1 DEF PendingCalls
  <2>3. Seen(p).at = "settled" /\ Seen(s) = [at |-> "released", what |-> Seen(p).what]
    BY <1>0, <2>2 DEF Seen
  <2>. QED  BY <2>3 DEF s
<1>2. CASE ~p.dbus_completed
  <2>1. s = [p EXCEPT !.idle = "done", !.idle_completed = TRUE]
    BY <1>0, <1>2 DEF IdleCompleted, PendingCalls
  <2>. HIDE DEF s
  <2>2. s.st = "live" /\ s.idle = "done" /\ ~s.invoke /\ s.called = 0
    BY <1>0, <2>1 DEF PendingCalls
  <2>3. Seen(p).at = "settled" /\ Seen(s) = Seen(p)
    BY <1>0, <2>2 DEF Seen
  <2>. QED  BY <2>3 DEF s
<1>. QED  BY <1>1, <1>2

(* The callback is given what was decided. *)
LEMMA IdleInvokeSeen ==
  ASSUME NEW p, CallInv(p), p.idle = "queued", p.invoke
  PROVE  /\ Seen(p).at = "decided"
         /\ Seen(IdleInvoke(p)) = [at |-> "telling", what |-> Seen(p).what]
<1>. DEFINE s == IdleInvoke(p)
<1>0. p \in PendingCalls /\ p.st = "live" /\ p.called = 0 /\ p.called + 1 = 1
  BY DEF CallInv, PendingCalls, Unborn
<1>1. s = [p EXCEPT !.idle = "running", !.invoke = FALSE, !.called = 1, !.outcome = p.result]
  BY <1>0 DEF IdleInvoke
<1>. HIDE DEF s
<1>2. s.st = "live" /\ s.idle = "running" /\ s.called = 1 /\ s.outcome = p.result
  BY <1>0, <1>1 DEF PendingCalls
<1>3. Seen(p).at = "decided" /\ Seen(s) = [at |-> "telling", what |-> Seen(p).what]
  BY <1>0, <1>2 DEF Seen
<1>. QED  BY <1>3 DEF s

(* When the callback has returned the call is settled, and released if
   dbus-glib was done before. *)
LEMMA IdleInvokeReturnSeen ==
  ASSUME NEW p, CallInv(p), p.idle = "running"
  PROVE  /\ Seen(p).at = "telling"
         /\ \E at \in {"settled", "released"} :
              Seen(IdleInvokeReturn(p)) = [at |-> at, what |-> Seen(p).what]
<1>. DEFINE s == IdleInvokeReturn(p)
<1>0. p \in PendingCalls /\ p.st = "live" /\ p.called = 1
  BY DEF CallInv, PendingCalls, Unborn
<1>1. CASE p.dbus_completed
  <2>1. s = [p EXCEPT !.result = "none", !.idle = "done", !.idle_completed = TRUE,
                      !.st = "freed", !.weak = FALSE, !.iface = FALSE]
    BY Zenon, <1>0, <1>1 DEF IdleInvokeReturn, IdleCompleted, PendingCallFree, PendingCalls
  <2>. HIDE DEF s
  <2>2. s.st = "freed" /\ s.called = 1 /\ s.outcome = p.outcome
    BY <1>0, <2>1 DEF PendingCalls
  <2>3. Seen(p).at = "telling" /\ Seen(s) = [at |-> "released", what |-> Seen(p).what]
    BY <1>0, <2>2 DEF Seen
  <2>. QED  BY <2>3 DEF s
<1>2. CASE ~p.dbus_completed
  <2>1. s = [p EXCEPT !.result = "none", !.idle = "done", !.idle_completed = TRUE]
    BY <1>0, <1>2 DEF IdleInvokeReturn, IdleCompleted, PendingCalls
  <2>. HIDE DEF s
  <2>2. s.st = "live" /\ s.idle = "done" /\ s.called = 1 /\ s.outcome = p.outcome
    BY <1>0, <2>1 DEF PendingCalls
  <2>3. Seen(p).at = "telling" /\ Seen(s) = [at |-> "settled", what |-> Seen(p).what]
    BY <1>0, <2>2 DEF Seen
  <2>. QED  BY <2>3 DEF s
<1>. QED  BY <1>1, <1>2

-----------------------------------------------------------------------------
(* The steps, seen by the caller. *)

(* Replacing one structure moves one call, and no other. *)
LEMMA UpdateSeen ==
  ASSUME IInv, NEW c \in Calls, NEW p, Update(c, p), ifaceAlive' = ifaceAlive
  PROVE  Promise!To(c, Seen(p))
<1>1. /\ pc' = [pc EXCEPT ![c] = p]
      /\ \A d \in Calls : pc'[d] = IF d = c THEN p ELSE pc[d]
  BY DEF Update, IInv
<1>2. \A d \in Calls : Seen(pc'[d]) = IF d = c THEN Seen(p) ELSE Seen(pc[d])
  BY <1>1
<1>. DEFINE before == [d \in Calls |-> Seen(pc[d])]
            after == [d \in Calls |-> Seen(pc'[d])]
<1>3. after = [before EXCEPT ![c] = Seen(p)]
  BY <1>2, ZenonT(60)
<1>. QED  BY <1>3 DEF Promise!To

(* A replacement the caller cannot tell changes nothing for it. *)
LEMMA UnseenUpdate ==
  ASSUME IInv, NEW c \in Calls, NEW p, Update(c, p), ifaceAlive' = ifaceAlive,
         Seen(p) = Seen(pc[c])
  PROVE  UNCHANGED Promise!vars
<1>1. \A d \in Calls : pc'[d] = IF d = c THEN p ELSE pc[d]
  BY DEF Update, IInv
<1>2. [d \in Calls |-> Seen(pc'[d])] = [d \in Calls |-> Seen(pc[d])]
  BY <1>1
<1>. QED  BY <1>2 DEF Promise!vars

(* Each step of a call is a step of the promised call, or nothing. *)
LEMMA CallStepSeen ==
  ASSUME IInv, NEW c \in Calls, CallStep(c)
  PROVE  Promise!Step(c) \/ UNCHANGED Promise!vars
<1>. DEFINE p == pc[c]
<1>0. /\ CallInv(p) /\ p \in PendingCalls
      /\ p.st # "unborn" => (p.raise <=> c \in RunCalls)
      /\ [d \in Calls |-> Seen(pc[d])][c] = Seen(p)
  BY DEF IInv, CallInv
<1>1. ASSUME p.st = "unborn", ifaceAlive, ifaceAlive' = ifaceAlive, NEW raise, NEW weak,
             Update(c, PendingCallNew(raise, weak))
      PROVE  Promise!Step(c)
  <2>1. Seen(p).at = "none"
    BY <1>1 DEF Seen
  <2>2. Seen(PendingCallNew(raise, weak)) = Promise!Call("waiting", "none")
    BY DEF PendingCallNew, Seen, Promise!Call
  <2>. QED  BY <1>0, <1>1, <2>1, <2>2, UpdateSeen DEF Promise!Step, Promise!Make
<1>2. ASSUME p.st = "live", ifaceAlive' = ifaceAlive, NEW q, Update(c, q),
             \/ Seen(q) = Seen(p)
             \/ /\ Seen(p).at \in {"waiting", "decided"}
                /\ Seen(q) = IF p.raise THEN [at |-> "decided", what |-> "cancelled"]
                                        ELSE [at |-> "settled", what |-> "none"]
      PROVE  Promise!Step(c) \/ UNCHANGED Promise!vars
  <2>1. CASE Seen(q) = Seen(p)
    BY <1>2, <2>1, UnseenUpdate
  <2>2. CASE /\ Seen(p).at \in {"waiting", "decided"}
             /\ Seen(q) = IF c \in RunCalls THEN Promise!Call("decided", "cancelled")
                                            ELSE Promise!Call("settled", "none")
    BY <1>0, <1>2, <2>2, UpdateSeen DEF Promise!Step, Promise!Cancel
  <2>. QED  BY <1>0, <1>2, <2>1, <2>2 DEF Promise!Call
<1>3. CASE BeginAsync(c)
  BY <1>1, <1>3, ZenonT(60) DEF BeginAsync
<1>4. CASE BeginRun(c)
  BY <1>1, <1>4, ZenonT(60) DEF BeginRun
<1>5. CASE DispatchReply(c)
  <2>1. PICK result \in {"reply", "remote"} :
          Update(c, [TakeResults(p, result) EXCEPT !.dbus = "dispatched"])
    BY <1>5 DEF DispatchReply
  <2>. DEFINE q == [TakeResults(p, result) EXCEPT !.dbus = "dispatched"]
  <2>0. p.dbus = "pending"
    BY <1>5 DEF DispatchReply
  <2>2. Seen(p).at = "waiting" /\ Seen(q) = Promise!Call("decided", result)
    <3>1. Seen(p).at = "waiting"
      BY <1>0, <2>0, WaitingSeen
    <3>2. Seen(q) = [at |-> "decided", what |-> result]
      BY Zenon, <1>0, <2>0, TakeResultsSeen
    <3>. QED  BY Zenon, <3>1, <3>2 DEF Promise!Call
  <2>. HIDE DEF q
  <2>3. Promise!To(c, Promise!Call("decided", result))
    BY <1>5, <2>1, <2>2, UpdateSeen DEF DispatchReply, q
  <2>. QED  BY <1>0, <2>2, <2>3 DEF Promise!Step, Promise!Answer
<1>6. CASE DropUserData(c)
  <2>. DEFINE q == Completed(p)
  <2>1. Update(c, q) /\ ifaceAlive' = ifaceAlive /\ p.dbus = "dispatched"
    BY <1>6 DEF DropUserData
  <2>2. \/ Seen(q) = Seen(p)
        \/ Seen(p).at = "settled" /\ Seen(q) = Promise!Call("released", Seen(p).what)
    BY <1>0, <2>1, DroppedSeen DEF Promise!Call
  <2>. HIDE DEF q
  <2>3. CASE Seen(q) = Seen(p)
    BY <2>1, <2>3, UnseenUpdate
  <2>4. CASE Seen(p).at = "settled" /\ Seen(q) = Promise!Call("released", Seen(p).what)
    BY <1>0, <2>1, <2>4, UpdateSeen DEF Promise!Step, Promise!Release
  <2>. QED  BY <2>2, <2>3, <2>4
<1>7. CASE UserCancel(c)
  <2>1. p.st = "live" /\ Update(c, Cancel(p)) /\ ifaceAlive' = ifaceAlive
    BY <1>7 DEF UserCancel
  <2>. QED  BY <1>0, <1>2, <2>1, CancelSeen
<1>8. CASE WeakObjectDies(c)
  <2>1. p.weak /\ Update(c, LostWeakRef(p)) /\ ifaceAlive' = ifaceAlive
    BY <1>8 DEF WeakObjectDies
  <2>2. p.st = "live" /\ ~p.raise
    BY <1>0, <2>1 DEF CallInv, PendingCalls, Unborn
  <2>. QED  BY <1>0, <1>2, <2>1, <2>2, LostWeakRefSeen
<1>9. CASE DispatchIdleCancelled(c)
  <2>. DEFINE q == IdleCompleted(p)
  <2>1. Update(c, q) /\ ifaceAlive' = ifaceAlive /\ p.idle = "queued" /\ ~p.invoke
    BY <1>9 DEF DispatchIdleCancelled
  <2>2. /\ Seen(p).at = "settled"
        /\ Seen(q) = Seen(p) \/ Seen(q) = Promise!Call("released", Seen(p).what)
    BY <1>0, <2>1, IdleCompletedSeen DEF Promise!Call
  <2>. HIDE DEF q
  <2>3. CASE Seen(q) = Seen(p)
    BY <2>1, <2>3, UnseenUpdate
  <2>4. CASE Seen(q) = Promise!Call("released", Seen(p).what)
    BY <1>0, <2>1, <2>2, <2>4, UpdateSeen DEF Promise!Step, Promise!Release
  <2>. QED  BY <2>2, <2>3, <2>4
<1>10. CASE DispatchIdleAsync(c)
  <2>. DEFINE q == IdleInvoke(p)
  <2>1. /\ Update(c, q) /\ ifaceAlive' = ifaceAlive /\ p.idle = "queued" /\ p.invoke
        /\ c \in AsyncCalls
    BY <1>10 DEF DispatchIdleAsync
  <2>2. Seen(p).at = "decided" /\ Seen(q) = Promise!Call("telling", Seen(p).what)
    BY <1>0, <2>1, IdleInvokeSeen DEF Promise!Call
  <2>3. c \notin RunCalls
    BY <2>1, DisjointCalls
  <2>. HIDE DEF q
  <2>. QED  BY <1>0, <2>1, <2>2, <2>3, UpdateSeen DEF Promise!Step, Promise!Tell
<1>11. CASE AsyncCallbackReturns(c)
  <2>. DEFINE q == IdleInvokeReturn(p)
  <2>1. Update(c, q) /\ ifaceAlive' = ifaceAlive /\ p.idle = "running"
    BY <1>11 DEF AsyncCallbackReturns
  <2>2. PICK at \in {"settled", "released"} : Seen(q) = [at |-> at, what |-> Seen(p).what]
    BY <1>0, <2>1, IdleInvokeReturnSeen
  <2>3. Seen(p).at = "telling" /\ Seen(q) = Promise!Call(at, Seen(p).what)
    BY <1>0, <2>1, <2>2, IdleInvokeReturnSeen DEF Promise!Call
  <2>. HIDE DEF q
  <2>. QED  BY <1>0, <2>1, <2>3, UpdateSeen DEF Promise!Step, Promise!Return
<1>12. CASE DispatchIdleRun(c)
  <2>. DEFINE q == IdleInvoke(p)
              r == IdleInvokeReturn(q)
  <2>1. /\ Update(c, r) /\ ifaceAlive' = ifaceAlive /\ p.idle = "queued" /\ p.invoke
        /\ c \in RunCalls
    BY <1>12 DEF DispatchIdleRun
  <2>2. /\ Seen(p).at = "decided" /\ Seen(q).what = Seen(p).what
        /\ CallInv(q) /\ q.idle = "running"
    BY <1>0, <2>1, IdleInvokeSeen, IdleInvokeInv
  <2>. HIDE DEF q
  <2>3. PICK at \in {"settled", "released"} : Seen(r) = Promise!Call(at, Seen(p).what)
    BY <2>2, IdleInvokeReturnSeen DEF Promise!Call
  <2>. HIDE DEF r
  <2>. QED  BY <1>0, <2>1, <2>2, <2>3, UpdateSeen DEF Promise!Step, Promise!Tell
<1>13. CASE RunReturn(c)
  BY <1>13 DEF RunReturn, Promise!vars
<1>14. CASE RunQuit(c)
  <2>1. p.st = "live" /\ Update(c, Cancel(p)) /\ ifaceAlive' = ifaceAlive
    BY <1>14 DEF RunQuit, IInv
  <2>. QED  BY <1>0, <1>2, <2>1, CancelSeen
<1>. QED  BY <1>3, <1>4, <1>5, <1>6, <1>7, <1>8, <1>9, <1>10, <1>11, <1>12, <1>13,
             <1>14 DEF CallStep

(* The destruction of the DBusGProxy is the loss of the service: it decides
   the calls that wait, and the others' callers see nothing of it. *)
LEMMA DestroyIfaceSeen ==
  ASSUME IInv, DestroyIface
  PROVE  Promise!Lose
<1>. DEFINE d(c) == IF pc[c].dbus = "pending" THEN Completed(pc[c]) ELSE pc[c]
            e(c) == IF d(c).iface THEN DgproxyDestroy(d(c)) ELSE d(c)
<1>1. ASSUME NEW c \in Calls
      PROVE  Seen(e(c)) = IF Seen(pc[c]).at = "waiting"
                          THEN Promise!Call("decided", "lost") ELSE Seen(pc[c])
  <2>1. CallInv(pc[c]) /\ pc[c].dbus \in {"none", "pending", "finished"}
    BY DEF IInv, DestroyIface, CallInv, PendingCalls
  <2>2. CASE pc[c].dbus = "pending"
    <3>1. /\ CallInv(d(c)) /\ d(c).st # "unborn" /\ d(c).dbus = "finished"
          /\ Seen(d(c)) = Promise!Call("decided", "lost")
          /\ Seen(pc[c]).at = "waiting"
      BY <2>1, <2>2, CompletedInv, LostSeen, WaitingSeen DEF Promise!Call
    <3>. HIDE DEF d
    <3>. QED  BY <3>1, DgproxyDestroySeen
  <2>3. CASE pc[c].dbus = "finished"
    <3>1. d(c) = pc[c] /\ pc[c].idle # "none" /\ pc[c].st # "unborn"
      BY <2>1, <2>3 DEF CallInv, Unborn
    <3>2. Seen(pc[c]).at # "waiting"
      BY <3>1 DEF Seen
    <3>. HIDE DEF d
    <3>. QED  BY <2>1, <2>3, <3>1, <3>2, DgproxyDestroySeen
  <2>4. CASE pc[c].dbus = "none"
    <3>1. d(c) = pc[c] /\ pc[c] = Unborn
      BY <2>1, <2>4 DEF CallInv
    <3>2. e(c) = pc[c] /\ Seen(pc[c]).at # "waiting"
      BY <3>1 DEF Unborn, Seen
    <3>. HIDE DEF e
    <3>. QED  BY <3>2
  <2>. QED  BY <2>1, <2>2, <2>3, <2>4
<1>2. /\ ifaceAlive /\ ifaceAlive' = FALSE
      /\ pc' = [c \in Calls |-> e(c)]
  BY DEF DestroyIface
<1>. HIDE DEF e
<1>3. \A c \in Calls : pc'[c] = e(c)
  BY <1>2
<1>4. [c \in Calls |-> Seen(pc'[c])] =
        [c \in Calls |-> IF Seen(pc[c]).at = "waiting"
                         THEN Promise!Call("decided", "lost") ELSE Seen(pc[c])]
  BY <1>1, <1>3
<1>. QED  BY <1>2, <1>4 DEF Promise!Lose

(* The structure of proxy-methods.c with its two owners, its idle source and
   the races for its one callback implements the call MethodCall promises. *)
THEOREM CallsKeepTheirPromise == Spec => PromiseKept
<1>1. Init => Promise!Init
  <2>1. Seen(Unborn) = Promise!Call("none", "none")
    BY DEF Seen, Unborn, Promise!Call
  <2>. QED  BY <2>1 DEF Init, Promise!Init
<1>2. IInv /\ [Next]_vars => [Promise!Next]_(Promise!vars)
  <2>. SUFFICES ASSUME IInv, [Next]_vars PROVE [Promise!Next]_(Promise!vars)
    OBVIOUS
  <2>1. CASE \E c \in Calls : CallStep(c)
    BY <2>1, CallStepSeen DEF Promise!Next
  <2>2. CASE DestroyIface
    BY <2>2, DestroyIfaceSeen DEF Promise!Next
  <2>3. CASE UNCHANGED vars
    BY <2>3 DEF vars, Promise!vars
  <2>. QED  BY <2>1, <2>2, <2>3 DEF Next
<1>. QED  BY <1>1, <1>2, Invariance, PTL DEF Spec, PromiseKept, Promise!Spec

=============================================================================
