----------------------------- MODULE MethodCall -----------------------------
(***************************************************************************)
(* What a D-Bus method call made through a TpProxy promises its caller,    *)
(* without the structure, the idle source and the two owners that keep the *)
(* promise (PendingCall).                                                  *)
(*                                                                         *)
(* A call waits until one thing decides it: the service answers, or goes   *)
(* away with all of its calls.  The caller is told once, later, what was   *)
(* decided, and nothing but a cancellation may change it in between.  One  *)
(* that was cancelled is told CANCELLED if it must raise, and otherwise    *)
(* nothing.  The caller's data is released when the callback has returned  *)
(* or will not come.                                                       *)
(***************************************************************************)
CONSTANTS
  Calls,
  Raising       \* the calls that must be told of their cancellation

VARIABLES
  call,         \* where each call stands, and what was decided or told
  there         \* the service is there

vars == <<call, there>>

Call(at, what) == [at |-> at, what |-> what]

Init ==
  /\ call = [c \in Calls |-> Call("none", "none")]
  /\ there = TRUE

To(c, v) == call' = [call EXCEPT ![c] = v] /\ UNCHANGED there

Make(c) == call[c].at = "none" /\ there /\ To(c, Call("waiting", "none"))

Answer(c) ==
  /\ call[c].at = "waiting"
  /\ \E r \in {"reply", "remote"} : To(c, Call("decided", r))

(* The service goes away, and decides every call that waits for it. *)
Lose ==
  /\ there /\ there' = FALSE
  /\ call' = [c \in Calls |->
                IF call[c].at = "waiting" THEN Call("decided", "lost") ELSE call[c]]

Cancel(c) ==
  /\ call[c].at \in {"waiting", "decided"}
  /\ To(c, IF c \in Raising THEN Call("decided", "cancelled") ELSE Call("settled", "none"))

(* The callback starts; that of a raising call is also over. *)
Tell(c) ==
  /\ call[c].at = "decided"
  /\ \E at \in (IF c \in Raising THEN {"settled", "released"} ELSE {"telling"}) :
       To(c, Call(at, call[c].what))

(* The callback has returned: now, or later, the caller's data is released. *)
Return(c) ==
  /\ call[c].at = "telling"
  /\ \E at \in {"settled", "released"} : To(c, Call(at, call[c].what))

Release(c) == call[c].at = "settled" /\ To(c, Call("released", call[c].what))

Step(c) == Make(c) \/ Answer(c) \/ Cancel(c) \/ Tell(c) \/ Return(c) \/ Release(c)

Next == (\E c \in Calls : Step(c)) \/ Lose

Spec == Init /\ [][Next]_vars
=============================================================================
