------------------------- MODULE ConnectionManager -------------------------
(***************************************************************************)
(* The client's proxy of a connection manager: TpConnectionManager         *)
(* (connection-manager.c) finds out which protocols the manager offers,    *)
(* from its .manager file or by asking the process (which activates it),   *)
(* while the process starts, exits, crashes and is replaced.               *)
(*                                                                         *)
(* cm holds the fields of the object; each callback is an action.  The     *)
(* process and the bus daemon (external) answer the one call that is       *)
(* pending; NameOwnerChanged and replies arrive in the order they were     *)
(* sent.  Each run of the process has a number, and the protocols found    *)
(* are remembered with the number of the run that named them.              *)
(***************************************************************************)
EXTENDS Naturals, Sequences

CONSTANTS
  Protocols,  \* the protocols the process implements, a sequence
  File,       \* the .manager file: "none", "bad" or "good"
  Always,     \* always-introspect
  Legacy,     \* the process has no Protocols property
  Errors,     \* calls may fail although the process runs
  MaxRuns     \* how often the process may start

VARIABLES
  cm,     \* the TpConnectionManager
  wire,   \* messages on their way to the client, oldest first
  svc,    \* the process: whether it runs, and which run it is
  call,   \* the call that is waiting for an answer, or "none"
  sig     \* the last of activated and exited, or "none"

vars == <<cm, wire, svc, call, sig>>

Names == {Protocols[i] : i \in DOMAIN Protocols}

SoundConstants ==
  /\ Protocols \in Seq(STRING) /\ Len(Protocols) > 0
  /\ Names \cap {"none", "cancel", "GetAll", "ListProtocols"} = {}
  /\ File \in {"none", "bad", "good"}
  /\ Always \in BOOLEAN /\ Legacy \in BOOLEAN /\ Errors \in BOOLEAN
  /\ MaxRuns \in Nat \ {0}

-----------------------------------------------------------------------------
Found == SUBSET (Names \X (0..MaxRuns))
None == [known |-> FALSE, set |-> {}]
Some(s) == [known |-> TRUE, set |-> s]
Tables == [known : BOOLEAN, set : Found]

TpConnectionManager ==
  [ name_known : BOOLEAN, running : BOOLEAN, want : BOOLEAN,
    retried : BOOLEAN,
    source   : 0..2,     \* NONE, FILE, LIVE
    step     : {"IDLE", "PROPERTIES", "PROTOCOLS", "PARAMETERS"},
    in_call  : BOOLEAN,  \* introspection_call is not NULL
    found    : Tables,   \* found_protocols
    objects  : Tables,   \* protocol_objects
    pending  : Seq(Names), \* pending_protocols
    introspect_idle : BOOLEAN, file_idle : BOOLEAN,
    core     : {"none", "prepared", "failed"},
    asked    : BOOLEAN,  \* tp_connection_manager_activate returned TRUE
    aborted  : BOOLEAN ]

NewCM ==
  [ name_known |-> FALSE, running |-> FALSE, want |-> FALSE,
    retried |-> FALSE, source |-> 0, step |-> "IDLE", in_call |-> FALSE,
    found |-> None, objects |-> None, pending |-> <<>>,
    introspect_idle |-> FALSE, file_idle |-> FALSE, core |-> "none",
    asked |-> FALSE, aborted |-> FALSE ]

(* A result of a C function: the object, and the call it makes if any. *)
Does(c, k) == [c |-> c, k |-> k]
Calls(c, step, k) == Does([c EXCEPT !.step = step, !.in_call = TRUE], k)
Asserts(cond, r) == IF cond THEN r ELSE Does([r.c EXCEPT !.aborted = TRUE], "none")

(* tp_connection_manager_ready_or_failed *)
ReadyOrFailed(c) ==
  [c EXCEPT !.core = IF c.source > 0 THEN "prepared" ELSE "failed"]

(* tp_connection_manager_reset_introspection; the call is cancelled by the
   caller of this operator. *)
ResetIntrospection(c) ==
  [c EXCEPT !.step = "IDLE", !.in_call = FALSE, !.found = None,
            !.pending = <<>>]

(* tp_connection_manager_end_introspection *)
EndIntrospection(c) == ReadyOrFailed(ResetIntrospection(c))

(* tp_connection_manager_continue_introspection: the branch that swaps the
   tables and ends, and the branch that asks for the next protocol, which
   remove_index_fast takes from the front, moving the last one there. *)
Finish(c) ==
  EndIntrospection([c EXCEPT !.objects = c.found, !.source = 2])

RemoveIndexFast(s) == [i \in 1..(Len(s) - 1) |-> IF i = 1 THEN s[Len(s)] ELSE s[i]]

ContinueIntrospection(c) ==
  CASE c.step = "IDLE" -> Calls(c, "PROPERTIES", "GetAll")
    [] c.step = "PROPERTIES" /\ ~c.found.known ->
         Calls(c, "PROTOCOLS", "ListProtocols")
    [] c.step # "IDLE" /\ ~(c.step = "PROPERTIES" /\ ~c.found.known) ->
         IF c.pending = <<>> THEN Does(Finish(c), "none")
         ELSE Calls([c EXCEPT !.pending = RemoveIndexFast(@)],
                    "PARAMETERS", Head(c.pending))

(* tp_connection_manager_get_all_cb; found is what the reply lists, None
   after an error or from an old manager. *)
GetAllCb(c, found) ==
  Asserts(c.step = "PROPERTIES" /\ c.in_call /\ ~c.found.known,
    ContinueIntrospection([c EXCEPT !.in_call = FALSE, !.found = found]))

(* tp_connection_manager_got_protocols: names is empty and error TRUE, or
   the names the process lists. *)
GotProtocols(c, names, error) ==
  Asserts(c.in_call /\ (~error => ~c.found.known /\ c.pending = <<>>),
    IF error THEN Does(EndIntrospection([c EXCEPT !.in_call = FALSE]), "none")
    ELSE ContinueIntrospection(
           [c EXCEPT !.in_call = FALSE, !.found = Some({}),
                     !.pending = names]))

(* tp_connection_manager_got_parameters; proto is empty after an error. *)
GotParameters(c, proto) ==
  Asserts(c.step = "PARAMETERS" /\ c.in_call,
    ContinueIntrospection(
      [c EXCEPT !.in_call = FALSE,
                !.found = Some(c.found.set \cup proto)]))

(* The callback of the call that is answered. *)
Callback(c, m) ==
  CASE m.of = "GetAll" -> GetAllCb(c, m.found)
    [] m.of = "ListProtocols" -> GotProtocols(c, m.names, m.error)
    [] OTHER -> GotParameters(c, m.found.set)

(* introspection_in_progress *)
InProgress(c) == c.in_call \/ c.found.known

(* tp_connection_manager_idle_introspect *)
IdleIntrospect(c) ==
  LET d == [c EXCEPT !.introspect_idle = FALSE]
  IN  IF ~InProgress(c) /\ (Always \/ c.source = 0)
      THEN ContinueIntrospection(d) ELSE Does(d, "none")

(* tp_connection_manager_name_owner_changed_cb with no new owner: what
   becomes of the introspection, which is retried once. *)
OwnerLost(c) ==
  LET d == [c EXCEPT !.running = FALSE]
  IN  CASE ~InProgress(c) -> Does(d, "none")
        [] InProgress(c) /\ c.retried -> Does(EndIntrospection(d), "cancel")
        [] InProgress(c) /\ ~c.retried ->
             ContinueIntrospection(
               ResetIntrospection([d EXCEPT !.retried = TRUE]))

(* BUG: the introspection goes on where it was when the process died. *)
OwnerLostGoesOn(c) ==
  IF InProgress(c) /\ c.retried
  THEN Does(EndIntrospection([c EXCEPT !.running = FALSE]), "cancel")
  ELSE Does([c EXCEPT !.running = FALSE, !.retried = InProgress(c)], "none")

(* BUG: what is known of the manager goes with its process. *)
OwnerLostForgets(c) == OwnerLost([c EXCEPT !.source = 0, !.objects = None, !.core = "none"])

LoseOwner(c) == OwnerLost(c)

(* The start of the same function's tail: the first time the owner is
   known, the file will be read, and a wanted activation begins. *)
FirstTime(c) ==
  IF c.name_known THEN c
  ELSE [c EXCEPT !.name_known = TRUE, !.file_idle = TRUE,
                 !.introspect_idle = @ \/ c.want]

(* ... and with a new owner; an atomic change is an exit and a restart. *)
OwnerFound(c) ==
  LET r == IF c.running THEN LoseOwner(c) ELSE Does(c, "none")
  IN  Does([r.c EXCEPT !.running = TRUE, !.introspect_idle = TRUE], r.k)

(* BUG: an atomic change of owner is not noticed. *)
OwnerFoundUnnoticed(c) ==
  Does([c EXCEPT !.running = TRUE, !.introspect_idle = TRUE], "none")

GainOwner(c) == OwnerFound(c)

(* tp_connection_manager_idle_read_manager_file: a file that can be read is
   information from a file (run number 0). *)
ReadManagerFile(c) ==
  LET d == [c EXCEPT !.file_idle = FALSE]
  IN  CASE c.objects.known -> Does(d, "none")
        [] ~c.objects.known /\ File = "good" ->
             Does(ReadyOrFailed([d EXCEPT !.source = 1,
                    !.objects = Some({<<n, 0>> : n \in Names})]), "none")
        [] ~c.objects.known /\ File # "good" ->
             IF c.introspect_idle THEN Does(d, "none") ELSE IdleIntrospect(d)

ReadFile(c) == ReadManagerFile(c)

-----------------------------------------------------------------------------
Init ==
  /\ cm = NewCM
  /\ svc \in {[running |-> FALSE, run |-> 0], [running |-> TRUE, run |-> 1]}
  /\ wire = <<[m |-> "owner", new |-> svc.running]>>
  /\ call = "none"
  /\ sig = "none"

(* The messages that are left when the call is cancelled: its answer, if it is
   on its way, will be thrown away. *)
Cancelled(rest) ==
  [i \in DOMAIN rest |-> IF rest[i].m = "owner" THEN rest[i] ELSE [m |-> "ignored"]]

(* The state after a C function: a new call replaces the one that was
   cancelled. *)
Becomes(r, rest) ==
  /\ cm' = r.c
  /\ call' = IF r.k = "none" THEN call
             ELSE IF r.k = "cancel" THEN "none" ELSE r.k
  /\ wire' = IF r.k = "none" THEN rest ELSE Cancelled(rest)

(* The bus daemon says who owns the name. *)
NameOwnerChanged ==
  /\ ~cm.aborted /\ wire # <<>> /\ Head(wire).m = "owner"
  /\ LET r == IF Head(wire).new THEN GainOwner(cm) ELSE LoseOwner(cm)
     IN  /\ Becomes(Does(FirstTime(r.c), r.k), Tail(wire))
         /\ sig' = IF Head(wire).new THEN "activated"
                   ELSE IF cm.name_known THEN "exited" ELSE sig
  /\ UNCHANGED svc

(* The answer to the pending call is dispatched. *)
Reply ==
  /\ ~cm.aborted /\ wire # <<>> /\ Head(wire).m = "reply"
  /\ LET m == Head(wire)
     IN  /\ Becomes(Callback(cm, m), Tail(wire))
         /\ sig' = IF m.of = "ListProtocols" /\ m.error /\ ~cm.running
                   THEN "exited" ELSE sig
  /\ UNCHANGED svc

(* The answer to a cancelled call is thrown away. *)
Ignores ==
  /\ ~cm.aborted /\ wire # <<>> /\ Head(wire).m = "ignored"
  /\ wire' = Tail(wire)
  /\ UNCHANGED <<cm, svc, call, sig>>

IdleIntrospects ==
  /\ ~cm.aborted /\ cm.introspect_idle
  /\ Becomes(IdleIntrospect(cm), wire)
  /\ UNCHANGED <<svc, sig>>

IdleReadsFile ==
  /\ ~cm.aborted /\ cm.file_idle
  /\ Becomes(ReadFile(cm), wire)
  /\ UNCHANGED <<svc, sig>>

(* The application sets manager-file again, which queues another look at
   the file once the owner is known. *)
SetManagerFile ==
  /\ ~cm.aborted /\ cm.name_known /\ ~cm.file_idle
  /\ cm' = [cm EXCEPT !.file_idle = TRUE]
  /\ UNCHANGED <<wire, svc, call, sig>>

(* tp_connection_manager_activate, once; it returns FALSE and does nothing
   when the process runs. *)
Activate ==
  /\ ~cm.aborted /\ ~cm.asked
  /\ ~(cm.name_known /\ cm.running)
  /\ cm' = [cm EXCEPT !.asked = TRUE,
                      !.want = @ \/ ~cm.name_known,
                      !.introspect_idle = @ \/ cm.name_known]
  /\ UNCHANGED <<wire, svc, call, sig>>

-----------------------------------------------------------------------------
(* External: the process and the bus daemon. *)
OfferedBy(run) == {<<n, run>> : n \in Names}

FoundBy(k, run) ==
  IF k = "GetAll" THEN IF Legacy THEN None ELSE Some(OfferedBy(run))
  ELSE Some({f \in OfferedBy(run) : f[1] = k})

Answer(error) ==
  [ m |-> "reply", of |-> call, error |-> error,
    names |-> IF error THEN <<>> ELSE Protocols,
    found |-> IF error THEN None ELSE FoundBy(call, svc.run) ]

(* It answers, or the call fails. *)
Answers ==
  /\ ~cm.aborted /\ call # "none" /\ svc.running
  /\ \E error \in {FALSE, Errors} : wire' = Append(wire, Answer(error))
  /\ call' = "none"
  /\ UNCHANGED <<cm, svc, sig>>

(* It starts by itself, or because somebody calls it. *)
Starts ==
  /\ ~cm.aborted /\ ~svc.running /\ svc.run < MaxRuns
  /\ svc' = [running |-> TRUE, run |-> svc.run + 1]
  /\ wire' = Append(wire, [m |-> "owner", new |-> TRUE])
  /\ UNCHANGED <<cm, call, sig>>

(* The bus daemon cannot start it. *)
ActivationFails ==
  /\ ~cm.aborted /\ call # "none" /\ ~svc.running
  /\ wire' = Append(wire, Answer(TRUE))
  /\ call' = "none"
  /\ UNCHANGED <<cm, svc, sig>>

(* It exits or crashes; or another process takes the name.  The daemon
   announces the new owner before it answers the call that is pending. *)
Lost(new) ==
  LET told == Append(wire, [m |-> "owner", new |-> new])
  IN  wire' = IF call = "none" THEN told ELSE Append(told, Answer(TRUE))

Exits ==
  /\ ~cm.aborted /\ svc.running /\ svc.run < MaxRuns
  /\ svc' = [svc EXCEPT !.running = FALSE]
  /\ Lost(FALSE) /\ call' = "none"
  /\ UNCHANGED <<cm, sig>>

IsReplaced ==
  /\ ~cm.aborted /\ svc.running /\ svc.run < MaxRuns
  /\ svc' = [svc EXCEPT !.run = @ + 1]
  /\ Lost(TRUE) /\ call' = "none"
  /\ UNCHANGED <<cm, sig>>

Next ==
  \/ NameOwnerChanged \/ Reply \/ Ignores \/ IdleIntrospects \/ IdleReadsFile
  \/ SetManagerFile \/ Activate
  \/ Answers \/ Starts \/ ActivationFails \/ Exits \/ IsReplaced

Fairness ==
  /\ WF_vars(NameOwnerChanged) /\ WF_vars(Reply) /\ WF_vars(Ignores)
  /\ WF_vars(IdleIntrospects) /\ WF_vars(IdleReadsFile)
  /\ WF_vars(Answers) /\ WF_vars(ActivationFails \/ (call # "none" /\ Starts))

Spec == Init /\ [][Next]_vars

-----------------------------------------------------------------------------
(* Types. *)
TypeOK ==
  /\ cm \in TpConnectionManager
  /\ svc \in [running : BOOLEAN, run : 0..MaxRuns]
  /\ sig \in {"none", "activated", "exited"}

(* The assertions on the step and the call of the introspection hold
   however the process comes and goes; and CORE is prepared exactly when
   there is information to show. *)
IntrospectionIsSound ==
  /\ ~cm.aborted
  /\ cm.core = "prepared" <=> cm.source > 0
  /\ cm.source > 0 <=> cm.objects.known
  /\ cm.in_call <=> call # "none" \/ \E i \in DOMAIN wire : wire[i].m = "reply"

(* Live information comes from one run of the process: protocols listed by
   a process that has died are never mixed with those of its successor. *)
OneRunOnly ==
  cm.source = 2 => \A f, g \in cm.objects.set : f[2] = g[2]

(* With always-introspect, once everything is quiet and no call failed, a
   running process is shown as it is now. *)
LiveIsCurrent ==
  Always /\ ~Errors /\ svc.running /\ wire = <<>>
         /\ ~cm.introspect_idle /\ ~InProgress(cm)
    => cm.source = 2 /\ cm.objects.set = OfferedBy(svc.run)

(* What is known never gets worse: no step replaces LIVE information by that of
   the FILE, or either by nothing; the end of the process
   (tp_connection_manager_name_owner_changed_cb) and failed calls included. *)
InfoNeverDegrades == cm'.source >= cm.source
NeverDegrades == [][InfoNeverDegrades]_vars

(* The name's signals tell the truth. *)
SignalsMatch == cm.running <=> sig = "activated"

(* A TpConnectionManager runs one introspection at a time, from start to end
   against one run of the manager (tp_connection_manager_continue_introspection);
   it is ready when it has something to show, shows what the running manager
   offers once all is quiet, and is never live with what an earlier run said; its
   signals tell whether the manager runs. *)
ManagersMirrored == IntrospectionIsSound /\ OneRunOnly /\ LiveIsCurrent /\ SignalsMatch

(* tp_connection_manager_activate, when it returned TRUE, is followed by
   activated or by exited. *)
ActivationAnswered ==
  [](cm.asked /\ sig = "none" => <>(sig # "none"))
=============================================================================
