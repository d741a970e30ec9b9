----------------------------- MODULE FileTransfer -----------------------------
(***************************************************************************)
(* TpFileTransferChannel (file-transfer-channel.c): accepting or providing *)
(* a file opens it, (for an incoming one) sets the URI, calls AcceptFile   *)
(* or ProvideFile, and starts copying once the socket's address is known   *)
(* and the transfer's state is Open, whichever comes last. Closing the     *)
(* channel cancels the copy.                                               *)
(***************************************************************************)
EXTENDS Naturals, Sequences, SequenceTheorems, TLAPS

CONSTANTS
  Requested,   \* TRUE: an outgoing transfer (provided), FALSE: accepted
  MaxCalls,    \* bound on accept_file_async/provide_file_async calls
  Overlap      \* whether the user may call again before being answered

SoundConstants == Requested \in BOOLEAN /\ Overlap \in BOOLEAN /\ MaxCalls \in Nat

VARIABLES
  ft,     \* the TpFileTransferChannel and its operations under way
  wire,   \* messages from the connection manager, in order
  svc     \* the connection manager's side of the transfer

vars == <<ft, wire, svc>>

(* opening, setting, calling and failing count the operations waiting for  *)
(* the file, for the URI to be set, for the AcceptFile/ProvideFile reply,  *)
(* and for the idle that fails a call of an invalidated channel.           *)
Init ==
  /\ ft = [result |-> FALSE, param |-> FALSE, state |-> "none",
           address |-> FALSE, prepared |-> "no", valid |-> TRUE,
           opening |-> 0, setting |-> 0, calling |-> 0, failing |-> 0,
           connecting |-> FALSE, stream |-> "no", cancelled |-> FALSE,
           starts |-> 0, calls |-> 0, answers |-> 0, refused |-> 0,
           aborted |-> FALSE]
  /\ wire = <<>>
  /\ svc = [state |-> "pending", prepare |-> FALSE, asked |-> 0, unanswered |-> 0,
            replied |-> FALSE]

-----------------------------------------------------------------------------
(* Answers                                                                 *)

(* operation_failed has a g_assert; accept_or_provide_file_cb completes    *)
(* priv->result without one, which GIO refuses when it is NULL: both are   *)
(* counted as aborted.                                                     *)
answer(t) ==
  IF t.result THEN [t EXCEPT !.result = FALSE, !.answers = @ + 1]
  ELSE [t EXCEPT !.aborted = TRUE]

(* BUG: the result is not cleared.                                         *)
answerKept(t) == [t EXCEPT !.answers = @ + 1]

Answer(t) == answer(t)

-----------------------------------------------------------------------------
(* The transfer itself. start_transfer connects the socket: at once, later *)
(* (pending) or not at all; client_socket_connected makes the stream and   *)
(* splices.                                                                *)

start_transfer(t) == [t EXCEPT !.connecting = TRUE, !.starts = @ + 1]

on_reply(t) ==
  IF t.state = "open" THEN start_transfer([t EXCEPT !.address = TRUE])
  ELSE [t EXCEPT !.address = TRUE]

(* BUG: only the state change starts the transfer.                         *)
on_replyWaits(t) == [t EXCEPT !.address = TRUE]

OnReply(t) == on_reply(t)

(* FileTransferStateChanged.                                               *)
state_changed(t, s) ==
  IF t.state = s THEN t
  ELSE IF s = "open" /\ t.address
       THEN start_transfer([t EXCEPT !.state = s])
       ELSE [t EXCEPT !.state = s]

(* BUG: a state that did not change starts the transfer again.             *)
state_changedAgain(t, s) ==
  IF s = "open" /\ t.address
  THEN start_transfer([t EXCEPT !.state = s])
  ELSE [t EXCEPT !.state = s]

StateChanged(t, s) == state_changed(t, s)

SocketConnected ==
  /\ ~ft.aborted /\ ft.connecting
  /\ \E ok \in BOOLEAN :
       ft' = [ft EXCEPT !.connecting = FALSE,
                        !.stream = IF ok THEN "splicing" ELSE @]
  /\ UNCHANGED <<wire, svc>>

(* The splice ends by itself, or because the channel was invalidated.      *)
SpliceReady ==
  /\ ~ft.aborted /\ ft.stream = "splicing"
  /\ ft' = [ft EXCEPT !.stream = "closing"]
  /\ UNCHANGED <<wire, svc>>

StreamClosed ==
  /\ ~ft.aborted /\ ft.stream = "closing"
  /\ ft' = [ft EXCEPT !.stream = "closed"]
  /\ UNCHANGED <<wire, svc>>

-----------------------------------------------------------------------------
(* The user                                                                *)

(* tp_file_transfer_channel_prepare_core_async                             *)
Prepare ==
  /\ ~ft.aborted /\ ft.valid /\ ft.prepared = "no"
  /\ ft' = [ft EXCEPT !.prepared = "getting"]
  /\ svc' = [svc EXCEPT !.prepare = TRUE]
  /\ UNCHANGED wire

(* The checks of accept_file_async and provide_file_async: nothing looks   *)
(* at priv->result.                                                        *)
may_start(t) ==
  /\ ~t.param
  /\ t.state = "pending" \/ (Requested /\ t.state = "accepted")

(* BUG: a transfer already accepted is accepted again.                     *)
may_startAgain(t) == t.state = "pending" \/ (Requested /\ t.state = "accepted")

MayStart(t) == may_start(t)

Start ==
  /\ ~ft.aborted /\ ft.calls < MaxCalls
  /\ Overlap \/ ~ft.result
  /\ ft' = IF MayStart(ft)
           THEN [ft EXCEPT !.result = TRUE, !.opening = @ + 1, !.calls = @ + 1]
           ELSE [ft EXCEPT !.calls = @ + 1, !.refused = @ + 1]
  /\ UNCHANGED <<wire, svc>>

(* set_address_and_access_control fails, or lets the call be made; on an   *)
(* invalidated channel the call fails from an idle.                        *)
CallOut(t, ok) ==
  IF ~ok THEN Answer(t)
  ELSE IF t.valid THEN [t EXCEPT !.param = TRUE, !.calling = @ + 1]
  ELSE [t EXCEPT !.param = TRUE, !.failing = @ + 1]

(* file_replace_async_cb sets the URI first, file_read_async_cb calls.     *)
file_replaced(t, opened) ==
  IF ~opened THEN Answer(t) ELSE [t EXCEPT !.setting = @ + 1]

file_read(t, opened, ok) == IF ~opened THEN Answer(t) ELSE CallOut(t, ok)

FileOpened ==
  /\ ~ft.aborted /\ ft.opening > 0
  /\ \E opened, ok \in BOOLEAN, t \in {[ft EXCEPT !.opening = @ - 1]} :
       /\ ft' = IF Requested THEN file_read(t, opened, ok) ELSE file_replaced(t, opened)
       /\ svc' = [svc EXCEPT !.asked = @ + (ft'.calling - ft.calling),
                             !.unanswered = @ + (ft'.calling - ft.calling)]
  /\ UNCHANGED wire

(* file_transfer_set_uri_cb, the same whether the URI was set or not.      *)
UriSet ==
  /\ ~ft.aborted /\ ft.setting > 0
  /\ \E ok \in BOOLEAN :
       /\ ft' = CallOut([ft EXCEPT !.setting = @ - 1], ok)
       /\ svc' = [svc EXCEPT !.asked = @ + (ft'.calling - ft.calling),
                             !.unanswered = @ + (ft'.calling - ft.calling)]
  /\ UNCHANGED wire

CallFailed ==
  /\ ~ft.aborted /\ ft.failing > 0
  /\ ft' = Answer([ft EXCEPT !.failing = @ - 1])
  /\ UNCHANGED <<wire, svc>>

-----------------------------------------------------------------------------
(* Messages                                                                *)

prepare_core(t, m) ==
  [t EXCEPT !.prepared = IF m.ok THEN "ready" ELSE "failed",
            !.state = IF m.ok THEN m.state ELSE @]

Got(m) ==
  CASE m.type = "all" -> prepare_core(ft, m)
    [] m.type = "state" ->
         IF ft.prepared = "no" THEN ft ELSE StateChanged(ft, m.state)
    [] m.type = "reply" ->
         IF m.ok THEN Answer(OnReply([ft EXCEPT !.calling = @ - 1]))
         ELSE Answer([ft EXCEPT !.calling = @ - 1])

Receive ==
  /\ ~ft.aborted /\ ft.valid
  /\ wire # <<>> /\ Head(wire).type # "closed"
  /\ wire' = Tail(wire)
  /\ ft' = Got(Head(wire))
  /\ UNCHANGED svc

(* invalidated_cb cancels the splice; pending calls fail from an idle.     *)
cancel(t) == [t EXCEPT !.cancelled = TRUE]

Closed ==
  /\ ~ft.aborted /\ ft.valid
  /\ wire # <<>> /\ Head(wire).type = "closed"
  /\ wire' = <<>>
  /\ ft' = cancel([ft EXCEPT !.valid = FALSE, !.calling = 0,
                             !.failing = @ + ft.calling])
  /\ UNCHANGED svc

-----------------------------------------------------------------------------
(* The connection manager (external).                                      *)

Say(m) == wire' = Append(wire, m)

SvcGetAll ==
  /\ svc.prepare /\ svc.state # "closed"
  /\ svc' = [svc EXCEPT !.prepare = FALSE]
  /\ \E ok \in BOOLEAN :
       Say([type |-> "all", ok |-> ok, state |-> svc.state])
  /\ UNCHANGED ft

(* An offered file is accepted by the peer; a file handed over or accepted *)
(* opens, before the reply or after it.                                    *)
SvcChangeState ==
  /\ \E s \in {"accepted", "open", "completed"} :
       /\ \/ s = "accepted" /\ Requested /\ svc.state = "pending"
          \/ s = "open" /\ svc.asked > 0
             /\ svc.state \in (IF Requested THEN {"accepted"} ELSE {"pending"})
          \/ s = "completed" /\ svc.state = "open" /\ svc.replied
       /\ svc' = [svc EXCEPT !.state = s]
       /\ Say([type |-> "state", ok |-> TRUE, state |-> s])
  /\ UNCHANGED ft

(* One call succeeds; others, and any before that, may be refused.         *)
SvcReply ==
  /\ svc.unanswered > 0 /\ svc.state # "closed"
  /\ \E ok \in BOOLEAN :
       /\ svc.state \in {"open", "completed"} => ok
       /\ Say([type |-> "reply", ok |-> ok, state |-> "none"])
       /\ svc' = [svc EXCEPT !.asked = IF ok THEN @ ELSE @ - 1,
                             !.unanswered = @ - 1, !.replied = @ \/ ok]
  /\ UNCHANGED ft

SvcClose ==
  /\ svc.state # "closed"
  /\ svc' = [svc EXCEPT !.state = "closed"]
  /\ Say([type |-> "closed", ok |-> TRUE, state |-> "none"])
  /\ UNCHANGED ft

Next ==
  \/ Prepare \/ Start \/ FileOpened \/ UriSet \/ CallFailed
  \/ SocketConnected \/ SpliceReady \/ StreamClosed
  \/ Receive \/ Closed
  \/ SvcGetAll \/ SvcChangeState \/ SvcReply \/ SvcClose

Spec == Init /\ [][Next]_vars

-----------------------------------------------------------------------------
(* Properties                                                              *)

(* The fields have their types.                                            *)
TypeOK ==
  /\ ft.state \in {"none", "pending", "accepted", "open", "completed", "closed"}
  /\ ft.stream \in {"no", "splicing", "closing", "closed"}
  /\ \A n \in {ft.opening, ft.setting, ft.calling, ft.failing} : n \in 0 .. MaxCalls
  /\ ft.answers \in 0 .. MaxCalls

(* operation_failed's g_assert (self->priv->result != NULL) holds, and no  *)
(* result is completed that is not there.                                  *)
AssertionsHold == ~ft.aborted

(* Every call is answered once: refused, answered, or under way with a     *)
(* callback that will answer it.                                           *)
AnsweredExactly ==
  /\ ft.answers + ft.refused + (IF ft.result THEN 1 ELSE 0) = ft.calls
  /\ ft.result <=> ft.opening + ft.setting + ft.calling + ft.failing > 0

(* The transfer starts once, and is not missed: whichever of the reply and *)
(* the state comes last, a channel that knows the address and that the     *)
(* transfer is open has started it, and none starts before that.           *)
StartsOnce ==
  /\ ft.starts <= 1
  /\ (ft.prepared # "no" /\ ft.address /\ ft.state \in {"open", "completed"})
        => ft.starts = 1
  /\ ft.starts > 0 => ft.address

(* What the caller of accept_file_async and provide_file_async is promised. *)
TransfersAreRight == AssertionsHold /\ AnsweredExactly /\ StartsOnce
-----------------------------------------------------------------------------
(* Proofs, for either direction and any number of calls, of a user who waits
   for an answer before calling again. *)

SvcStates == {"pending", "accepted", "open", "completed", "closed"}

Begun == {"open", "completed"}

TpFileTransferChannel ==
  [ result : BOOLEAN, param : BOOLEAN, state : SvcStates \cup {"none"}, address : BOOLEAN,
    prepared : {"no", "getting", "ready", "failed"}, valid : BOOLEAN,
    opening : Nat, setting : Nat, calling : Nat, failing : Nat, connecting : BOOLEAN,
    stream : {"no", "splicing", "closing", "closed"}, cancelled : BOOLEAN,
    starts : Nat, calls : Nat, answers : Nat, refused : Nat, aborted : BOOLEAN ]

Service ==
  [state : SvcStates, prepare : BOOLEAN, asked : Nat, unanswered : Nat, replied : BOOLEAN]

Messages ==
  [type : {"all", "state"}, ok : BOOLEAN, state : SvcStates]
    \cup [type : {"reply", "closed"}, ok : BOOLEAN, state : {"none"}]

Types == ft \in TpFileTransferChannel /\ svc \in Service /\ wire \in Seq(Messages)

(* What the channel will know when it has received the messages before the
   n-th: that the transfer began, that its call succeeded. *)
Opens(m) == m.type = "state" /\ m.state = "open"

Succeeds(m) == m.type = "reply" /\ m.ok

Seen(n) == ft.state \in Begun \/ \E j \in DOMAIN wire : j < n /\ Opens(wire[j])

SeenAll == ft.state \in Begun \/ \E j \in DOMAIN wire : Opens(wire[j])

Answered(n) == ft.address \/ \E j \in DOMAIN wire : j < n /\ Succeeds(wire[j])

AnsweredAll == ft.address \/ \E j \in DOMAIN wire : Succeeds(wire[j])

(* Nothing is heard after the channel closed.                               *)
Silence ==
  /\ ~ft.valid => svc.state = "closed" /\ wire = <<>>
  /\ \A i \in DOMAIN wire : wire[i].type = "closed" => svc.state = "closed"

(* One step at a time is done for the one call under way, and after one call to
   the connection manager there is no other. *)
OneCall ==
  /\ ft.opening + ft.setting + ft.calling + ft.failing = (IF ft.result THEN 1 ELSE 0)
  /\ ft.opening + ft.setting > 0 => ~ft.param
  /\ ~ft.param => /\ ft.calling = 0 /\ ft.failing = 0 /\ ~ft.address /\ ~svc.replied
                  /\ svc.asked = 0 /\ svc.unanswered = 0
  /\ ft.result \/ ft.param \/ ft.state # "none" => ft.prepared # "no"
  /\ ft.address => ft.calling = 0
  /\ ~ft.aborted

Replies ==
  /\ \A i \in DOMAIN wire : wire[i].type = "reply" => ft.calling = 1 /\ svc.unanswered = 0
  /\ \A i, j \in DOMAIN wire : wire[i].type = "reply" /\ wire[j].type = "reply" => i = j
  /\ svc.unanswered > 0 /\ svc.state # "closed" => ft.calling = 1
  /\ svc.unanswered <= 1 /\ svc.unanswered <= svc.asked
  /\ svc.replied /\ svc.state # "closed" => AnsweredAll

(* The states arrive in the order in which the transfer went through them, and
   the answer arrives before the news that the transfer is complete. *)
InOrder ==
  /\ \A i \in DOMAIN wire :
       /\ Opens(wire[i]) => ~Seen(i) /\ ft.param
       /\ wire[i].type \in {"all", "state"} /\ ~Opens(wire[i]) =>
            (wire[i].state \in Begun <=> Seen(i))
       /\ wire[i].state = "completed" => Answered(i)
  /\ svc.state # "closed" => (svc.state \in Begun <=> SeenAll)
  /\ svc.state \in Begun => ft.param
  /\ svc.state = "completed" => svc.replied
  /\ ft.state = "completed" => ft.address

Starts ==
  /\ ft.starts = (IF ft.address /\ ft.state \in Begun THEN 1 ELSE 0)
  /\ ft.answers + ft.refused + (IF ft.result THEN 1 ELSE 0) = ft.calls

IInv == Types /\ Silence /\ OneCall /\ Replies /\ InOrder /\ Starts

(* What a step of the channel leaves alone.                                 *)
SameCall(u, t) == u.result = t.result /\ u.answers = t.answers /\ u.aborted = t.aborted

SameStages(u, t) ==
  /\ u.param = t.param /\ u.opening = t.opening /\ u.setting = t.setting
  /\ u.calling = t.calling /\ u.failing = t.failing

SameTransfer(u, t) == u.state = t.state /\ u.address = t.address /\ u.starts = t.starts

SameRest(u, t) ==
  u.prepared = t.prepared /\ u.valid = t.valid /\ u.calls = t.calls /\ u.refused = t.refused

(* The time a step may take, for a busy machine too. *)
USE SMTT(60)

(* Dispatching the first message moves the others one place forward.        *)
LEMMA TailFacts ==
  ASSUME NEW S, NEW w \in Seq(S), w # <<>>
  PROVE  /\ Tail(w) \in Seq(S) /\ Head(w) \in S /\ Head(w) = w[1]
         /\ 1 \in DOMAIN w /\ DOMAIN w \subseteq Nat /\ DOMAIN Tail(w) \subseteq Nat \ {0}
         /\ \A i \in DOMAIN Tail(w) : i + 1 \in DOMAIN w /\ Tail(w)[i] = w[i + 1]
<1>1. Len(w) \in Nat \ {0} /\ DOMAIN w = 1..Len(w) /\ Head(w) = w[1]
  BY LenProperties, EmptySeq
<1>2. /\ Head(w) \in S /\ Tail(w) \in Seq(S) /\ Len(Tail(w)) = Len(w) - 1
      /\ \A i \in 1..Len(Tail(w)) : Tail(w)[i] = w[i + 1]
  BY HeadTailProperties
<1>3. DOMAIN Tail(w) = 1..(Len(w) - 1)
  BY <1>2, LenProperties
<1> QED
  BY <1>1, <1>2, <1>3

(* A message that is sent takes the place after the last.                   *)
LEMMA AppendFacts ==
  ASSUME NEW S, NEW w \in Seq(S), NEW e \in S
  PROVE  /\ Append(w, e) \in Seq(S)
         /\ \E n \in Nat : /\ n \notin DOMAIN w /\ DOMAIN Append(w, e) = DOMAIN w \cup {n}
                           /\ Append(w, e)[n] = e
                           /\ \A i \in DOMAIN w : /\ i \in Nat /\ i < n
                                                  /\ Append(w, e)[i] = w[i]
<1> DEFINE n == Len(w) + 1
<1>1. Len(w) \in Nat /\ DOMAIN w = 1..Len(w)
  BY LenProperties
<1>2. /\ Append(w, e) \in Seq(S) /\ Len(Append(w, e)) = n
      /\ \A i \in 1..n : Append(w, e)[i] = IF i <= Len(w) THEN w[i] ELSE e
  BY <1>1
<1>3. DOMAIN Append(w, e) = 1..n
  BY <1>2, LenProperties
<1>4. /\ n \in Nat /\ n \notin DOMAIN w /\ DOMAIN Append(w, e) = DOMAIN w \cup {n}
      /\ Append(w, e)[n] = e
      /\ \A i \in DOMAIN w : i \in Nat /\ i < n /\ Append(w, e)[i] = w[i]
  BY <1>1, <1>2, <1>3
<1> QED
  BY <1>2, <1>4

(* An answer: operation_failed, or the end of accept_or_provide_file_cb.    *)
LEMMA AnswerFacts ==
  ASSUME NEW t \in TpFileTransferChannel, NEW u, u = Answer(t)
  PROVE  /\ u \in TpFileTransferChannel /\ SameStages(u, t) /\ SameTransfer(u, t)
         /\ SameRest(u, t) /\ u.result = FALSE
         /\ u.answers = t.answers + (IF t.result THEN 1 ELSE 0)
         /\ t.result => u.aborted = t.aborted
<1>1. CASE t.result
  <2> DEFINE v == [t EXCEPT !.result = FALSE]
  <2>1. u = [v EXCEPT !.answers = @ + 1]
    BY <1>1 DEF Answer, answer, TpFileTransferChannel
  <2>2. v \in TpFileTransferChannel
    BY <1>1, Zenon DEF TpFileTransferChannel
  <2>3. /\ v.result = FALSE /\ v.param = t.param /\ v.address = t.address
        /\ v.valid = t.valid /\ v.aborted = t.aborted
    BY <1>1, ZenonT(40) DEF TpFileTransferChannel
  <2>4. /\ v.state = t.state /\ v.prepared = t.prepared /\ v.opening = t.opening
        /\ v.setting = t.setting /\ v.calling = t.calling /\ v.failing = t.failing
        /\ v.starts = t.starts /\ v.calls = t.calls /\ v.answers = t.answers
        /\ v.refused = t.refused
    BY <1>1 DEF TpFileTransferChannel
  <2> HIDE DEF v
  <2>5. u \in TpFileTransferChannel
    BY <2>1, <2>2 DEF TpFileTransferChannel
  <2>6. /\ u.result = v.result /\ u.param = v.param /\ u.address = v.address
        /\ u.valid = v.valid /\ u.aborted = v.aborted
    BY <2>1, <2>2, ZenonT(40) DEF TpFileTransferChannel
  <2>7. /\ u.state = v.state /\ u.prepared = v.prepared /\ u.opening = v.opening
        /\ u.setting = v.setting /\ u.calling = v.calling /\ u.failing = v.failing
        /\ u.starts = v.starts /\ u.calls = v.calls /\ u.answers = v.answers + 1
        /\ u.refused = v.refused
    BY <2>1, <2>2 DEF TpFileTransferChannel
  <2> QED
    BY <1>1, <2>3, <2>4, <2>5, <2>6, <2>7 DEF SameStages, SameTransfer, SameRest
<1>2. CASE ~t.result
  <2>1. u = [t EXCEPT !.aborted = TRUE] /\ t.result = FALSE
    BY <1>2 DEF Answer, answer, TpFileTransferChannel
  <2>2. u \in TpFileTransferChannel
    BY <2>1, ZenonT(60) DEF TpFileTransferChannel
  <2>3. /\ u.result = t.result /\ u.param = t.param /\ u.address = t.address
        /\ u.valid = t.valid
    BY <2>1, ZenonT(40) DEF TpFileTransferChannel
  <2>4. /\ u.state = t.state /\ u.prepared = t.prepared /\ u.opening = t.opening
        /\ u.setting = t.setting /\ u.calling = t.calling /\ u.failing = t.failing
        /\ u.starts = t.starts /\ u.calls = t.calls /\ u.answers = t.answers
        /\ u.refused = t.refused
    BY <2>1 DEF TpFileTransferChannel
  <2>5. t.answers + 0 = t.answers
    BY DEF TpFileTransferChannel
  <2> QED
    BY <1>2, <2>1, <2>2, <2>3, <2>4, <2>5, Zenon DEF SameStages, SameTransfer, SameRest
<1> QED
  BY <1>1, <1>2, Zenon

(* start_transfer. *)
LEMMA StartTransferFacts ==
  ASSUME NEW t \in TpFileTransferChannel, NEW u, u = start_transfer(t)
  PROVE  /\ u \in TpFileTransferChannel /\ SameCall(u, t) /\ SameStages(u, t)
         /\ SameRest(u, t) /\ u.state = t.state /\ u.address = t.address
         /\ u.starts = t.starts + 1
<1> DEFINE v == [t EXCEPT !.connecting = TRUE]
<1>1. u = [v EXCEPT !.starts = @ + 1]
  BY DEF start_transfer, TpFileTransferChannel
<1>2. v \in TpFileTransferChannel
  BY <1>1, Zenon DEF TpFileTransferChannel
<1>3. /\ v.result = t.result /\ v.param = t.param /\ v.address = t.address
      /\ v.valid = t.valid /\ v.aborted = t.aborted
  BY <1>1, ZenonT(40) DEF TpFileTransferChannel
<1>4. /\ v.state = t.state /\ v.prepared = t.prepared /\ v.opening = t.opening
      /\ v.setting = t.setting /\ v.calling = t.calling /\ v.failing = t.failing
      /\ v.starts = t.starts /\ v.calls = t.calls /\ v.answers = t.answers
      /\ v.refused = t.refused
  BY <1>1 DEF TpFileTransferChannel
<1> HIDE DEF v
<1>5. u \in TpFileTransferChannel
  BY <1>1, <1>2 DEF TpFileTransferChannel
<1>6. /\ u.result = v.result /\ u.param = v.param /\ u.address = v.address
      /\ u.valid = v.valid /\ u.aborted = v.aborted
  BY <1>1, <1>2, ZenonT(40) DEF TpFileTransferChannel
<1>7. /\ u.state = v.state /\ u.prepared = v.prepared /\ u.opening = v.opening
      /\ u.setting = v.setting /\ u.calling = v.calling /\ u.failing = v.failing
      /\ u.starts = v.starts + 1 /\ u.calls = v.calls /\ u.answers = v.answers
      /\ u.refused = v.refused
  BY <1>1, <1>2 DEF TpFileTransferChannel
<1> QED
  BY <1>3, <1>4, <1>5, <1>6, <1>7 DEF SameCall, SameStages, SameRest

(* accept_or_provide_file_cb has the address, and starts if it is open.     *)
LEMMA OnReplyFacts ==
  ASSUME NEW t \in TpFileTransferChannel, NEW u, u = OnReply(t)
  PROVE  /\ u \in TpFileTransferChannel /\ SameCall(u, t) /\ SameStages(u, t)
         /\ SameRest(u, t) /\ u.state = t.state /\ u.address = TRUE
         /\ u.starts = t.starts + (IF t.state = "open" THEN 1 ELSE 0)
<1> DEFINE v == [t EXCEPT !.address = TRUE]
<1>1. u = IF t.state = "open" THEN start_transfer(v) ELSE v
  BY DEF OnReply, on_reply
<1>2. v \in TpFileTransferChannel
  BY <1>1, Zenon DEF TpFileTransferChannel
<1>3. /\ v.result = t.result /\ v.param = t.param /\ v.address = TRUE
      /\ v.valid = t.valid /\ v.aborted = t.aborted
  BY <1>1, ZenonT(40) DEF TpFileTransferChannel
<1>4. /\ v.state = t.state /\ v.prepared = t.prepared /\ v.opening = t.opening
      /\ v.setting = t.setting /\ v.calling = t.calling /\ v.failing = t.failing
      /\ v.starts = t.starts /\ v.calls = t.calls /\ v.answers = t.answers
      /\ v.refused = t.refused
  BY <1>1 DEF TpFileTransferChannel
<1> HIDE DEF v
<1>5. CASE t.state = "open"
  <2>1. /\ u \in TpFileTransferChannel /\ SameCall(u, v) /\ SameStages(u, v) /\ SameRest(u, v)
        /\ u.state = v.state /\ u.address = v.address /\ u.starts = v.starts + 1
    BY <1>1, <1>2, <1>5, StartTransferFacts
  <2> QED
    BY <1>3, <1>4, <1>5, <2>1 DEF SameCall, SameStages, SameRest
<1>6. CASE t.state # "open"
  <2>1. t.starts + 0 = t.starts
    BY DEF TpFileTransferChannel
  <2> QED
    BY <1>1, <1>2, <1>3, <1>4, <1>6, <2>1 DEF SameCall, SameStages, SameRest
<1> QED
  BY <1>5, <1>6, Zenon

(* tp_file_transfer_channel_state_changed_cb. *)
LEMMA StateChangedFacts ==
  ASSUME NEW t \in TpFileTransferChannel, NEW s \in SvcStates, NEW u, u = StateChanged(t, s)
  PROVE  /\ u \in TpFileTransferChannel /\ SameCall(u, t) /\ SameStages(u, t)
         /\ SameRest(u, t) /\ u.state = s /\ u.address = t.address
         /\ u.starts = t.starts + (IF s = "open" /\ t.address /\ t.state # s THEN 1 ELSE 0)
<1> DEFINE v == [t EXCEPT !.state = s]
<1>1. t.starts + 0 = t.starts
  BY DEF TpFileTransferChannel
<1>2. v \in TpFileTransferChannel
  BY <1>1 DEF TpFileTransferChannel
<1>3. /\ v.result = t.result /\ v.param = t.param /\ v.address = t.address
      /\ v.valid = t.valid /\ v.aborted = t.aborted
  BY <1>1, ZenonT(40) DEF TpFileTransferChannel
<1>4. /\ v.state = s /\ v.prepared = t.prepared /\ v.opening = t.opening
      /\ v.setting = t.setting /\ v.calling = t.calling /\ v.failing = t.failing
      /\ v.starts = t.starts /\ v.calls = t.calls /\ v.answers = t.answers
      /\ v.refused = t.refused
  BY <1>1 DEF TpFileTransferChannel
<1>5. CASE t.state = s
  BY <1>1, <1>5 DEF StateChanged, state_changed, SameCall, SameStages, SameRest
<1>6. CASE t.state # s /\ s = "open" /\ t.address
  <2>1. u = start_transfer(v)
    BY <1>6 DEF StateChanged, state_changed
  <2> HIDE DEF v
  <2>2. /\ u \in TpFileTransferChannel /\ SameCall(u, v) /\ SameStages(u, v) /\ SameRest(u, v)
        /\ u.state = v.state /\ u.address = v.address /\ u.starts = v.starts + 1
    BY <1>2, <2>1, StartTransferFacts
  <2> QED
    BY <1>3, <1>4, <1>6, <2>2, ZenonT(30) DEF SameCall, SameStages, SameRest
<1>7. CASE t.state # s /\ ~(s = "open" /\ t.address)
  <2>1. u = v
    BY <1>7 DEF StateChanged, state_changed
  <2> HIDE DEF v
  <2> QED
    BY <1>1, <1>2, <1>3, <1>4, <1>7, <2>1 DEF SameCall, SameStages, SameRest
<1> QED
  BY <1>5, <1>6, <1>7

(* A new channel. *)
LEMMA InitIInv ==
  ASSUME Init
  PROVE  IInv
<1>1. Types
  BY DEF Init, Types, TpFileTransferChannel, Service, SvcStates, Messages
<1>2. wire = <<>> /\ DOMAIN wire = {}
  BY DEF Init
<1>3. /\ ft.state = "none" /\ ft.prepared = "no" /\ ft.opening = 0 /\ ft.setting = 0
      /\ ft.calling = 0 /\ ft.failing = 0 /\ ft.starts = 0 /\ ft.calls = 0 /\ ft.answers = 0
      /\ ft.refused = 0 /\ svc.state = "pending" /\ svc.asked = 0 /\ svc.unanswered = 0
  BY DEF Init
<1>4. /\ ft.result = FALSE /\ ft.param = FALSE /\ ft.address = FALSE /\ ft.valid = TRUE
      /\ ft.aborted = FALSE /\ svc.replied = FALSE
  BY ZenonT(40) DEF Init
<1>5. Silence /\ Replies /\ Starts
  BY <1>2, <1>3, <1>4 DEF Silence, Replies, Starts
<1>6. OneCall
  BY <1>3, <1>4 DEF OneCall
<1>7. InOrder
  BY <1>2, <1>3, <1>4 DEF InOrder, SeenAll, Begun
<1> QED
  BY <1>1, <1>5, <1>6, <1>7 DEF IInv

(* A step that changes only what the invariant does not speak of.           *)
LEMMA QuietStep ==
  ASSUME IInv, UNCHANGED wire, ft' \in TpFileTransferChannel, svc' \in Service,
         SameCall(ft', ft), SameStages(ft', ft), SameTransfer(ft', ft),
         ft'.valid = ft.valid, ft'.calls = ft.calls, ft'.refused = ft.refused,
         ft.prepared # "no" => ft'.prepared # "no",
         svc'.state = svc.state, svc'.asked = svc.asked, svc'.unanswered = svc.unanswered,
         svc'.replied = svc.replied
  PROVE  IInv'
<1>1. Types'
  BY DEF IInv, Types
<1>2. /\ ft'.result = ft.result /\ ft'.answers = ft.answers /\ ft'.aborted = ft.aborted
      /\ ft'.param = ft.param /\ ft'.opening = ft.opening /\ ft'.setting = ft.setting
      /\ ft'.calling = ft.calling /\ ft'.failing = ft.failing /\ ft'.state = ft.state
      /\ ft'.address = ft.address /\ ft'.starts = ft.starts /\ wire' = wire
  BY DEF SameCall, SameStages, SameTransfer
<1>3. Silence'
  BY <1>2 DEF IInv, Silence
<1>4. OneCall'
  BY <1>2 DEF IInv, OneCall
<1>5. (SeenAll' <=> SeenAll) /\ (AnsweredAll' <=> AnsweredAll)
  BY <1>2 DEF SeenAll, AnsweredAll
<1>6. \A n : (Seen(n)' <=> Seen(n)) /\ (Answered(n)' <=> Answered(n))
  BY <1>2 DEF Seen, Answered
<1>7. Replies'
  BY <1>2, <1>5 DEF IInv, Replies
<1>8. InOrder'
  BY <1>2, <1>5, <1>6 DEF IInv, InOrder
<1>9. Starts'
  BY <1>2 DEF IInv, Starts
<1> QED
  BY <1>1, <1>3, <1>4, <1>7, <1>8, <1>9 DEF IInv

(* The socket and the streams, and the preparation of the channel.          *)
LEMMA QuietSteps ==
  ASSUME IInv, Prepare \/ SocketConnected \/ SpliceReady \/ StreamClosed
  PROVE  IInv'
<1>1. ft \in TpFileTransferChannel /\ svc \in Service /\ UNCHANGED wire
  BY Zenon DEF IInv, Types, Prepare, SocketConnected, SpliceReady, StreamClosed
<1>2. CASE Prepare
  <2>1. ft' = [ft EXCEPT !.prepared = "getting"] /\ svc' = [svc EXCEPT !.prepare = TRUE]
    BY <1>2 DEF Prepare
  <2>2. ft' \in TpFileTransferChannel
    BY <1>1, <2>1 DEF TpFileTransferChannel
  <2>3. /\ ft'.result = ft.result /\ ft'.param = ft.param /\ ft'.address = ft.address
        /\ ft'.valid = ft.valid /\ ft'.aborted = ft.aborted
    BY <1>1, <2>1, ZenonT(40) DEF TpFileTransferChannel
  <2>4. /\ ft'.state = ft.state /\ ft'.prepared = "getting" /\ ft'.opening = ft.opening
        /\ ft'.setting = ft.setting /\ ft'.calling = ft.calling
        /\ ft'.failing = ft.failing /\ ft'.starts = ft.starts /\ ft'.calls = ft.calls
        /\ ft'.answers = ft.answers /\ ft'.refused = ft.refused
    BY <1>1, <2>1 DEF TpFileTransferChannel
  <2>5. svc' \in Service /\ svc'.state = svc.state /\ svc'.asked = svc.asked
        /\ svc'.unanswered = svc.unanswered
    BY <1>1, <2>1, Zenon DEF Service
  <2>6. svc'.replied = svc.replied
    BY <1>1, <2>1, ZenonT(40) DEF Service
  <2> QED
    BY <1>1, <2>2, <2>3, <2>4, <2>5, <2>6, QuietStep DEF SameCall, SameStages, SameTransfer
<1>3. CASE SocketConnected
  <2>1. PICK ok \in BOOLEAN :
          ft' = [ft EXCEPT !.connecting = FALSE, !.stream = IF ok THEN "splicing" ELSE @]
    BY <1>3, ZenonT(40) DEF SocketConnected
  <2> DEFINE v == [ft EXCEPT !.connecting = FALSE]
             s == IF ok THEN "splicing" ELSE ft.stream
  <2>2. ft' = [v EXCEPT !.stream = s] /\ svc' = svc
    BY <1>1, <1>3, <2>1, ZenonT(40) DEF TpFileTransferChannel, SocketConnected
  <2>3. s \in {"no", "splicing", "closing", "closed"}
    BY <1>1 DEF TpFileTransferChannel
  <2> HIDE DEF s
  <2>4. v \in TpFileTransferChannel
    BY <1>1, Zenon DEF TpFileTransferChannel
  <2>5. /\ v.result = ft.result /\ v.param = ft.param /\ v.address = ft.address
        /\ v.valid = ft.valid /\ v.aborted = ft.aborted
    BY <1>1, ZenonT(40) DEF TpFileTransferChannel
  <2>6. /\ v.state = ft.state /\ v.prepared = ft.prepared /\ v.opening = ft.opening
        /\ v.setting = ft.setting /\ v.calling = ft.calling /\ v.failing = ft.failing
        /\ v.starts = ft.starts /\ v.calls = ft.calls /\ v.answers = ft.answers
        /\ v.refused = ft.refused
    BY <1>1 DEF TpFileTransferChannel
  <2> HIDE DEF v
  <2>7. ft' \in TpFileTransferChannel
    BY <2>2, <2>3, <2>4 DEF TpFileTransferChannel
  <2>8. /\ ft'.result = v.result /\ ft'.param = v.param /\ ft'.address = v.address
        /\ ft'.valid = v.valid /\ ft'.aborted = v.aborted
    BY <2>2, <2>3, <2>4, ZenonT(40) DEF TpFileTransferChannel
  <2>9. /\ ft'.state = v.state /\ ft'.prepared = v.prepared /\ ft'.opening = v.opening
        /\ ft'.setting = v.setting /\ ft'.calling = v.calling /\ ft'.failing = v.failing
        /\ ft'.starts = v.starts /\ ft'.calls = v.calls /\ ft'.answers = v.answers
        /\ ft'.refused = v.refused
    BY <2>2, <2>3, <2>4 DEF TpFileTransferChannel
  <2> QED
    BY <1>1, <2>2, <2>5, <2>6, <2>7, <2>8, <2>9, QuietStep DEF SameCall, SameStages, SameTransfer
<1>4. CASE SpliceReady \/ StreamClosed
  <2>1. PICK s \in {"closing", "closed"} : ft' = [ft EXCEPT !.stream = s]
    BY <1>4 DEF SpliceReady, StreamClosed
  <2>2. svc' = svc
    BY <1>4 DEF SpliceReady, StreamClosed
  <2>3. ft' \in TpFileTransferChannel
    BY <1>1, <2>1 DEF TpFileTransferChannel
  <2>4. /\ ft'.result = ft.result /\ ft'.param = ft.param /\ ft'.address = ft.address
        /\ ft'.valid = ft.valid /\ ft'.aborted = ft.aborted
    BY <1>1, <2>1, ZenonT(40) DEF TpFileTransferChannel
  <2>5. /\ ft'.state = ft.state /\ ft'.prepared = ft.prepared /\ ft'.opening = ft.opening
        /\ ft'.setting = ft.setting /\ ft'.calling = ft.calling
        /\ ft'.failing = ft.failing /\ ft'.starts = ft.starts /\ ft'.calls = ft.calls
        /\ ft'.answers = ft.answers /\ ft'.refused = ft.refused
    BY <1>1, <2>1 DEF TpFileTransferChannel
  <2> QED
    BY <1>1, <2>2, <2>3, <2>4, <2>5, QuietStep DEF SameCall, SameStages, SameTransfer
<1> QED
  BY <1>2, <1>3, <1>4, Zenon

(* accept_file_async and provide_file_async. *)
LEMMA StartStep ==
  ASSUME IInv, ~Overlap, Start
  PROVE  IInv'
<1>1. /\ ft \in TpFileTransferChannel /\ svc \in Service /\ wire' = wire /\ svc' = svc
      /\ ft.result = FALSE
  BY DEF IInv, Types, Start, TpFileTransferChannel
<1>2. /\ ft' \in TpFileTransferChannel /\ SameTransfer(ft', ft)
      /\ ft'.param = ft.param /\ ft'.setting = ft.setting /\ ft'.calling = ft.calling
      /\ ft'.failing = ft.failing /\ ft'.aborted = ft.aborted /\ ft'.answers = ft.answers
      /\ ft'.prepared = ft.prepared /\ ft'.valid = ft.valid /\ ft'.calls = ft.calls + 1
      /\ \/ /\ ft'.result = TRUE /\ ft'.opening = ft.opening + 1 /\ ft'.refused = ft.refused
            /\ ft.state # "none" /\ ~ft.param
         \/ /\ ft'.result = ft.result /\ ft'.opening = ft.opening
            /\ ft'.refused = ft.refused + 1
  <2>1. CASE MayStart(ft)
    <3> DEFINE v == [ft EXCEPT !.result = TRUE]
               w == [v EXCEPT !.opening = @ + 1]
    <3>1. ft' = [w EXCEPT !.calls = @ + 1]
      BY <1>1, <2>1 DEF Start, TpFileTransferChannel
    <3>2. v \in TpFileTransferChannel
      BY <1>1, Zenon DEF TpFileTransferChannel
    <3>3. /\ v.result = TRUE /\ v.param = ft.param /\ v.address = ft.address
          /\ v.valid = ft.valid /\ v.aborted = ft.aborted
      BY <1>1, ZenonT(40) DEF TpFileTransferChannel
    <3>4. /\ v.state = ft.state /\ v.prepared = ft.prepared /\ v.opening = ft.opening
          /\ v.setting = ft.setting /\ v.calling = ft.calling /\ v.failing = ft.failing
          /\ v.starts = ft.starts /\ v.calls = ft.calls /\ v.answers = ft.answers
          /\ v.refused = ft.refused
      BY <1>1 DEF TpFileTransferChannel
    <3> HIDE DEF v
    <3>5. w \in TpFileTransferChannel
      BY <3>2 DEF TpFileTransferChannel
    <3>6. /\ w.result = v.result /\ w.param = v.param /\ w.address = v.address
          /\ w.valid = v.valid /\ w.aborted = v.aborted
      BY <3>2, ZenonT(40) DEF TpFileTransferChannel
    <3>7. /\ w.state = v.state /\ w.prepared = v.prepared /\ w.opening = v.opening + 1
          /\ w.setting = v.setting /\ w.calling = v.calling /\ w.failing = v.failing
          /\ w.starts = v.starts /\ w.calls = v.calls /\ w.answers = v.answers
          /\ w.refused = v.refused
      BY <3>2 DEF TpFileTransferChannel
    <3> HIDE DEF w
    <3>8. ft' \in TpFileTransferChannel
      BY <3>1, <3>5 DEF TpFileTransferChannel
    <3>9. /\ ft'.result = w.result /\ ft'.param = w.param /\ ft'.address = w.address
          /\ ft'.valid = w.valid /\ ft'.aborted = w.aborted
      BY <3>1, <3>5, ZenonT(40) DEF TpFileTransferChannel
    <3>10. /\ ft'.state = w.state /\ ft'.prepared = w.prepared /\ ft'.opening = w.opening
          /\ ft'.setting = w.setting /\ ft'.calling = w.calling
          /\ ft'.failing = w.failing /\ ft'.starts = w.starts /\ ft'.calls = w.calls + 1
          /\ ft'.answers = w.answers /\ ft'.refused = w.refused
      BY <3>1, <3>5 DEF TpFileTransferChannel
    <3>11. ft.state # "none" /\ ~ft.param
      BY <2>1 DEF MayStart, may_start
    <3> QED
      BY <3>3, <3>4, <3>6, <3>7, <3>8, <3>9, <3>10, <3>11 DEF SameTransfer
  <2>2. CASE ~MayStart(ft)
    <3> DEFINE v == [ft EXCEPT !.calls = @ + 1]
    <3>1. ft' = [v EXCEPT !.refused = @ + 1]
      BY <1>1, <2>2 DEF Start, TpFileTransferChannel
    <3>2. v \in TpFileTransferChannel
      BY <1>1 DEF TpFileTransferChannel
    <3>3. /\ v.result = ft.result /\ v.param = ft.param /\ v.address = ft.address
          /\ v.valid = ft.valid /\ v.aborted = ft.aborted
      BY <1>1, ZenonT(40) DEF TpFileTransferChannel
    <3>4. /\ v.state = ft.state /\ v.prepared = ft.prepared /\ v.opening = ft.opening
          /\ v.setting = ft.setting /\ v.calling = ft.calling /\ v.failing = ft.failing
          /\ v.starts = ft.starts /\ v.calls = ft.calls + 1 /\ v.answers = ft.answers
          /\ v.refused = ft.refused
      BY <1>1 DEF TpFileTransferChannel
    <3> HIDE DEF v
    <3>5. ft' \in TpFileTransferChannel
      BY <3>1, <3>2 DEF TpFileTransferChannel
    <3>6. /\ ft'.result = v.result /\ ft'.param = v.param /\ ft'.address = v.address
          /\ ft'.valid = v.valid /\ ft'.aborted = v.aborted
      BY <3>1, <3>2, ZenonT(40) DEF TpFileTransferChannel
    <3>7. /\ ft'.state = v.state /\ ft'.prepared = v.prepared /\ ft'.opening = v.opening
          /\ ft'.setting = v.setting /\ ft'.calling = v.calling
          /\ ft'.failing = v.failing /\ ft'.starts = v.starts /\ ft'.calls = v.calls
          /\ ft'.answers = v.answers /\ ft'.refused = v.refused + 1
      BY <3>1, <3>2 DEF TpFileTransferChannel
    <3> QED
      BY <3>3, <3>4, <3>5, <3>6, <3>7 DEF SameTransfer
  <2> QED
    BY <2>1, <2>2, Zenon
<1>3. /\ ft.opening \in Nat /\ ft.setting \in Nat /\ ft.calling \in Nat /\ ft.failing \in Nat
      /\ ft.calls \in Nat /\ ft.answers \in Nat /\ ft.refused \in Nat
  BY <1>1 DEF TpFileTransferChannel
<1>4. ft'.state = ft.state /\ ft'.address = ft.address /\ ft'.starts = ft.starts
  BY <1>2 DEF SameTransfer
<1>5. Types'
  BY <1>1, <1>2 DEF IInv, Types
<1>6. Silence'
  BY <1>1, <1>2 DEF IInv, Silence
<1>7. OneCall'
  <2>1. ft.opening + ft.setting + ft.calling + ft.failing = 0
    BY <1>1 DEF IInv, OneCall
  <2>2. ft'.opening + ft'.setting + ft'.calling + ft'.failing = (IF ft'.result THEN 1 ELSE 0)
    BY <1>1, <1>2, <1>3, <2>1
  <2>3. ft'.opening + ft'.setting > 0 => ~ft'.param
    BY <1>1, <1>2, <1>3, <2>1
  <2> QED
    BY <1>1, <1>2, <1>4, <2>2, <2>3 DEF IInv, OneCall
<1>8. (SeenAll' <=> SeenAll) /\ (AnsweredAll' <=> AnsweredAll)
  BY <1>1, <1>4 DEF SeenAll, AnsweredAll
<1>9. \A n : (Seen(n)' <=> Seen(n)) /\ (Answered(n)' <=> Answered(n))
  BY <1>1, <1>4 DEF Seen, Answered
<1>10. Replies'
  BY <1>1, <1>2, <1>8, Zenon DEF IInv, Replies
<1>11. InOrder'
  BY <1>1, <1>2, <1>4, <1>8, <1>9 DEF IInv, InOrder
<1>12. Starts'
  BY <1>1, <1>2, <1>3, <1>4 DEF IInv, Starts
<1> QED
  BY <1>5, <1>6, <1>7, <1>10, <1>11, <1>12 DEF IInv

CalledOut(u, t) ==
  \/ /\ SameStages(u, t) /\ u.result = FALSE
     /\ u.answers = t.answers + (IF t.result THEN 1 ELSE 0)
     /\ t.result => u.aborted = t.aborted
  \/ /\ u.param = TRUE /\ u.calling = t.calling + 1 /\ u.failing = t.failing
     /\ SameCall(u, t) /\ t.valid
  \/ /\ u.param = TRUE /\ u.calling = t.calling /\ u.failing = t.failing + 1
     /\ SameCall(u, t) /\ ~t.valid

(* set_address_and_access_control and the call: an answer, a call, or a call that
   an idle will fail. *)
LEMMA CallOutFacts ==
  ASSUME NEW t \in TpFileTransferChannel, NEW ok \in BOOLEAN, NEW u, u = CallOut(t, ok)
  PROVE  /\ u \in TpFileTransferChannel /\ SameTransfer(u, t) /\ SameRest(u, t)
         /\ u.opening = t.opening /\ u.setting = t.setting
         /\ CalledOut(u, t)
<1> DEFINE v == [t EXCEPT !.param = TRUE]
<1>1. v \in TpFileTransferChannel
  BY Zenon DEF TpFileTransferChannel
<1>2. /\ v.result = t.result /\ v.param = TRUE /\ v.address = t.address
      /\ v.valid = t.valid /\ v.aborted = t.aborted
  BY ZenonT(40) DEF TpFileTransferChannel
<1>3. /\ v.state = t.state /\ v.prepared = t.prepared /\ v.opening = t.opening
      /\ v.setting = t.setting /\ v.calling = t.calling /\ v.failing = t.failing
      /\ v.starts = t.starts /\ v.calls = t.calls /\ v.answers = t.answers
      /\ v.refused = t.refused
  BY ZenonT(40) DEF TpFileTransferChannel
<1>4. CASE ~ok
  <2>1. u = Answer(t)
    BY <1>4 DEF CallOut
  <2>2. /\ u \in TpFileTransferChannel /\ SameStages(u, t) /\ SameTransfer(u, t)
        /\ SameRest(u, t) /\ u.result = FALSE
        /\ u.answers = t.answers + (IF t.result THEN 1 ELSE 0)
        /\ t.result => u.aborted = t.aborted
    BY <2>1, AnswerFacts, Zenon
  <2>3. u.opening = t.opening /\ u.setting = t.setting
    BY <2>2 DEF SameStages
  <2> QED
    BY <2>2, <2>3 DEF CalledOut
<1>5. CASE ok /\ t.valid
  <2>1. u = [v EXCEPT !.calling = @ + 1]
    BY <1>5 DEF CallOut, TpFileTransferChannel
  <2> HIDE DEF v
  <2>2. u \in TpFileTransferChannel
    BY <1>1, <2>1 DEF TpFileTransferChannel
  <2>3. /\ u.result = v.result /\ u.param = v.param /\ u.address = v.address
        /\ u.valid = v.valid /\ u.aborted = v.aborted
    BY <1>1, <2>1, ZenonT(40) DEF TpFileTransferChannel
  <2>4. /\ u.state = v.state /\ u.prepared = v.prepared /\ u.opening = v.opening
        /\ u.setting = v.setting /\ u.calling = v.calling + 1 /\ u.failing = v.failing
        /\ u.starts = v.starts /\ u.calls = v.calls /\ u.answers = v.answers
        /\ u.refused = v.refused
    BY <1>1, <2>1 DEF TpFileTransferChannel
  <2> QED
    BY <1>2, <1>3, <1>5, <2>2, <2>3, <2>4, ZenonT(60) DEF CalledOut, SameCall, SameTransfer, SameRest
<1>6. CASE ok /\ ~t.valid
  <2>1. u = [v EXCEPT !.failing = @ + 1]
    BY <1>6 DEF CallOut, TpFileTransferChannel
  <2> HIDE DEF v
  <2>2. u \in TpFileTransferChannel
    BY <1>1, <2>1 DEF TpFileTransferChannel
  <2>3. /\ u.result = v.result /\ u.param = v.param /\ u.address = v.address
        /\ u.valid = v.valid /\ u.aborted = v.aborted
    BY <1>1, <2>1, ZenonT(40) DEF TpFileTransferChannel
  <2>4. /\ u.state = v.state /\ u.prepared = v.prepared /\ u.opening = v.opening
        /\ u.setting = v.setting /\ u.calling = v.calling /\ u.failing = v.failing + 1
        /\ u.starts = v.starts /\ u.calls = v.calls /\ u.answers = v.answers
        /\ u.refused = v.refused
    BY <1>1, <2>1 DEF TpFileTransferChannel
  <2> QED
    BY <1>2, <1>3, <1>6, <2>2, <2>3, <2>4, ZenonT(30) DEF CalledOut, SameCall, SameTransfer, SameRest
<1> QED
  BY <1>4, <1>5, <1>6

(* One step of the call under way: its answer, or the next thing done for it. *)
Progress ==
  \/ /\ ~ft'.result /\ ft'.answers = ft.answers + 1 /\ (ft'.param <=> ft.param)
     /\ ft'.opening = 0 /\ ft'.setting = 0 /\ ft'.calling = 0 /\ ft'.failing = 0
     /\ svc'.asked = svc.asked /\ svc'.unanswered = svc.unanswered
  \/ /\ ft'.result /\ ft'.answers = ft.answers /\ ~ft'.param /\ ~ft.param
     /\ ft'.opening = 0 /\ ft'.setting = 1 /\ ft'.calling = 0 /\ ft'.failing = 0
     /\ svc'.asked = svc.asked /\ svc'.unanswered = svc.unanswered
  \/ /\ ft'.result /\ ft'.answers = ft.answers /\ ft'.param /\ ~ft.param
     /\ ft'.opening = 0 /\ ft'.setting = 0 /\ ft'.calling = 1 /\ ft'.failing = 0
     /\ svc'.asked = svc.asked + 1 /\ svc'.unanswered = svc.unanswered + 1
  \/ /\ ft'.result /\ ft'.answers = ft.answers /\ ft'.param /\ ~ft.param
     /\ ft'.opening = 0 /\ ft'.setting = 0 /\ ft'.calling = 0 /\ ft'.failing = 1
     /\ svc'.asked = svc.asked /\ svc'.unanswered = svc.unanswered

LEMMA ProgressStep ==
  ASSUME IInv, Progress, UNCHANGED wire, ft.result, ft.calling = 0, ft'.aborted = ft.aborted,
         ft' \in TpFileTransferChannel, SameTransfer(ft', ft), SameRest(ft', ft),
         svc' \in Service, svc'.state = svc.state, svc'.replied = svc.replied
  PROVE  IInv'
<1>1. /\ ft'.state = ft.state /\ ft'.address = ft.address /\ ft'.starts = ft.starts
      /\ ft'.prepared = ft.prepared /\ ft'.valid = ft.valid /\ ft'.calls = ft.calls
      /\ ft'.refused = ft.refused /\ wire' = wire
  BY DEF SameTransfer, SameRest
<1>2. /\ ft.opening \in Nat /\ ft.setting \in Nat /\ ft.calling \in Nat /\ ft.failing \in Nat
      /\ ft.calls \in Nat /\ ft.answers \in Nat /\ ft.refused \in Nat /\ svc.asked \in Nat
      /\ svc.unanswered \in Nat
  BY DEF IInv, Types, TpFileTransferChannel, Service
<1>3. Types'
  BY <1>1 DEF IInv, Types
<1>4. Silence'
  BY <1>1 DEF IInv, Silence
<1>5. OneCall'
  <2>1. ft'.opening + ft'.setting + ft'.calling + ft'.failing = (IF ft'.result THEN 1 ELSE 0)
    BY DEF Progress
  <2>2. ft'.opening + ft'.setting > 0 => ~ft'.param
    BY DEF Progress
  <2>3. ~ft'.param => /\ ft'.calling = 0 /\ ft'.failing = 0 /\ ~ft'.address /\ ~svc'.replied
                      /\ svc'.asked = 0 /\ svc'.unanswered = 0
    BY <1>1 DEF IInv, OneCall, Progress
  <2>4. ft'.prepared # "no" /\ ~ft'.aborted
    BY <1>1 DEF IInv, OneCall
  <2>5. ft'.address => ft'.calling = 0
    BY <1>1 DEF IInv, OneCall, Progress
  <2> QED
    BY <2>1, <2>2, <2>3, <2>4, <2>5 DEF OneCall
<1>6. (SeenAll' <=> SeenAll) /\ (AnsweredAll' <=> AnsweredAll)
  BY <1>1 DEF SeenAll, AnsweredAll
<1>7. \A n : (Seen(n)' <=> Seen(n)) /\ (Answered(n)' <=> Answered(n))
  BY <1>1 DEF Seen, Answered
<1>8. Replies'
  <2>1. \A i \in DOMAIN wire : wire[i].type # "reply"
    BY DEF IInv, Replies
  <2>2. svc.unanswered > 0 => svc.state = "closed"
    BY DEF IInv, Replies
  <2>3. ~ft.param => svc.unanswered = 0
    BY DEF IInv, OneCall
  <2>4. svc'.unanswered <= 1 /\ svc'.unanswered <= svc'.asked
        /\ (svc'.unanswered > 0 /\ svc'.state # "closed" => ft'.calling = 1)
    BY <1>2, <2>2, <2>3 DEF Progress, IInv, Replies
  <2> QED
    BY <1>1, <1>6, <2>1, <2>4 DEF IInv, Replies
<1>9. InOrder'
  <2>1. ft.param => ft'.param
    BY DEF Progress
  <2> QED
    BY <1>1, <1>6, <1>7, <2>1 DEF IInv, InOrder
<1>10. Starts'
  BY <1>1, <1>2 DEF IInv, Starts, Progress
<1> QED
  BY <1>3, <1>4, <1>5, <1>8, <1>9, <1>10 DEF IInv

(* The manager's side, when the calls made are added to what it is asked.   *)
LEMMA AskedFacts ==
  ASSUME svc \in Service, ft.calling = 0, ft'.calling \in {0, 1},
         svc' = [svc EXCEPT !.asked = @ + (ft'.calling - ft.calling),
                            !.unanswered = @ + (ft'.calling - ft.calling)]
  PROVE  /\ svc' \in Service /\ svc'.state = svc.state /\ svc'.replied = svc.replied
         /\ svc'.asked = svc.asked + ft'.calling /\ svc'.unanswered = svc.unanswered + ft'.calling
<1> DEFINE k == ft'.calling
           s == [svc EXCEPT !.asked = @ + k]
<1>0. k \in Nat /\ ft'.calling - ft.calling = k
  OBVIOUS
<1> HIDE DEF k
<1>1. svc' = [s EXCEPT !.unanswered = @ + k] /\ k \in Nat
  BY <1>0, Zenon DEF Service
<1>2. s \in Service /\ s.state = svc.state /\ s.asked = svc.asked + k
      /\ s.unanswered = svc.unanswered
  BY <1>1 DEF Service
<1>3. s.replied = svc.replied
  BY ZenonT(40) DEF Service
<1> HIDE DEF s
<1>6. s.unanswered + k \in Nat
  BY <1>1, <1>2 DEF Service
<1>4. svc' \in Service /\ svc'.state = s.state /\ svc'.asked = s.asked
      /\ svc'.unanswered = s.unanswered + k
  BY <1>1, <1>2, <1>6, Zenon DEF Service
<1>5. svc'.replied = s.replied
  BY <1>1, <1>2, ZenonT(40) DEF Service
<1> QED
  BY <1>2, <1>3, <1>4, <1>5 DEF k

(* file_replace_async_cb, file_read_async_cb, file_transfer_set_uri_cb.     *)
LEMMA OpenedStep ==
  ASSUME IInv, FileOpened \/ UriSet
  PROVE  IInv'
<1>1. /\ ft \in TpFileTransferChannel /\ svc \in Service /\ wire' = wire
      /\ ft.opening \in Nat /\ ft.setting \in Nat /\ ft.calling \in Nat /\ ft.failing \in Nat
      /\ ft.answers \in Nat /\ svc.asked \in Nat /\ svc.unanswered \in Nat
  BY DEF IInv, Types, FileOpened, UriSet, TpFileTransferChannel, Service
<1>2. ft.opening + ft.setting > 0
  BY <1>1 DEF FileOpened, UriSet
<1>3. ft.result /\ ft.calling = 0 /\ ft.failing = 0 /\ ft.opening + ft.setting = 1 /\ ~ft.param
  BY <1>1, <1>2 DEF IInv, OneCall
<1>4. PICK t : /\ t \in TpFileTransferChannel /\ SameCall(t, ft) /\ SameTransfer(t, ft)
               /\ SameRest(t, ft) /\ t.param = ft.param /\ t.calling = 0 /\ t.failing = 0
               /\ t.opening = 0 /\ t.setting = 0
               /\ \/ \E ok \in BOOLEAN : ft' = CallOut(t, ok)
                  \/ ft' = Answer(t)
                  \/ ft' = [t EXCEPT !.setting = @ + 1]
  <2>1. CASE FileOpened
    <3> DEFINE t == [ft EXCEPT !.opening = @ - 1]
    <3>1. ft.opening = 1 /\ ft.setting = 0
      BY <1>1, <1>3, <2>1 DEF FileOpened
    <3>2. t \in TpFileTransferChannel
      BY <1>1, <3>1 DEF TpFileTransferChannel
    <3>3. /\ t.result = ft.result /\ t.param = ft.param /\ t.address = ft.address
          /\ t.valid = ft.valid /\ t.aborted = ft.aborted
      BY <1>1, <3>1, ZenonT(40) DEF TpFileTransferChannel
    <3>4. /\ t.state = ft.state /\ t.prepared = ft.prepared /\ t.opening = 0
          /\ t.setting = ft.setting /\ t.calling = ft.calling /\ t.failing = ft.failing
          /\ t.starts = ft.starts /\ t.calls = ft.calls /\ t.answers = ft.answers
          /\ t.refused = ft.refused
      BY <1>1, <3>1 DEF TpFileTransferChannel
    <3>5. \/ \E ok \in BOOLEAN : ft' = CallOut(t, ok)
          \/ ft' = Answer(t)
          \/ ft' = [t EXCEPT !.setting = @ + 1]
      BY <2>1, Zenon DEF FileOpened, file_read, file_replaced
    <3> HIDE DEF t
    <3> QED
      BY <1>3, <3>1, <3>2, <3>3, <3>4, <3>5, ZenonT(60) DEF SameCall, SameTransfer, SameRest
  <2>2. CASE UriSet
    <3> DEFINE t == [ft EXCEPT !.setting = @ - 1]
    <3>1. ft.opening = 0 /\ ft.setting = 1
      BY <1>1, <1>3, <2>2 DEF UriSet
    <3>2. t \in TpFileTransferChannel
      BY <1>1, <3>1 DEF TpFileTransferChannel
    <3>3. /\ t.result = ft.result /\ t.param = ft.param /\ t.address = ft.address
          /\ t.valid = ft.valid /\ t.aborted = ft.aborted
      BY <1>1, <3>1, ZenonT(40) DEF TpFileTransferChannel
    <3>4. /\ t.state = ft.state /\ t.prepared = ft.prepared /\ t.opening = ft.opening
          /\ t.setting = 0 /\ t.calling = ft.calling /\ t.failing = ft.failing
          /\ t.starts = ft.starts /\ t.calls = ft.calls /\ t.answers = ft.answers
          /\ t.refused = ft.refused
      BY <1>1, <3>1 DEF TpFileTransferChannel
    <3>5. \E ok \in BOOLEAN : ft' = CallOut(t, ok)
      BY <2>2 DEF UriSet
    <3> HIDE DEF t
    <3> QED
      BY <1>3, <3>1, <3>2, <3>3, <3>4, <3>5, Zenon DEF SameCall, SameTransfer, SameRest
  <2> QED
    BY <2>1, <2>2
<1>5. svc' = [svc EXCEPT !.asked = @ + (ft'.calling - ft.calling),
                         !.unanswered = @ + (ft'.calling - ft.calling)]
  BY DEF FileOpened, UriSet
<1>6. /\ t.result = ft.result /\ t.answers = ft.answers /\ t.aborted = ft.aborted
      /\ t.state = ft.state /\ t.address = ft.address /\ t.starts = ft.starts
      /\ t.prepared = ft.prepared /\ t.valid = ft.valid /\ t.calls = ft.calls
      /\ t.refused = ft.refused
  BY <1>4 DEF SameCall, SameTransfer, SameRest
<1>7. /\ ft' \in TpFileTransferChannel /\ SameTransfer(ft', t) /\ SameRest(ft', t)
      /\ ft'.aborted = t.aborted
      /\ \/ /\ ~ft'.result /\ ft'.answers = t.answers + 1 /\ ~ft'.param
            /\ ft'.opening = 0 /\ ft'.setting = 0 /\ ft'.calling = 0 /\ ft'.failing = 0
         \/ /\ ft'.result /\ ft'.answers = t.answers /\ ~ft'.param
            /\ ft'.opening = 0 /\ ft'.setting = 1 /\ ft'.calling = 0 /\ ft'.failing = 0
         \/ /\ ft'.result /\ ft'.answers = t.answers /\ ft'.param
            /\ ft'.opening = 0 /\ ft'.setting = 0 /\ ft'.calling = 1 /\ ft'.failing = 0
         \/ /\ ft'.result /\ ft'.answers = t.answers /\ ft'.param
            /\ ft'.opening = 0 /\ ft'.setting = 0 /\ ft'.calling = 0 /\ ft'.failing = 1
  <2>1. CASE \E ok \in BOOLEAN : ft' = CallOut(t, ok)
    <3>1. PICK ok \in BOOLEAN : ft' = CallOut(t, ok)
      BY <2>1
    <3>2. /\ ft' \in TpFileTransferChannel /\ SameTransfer(ft', t) /\ SameRest(ft', t)
          /\ ft'.opening = t.opening /\ ft'.setting = t.setting
          /\ CalledOut(ft', t)
      BY <1>4, <3>1, CallOutFacts
    <3>3. /\ SameTransfer(ft', t) /\ SameRest(ft', t) /\ t.result /\ ~t.param
          /\ ft'.opening = 0 /\ ft'.setting = 0 /\ t.calling = 0 /\ t.failing = 0
      BY <1>3, <1>4, <1>6, <3>2
    <3>4. CASE SameStages(ft', t) /\ ft'.result = FALSE
               /\ ft'.answers = t.answers + (IF t.result THEN 1 ELSE 0)
               /\ (t.result => ft'.aborted = t.aborted)
      <4>1. ft'.param = t.param /\ ft'.calling = 0 /\ ft'.failing = 0
        BY <3>3, <3>4 DEF SameStages
      <4> QED
        BY <3>2, <3>3, <3>4, <4>1
    <3>5. CASE ft'.param = TRUE /\ ft'.calling = t.calling + 1 /\ ft'.failing = t.failing
               /\ SameCall(ft', t)
      <4>1. ft'.result = t.result /\ ft'.answers = t.answers /\ ft'.aborted = t.aborted
        BY <3>5 DEF SameCall
      <4> QED
        BY <3>2, <3>3, <3>5, <4>1
    <3>6. CASE ft'.param = TRUE /\ ft'.calling = t.calling /\ ft'.failing = t.failing + 1
               /\ SameCall(ft', t)
      <4>1. ft'.result = t.result /\ ft'.answers = t.answers /\ ft'.aborted = t.aborted
        BY <3>6 DEF SameCall
      <4> QED
        BY <3>2, <3>3, <3>6, <4>1
    <3> QED
      BY <3>2, <3>4, <3>5, <3>6, Zenon DEF CalledOut
  <2>2. CASE ft' = Answer(t)
    <3>1. /\ ft' \in TpFileTransferChannel /\ SameStages(ft', t) /\ SameTransfer(ft', t)
          /\ SameRest(ft', t) /\ ft'.result = FALSE
          /\ ft'.answers = t.answers + (IF t.result THEN 1 ELSE 0)
          /\ t.result => ft'.aborted = t.aborted
      BY <1>4, <2>2, AnswerFacts, Zenon
    <3> QED
      BY <1>3, <1>4, <1>6, <3>1 DEF SameStages
  <2>3. CASE ft' = [t EXCEPT !.setting = @ + 1]
    <3>0. t \in TpFileTransferChannel
      BY <1>4
    <3>1. ft' \in TpFileTransferChannel
      BY <2>3, <3>0 DEF TpFileTransferChannel
    <3>2. /\ ft'.result = t.result /\ ft'.param = t.param /\ ft'.address = t.address
          /\ ft'.valid = t.valid /\ ft'.aborted = t.aborted
      BY <2>3, <3>0, ZenonT(40) DEF TpFileTransferChannel
    <3>3. /\ ft'.state = t.state /\ ft'.prepared = t.prepared /\ ft'.opening = t.opening
          /\ ft'.setting = t.setting + 1 /\ ft'.calling = t.calling
          /\ ft'.failing = t.failing /\ ft'.starts = t.starts /\ ft'.calls = t.calls
          /\ ft'.answers = t.answers /\ ft'.refused = t.refused
      BY <2>3, <3>0 DEF TpFileTransferChannel
    <3> QED
      BY <1>3, <1>4, <1>6, <3>1, <3>2, <3>3 DEF SameTransfer, SameRest
  <2> QED
    BY <1>4, <2>1, <2>2, <2>3
<1>8. ft'.calling \in {0, 1}
  BY <1>7
<1>9. /\ svc' \in Service /\ svc'.state = svc.state /\ svc'.replied = svc.replied
      /\ svc'.asked = svc.asked + ft'.calling /\ svc'.unanswered = svc.unanswered + ft'.calling
  BY <1>1, <1>3, <1>5, <1>8, AskedFacts
<1>10. Progress
  <2>1. svc.asked + 0 = svc.asked /\ svc.unanswered + 0 = svc.unanswered
    BY <1>1
  <2>2. t.param = ft.param /\ t.result = ft.result /\ t.answers = ft.answers
    BY <1>4, <1>6
  <2> QED
    BY <1>3, <1>7, <1>9, <2>1, <2>2 DEF Progress
<1>11. SameTransfer(ft', ft) /\ SameRest(ft', ft) /\ ft'.aborted = ft.aborted
  BY <1>6, <1>7 DEF SameTransfer, SameRest
<1> QED
  BY <1>1, <1>3, <1>7, <1>9, <1>10, <1>11, ProgressStep

(* accept_or_provide_file_cb, with the invalidation's error.                *)
LEMMA CallFailedStep ==
  ASSUME IInv, CallFailed
  PROVE  IInv'
<1> DEFINE t == [ft EXCEPT !.failing = @ - 1]
<1>1. /\ ft \in TpFileTransferChannel /\ svc \in Service /\ wire' = wire /\ svc' = svc
      /\ ft.opening \in Nat /\ ft.setting \in Nat /\ ft.calling \in Nat /\ ft.failing \in Nat
  BY DEF IInv, Types, CallFailed, TpFileTransferChannel
<1>2. /\ ft.result /\ ft.calling = 0 /\ ft.failing = 1 /\ ft.opening = 0 /\ ft.setting = 0
  BY <1>1 DEF IInv, OneCall, CallFailed
<1>3. ft' = Answer(t)
  BY DEF CallFailed
<1>4. t \in TpFileTransferChannel
  BY <1>1, <1>2 DEF TpFileTransferChannel
<1>5. /\ t.result = ft.result /\ t.param = ft.param /\ t.address = ft.address
      /\ t.valid = ft.valid /\ t.aborted = ft.aborted
  BY <1>1, <1>2, ZenonT(40) DEF TpFileTransferChannel
<1>6. /\ t.state = ft.state /\ t.prepared = ft.prepared /\ t.opening = ft.opening
      /\ t.setting = ft.setting /\ t.calling = ft.calling /\ t.failing = 0
      /\ t.starts = ft.starts /\ t.calls = ft.calls /\ t.answers = ft.answers
      /\ t.refused = ft.refused
  BY <1>1, <1>2 DEF TpFileTransferChannel
<1> HIDE DEF t
<1>7. /\ ft' \in TpFileTransferChannel /\ SameStages(ft', t) /\ SameTransfer(ft', t)
      /\ SameRest(ft', t) /\ ft'.result = FALSE
      /\ ft'.answers = t.answers + (IF t.result THEN 1 ELSE 0)
      /\ t.result => ft'.aborted = t.aborted
  BY <1>3, <1>4, AnswerFacts, ZenonT(60)
<1>8. Progress /\ ft'.aborted = ft.aborted
  BY <1>1, <1>2, <1>5, <1>6, <1>7 DEF Progress, SameStages
<1>9. SameTransfer(ft', ft) /\ SameRest(ft', ft)
  BY <1>5, <1>6, <1>7 DEF SameTransfer, SameRest
<1> QED
  BY <1>1, <1>2, <1>7, <1>8, <1>9, ProgressStep

(* invalidated_cb: nothing that was on its way arrives, and a call under way will
   be failed by an idle. *)
LEMMA ClosedStep ==
  ASSUME IInv, Closed
  PROVE  IInv'
<1> DEFINE a == [ft EXCEPT !.valid = FALSE]
           b == [a EXCEPT !.calling = 0]
           c == [b EXCEPT !.failing = @ + ft.calling]
<1>1. /\ ft \in TpFileTransferChannel /\ svc \in Service /\ wire' = <<>> /\ svc' = svc
      /\ wire' \in Seq(Messages) /\ (\A i \in DOMAIN wire' : FALSE)
      /\ ft.opening \in Nat /\ ft.setting \in Nat /\ ft.calling \in Nat /\ ft.failing \in Nat
  BY DEF IInv, Types, Closed, TpFileTransferChannel
<1>2. svc.state = "closed"
  <2>1. wire \in Seq(Messages) /\ wire # <<>> /\ Head(wire).type = "closed"
    BY DEF IInv, Types, Closed
  <2>2. 1 \in DOMAIN wire /\ wire[1] = Head(wire)
    BY <2>1, TailFacts
  <2> QED
    BY <2>1, <2>2 DEF IInv, Silence
<1>3. ft' = [c EXCEPT !.cancelled = TRUE]
  BY <1>1 DEF Closed, cancel, TpFileTransferChannel
<1>4. a \in TpFileTransferChannel
  BY <1>1, Zenon DEF TpFileTransferChannel
<1>5. /\ a.result = ft.result /\ a.param = ft.param /\ a.address = ft.address
      /\ a.valid = FALSE /\ a.aborted = ft.aborted
  BY <1>1, ZenonT(40) DEF TpFileTransferChannel
<1>6. /\ a.state = ft.state /\ a.prepared = ft.prepared /\ a.opening = ft.opening
      /\ a.setting = ft.setting /\ a.calling = ft.calling /\ a.failing = ft.failing
      /\ a.starts = ft.starts /\ a.calls = ft.calls /\ a.answers = ft.answers
      /\ a.refused = ft.refused
  BY <1>1 DEF TpFileTransferChannel
<1> HIDE DEF a
<1>7. b \in TpFileTransferChannel
  BY <1>4 DEF TpFileTransferChannel
<1>8. /\ b.result = a.result /\ b.param = a.param /\ b.address = a.address
      /\ b.valid = a.valid /\ b.aborted = a.aborted
  BY <1>4, ZenonT(40) DEF TpFileTransferChannel
<1>9. /\ b.state = a.state /\ b.prepared = a.prepared /\ b.opening = a.opening
      /\ b.setting = a.setting /\ b.calling = 0 /\ b.failing = a.failing
      /\ b.starts = a.starts /\ b.calls = a.calls /\ b.answers = a.answers
      /\ b.refused = a.refused
  BY <1>4 DEF TpFileTransferChannel
<1> HIDE DEF b
<1>10. c \in TpFileTransferChannel
  <2>1. b.failing + ft.calling \in Nat
    BY <1>1, <1>7, SMTT(30) DEF TpFileTransferChannel
  <2> QED
    BY <1>7, <2>1 DEF TpFileTransferChannel
<1>11. /\ c.result = b.result /\ c.param = b.param /\ c.address = b.address
       /\ c.valid = b.valid /\ c.aborted = b.aborted
  BY <1>1, <1>7, ZenonT(40) DEF TpFileTransferChannel
<1>12. /\ c.state = b.state /\ c.prepared = b.prepared /\ c.opening = b.opening
       /\ c.setting = b.setting /\ c.calling = b.calling
       /\ c.failing = b.failing + ft.calling /\ c.starts = b.starts /\ c.calls = b.calls
       /\ c.answers = b.answers /\ c.refused = b.refused
  BY <1>1, <1>7 DEF TpFileTransferChannel
<1> HIDE DEF c
<1>13. ft' \in TpFileTransferChannel
  BY <1>3, <1>10, Zenon DEF TpFileTransferChannel
<1>14. /\ ft'.result = c.result /\ ft'.param = c.param /\ ft'.address = c.address
       /\ ft'.valid = c.valid /\ ft'.aborted = c.aborted
  BY <1>3, <1>10, ZenonT(40) DEF TpFileTransferChannel
<1>15. /\ ft'.state = c.state /\ ft'.prepared = c.prepared /\ ft'.opening = c.opening
       /\ ft'.setting = c.setting /\ ft'.calling = c.calling /\ ft'.failing = c.failing
       /\ ft'.starts = c.starts /\ ft'.calls = c.calls /\ ft'.answers = c.answers
       /\ ft'.refused = c.refused
  BY <1>3, <1>10 DEF TpFileTransferChannel
<1>16. /\ ft'.result = ft.result /\ ft'.param = ft.param /\ ft'.address = ft.address
       /\ ft'.aborted = ft.aborted /\ ft'.state = ft.state /\ ft'.prepared = ft.prepared
       /\ ft'.opening = ft.opening /\ ft'.setting = ft.setting /\ ft'.calling = 0
       /\ ft'.failing = ft.failing + ft.calling /\ ft'.starts = ft.starts
       /\ ft'.calls = ft.calls /\ ft'.answers = ft.answers /\ ft'.refused = ft.refused
  BY <1>5, <1>6, <1>8, <1>9, <1>11, <1>12, <1>14, <1>15
<1>17. Types'
  BY <1>1, <1>13 DEF Types
<1>18. Silence' /\ Replies'
  <2>1. svc.unanswered <= 1 /\ svc.unanswered <= svc.asked
    BY DEF IInv, Replies
  <2> QED
    BY <1>1, <1>2, <2>1 DEF Silence, Replies
<1>19. OneCall'
  <2>1. ft'.opening + ft'.setting + ft'.calling + ft'.failing = (IF ft'.result THEN 1 ELSE 0)
    BY <1>1, <1>16 DEF IInv, OneCall
  <2>2. ~ft.param => ft'.failing = 0
    BY <1>1, <1>16 DEF IInv, OneCall
  <2> QED
    BY <1>1, <1>16, <2>1, <2>2 DEF IInv, OneCall
<1>20. InOrder'
  BY <1>1, <1>2, <1>16 DEF IInv, InOrder, Begun
<1>21. Starts'
  BY <1>16 DEF IInv, Starts
<1> QED
  BY <1>17, <1>18, <1>19, <1>20, <1>21 DEF IInv

(* What the messages after the first will find is what they were to find.   *)
LEMMA ReceiveFacts ==
  ASSUME IInv, Receive
  PROVE  /\ Head(wire) \in Messages /\ wire[1] = Head(wire) /\ 1 \in DOMAIN wire
         /\ wire' \in Seq(Messages) /\ svc' = svc /\ ft.valid
         /\ DOMAIN wire \subseteq Nat \ {0} /\ DOMAIN wire' \subseteq Nat \ {0}
         /\ \A i \in DOMAIN wire' : i + 1 \in DOMAIN wire /\ wire'[i] = wire[i + 1]
         /\ \A i \in DOMAIN wire : i = 1 \/ (i - 1 \in DOMAIN wire' /\ wire'[i - 1] = wire[i])
<1>1. wire \in Seq(Messages) /\ wire # <<>> /\ wire' = Tail(wire) /\ svc' = svc /\ ft.valid
  BY DEF IInv, Types, Receive
<1>2. /\ Head(wire) \in Messages /\ wire[1] = Head(wire) /\ 1 \in DOMAIN wire
      /\ wire' \in Seq(Messages) /\ DOMAIN wire' \subseteq Nat \ {0}
      /\ \A i \in DOMAIN wire' : i + 1 \in DOMAIN wire /\ wire'[i] = wire[i + 1]
  BY <1>1, TailFacts
<1>3. Len(wire) \in Nat /\ DOMAIN wire = 1..Len(wire)
  BY <1>1, LenProperties
<1>4. Len(wire') = Len(wire) - 1 /\ DOMAIN wire' = 1..Len(wire')
  BY <1>1, HeadTailProperties, LenProperties
<1>5. \A i \in DOMAIN wire : i = 1 \/ (i - 1 \in DOMAIN wire' /\ wire'[i - 1] = wire[i])
  <2> SUFFICES ASSUME NEW i \in DOMAIN wire, i # 1
               PROVE  i - 1 \in DOMAIN wire' /\ wire'[i - 1] = wire[i]
    OBVIOUS
  <2>1. i - 1 \in DOMAIN wire' /\ (i - 1) + 1 = i
    BY <1>3, <1>4
  <2> QED
    BY <1>2, <2>1
<1> QED
  BY <1>1, <1>2, <1>3, <1>5

LEMMA SeenAfter ==
  ASSUME IInv, Receive,
         ft'.state \in Begun <=> (ft.state \in Begun \/ Opens(Head(wire)))
  PROVE  /\ SeenAll' <=> SeenAll
         /\ \A i \in DOMAIN wire' : Seen(i)' <=> Seen(i + 1)
<1>1. /\ wire[1] = Head(wire) /\ 1 \in DOMAIN wire
      /\ DOMAIN wire \subseteq Nat \ {0} /\ DOMAIN wire' \subseteq Nat \ {0}
      /\ \A i \in DOMAIN wire' : i + 1 \in DOMAIN wire /\ wire'[i] = wire[i + 1]
      /\ \A i \in DOMAIN wire : i = 1 \/ (i - 1 \in DOMAIN wire' /\ wire'[i - 1] = wire[i])
  BY ReceiveFacts
<1>2. (\E j \in DOMAIN wire : Opens(wire[j]))
        <=> Opens(Head(wire)) \/ \E j \in DOMAIN wire' : Opens(wire'[j])
  BY <1>1
<1>3. ASSUME NEW i \in DOMAIN wire'
      PROVE  (\E j \in DOMAIN wire : j < i + 1 /\ Opens(wire[j]))
               <=> Opens(Head(wire)) \/ \E j \in DOMAIN wire' : j < i /\ Opens(wire'[j])
  <2>1. ASSUME NEW j \in DOMAIN wire, j < i + 1, Opens(wire[j]), j # 1
        PROVE  \E k \in DOMAIN wire' : k < i /\ Opens(wire'[k])
    <3>1. j - 1 \in DOMAIN wire' /\ wire'[j - 1] = wire[j] /\ j - 1 < i
      BY <1>1, <2>1
    <3> QED
      BY <2>1, <3>1
  <2>2. ASSUME NEW j \in DOMAIN wire', j < i, Opens(wire'[j])
        PROVE  \E k \in DOMAIN wire : k < i + 1 /\ Opens(wire[k])
    <3>1. j + 1 \in DOMAIN wire /\ wire'[j] = wire[j + 1] /\ j + 1 < i + 1
      BY <1>1, <2>2
    <3> QED
      BY <2>2, <3>1
  <2>3. 1 < i + 1
    BY <1>1
  <2> QED
    BY <1>1, <2>1, <2>2, <2>3
<1>4. SeenAll' <=> SeenAll
  BY <1>2 DEF SeenAll
<1>5. \A i \in DOMAIN wire' : Seen(i)' <=> Seen(i + 1)
  BY <1>3 DEF Seen
<1> QED
  BY <1>4, <1>5

LEMMA AnsweredAfter ==
  ASSUME IInv, Receive, ft'.address <=> (ft.address \/ Succeeds(Head(wire)))
  PROVE  /\ AnsweredAll' <=> AnsweredAll
         /\ \A i \in DOMAIN wire' : Answered(i)' <=> Answered(i + 1)
<1>1. /\ wire[1] = Head(wire) /\ 1 \in DOMAIN wire
      /\ DOMAIN wire \subseteq Nat \ {0} /\ DOMAIN wire' \subseteq Nat \ {0}
      /\ \A i \in DOMAIN wire' : i + 1 \in DOMAIN wire /\ wire'[i] = wire[i + 1]
      /\ \A i \in DOMAIN wire : i = 1 \/ (i - 1 \in DOMAIN wire' /\ wire'[i - 1] = wire[i])
  BY ReceiveFacts
<1>2. (\E j \in DOMAIN wire : Succeeds(wire[j]))
        <=> Succeeds(Head(wire)) \/ \E j \in DOMAIN wire' : Succeeds(wire'[j])
  BY <1>1
<1>3. ASSUME NEW i \in DOMAIN wire'
      PROVE  (\E j \in DOMAIN wire : j < i + 1 /\ Succeeds(wire[j]))
               <=> Succeeds(Head(wire)) \/ \E j \in DOMAIN wire' : j < i /\ Succeeds(wire'[j])
  <2>1. ASSUME NEW j \in DOMAIN wire, j < i + 1, Succeeds(wire[j]), j # 1
        PROVE  \E k \in DOMAIN wire' : k < i /\ Succeeds(wire'[k])
    <3>1. j - 1 \in DOMAIN wire' /\ wire'[j - 1] = wire[j] /\ j - 1 < i
      BY <1>1, <2>1
    <3> QED
      BY <2>1, <3>1
  <2>2. ASSUME NEW j \in DOMAIN wire', j < i, Succeeds(wire'[j])
        PROVE  \E k \in DOMAIN wire : k < i + 1 /\ Succeeds(wire[k])
    <3>1. j + 1 \in DOMAIN wire /\ wire'[j] = wire[j + 1] /\ j + 1 < i + 1
      BY <1>1, <2>2
    <3> QED
      BY <2>2, <3>1
  <2>3. 1 < i + 1
    BY <1>1
  <2> QED
    BY <1>1, <2>1, <2>2, <2>3
<1>4. AnsweredAll' <=> AnsweredAll
  BY <1>2 DEF AnsweredAll
<1>5. \A i \in DOMAIN wire' : Answered(i)' <=> Answered(i + 1)
  BY <1>3 DEF Answered
<1> QED
  BY <1>4, <1>5

(* So the messages that are left go on arriving in order, and at most one reply
   among them. *)
LEMMA OrderAfter ==
  ASSUME IInv, Receive, ft' \in TpFileTransferChannel, ft'.param = ft.param, ft'.valid = ft.valid,
         ft'.state \in Begun <=> (ft.state \in Begun \/ Opens(Head(wire))),
         ft'.address <=> (ft.address \/ Succeeds(Head(wire))),
         ft'.state = "completed" => ft'.address,
         Head(wire).type = "reply" \/ ft'.calling = ft.calling
  PROVE  Types' /\ Silence' /\ InOrder' /\ Replies'
<1>1. /\ Head(wire) \in Messages /\ wire[1] = Head(wire) /\ 1 \in DOMAIN wire
      /\ wire' \in Seq(Messages) /\ svc' = svc /\ ft.valid
      /\ DOMAIN wire' \subseteq Nat \ {0}
      /\ \A i \in DOMAIN wire' : i + 1 \in DOMAIN wire /\ wire'[i] = wire[i + 1]
  BY ReceiveFacts
<1>2. SeenAll' <=> SeenAll
  BY SeenAfter
<1>3. \A i \in DOMAIN wire' : Seen(i)' <=> Seen(i + 1)
  BY SeenAfter
<1>4. AnsweredAll' <=> AnsweredAll
  BY AnsweredAfter
<1>5. \A i \in DOMAIN wire' : Answered(i)' <=> Answered(i + 1)
  BY AnsweredAfter
<1>6. Types'
  BY <1>1 DEF IInv, Types
<1>7. Silence'
  BY <1>1 DEF IInv, Silence
<1>8. InOrder'
  <2>1. ASSUME NEW i \in DOMAIN wire'
        PROVE  /\ Opens(wire'[i]) => ~Seen(i)' /\ ft'.param
               /\ wire'[i].type \in {"all", "state"} /\ ~Opens(wire'[i]) =>
                    (wire'[i].state \in Begun <=> Seen(i)')
               /\ wire'[i].state = "completed" => Answered(i)'
    <3>1. i + 1 \in DOMAIN wire /\ wire'[i] = wire[i + 1] /\ (Seen(i)' <=> Seen(i + 1))
          /\ (Answered(i)' <=> Answered(i + 1))
      BY <1>1, <1>3, <1>5
    <3> QED
      BY <3>1 DEF IInv, InOrder
  <2> QED
    BY <1>1, <1>2, <2>1 DEF IInv, InOrder
<1>9. Replies'
  <2>1. ASSUME NEW i \in DOMAIN wire', wire'[i].type = "reply"
        PROVE  /\ ft'.calling = 1 /\ svc'.unanswered = 0
               /\ \A j \in DOMAIN wire' : wire'[j].type = "reply" => i = j
    <3>1. i + 1 \in DOMAIN wire /\ wire[i + 1].type = "reply" /\ i + 1 # 1 /\ i \in Nat
      BY <1>1, <2>1
    <3>2. Head(wire).type # "reply" /\ ft.calling = 1 /\ svc.unanswered = 0
      BY <1>1, <3>1 DEF IInv, Replies
    <3>3. ASSUME NEW j \in DOMAIN wire', wire'[j].type = "reply"
          PROVE  i = j
      <4>1. j + 1 = i + 1
        BY <1>1, <3>1, <3>3 DEF IInv, Replies
      <4> QED
        BY <1>1, <3>1, <4>1
    <3> QED
      BY <1>1, <3>2, <3>3
  <2>2. svc'.unanswered > 0 /\ svc'.state # "closed" => ft'.calling = 1
    BY <1>1 DEF IInv, Replies
  <2> QED
    BY <1>1, <1>4, <2>1, <2>2 DEF IInv, Replies
<1> QED
  BY <1>6, <1>7, <1>8, <1>9

(* The properties of the channel's file. *)
LEMMA AllStep ==
  ASSUME IInv, Receive, Head(wire).type = "all"
  PROVE  IInv'
<1> DEFINE m == Head(wire)
           p == IF m.ok THEN "ready" ELSE "failed"
           s == IF m.ok THEN m.state ELSE ft.state
           v == [ft EXCEPT !.prepared = p]
<1>1. /\ m \in Messages /\ wire[1] = m /\ 1 \in DOMAIN wire /\ ft \in TpFileTransferChannel
      /\ m.type = "all"
  BY ReceiveFacts DEF IInv, Types
<1>2. ft' = [v EXCEPT !.state = s]
  BY <1>1 DEF Receive, Got, prepare_core, TpFileTransferChannel
<1>3. p \in {"ready", "failed"} /\ s \in SvcStates \cup {"none"} /\ (s = "none" => ft.state = "none")
  BY <1>1 DEF Messages, TpFileTransferChannel, SvcStates
<1>4. (s \in Begun <=> ft.state \in Begun) /\ (s = "completed" => ft.address)
  <2>1. (m.state \in Begun <=> Seen(1)) /\ (m.state = "completed" => Answered(1))
    BY <1>1 DEF IInv, InOrder, Opens
  <2>2. ~\E j \in DOMAIN wire : j < 1
    BY ReceiveFacts
  <2>3. (Seen(1) <=> ft.state \in Begun) /\ (Answered(1) <=> ft.address)
    BY <2>2 DEF Seen, Answered
  <2>4. ft.state = "completed" => ft.address
    BY DEF IInv, InOrder
  <2> QED
    BY <2>1, <2>3, <2>4
<1> HIDE DEF m, p, s
<1>5. v \in TpFileTransferChannel
  BY <1>1, <1>3 DEF TpFileTransferChannel
<1>6. /\ v.result = ft.result /\ v.param = ft.param /\ v.address = ft.address
      /\ v.valid = ft.valid /\ v.aborted = ft.aborted
  BY <1>1, <1>3, ZenonT(40) DEF TpFileTransferChannel
<1>7. /\ v.state = ft.state /\ v.prepared = p /\ v.opening = ft.opening
      /\ v.setting = ft.setting /\ v.calling = ft.calling /\ v.failing = ft.failing
      /\ v.starts = ft.starts /\ v.calls = ft.calls /\ v.answers = ft.answers
      /\ v.refused = ft.refused
  BY <1>1, <1>3 DEF TpFileTransferChannel
<1> HIDE DEF v
<1>8. ft' \in TpFileTransferChannel
  BY <1>2, <1>3, <1>5 DEF TpFileTransferChannel
<1>9. /\ ft'.result = v.result /\ ft'.param = v.param /\ ft'.address = v.address
      /\ ft'.valid = v.valid /\ ft'.aborted = v.aborted
  BY <1>2, <1>3, <1>5, ZenonT(40) DEF TpFileTransferChannel
<1>10. /\ ft'.state = s /\ ft'.prepared = v.prepared /\ ft'.opening = v.opening
      /\ ft'.setting = v.setting /\ ft'.calling = v.calling /\ ft'.failing = v.failing
      /\ ft'.starts = v.starts /\ ft'.calls = v.calls /\ ft'.answers = v.answers
      /\ ft'.refused = v.refused
  BY <1>2, <1>3, <1>5 DEF TpFileTransferChannel
<1>11. /\ ft'.result = ft.result /\ ft'.param = ft.param /\ ft'.address = ft.address
       /\ ft'.valid = ft.valid /\ ft'.aborted = ft.aborted /\ ft'.state = s
       /\ ft'.prepared = p /\ ft'.opening = ft.opening /\ ft'.setting = ft.setting
       /\ ft'.calling = ft.calling /\ ft'.failing = ft.failing /\ ft'.starts = ft.starts
       /\ ft'.calls = ft.calls /\ ft'.answers = ft.answers /\ ft'.refused = ft.refused
  BY <1>6, <1>7, <1>9, <1>10
<1>12. ~Opens(Head(wire)) /\ ~Succeeds(Head(wire))
  BY DEF Opens, Succeeds
<1>13. Types' /\ Silence' /\ InOrder' /\ Replies'
  <2>1. ft'.state \in Begun <=> (ft.state \in Begun \/ Opens(Head(wire)))
    BY <1>4, <1>11, <1>12
  <2>2. ft'.address <=> (ft.address \/ Succeeds(Head(wire)))
    BY <1>11, <1>12
  <2>3. ft'.state = "completed" => ft'.address
    BY <1>4, <1>11
  <2>4. ft'.param = ft.param /\ ft'.valid = ft.valid /\ ft'.calling = ft.calling
    BY <1>11
  <2> QED
    BY <1>8, <2>1, <2>2, <2>3, <2>4, OrderAfter
<1>14. svc' = svc
  BY DEF Receive
<1>15. OneCall'
  BY <1>3, <1>11, <1>14 DEF IInv, OneCall
<1>16. Starts'
  BY <1>4, <1>11 DEF IInv, Starts
<1> QED
  BY <1>13, <1>15, <1>16 DEF IInv

(* FileTransferStateChanged. *)
LEMMA StateStep ==
  ASSUME IInv, Receive, Head(wire).type = "state"
  PROVE  IInv'
<1> DEFINE m == Head(wire)
<1>1. /\ m \in Messages /\ wire[1] = m /\ 1 \in DOMAIN wire /\ ft \in TpFileTransferChannel
      /\ m.type = "state"
  BY ReceiveFacts DEF IInv, Types
<1>2. m.state \in SvcStates
  BY <1>1 DEF Messages
<1>3. /\ m.state = "open" => ft.state \notin Begun /\ ft.prepared # "no"
      /\ m.state # "open" => (m.state \in Begun <=> ft.state \in Begun)
      /\ m.state = "completed" => ft.address /\ ft.state \in Begun
  <2>1. /\ m.state = "open" => ~Seen(1) /\ ft.param
        /\ m.state # "open" => (m.state \in Begun <=> Seen(1))
        /\ m.state = "completed" => Answered(1)
    BY <1>1 DEF IInv, InOrder, Opens
  <2>2. ~\E j \in DOMAIN wire : j < 1
    BY ReceiveFacts
  <2>3. (Seen(1) <=> ft.state \in Begun) /\ (Answered(1) <=> ft.address)
    BY <2>2 DEF Seen, Answered
  <2>4. ft.param => ft.prepared # "no"
    BY DEF IInv, OneCall
  <2> QED
    BY <2>1, <2>3, <2>4 DEF Begun
<1>4. (Opens(m) <=> m.state = "open") /\ ~Succeeds(m)
  BY <1>1 DEF Opens, Succeeds
<1>5. CASE ft.prepared = "no"
  <2>1. ft' = ft
    BY <1>1, <1>5 DEF Receive, Got
  <2>2. ft'.state \in Begun <=> (ft.state \in Begun \/ Opens(Head(wire)))
    BY <1>3, <1>4, <1>5, <2>1
  <2>3. ft'.address <=> (ft.address \/ Succeeds(Head(wire)))
    BY <1>4, <2>1
  <2>4. ft'.state = "completed" => ft'.address
    BY <2>1 DEF IInv, InOrder
  <2>5. Types' /\ Silence' /\ InOrder' /\ Replies'
    BY <1>1, <2>1, <2>2, <2>3, <2>4, OrderAfter
  <2>6. svc' = svc
    BY DEF Receive
  <2>7. OneCall' /\ Starts'
    BY <2>1, <2>6 DEF IInv, OneCall, Starts
  <2> QED
    BY <2>5, <2>7 DEF IInv
<1>6. CASE ft.prepared # "no"
  <2>1. ft' = StateChanged(ft, m.state)
    BY <1>1, <1>6 DEF Receive, Got
  <2> HIDE DEF m
  <2>2. /\ ft' \in TpFileTransferChannel /\ SameCall(ft', ft) /\ SameStages(ft', ft)
        /\ SameRest(ft', ft) /\ ft'.state = m.state /\ ft'.address = ft.address
        /\ ft'.starts = ft.starts
             + (IF m.state = "open" /\ ft.address /\ ft.state # m.state THEN 1 ELSE 0)
    BY <1>1, <1>2, <2>1, StateChangedFacts
  <2>3. /\ ft'.result = ft.result /\ ft'.param = ft.param /\ ft'.valid = ft.valid
        /\ ft'.aborted = ft.aborted /\ ft'.prepared = ft.prepared /\ ft'.opening = ft.opening
        /\ ft'.setting = ft.setting /\ ft'.calling = ft.calling /\ ft'.failing = ft.failing
        /\ ft'.calls = ft.calls /\ ft'.answers = ft.answers /\ ft'.refused = ft.refused
    BY <2>2 DEF SameCall, SameStages, SameRest
  <2>4. m.state \in Begun <=> (ft.state \in Begun \/ m.state = "open")
    BY <1>3 DEF Begun
  <2>5. ft'.state \in Begun <=> (ft.state \in Begun \/ Opens(Head(wire)))
    BY <1>4, <2>2, <2>4 DEF m
  <2>6. ft'.address <=> (ft.address \/ Succeeds(Head(wire)))
    BY <1>4, <2>2 DEF m
  <2>7. ft'.state = "completed" => ft'.address
    BY <1>3, <2>2
  <2>8. Types' /\ Silence' /\ InOrder' /\ Replies'
    BY <2>2, <2>3, <2>5, <2>6, <2>7, OrderAfter, ZenonT(60)
  <2>9. svc' = svc
    BY DEF Receive
  <2>10. OneCall'
    BY <1>6, <2>2, <2>3, <2>9 DEF IInv, OneCall
  <2>11. Starts'
    <3>1. ft.starts \in Nat
      BY <1>1 DEF TpFileTransferChannel
    <3>2. ft'.starts = (IF ft'.address /\ ft'.state \in Begun THEN 1 ELSE 0)
      <4>1. ft.starts = (IF ft.address /\ ft.state \in Begun THEN 1 ELSE 0)
        BY DEF IInv, Starts
      <4>2. CASE m.state = "open"
        <5>1. ft.state \notin Begun /\ ft.state # m.state /\ m.state \in Begun
          BY <1>3, <4>2 DEF Begun
        <5> QED
          BY <2>2, <4>1, <4>2, <5>1
      <4>3. CASE m.state # "open"
        BY <1>3, <2>2, <3>1, <4>1, <4>3
      <4> QED
        BY <4>2, <4>3
    <3> QED
      BY <2>3, <3>2 DEF IInv, Starts
  <2> QED
    BY <2>8, <2>10, <2>11 DEF IInv
<1> QED
  BY <1>5, <1>6

(* accept_or_provide_file_cb. *)
LEMMA ReplyStep ==
  ASSUME IInv, Receive, Head(wire).type = "reply"
  PROVE  IInv'
<1> DEFINE m == Head(wire)
           t == [ft EXCEPT !.calling = @ - 1]
<1>1. /\ m \in Messages /\ wire[1] = m /\ 1 \in DOMAIN wire /\ ft \in TpFileTransferChannel
      /\ m.type = "reply" /\ svc' = svc
      /\ ft.opening \in Nat /\ ft.setting \in Nat /\ ft.calling \in Nat /\ ft.failing \in Nat
      /\ ft.starts \in Nat /\ ft.answers \in Nat
  BY ReceiveFacts DEF IInv, Types, TpFileTransferChannel
<1>2. /\ ft.calling = 1 /\ svc.unanswered = 0
  BY <1>1 DEF IInv, Replies
<1>3. /\ ft.result /\ ft.opening = 0 /\ ft.setting = 0 /\ ft.failing = 0 /\ ft.param
      /\ ~ft.address /\ ft.state # "completed" /\ ft.prepared # "no" /\ ft.starts = 0
  <2>1. ft.result /\ ft.opening = 0 /\ ft.setting = 0 /\ ft.failing = 0
    BY <1>1, <1>2 DEF IInv, OneCall
  <2>2. ft.param /\ ~ft.address /\ ft.prepared # "no"
    BY <1>2, <2>1 DEF IInv, OneCall
  <2>3. ft.state # "completed" /\ ft.starts = 0
    BY <2>2 DEF IInv, InOrder, Starts
  <2> QED
    BY <2>1, <2>2, <2>3
<1>4. t \in TpFileTransferChannel
  BY <1>1, <1>2 DEF TpFileTransferChannel
<1>5. /\ t.result = ft.result /\ t.param = ft.param /\ t.address = ft.address
      /\ t.valid = ft.valid /\ t.aborted = ft.aborted
  BY <1>1, <1>2, ZenonT(40) DEF TpFileTransferChannel
<1>6. /\ t.state = ft.state /\ t.prepared = ft.prepared /\ t.opening = ft.opening
      /\ t.setting = ft.setting /\ t.calling = 0 /\ t.failing = ft.failing
      /\ t.starts = ft.starts /\ t.calls = ft.calls /\ t.answers = ft.answers
      /\ t.refused = ft.refused
  BY <1>1, <1>2 DEF TpFileTransferChannel
<1>7. \E u \in TpFileTransferChannel :
        /\ ft' = Answer(u) /\ SameCall(u, t) /\ SameStages(u, t) /\ SameRest(u, t)
        /\ u.state = t.state /\ (u.address <=> m.ok)
        /\ u.starts = (IF m.ok /\ t.state = "open" THEN 1 ELSE 0)
  <2>1. CASE m.ok
    <3> DEFINE u == OnReply(t)
    <3>1. ft' = Answer(u)
      BY <1>1, <2>1 DEF Receive, Got
    <3> HIDE DEF t
    <3>2. /\ u \in TpFileTransferChannel /\ SameCall(u, t) /\ SameStages(u, t)
          /\ SameRest(u, t) /\ u.state = t.state /\ u.address = TRUE
          /\ u.starts = t.starts + (IF t.state = "open" THEN 1 ELSE 0)
      BY <1>4, OnReplyFacts, Zenon
    <3> HIDE DEF u
    <3>3. u.starts = (IF t.state = "open" THEN 1 ELSE 0)
      BY <1>3, <1>6, <3>2
    <3> QED
      BY <2>1, <3>1, <3>2, <3>3
  <2>2. CASE ~m.ok
    <3>1. ft' = Answer(t)
      BY <1>1, <2>2 DEF Receive, Got
    <3> HIDE DEF t
    <3>2. SameCall(t, t) /\ SameStages(t, t) /\ SameRest(t, t) /\ t.starts = 0 /\ ~t.address
      BY <1>3, <1>5, <1>6 DEF SameCall, SameStages, SameRest
    <3> QED
      BY <1>4, <2>2, <3>1, <3>2
  <2> QED
    BY <2>1, <2>2
<1> HIDE DEF t
<1>8. PICK u \in TpFileTransferChannel :
        /\ ft' = Answer(u) /\ SameCall(u, t) /\ SameStages(u, t) /\ SameRest(u, t)
        /\ u.state = t.state /\ (u.address <=> m.ok)
        /\ u.starts = (IF m.ok /\ t.state = "open" THEN 1 ELSE 0)
  BY <1>7
<1>9. /\ ft' \in TpFileTransferChannel /\ SameStages(ft', u) /\ SameTransfer(ft', u)
      /\ SameRest(ft', u) /\ ft'.result = FALSE
      /\ ft'.answers = u.answers + (IF u.result THEN 1 ELSE 0)
      /\ u.result => ft'.aborted = u.aborted
  BY <1>8, AnswerFacts, ZenonT(60)
<1> HIDE DEF m
<1>10. /\ u.result = t.result /\ u.answers = t.answers /\ u.aborted = t.aborted
       /\ u.param = t.param /\ u.opening = t.opening /\ u.setting = t.setting
       /\ u.calling = t.calling /\ u.failing = t.failing
       /\ u.prepared = t.prepared /\ u.valid = t.valid /\ u.calls = t.calls
       /\ u.refused = t.refused
  BY <1>8 DEF SameCall, SameStages, SameRest
<1>11. /\ ft'.param = u.param /\ ft'.opening = u.opening /\ ft'.setting = u.setting
       /\ ft'.calling = u.calling /\ ft'.failing = u.failing
       /\ ft'.prepared = u.prepared /\ ft'.valid = u.valid /\ ft'.calls = u.calls
       /\ ft'.refused = u.refused /\ ft'.state = u.state /\ ft'.address = u.address
       /\ ft'.starts = u.starts
  BY <1>9 DEF SameStages, SameTransfer, SameRest
<1>12. /\ ft'.result = FALSE /\ ft'.aborted = ft.aborted /\ ft'.param = ft.param
       /\ ft'.opening = 0 /\ ft'.setting = 0 /\ ft'.calling = 0 /\ ft'.failing = 0
       /\ ft'.prepared = ft.prepared /\ ft'.valid = ft.valid
  BY <1>3, <1>5, <1>6, <1>9, <1>10, <1>11
<1>13. /\ ft'.answers = ft.answers + 1 /\ ft'.calls = ft.calls /\ ft'.refused = ft.refused
       /\ ft'.state = ft.state
  <2>1. u.result
    BY <1>3, <1>5, <1>10
  <2> QED
    BY <1>6, <1>8, <1>9, <1>10, <1>11, <2>1
<1>14. (ft'.address <=> m.ok) /\ ft'.starts = (IF m.ok /\ ft.state = "open" THEN 1 ELSE 0)
  BY <1>6, <1>8, <1>11
<1>15. ~Opens(m) /\ (Succeeds(m) <=> m.ok)
  BY <1>1, ZenonT(60) DEF Opens, Succeeds
<1>16. Types' /\ Silence' /\ InOrder' /\ Replies'
  <2>1. ft'.state \in Begun <=> (ft.state \in Begun \/ Opens(Head(wire)))
    BY <1>13, <1>15 DEF m
  <2>2. ft'.address <=> (ft.address \/ Succeeds(Head(wire)))
    BY <1>3, <1>14, <1>15 DEF m
  <2>3. ft'.state # "completed"
    BY <1>3, <1>13
  <2> QED
    BY <1>9, <1>12, <2>1, <2>2, <2>3, OrderAfter
<1>17. OneCall'
  BY <1>1, <1>3, <1>12 DEF IInv, OneCall
<1>18. Starts'
  <2>1. ft.state \in Begun <=> ft.state = "open"
    BY <1>3 DEF Begun
  <2>2. ft'.starts = (IF ft'.address /\ ft'.state \in Begun THEN 1 ELSE 0)
    BY <1>13, <1>14, <2>1
  <2>3. ft.refused \in Nat
    BY <1>1 DEF TpFileTransferChannel
  <2>4. ft'.answers + ft'.refused + 0 = ft.answers + ft.refused + 1
    BY <1>1, <1>13, <2>3
  <2> QED
    BY <1>3, <1>12, <1>13, <2>2, <2>4 DEF IInv, Starts
<1> QED
  BY <1>16, <1>17, <1>18 DEF IInv

(* The connection manager says something: what it has to be for the invariant to
   go on. *)
LEMMA SayStep ==
  ASSUME IInv, NEW m \in Messages, Say(m), ft' = ft, svc.state # "closed", svc' \in Service,
         m.type = "closed" => svc'.state = "closed",
         \/ ft.param
         \/ svc'.asked = svc.asked /\ svc'.unanswered = svc.unanswered /\ ~svc'.replied,
         svc'.unanswered = (IF m.type = "reply" THEN svc.unanswered - 1 ELSE svc.unanswered),
         m.type = "reply" => svc.unanswered > 0, svc'.unanswered <= svc'.asked,
         svc'.replied => svc.replied \/ Succeeds(m),
         Opens(m) => svc.state \notin Begun /\ ft.param /\ svc'.state \in Begun,
         m.type \in {"all", "state"} /\ ~Opens(m) => (m.state \in Begun <=> svc.state \in Begun),
         m.state = "completed" => svc.replied,
         svc'.state # "closed" => (svc'.state \in Begun <=> svc.state \in Begun \/ Opens(m)),
         svc'.state = "completed" => svc'.replied
  PROVE  IInv'
<1>1. /\ ft \in TpFileTransferChannel /\ svc \in Service /\ wire \in Seq(Messages)
      /\ wire' = Append(wire, m) /\ svc.unanswered \in Nat
  BY DEF IInv, Types, Say, Service
<1>2. PICK n \in Nat : /\ n \notin DOMAIN wire /\ DOMAIN wire' = DOMAIN wire \cup {n}
                       /\ wire'[n] = m
                       /\ \A i \in DOMAIN wire : i \in Nat /\ i < n /\ wire'[i] = wire[i]
  BY <1>1, AppendFacts
<1>3. wire' \in Seq(Messages)
  BY <1>1, AppendFacts
<1>4. /\ \A i \in DOMAIN wire : (Seen(i)' <=> Seen(i)) /\ (Answered(i)' <=> Answered(i))
      /\ (Seen(n)' <=> SeenAll) /\ (Answered(n)' <=> AnsweredAll)
      /\ (SeenAll' <=> SeenAll \/ Opens(m)) /\ (AnsweredAll' <=> AnsweredAll \/ Succeeds(m))
  <2>1. ASSUME NEW i \in DOMAIN wire
        PROVE  (Seen(i)' <=> Seen(i)) /\ (Answered(i)' <=> Answered(i))
    <3>1. /\ \A j \in DOMAIN wire' : j < i => j \in DOMAIN wire /\ wire'[j] = wire[j]
          /\ \A j \in DOMAIN wire : j \in DOMAIN wire' /\ wire'[j] = wire[j]
      BY <1>2, <2>1
    <3> QED
      BY <3>1 DEF Seen, Answered
  <2>2. (Seen(n)' <=> SeenAll) /\ (Answered(n)' <=> AnsweredAll)
    <3>1. /\ \A j \in DOMAIN wire' : j < n => j \in DOMAIN wire /\ wire'[j] = wire[j]
          /\ \A j \in DOMAIN wire : j \in DOMAIN wire' /\ j < n /\ wire'[j] = wire[j]
      BY <1>2
    <3> QED
      BY <3>1 DEF Seen, Answered, SeenAll, AnsweredAll
  <2>3. (SeenAll' <=> SeenAll \/ Opens(m)) /\ (AnsweredAll' <=> AnsweredAll \/ Succeeds(m))
    BY <1>2 DEF SeenAll, AnsweredAll
  <2> QED
    BY <2>1, <2>2, <2>3
<1>5. Types'
  BY <1>1, <1>3 DEF Types
<1>6. ft.valid
  BY DEF IInv, Silence
<1>7. Silence'
  BY <1>2, <1>6 DEF IInv, Silence
<1>8. OneCall'
  BY DEF IInv, OneCall
<1>9. Replies'
  <2>1. svc.unanswered <= 1 /\ (svc.unanswered > 0 => ft.calling = 1)
    BY DEF IInv, Replies
  <2>2. CASE m.type = "reply"
    <3>1. svc.unanswered = 1 /\ svc'.unanswered = 0 /\ ft.calling = 1
      BY <1>1, <2>1, <2>2
    <3>2. \A i \in DOMAIN wire : wire[i].type # "reply"
      BY <3>1 DEF IInv, Replies
    <3>3. svc'.replied /\ svc'.state # "closed" => AnsweredAll'
      BY <1>4 DEF IInv, Replies
    <3> QED
      BY <1>2, <3>1, <3>2, <3>3 DEF Replies
  <2>3. CASE m.type # "reply"
    <3>1. svc'.unanswered = svc.unanswered
      BY <2>3
    <3>2. svc'.replied /\ svc'.state # "closed" => AnsweredAll'
      BY <1>4 DEF IInv, Replies
    <3>3. \A i \in DOMAIN wire' : wire'[i].type = "reply" => i \in DOMAIN wire /\ wire[i].type = "reply"
      BY <1>2, <2>3
    <3>4. svc'.unanswered <= 1 /\ svc'.unanswered <= svc'.asked
          /\ (svc'.unanswered > 0 => ft'.calling = 1)
      BY <2>1, <3>1, Zenon
    <3> QED
      BY <3>1, <3>2, <3>3, <3>4 DEF IInv, Replies
  <2> QED
    BY <2>2, <2>3
<1>10. InOrder'
  <2>1. ASSUME NEW i \in DOMAIN wire'
        PROVE  /\ Opens(wire'[i]) => ~Seen(i)' /\ ft'.param
               /\ wire'[i].type \in {"all", "state"} /\ ~Opens(wire'[i]) =>
                    (wire'[i].state \in Begun <=> Seen(i)')
               /\ wire'[i].state = "completed" => Answered(i)'
    <3>1. CASE i \in DOMAIN wire
      <4>1. wire'[i] = wire[i] /\ (Seen(i)' <=> Seen(i)) /\ (Answered(i)' <=> Answered(i))
        BY <1>2, <1>4, <3>1, Zenon
      <4> QED
        BY <3>1, <4>1, Zenon DEF IInv, InOrder
    <3>2. CASE i = n
      <4>1. wire'[i] = m /\ (Seen(i)' <=> SeenAll) /\ (Answered(i)' <=> AnsweredAll)
        BY <1>2, <1>4, <3>2, ZenonT(60)
      <4>2. SeenAll <=> svc.state \in Begun
        BY DEF IInv, InOrder
      <4>3. svc.replied => AnsweredAll
        BY Zenon DEF IInv, Replies
      <4> QED
        BY <4>1, <4>2, <4>3, Zenon
    <3> QED
      BY <1>2, <3>1, <3>2, Zenon
  <2>2. svc'.state # "closed" => (svc'.state \in Begun <=> SeenAll')
    BY <1>4, ZenonT(60) DEF IInv, InOrder
  <2>3. svc'.state \in Begun => ft'.param
    <3>1. "closed" \notin Begun
      BY DEF Begun
    <3> QED
      BY <3>1 DEF IInv, InOrder
  <2> QED
    BY <2>1, <2>2, <2>3, Zenon DEF IInv, InOrder
<1>11. Starts'
  BY DEF IInv, Starts
<1> QED
  BY <1>5, <1>7, <1>8, <1>9, <1>10, <1>11 DEF IInv

LEMMA ServiceStep ==
  ASSUME IInv, SvcGetAll \/ SvcChangeState \/ SvcReply \/ SvcClose
  PROVE  IInv'
<1>1. svc \in Service /\ ft' = ft /\ svc.asked \in Nat /\ svc.unanswered \in Nat
  BY ZenonT(40) DEF IInv, Types, SvcGetAll, SvcChangeState, SvcReply, SvcClose, Service
<1>2. ~ft.param => svc.asked = 0 /\ svc.unanswered = 0 /\ ~svc.replied
  BY DEF IInv, OneCall
<1>3. svc.state = "completed" => svc.replied
  BY DEF IInv, InOrder
<1>4. svc.unanswered <= 1 /\ svc.unanswered <= svc.asked
  BY DEF IInv, Replies
<1>5. CASE SvcGetAll
  <2>1. PICK ok \in BOOLEAN : Say([type |-> "all", ok |-> ok, state |-> svc.state])
    BY <1>5 DEF SvcGetAll
  <2> DEFINE m == [type |-> "all", ok |-> ok, state |-> svc.state]
  <2>2. m \in Messages /\ m.type = "all" /\ m.state = svc.state /\ ~Opens(m) /\ ~Succeeds(m)
    BY <1>1 DEF Messages, Service, Opens, Succeeds
  <2>3. svc' = [svc EXCEPT !.prepare = FALSE] /\ svc.state # "closed" /\ Say(m)
    BY <1>5, <2>1 DEF SvcGetAll
  <2>4. /\ svc' \in Service /\ svc'.state = svc.state /\ svc'.asked = svc.asked
        /\ svc'.unanswered = svc.unanswered
    BY <1>1, <2>3, Zenon DEF Service
  <2>5. svc'.replied = svc.replied
    BY <1>1, <2>3, ZenonT(40) DEF Service
  <2> HIDE DEF m
  <2> QED
    BY <1>1, <1>2, <1>3, <1>4, <2>2, <2>3, <2>4, <2>5, SayStep, Zenon
<1>6. CASE SvcChangeState
  <2>1. PICK s \in {"accepted", "open", "completed"} :
          /\ \/ s = "accepted" /\ svc.state = "pending"
             \/ s = "open" /\ svc.asked > 0 /\ svc.state \in {"accepted", "pending"}
             \/ s = "completed" /\ svc.state = "open" /\ svc.replied
          /\ svc' = [svc EXCEPT !.state = s]
          /\ Say([type |-> "state", ok |-> TRUE, state |-> s])
    BY <1>6, Zenon DEF SvcChangeState
  <2> DEFINE m == [type |-> "state", ok |-> TRUE, state |-> s]
  <2>2. /\ m \in Messages /\ m.type = "state" /\ m.state = s /\ (Opens(m) <=> s = "open")
        /\ ~Succeeds(m) /\ s \in SvcStates /\ Say(m)
    BY <2>1 DEF Messages, Opens, Succeeds, SvcStates
  <2>3. /\ svc' \in Service /\ svc'.state = s /\ svc'.asked = svc.asked
        /\ svc'.unanswered = svc.unanswered
    BY <1>1, <2>1, <2>2 DEF Service
  <2>4. svc'.replied = svc.replied
    BY <1>1, <2>1, ZenonT(40) DEF Service
  <2> HIDE DEF m
  <2>5. s = "open" => svc.state \notin Begun /\ ft.param
    BY <1>1, <1>2, <2>1 DEF Begun
  <2>6. /\ s # "open" => (s \in Begun <=> svc.state \in Begun)
        /\ s = "open" => s \in Begun
        /\ svc.state # "closed"
    BY <2>1 DEF Begun
  <2>7. s = "completed" => svc.replied
    BY <2>1
  <2>8. s \in Begun <=> svc.state \in Begun \/ Opens(m)
    BY <2>2, <2>6
  <2> QED
    BY <1>1, <1>2, <1>4, <2>2, <2>3, <2>4, <2>5, <2>6, <2>7, <2>8, SayStep
<1>7. CASE SvcReply
  <2>1. PICK ok \in BOOLEAN :
          /\ Say([type |-> "reply", ok |-> ok, state |-> "none"])
          /\ svc' = [svc EXCEPT !.asked = IF ok THEN @ ELSE @ - 1,
                                !.unanswered = @ - 1, !.replied = @ \/ ok]
    BY <1>7, ZenonT(40) DEF SvcReply
  <2>2. svc.unanswered = 1 /\ svc.state # "closed" /\ ft.param
    <3>1. svc.unanswered > 0 /\ svc.state # "closed"
      BY <1>7, Zenon DEF SvcReply
    <3> QED
      BY <1>1, <1>2, <1>4, <3>1, SMTT(30)
  <2> DEFINE m == [type |-> "reply", ok |-> ok, state |-> "none"]
             k == IF ok THEN svc.asked ELSE svc.asked - 1
             a == [svc EXCEPT !.asked = k]
             b == [a EXCEPT !.unanswered = 0]
  <2>3. m \in Messages /\ m.type = "reply" /\ m.state = "none" /\ ~Opens(m) /\ (Succeeds(m) <=> ok)
        /\ Say(m)
    BY <2>1 DEF Messages, Opens, Succeeds
  <2>4. svc' = [b EXCEPT !.replied = svc.replied \/ ok]
    BY <1>1, <2>1, <2>2 DEF Service
  <2>5. k \in Nat
    BY <1>1, <1>4, <2>2
  <2> HIDE DEF m, k
  <2>6. a \in Service /\ a.state = svc.state /\ a.asked = k
    BY <1>1, <2>5 DEF Service
  <2> HIDE DEF a
  <2>7. b \in Service /\ b.state = a.state /\ b.unanswered = 0 /\ b.asked = a.asked
    BY <2>6 DEF Service
  <2> HIDE DEF b
  <2>8. svc' \in Service /\ svc'.state = b.state /\ svc'.unanswered = b.unanswered
        /\ svc'.asked = b.asked
    BY <1>1, <2>4, <2>7 DEF Service
  <2>9. svc'.replied <=> svc.replied \/ ok
    BY <2>4, <2>7, ZenonT(40) DEF Service
  <2>10. svc'.state = svc.state /\ svc'.unanswered = svc.unanswered - 1
         /\ svc'.unanswered <= svc'.asked
    BY <2>2, <2>5, <2>6, <2>7, <2>8
  <2> QED
    BY <1>1, <1>3, <2>2, <2>3, <2>8, <2>9, <2>10, SayStep
<1>8. CASE SvcClose
  <2> DEFINE m == [type |-> "closed", ok |-> TRUE, state |-> "none"]
  <2>1. m \in Messages /\ m.type = "closed" /\ m.state = "none" /\ ~Opens(m) /\ ~Succeeds(m)
    BY DEF Messages, Opens, Succeeds
  <2>2. Say(m) /\ svc' = [svc EXCEPT !.state = "closed"] /\ svc.state # "closed"
    BY <1>8 DEF SvcClose
  <2>3. /\ svc' \in Service /\ svc'.state = "closed" /\ svc'.asked = svc.asked
        /\ svc'.unanswered = svc.unanswered
    BY <1>1, <2>2 DEF Service, SvcStates
  <2>4. svc'.replied = svc.replied
    BY <1>1, <2>2, ZenonT(40) DEF Service
  <2> HIDE DEF m
  <2> QED
    BY <1>1, <1>2, <1>3, <1>4, <2>1, <2>2, <2>3, <2>4, SayStep, ZenonT(60)
<1> QED
  BY <1>5, <1>6, <1>7, <1>8, Zenon

(* The invariant holds of every transfer whose user waits for an answer.    *)
THEOREM TransferInvariance ==
  SoundConstants /\ ~Overlap /\ Spec => []IInv
<1> SUFFICES ASSUME ~Overlap PROVE Spec => []IInv
  OBVIOUS
<1>1. Init => IInv
  BY InitIInv
<1>2. IInv /\ [Next]_vars => IInv'
  <2> SUFFICES ASSUME IInv, [Next]_vars PROVE IInv'
    OBVIOUS
  <2>1. CASE Prepare \/ SocketConnected \/ SpliceReady \/ StreamClosed
    BY <2>1, QuietSteps
  <2>2. CASE Start
    BY <2>2, StartStep
  <2>3. CASE FileOpened \/ UriSet
    BY <2>3, OpenedStep
  <2>4. CASE CallFailed
    BY <2>4, CallFailedStep
  <2>5. CASE Receive
    <3>1. Head(wire) \in Messages /\ Head(wire).type # "closed"
      BY <2>5, ReceiveFacts DEF Receive
    <3>2. Head(wire).type \in {"all", "state", "reply"}
      BY <3>1 DEF Messages
    <3> QED
      BY <2>5, <3>2, AllStep, StateStep, ReplyStep, ZenonT(60)
  <2>6. CASE Closed
    BY <2>6, ClosedStep
  <2>7. CASE SvcGetAll \/ SvcChangeState \/ SvcReply \/ SvcClose
    BY <2>7, ServiceStep
  <2>8. CASE UNCHANGED vars
    <3>1. ft' = ft /\ svc' = svc /\ UNCHANGED wire /\ ft \in TpFileTransferChannel /\ svc \in Service
      BY <2>8 DEF vars, IInv, Types
    <3> QED
      BY <3>1, QuietStep DEF SameCall, SameStages, SameTransfer
  <2> QED
    BY <2>1, <2>2, <2>3, <2>4, <2>5, <2>6, <2>7, <2>8 DEF Next
<1> QED
  BY <1>1, <1>2, PTL DEF Spec

(* The assertions of operation_failed hold, every accept_file_async and
   provide_file_async is answered once or has a callback that will answer it, and
   the transfer starts exactly once, when the later of the socket's address and of
   the state Open is there. *)
THEOREM FileTransfersAreRight ==
  SoundConstants /\ ~Overlap /\ Spec => []TransfersAreRight
<1>1. IInv => TransfersAreRight
  <2> SUFFICES ASSUME IInv PROVE TransfersAreRight
    OBVIOUS
  <2>1. /\ ft.opening \in Nat /\ ft.setting \in Nat /\ ft.calling \in Nat /\ ft.failing \in Nat
    BY DEF IInv, Types, TpFileTransferChannel
  <2>2. AssertionsHold
    BY DEF IInv, OneCall, AssertionsHold
  <2>3. AnsweredExactly
    BY <2>1 DEF IInv, OneCall, Starts, AnsweredExactly
  <2>4. StartsOnce
    BY DEF IInv, Starts, StartsOnce, Begun
  <2> QED
    BY <2>2, <2>3, <2>4 DEF TransfersAreRight
<1> QED
  BY <1>1, TransferInvariance, PTL

=============================================================================
