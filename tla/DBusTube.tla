------------------------------- MODULE DBusTube -------------------------------
(***************************************************************************)
(* TpDBusTubeChannel (dbus-tube-channel.c): offering or accepting a D-Bus  *)
(* tube prepares the channel, calls Offer or Accept, waits for the tube to *)
(* open, and connects to its address; one GSimpleAsyncResult answers the   *)
(* caller. The channel may close at any moment.                            *)
(***************************************************************************)
EXTENDS Naturals, Sequences, SequenceTheorems, TLAPS

CONSTANTS
  Requested,   \* TRUE: an outgoing tube (offered), FALSE: an incoming one
  MaxCalls,    \* bound on the calls of offer_async/accept_async
  MayClose     \* whether the channel may close

SoundConstants == Requested \in BOOLEAN /\ MayClose \in BOOLEAN /\ MaxCalls \in Nat

VARIABLES
  tube,   \* the TpDBusTubeChannel; pending is its Offer or Accept call
  wire,   \* messages from the connection manager, in order
  svc     \* the connection manager's side of the tube

vars == <<tube, wire, svc>>

First == IF Requested THEN "not_offered" ELSE "local_pending"

Init ==
  /\ tube = [result |-> FALSE, params |-> FALSE, state |-> "unset",
             address |-> FALSE, core |-> "no", preparing |-> FALSE,
             pending |-> "no", connecting |-> 0, valid |-> TRUE,
             calls |-> 0, answers |-> 0, opened |-> FALSE, aborted |-> FALSE]
  /\ wire = <<>>
  /\ svc = [state |-> First, asked |-> FALSE, replied |-> FALSE, get |-> FALSE]

-----------------------------------------------------------------------------
(* complete_operation: g_assert (priv->result != NULL), then the callback. *)

complete(t) ==
  IF t.result THEN [t EXCEPT !.result = FALSE, !.answers = @ + 1]
  ELSE [t EXCEPT !.aborted = TRUE]

(* BUG: the result is kept while and after its callback runs.              *)
completeKept(t) == [t EXCEPT !.answers = @ + 1]

complete_operation(t) == complete(t)

check_open(t) ==
  IF t.result /\ t.address /\ t.state = "open"
  THEN [t EXCEPT !.connecting = @ + 1] ELSE t

(* BUG: the address alone is enough to connect.                            *)
check_openEarly(t) ==
  IF t.result /\ t.address THEN [t EXCEPT !.connecting = @ + 1] ELSE t

check_tube_open(t) == check_open(t)

-----------------------------------------------------------------------------
(* offer_async/accept_async prepare TP_DBUS_TUBE_CHANNEL_FEATURE_CORE,     *)
(* which reads State the first time.                                       *)
Call ==
  /\ ~tube.aborted /\ tube.calls < MaxCalls
  /\ ~tube.result
  /\ tube' = [tube EXCEPT !.result = TRUE, !.preparing = TRUE,
                !.calls = @ + 1,
                !.core = IF tube.valid /\ @ = "no" THEN "getting" ELSE @]
  /\ svc' = [svc EXCEPT !.get = @ \/ (tube.valid /\ tube.core = "no")]
  /\ UNCHANGED wire

OfferTube == Requested /\ ~tube.params /\ Call

AcceptTube == ~Requested /\ Call

(* proxy_prepare_offer_cb and proxy_prepare_accept_cb, from an idle.       *)
prepare_offer(t) ==
  IF ~t.valid \/ t.core = "failed" \/ t.state # "not_offered"
  THEN complete_operation(t)
  ELSE [t EXCEPT !.params = TRUE, !.pending = "sent"]

prepare_accept(t) ==
  IF ~t.valid \/ t.core = "failed" \/ t.state # "local_pending"
  THEN complete_operation(t)
  ELSE [t EXCEPT !.pending = "sent"]

Prepared ==
  /\ ~tube.aborted /\ tube.preparing
  /\ ~tube.valid \/ tube.core \in {"ready", "failed"}
  /\ \E t \in {[tube EXCEPT !.preparing = FALSE]} :
       tube' = IF Requested THEN prepare_offer(t) ELSE prepare_accept(t)
  /\ svc' = [svc EXCEPT !.asked = @ \/ tube'.pending = "sent",
                       !.replied = @ /\ tube'.pending # "sent"]
  /\ UNCHANGED wire

-----------------------------------------------------------------------------
(* Messages: State's value, TubeChannelStateChanged, the reply of Offer or *)
(* Accept, and Closed.                                                     *)

get_state(t, m) ==
  [t EXCEPT !.core = IF m.ok THEN "ready" ELSE "failed",
            !.state = IF m.ok THEN m.state ELSE @]

state_changed(t, m) == check_tube_open([t EXCEPT !.state = m.state])

(* dbus_tube_offer_cb; dbus_tube_accept_cb is the same.                    *)
replied(t, ok) ==
  IF ok THEN check_tube_open([t EXCEPT !.pending = "no", !.address = TRUE])
  ELSE complete_operation([t EXCEPT !.pending = "no"])

Got(m) ==
  CASE m.type = "get" -> get_state(tube, m)
    [] m.type = "state" -> state_changed(tube, m)
    [] m.type = "reply" -> replied(tube, m.ok)

Receive ==
  /\ ~tube.aborted /\ tube.valid
  /\ wire # <<>> /\ Head(wire).type # "closed"
  /\ wire' = Tail(wire)
  /\ tube' = Got(Head(wire))
  /\ UNCHANGED svc

(* dbus_tube_invalidated_cb answers the caller; the calls still pending    *)
(* (State, Offer, Accept) are failed from an idle.                         *)
invalidated(t) ==
  LET u == [t EXCEPT !.valid = FALSE,
                     !.pending = IF @ = "sent" THEN "failing" ELSE "no"]
  IN  IF t.result THEN complete_operation(u) ELSE u

(* BUG: a tube that closes while it waits to be opened is not answered.    *)
invalidatedQuiet(t) ==
  [t EXCEPT !.valid = FALSE, !.pending = IF @ = "sent" THEN "failing" ELSE "no"]

Invalidate(t) == invalidated(t)

Closed ==
  /\ ~tube.aborted /\ tube.valid
  /\ wire # <<>> /\ Head(wire).type = "closed"
  /\ wire' = <<>>
  /\ tube' = Invalidate(tube)
  /\ UNCHANGED svc

(* The pending call fails with the invalidation's error.                   *)
CallFailed ==
  /\ ~tube.aborted /\ tube.pending = "failing"
  /\ tube' = replied(tube, FALSE)
  /\ UNCHANGED <<wire, svc>>

(* dbus_connection_new_cb, whether the connection was made or not.         *)
Connected ==
  /\ ~tube.aborted /\ tube.connecting > 0
  /\ \E ok \in BOOLEAN :
       tube' = complete_operation([tube EXCEPT !.connecting = @ - 1,
                                               !.opened = @ \/ ok])
  /\ UNCHANGED <<wire, svc>>

-----------------------------------------------------------------------------
(* The connection manager (external).                                      *)

SvcGetState ==
  /\ svc.get /\ svc.state # "closed" /\ \E ok \in BOOLEAN :
       wire' = Append(wire, [type |-> "get", ok |-> ok, state |-> svc.state])
  /\ svc' = [svc EXCEPT !.get = FALSE]
  /\ UNCHANGED tube

SvcReply ==
  /\ svc.asked /\ ~svc.replied /\ svc.state # "closed"
  /\ \E ok \in BOOLEAN : (svc.state = "open" => ok) /\
       wire' = Append(wire, [type |-> "reply", ok |-> ok, state |-> "none"])
  /\ svc' = [svc EXCEPT !.replied = TRUE]
  /\ UNCHANGED tube

(* The tube opens before the reply or after it; an outgoing one may go     *)
(* through remote-pending.                                                 *)
SvcChangeState ==
  /\ svc.asked
  /\ \E s \in {"open"} \cup (IF Requested THEN {"remote_pending"} ELSE {}) :
       /\ svc.state \notin {s, "open", "closed"}
       /\ svc' = [svc EXCEPT !.state = s]
       /\ wire' = Append(wire, [type |-> "state", ok |-> TRUE, state |-> s])
  /\ UNCHANGED tube

SvcClose ==
  /\ MayClose /\ svc.state # "closed"
  /\ svc' = [svc EXCEPT !.state = "closed", !.get = FALSE, !.asked = FALSE]
  /\ wire' = Append(wire, [type |-> "closed", ok |-> TRUE, state |-> "none"])
  /\ UNCHANGED tube

Next ==
  \/ OfferTube \/ AcceptTube \/ Prepared \/ Receive \/ Closed \/ CallFailed \/ Connected
  \/ SvcGetState \/ SvcReply \/ SvcChangeState \/ SvcClose

Spec == Init /\ [][Next]_vars

-----------------------------------------------------------------------------
(* Properties                                                              *)

(* The fields have their types.                                            *)
TypeOK ==
  /\ tube.state \in {"unset", "not_offered", "local_pending", "remote_pending",
                     "open", "closed"}
  /\ tube.core \in {"no", "getting", "ready", "failed"}
  /\ tube.pending \in {"no", "sent", "failing"}
  /\ tube.connecting \in 0 .. MaxCalls
  /\ tube.answers <= tube.calls

(* The g_assert of complete_operation ("This dance is to ensure that we    *)
(* don't accidentally manipulate priv->result while calling out to user    *)
(* code"): nothing answers an operation that was answered already.         *)
AssertionsHold == ~tube.aborted

(* Every call is answered exactly once, or is still under way.             *)
AnsweredExactly ==
  tube.answers + (IF tube.result THEN 1 ELSE 0) = tube.calls

(* No opening is missed: whichever of the reply and the state change comes *)
(* last, an operation whose tube is open and whose address is known is     *)
(* connecting; and it connects to no tube before that.                     *)
OpeningIsSeen ==
  /\ (tube.result /\ tube.valid /\ tube.address /\ tube.state = "open"
      /\ ~tube.preparing /\ tube.pending = "no") => tube.connecting > 0
  /\ tube.connecting > 0 => tube.address /\ tube.state = "open"

(* Nobody waits for a tube that closed: once the channel is invalidated,   *)
(* an operation under way is one made since, or still being connected.     *)
ClosingAnswers ==
  ~tube.valid /\ tube.result => tube.preparing

(* What the caller of offer_async and accept_async is promised.            *)
TransfersAreRight == AnsweredExactly /\ OpeningIsSeen /\ ClosingAnswers

-----------------------------------------------------------------------------
(* Proofs, for a tube of either direction and any number of calls.         *)

States == {"unset", "not_offered", "local_pending", "remote_pending", "open", "closed"}

TpDBusTubeChannel ==
  [ result : BOOLEAN, params : BOOLEAN, state : States, address : BOOLEAN,
    core : {"no", "getting", "ready", "failed"}, preparing : BOOLEAN,
    pending : {"no", "sent", "failing"}, connecting : Nat, valid : BOOLEAN,
    calls : Nat, answers : Nat, opened : BOOLEAN, aborted : BOOLEAN ]

Messages ==
  [type : {"get", "state"}, ok : BOOLEAN, state : States]
    \cup [type : {"reply", "closed"}, ok : BOOLEAN, state : {"none"}]

Types ==
  /\ tube \in TpDBusTubeChannel /\ wire \in Seq(Messages)
  /\ svc \in [state : States, asked : BOOLEAN, replied : BOOLEAN, get : BOOLEAN]

(* State is read once, before anything is asked of the tube, which is then  *)
(* still as it was made.                                                    *)
ReadFirst ==
  /\ svc.asked \/ tube.pending = "sent" => tube.core = "ready"
  /\ svc.get => tube.core = "getting" /\ \A i \in DOMAIN wire : wire[i].type # "get"
  /\ tube.core # "ready" =>
       /\ svc.state \in {First, "closed"} /\ tube.state # "open"
       /\ \A i \in DOMAIN wire : wire[i].type # "state"
  /\ \A i \in DOMAIN wire : wire[i].type = "get" => tube.core = "getting" /\ wire[i].state = First
  /\ \A i, j \in DOMAIN wire : wire[i].type = "get" /\ wire[j].type = "get" => i = j

(* The tube opens once, and no news of its state follows that.              *)
OpensOnce ==
  /\ svc.state \notin {"open", "closed"} =>
       tube.state # "open" /\ \A i \in DOMAIN wire : wire[i].state # "open"
  /\ tube.state = "open" => \A i \in DOMAIN wire : wire[i].type # "state"
  /\ \A i, j \in DOMAIN wire :
       wire[i].type = "state" /\ wire[i].state = "open" /\ wire[j].type = "state" => j <= i

IInv == Types /\ ReadFirst /\ OpensOnce /\ AnsweredExactly /\ OpeningIsSeen /\ ClosingAnswers

(* The time a step may take, for a busy machine too. *)
USE SMTT(60)

(* Dispatching the first message moves the others one place forward.        *)
LEMMA TailFacts ==
  ASSUME NEW S, NEW w \in Seq(S), w # <<>>
  PROVE  /\ Tail(w) \in Seq(S) /\ Head(w) \in S /\ Head(w) = w[1]
         /\ 1 \in DOMAIN w /\ DOMAIN w \subseteq Nat /\ DOMAIN Tail(w) \subseteq Nat \ {0}
         /\ \A i \in DOMAIN Tail(w) : i + 1 \in DOMAIN w /\ Tail(w)[i] = w[i + 1]
<1>1. Len(w) \in Nat \ {0} /\ DOMAIN w = 1..Len(w) /\ Head(w) = w[1]
  BY LenProperties, EmptySeq
<1>2. /\ Head(w) \in S /\ Tail(w) \in Seq(S) /\ Len(Tail(w)) = Len(w) - 1
      /\ \A i \in 1..Len(Tail(w)) : Tail(w)[i] = w[i + 1]
  BY HeadTailProperties
<1>3. DOMAIN Tail(w) = 1..(Len(w) - 1)
  BY <1>2, LenProperties
<1> QED
  BY <1>1, <1>2, <1>3

(* A message that is sent takes the place after the last.                   *)
LEMMA AppendFacts ==
  ASSUME NEW S, NEW w \in Seq(S), NEW e \in S
  PROVE  /\ Append(w, e) \in Seq(S)
         /\ \E n \in Nat : /\ n \notin DOMAIN w /\ DOMAIN Append(w, e) = DOMAIN w \cup {n}
                           /\ Append(w, e)[n] = e
                           /\ \A i \in DOMAIN w : /\ i \in Nat /\ i < n
                                                  /\ Append(w, e)[i] = w[i]
<1> DEFINE n == Len(w) + 1
<1>1. Len(w) \in Nat /\ DOMAIN w = 1..Len(w)
  BY LenProperties
<1>2. /\ Append(w, e) \in Seq(S) /\ Len(Append(w, e)) = n
      /\ \A i \in 1..n : Append(w, e)[i] = IF i <= Len(w) THEN w[i] ELSE e
  BY <1>1
<1>3. DOMAIN Append(w, e) = 1..n
  BY <1>2, LenProperties
<1>4. /\ n \in Nat /\ n \notin DOMAIN w /\ DOMAIN Append(w, e) = DOMAIN w \cup {n}
      /\ Append(w, e)[n] = e
      /\ \A i \in DOMAIN w : i \in Nat /\ i < n /\ Append(w, e)[i] = w[i]
  BY <1>1, <1>2, <1>3
<1> QED
  BY <1>2, <1>4

(* complete_operation answers the call that is under way, if there is one, and
   touches nothing else of the tube. *)
LEMMA CompleteFacts ==
  ASSUME NEW t \in TpDBusTubeChannel, NEW u, u = complete_operation(t)
  PROVE  /\ u \in TpDBusTubeChannel /\ u.result = FALSE /\ u.calls = t.calls
         /\ u.answers = t.answers + (IF t.result THEN 1 ELSE 0)
         /\ u.state = t.state /\ u.address = t.address /\ u.core = t.core
         /\ u.preparing = t.preparing /\ u.pending = t.pending
         /\ u.connecting = t.connecting /\ u.valid = t.valid
<1>1. CASE t.result
  <2>1. u = [t EXCEPT !.result = FALSE, !.answers = @ + 1]
    BY <1>1 DEF complete_operation, complete
  <2>2. u \in TpDBusTubeChannel
    <3> DEFINE v == [t EXCEPT !.result = FALSE]
    <3>1. v \in TpDBusTubeChannel
      BY Zenon DEF TpDBusTubeChannel
    <3>2. u = [v EXCEPT !.answers = @ + 1]
      BY <2>1 DEF TpDBusTubeChannel
    <3> HIDE DEF v
    <3> QED
      BY <3>1, <3>2 DEF TpDBusTubeChannel
  <2>3. /\ u.result = FALSE /\ u.address = t.address /\ u.preparing = t.preparing
        /\ u.valid = t.valid
    BY <2>1, ZenonT(40) DEF TpDBusTubeChannel
  <2>4. /\ u.calls = t.calls /\ u.answers = t.answers + 1 /\ u.state = t.state /\ u.core = t.core
        /\ u.pending = t.pending /\ u.connecting = t.connecting
    BY <2>1 DEF TpDBusTubeChannel
  <2> QED
    BY <1>1, <2>2, <2>3, <2>4
<1>2. CASE ~t.result
  <2>1. u = [t EXCEPT !.aborted = TRUE]
    BY <1>2 DEF complete_operation, complete
  <2>2. u \in TpDBusTubeChannel
    BY <2>1, Zenon DEF TpDBusTubeChannel
  <2>3. /\ u.result = t.result /\ u.address = t.address /\ u.preparing = t.preparing
        /\ u.valid = t.valid
    BY <2>1, ZenonT(40) DEF TpDBusTubeChannel
  <2>4. /\ u.calls = t.calls /\ u.answers = t.answers /\ u.state = t.state /\ u.core = t.core
        /\ u.pending = t.pending /\ u.connecting = t.connecting
    BY <2>1 DEF TpDBusTubeChannel
  <2>5. t.result = FALSE /\ t.answers + 0 = t.answers
    BY <1>2 DEF TpDBusTubeChannel
  <2> QED
    BY <1>2, <2>2, <2>3, <2>4, <2>5
<1> QED
  BY <1>1, <1>2, Zenon

(* check_tube_open connects when the address is known and the tube is open. *)
LEMMA CheckOpenFacts ==
  ASSUME NEW t \in TpDBusTubeChannel, NEW u, u = check_tube_open(t)
  PROVE  /\ u \in TpDBusTubeChannel /\ u.result = t.result /\ u.calls = t.calls
         /\ u.answers = t.answers
         /\ u.state = t.state /\ u.address = t.address /\ u.core = t.core
         /\ u.preparing = t.preparing /\ u.pending = t.pending /\ u.valid = t.valid
         /\ \/ u.connecting = t.connecting /\ ~(t.result /\ t.address /\ t.state = "open")
            \/ u.connecting = t.connecting + 1 /\ t.result /\ t.address /\ t.state = "open"
<1>1. CASE t.result /\ t.address /\ t.state = "open"
  <2>1. u = [t EXCEPT !.connecting = @ + 1]
    BY <1>1 DEF check_tube_open, check_open
  <2>2. u \in TpDBusTubeChannel
    BY <2>1 DEF TpDBusTubeChannel
  <2>3. /\ u.result = t.result /\ u.address = t.address /\ u.preparing = t.preparing
        /\ u.valid = t.valid
    BY <2>1, ZenonT(40) DEF TpDBusTubeChannel
  <2>4. /\ u.calls = t.calls /\ u.answers = t.answers /\ u.state = t.state /\ u.core = t.core
        /\ u.pending = t.pending /\ u.connecting = t.connecting + 1
    BY <2>1 DEF TpDBusTubeChannel
  <2> QED
    BY <1>1, <2>2, <2>3, <2>4
<1>2. CASE ~(t.result /\ t.address /\ t.state = "open")
  BY <1>2 DEF check_tube_open, check_open
<1> QED
  BY <1>1, <1>2

(* A new tube, which was asked nothing.                                     *)
LEMMA InitIInv ==
  ASSUME SoundConstants, Init
  PROVE  IInv
<1>1. Types
  BY DEF Init, Types, TpDBusTubeChannel, First, States, Messages
<1>2. wire = <<>> /\ DOMAIN wire = {}
  BY DEF Init
<1>3. tube.core = "no" /\ tube.pending = "no" /\ tube.state = "unset" /\ tube.connecting = 0
      /\ tube.calls = 0 /\ tube.answers = 0
  BY DEF Init
<1>4. tube.result = FALSE /\ svc.asked = FALSE /\ svc.get = FALSE /\ svc.state = First
  BY ZenonT(40) DEF Init
<1>5. ReadFirst /\ OpensOnce
  BY <1>2, <1>3, <1>4 DEF ReadFirst, OpensOnce
<1>6. AnsweredExactly /\ OpeningIsSeen /\ ClosingAnswers
  BY <1>3, <1>4 DEF AnsweredExactly, OpeningIsSeen, ClosingAnswers
<1> QED
  BY <1>1, <1>5, <1>6 DEF IInv

(* offer_async and accept_async. *)
LEMMA CallStep ==
  ASSUME IInv, Call
  PROVE  IInv'
<1> DEFINE c == IF tube.valid /\ tube.core = "no" THEN "getting" ELSE tube.core
           g == svc.get \/ (tube.valid /\ tube.core = "no")
           t1 == [tube EXCEPT !.result = TRUE]
           t2 == [t1 EXCEPT !.preparing = TRUE]
           t3 == [t2 EXCEPT !.calls = @ + 1]
<1>1. /\ tube \in TpDBusTubeChannel /\ wire \in Seq(Messages) /\ tube.result = FALSE /\ wire' = wire
      /\ svc \in [state : States, asked : BOOLEAN, replied : BOOLEAN, get : BOOLEAN]
  BY DEF IInv, Types, Call, TpDBusTubeChannel
<1>2. c \in {"no", "getting", "ready", "failed"} /\ g \in BOOLEAN
      /\ (c = tube.core \/ (tube.core = "no" /\ c = "getting"))
      /\ (g <=> svc.get \/ (tube.core = "no" /\ c = "getting"))
  BY <1>1 DEF TpDBusTubeChannel
<1>3. tube' = [t3 EXCEPT !.core = c]
  BY <1>1 DEF Call, TpDBusTubeChannel
<1>4. svc' = [svc EXCEPT !.get = g]
  BY DEF Call
<1> HIDE DEF c, g
<1>5. t1 \in TpDBusTubeChannel
  BY <1>1, Zenon DEF TpDBusTubeChannel
<1> HIDE DEF t1
<1>6. t2 \in TpDBusTubeChannel
  BY <1>5, Zenon DEF TpDBusTubeChannel
<1> HIDE DEF t2
<1>7. t3 \in TpDBusTubeChannel
  BY <1>6 DEF TpDBusTubeChannel
<1> HIDE DEF t3
<1>8. tube' \in TpDBusTubeChannel
  BY <1>2, <1>3, <1>7 DEF TpDBusTubeChannel
<1>9. tube'.result /\ tube'.preparing /\ tube'.address = tube.address
  BY <1>1, <1>3, ZenonT(40) DEF t1, t2, t3, TpDBusTubeChannel
<1>10. /\ tube'.calls = tube.calls + 1 /\ tube'.answers = tube.answers /\ tube'.state = tube.state
       /\ tube'.core = c /\ tube'.pending = tube.pending /\ tube'.connecting = tube.connecting
  BY <1>1, <1>3 DEF t1, t2, t3, TpDBusTubeChannel
<1>11. /\ svc'.state = svc.state /\ svc'.asked = svc.asked /\ svc'.get = g
       /\ svc' \in [state : States, asked : BOOLEAN, replied : BOOLEAN, get : BOOLEAN]
  BY <1>1, <1>2, <1>4
<1>12. Types'
  BY <1>1, <1>8, <1>11 DEF Types
<1>13. ReadFirst'
  BY <1>1, <1>2, <1>10, <1>11 DEF IInv, ReadFirst
<1>14. OpensOnce'
  BY <1>1, <1>10, <1>11 DEF IInv, OpensOnce
<1>15. AnsweredExactly'
  <2>1. tube.answers = tube.calls /\ tube.answers \in Nat /\ tube.calls \in Nat
    BY <1>1 DEF IInv, AnsweredExactly, TpDBusTubeChannel
  <2> QED
    BY <1>9, <1>10, <2>1 DEF AnsweredExactly
<1>16. OpeningIsSeen' /\ ClosingAnswers'
  BY <1>9, <1>10 DEF IInv, OpeningIsSeen, ClosingAnswers
<1> QED
  BY <1>12, <1>13, <1>14, <1>15, <1>16 DEF IInv

(* proxy_prepare_offer_cb and proxy_prepare_accept_cb: the operation is
   answered with an error, or Offer or Accept is sent to a tube whose State
   was read and which is as it was made. *)
LEMMA PreparedStep ==
  ASSUME SoundConstants, IInv, Prepared
  PROVE  IInv'
<1> DEFINE t == [tube EXCEPT !.preparing = FALSE]
           e == IF Requested THEN [t EXCEPT !.params = TRUE] ELSE t
<1>1. /\ tube \in TpDBusTubeChannel /\ wire \in Seq(Messages) /\ wire' = wire
      /\ svc \in [state : States, asked : BOOLEAN, replied : BOOLEAN, get : BOOLEAN]
  BY DEF IInv, Types, Prepared
<1>2. t \in TpDBusTubeChannel /\ t.preparing = FALSE /\ t.result = tube.result
      /\ t.address = tube.address /\ t.valid = tube.valid
  BY <1>1, ZenonT(40) DEF TpDBusTubeChannel
<1>3. /\ t.calls = tube.calls /\ t.answers = tube.answers /\ t.state = tube.state
      /\ t.core = tube.core /\ t.pending = tube.pending /\ t.connecting = tube.connecting
  BY <1>1 DEF TpDBusTubeChannel
<1>4. \/ tube' = complete_operation(t)
      \/ /\ tube' = [e EXCEPT !.pending = "sent"]
         /\ t.valid /\ t.core # "failed"
  BY Zenon DEF Prepared, prepare_offer, prepare_accept
<1>5. ~tube.valid \/ tube.core \in {"ready", "failed"}
  BY DEF Prepared
<1> DEFINE sent == tube'.pending = "sent"
<1>6. svc' = [svc EXCEPT !.asked = @ \/ sent, !.replied = @ /\ ~sent]
  BY DEF Prepared
<1> HIDE DEF t
<1>7. /\ svc'.state = svc.state
      /\ svc' \in [state : States, asked : BOOLEAN, replied : BOOLEAN, get : BOOLEAN]
  BY <1>1, <1>6, Zenon
<1>8. (svc'.asked <=> svc.asked \/ sent) /\ svc'.get = svc.get
  BY <1>1, <1>6, ZenonT(40)
<1>9. /\ tube' \in TpDBusTubeChannel /\ tube'.calls = t.calls /\ tube'.state = t.state
      /\ tube'.core = t.core /\ tube'.connecting = t.connecting
      /\ tube'.address = t.address /\ tube'.preparing = FALSE /\ tube'.valid = t.valid
      /\ \/ /\ tube'.result = FALSE /\ tube'.pending = t.pending
            /\ tube'.answers = t.answers + (IF t.result THEN 1 ELSE 0)
         \/ /\ tube'.result = t.result /\ tube'.pending = "sent" /\ tube'.answers = t.answers
            /\ t.valid /\ t.core = "ready"
  <2>1. CASE tube' = complete_operation(t)
    BY <1>2, <2>1, CompleteFacts, ZenonT(60)
  <2>2. CASE tube' = [e EXCEPT !.pending = "sent"] /\ t.valid /\ t.core # "failed"
    <3>1. e \in TpDBusTubeChannel
      BY <1>2, ZenonT(60) DEF TpDBusTubeChannel
    <3>2. /\ e.result = t.result /\ e.address = t.address /\ e.preparing = t.preparing
          /\ e.valid = t.valid
      BY <1>2, ZenonT(40) DEF TpDBusTubeChannel
    <3>3. /\ e.calls = t.calls /\ e.answers = t.answers /\ e.state = t.state /\ e.core = t.core
          /\ e.connecting = t.connecting
      BY <1>2 DEF TpDBusTubeChannel
    <3> HIDE DEF e
    <3>4. tube' \in TpDBusTubeChannel
      BY <3>1, <2>2 DEF TpDBusTubeChannel
    <3>5. /\ tube'.result = e.result /\ tube'.address = e.address
          /\ tube'.preparing = e.preparing /\ tube'.valid = e.valid
      BY <3>1, <2>2, ZenonT(40) DEF TpDBusTubeChannel
    <3>6. /\ tube'.calls = e.calls /\ tube'.answers = e.answers /\ tube'.state = e.state
          /\ tube'.core = e.core /\ tube'.connecting = e.connecting /\ tube'.pending = "sent"
      BY <3>1, <2>2 DEF TpDBusTubeChannel
    <3>7. t.core = "ready"
      BY <1>2, <1>3, <1>5, <2>2
    <3> QED
      BY <1>2, <2>2, <3>2, <3>3, <3>4, <3>5, <3>6, <3>7, ZenonT(60)
  <2> QED
    BY <1>4, <2>1, <2>2, Zenon
<1>10. Types'
  BY <1>1, <1>7, <1>9 DEF Types
<1>11. ReadFirst'
  <2>1. svc'.asked \/ tube'.pending = "sent" => tube'.core = "ready"
    BY <1>3, <1>8, <1>9 DEF IInv, ReadFirst
  <2>2. svc'.get = svc.get /\ tube'.core = tube.core /\ svc'.state = svc.state
        /\ tube'.state = tube.state
    BY <1>3, <1>7, <1>8, <1>9
  <2> QED
    BY <1>1, <2>1, <2>2 DEF IInv, ReadFirst
<1>12. OpensOnce'
  BY <1>1, <1>3, <1>7, <1>9 DEF IInv, OpensOnce
<1>13. AnsweredExactly'
  <2>1. tube.answers \in Nat /\ tube.calls \in Nat
    BY <1>1 DEF TpDBusTubeChannel
  <2>2. t.answers = tube.answers /\ t.calls = tube.calls /\ t.result = tube.result
    BY <1>2, <1>3
  <2> QED
    BY <1>9, <2>1, <2>2 DEF IInv, AnsweredExactly
<1>14. OpeningIsSeen'
  BY <1>2, <1>3, <1>9 DEF IInv, OpeningIsSeen
<1>15. ClosingAnswers'
  BY <1>2, <1>9 DEF IInv, ClosingAnswers
<1> QED
  BY <1>10, <1>11, <1>12, <1>13, <1>14, <1>15 DEF IInv

(* dbus_tube_invalidated_cb: nothing that was on its way arrives any more.  *)
LEMMA ClosedStep ==
  ASSUME IInv, Closed
  PROVE  IInv'
<1> DEFINE p == IF tube.pending = "sent" THEN "failing" ELSE "no"
           v == [tube EXCEPT !.valid = FALSE]
           u == [v EXCEPT !.pending = p]
<1>1. /\ tube \in TpDBusTubeChannel /\ wire' = <<>> /\ wire' \in Seq(Messages) /\ svc' = svc
      /\ svc \in [state : States, asked : BOOLEAN, replied : BOOLEAN, get : BOOLEAN]
      /\ \A i \in DOMAIN wire' : FALSE
  BY DEF IInv, Types, Closed
<1>2. tube' = IF tube.result THEN complete_operation(u) ELSE u
  <2>1. u = [tube EXCEPT !.valid = FALSE, !.pending = IF @ = "sent" THEN "failing" ELSE "no"]
    BY <1>1 DEF TpDBusTubeChannel
  <2> QED
    BY <2>1 DEF Closed, Invalidate, invalidated
<1>3. p \in {"no", "failing"}
  OBVIOUS
<1> HIDE DEF p
<1>4. v \in TpDBusTubeChannel
  BY <1>1, Zenon DEF TpDBusTubeChannel
<1>5. /\ v.result = tube.result /\ v.address = tube.address /\ v.preparing = tube.preparing
  BY <1>1, ZenonT(40) DEF TpDBusTubeChannel
<1>6. /\ v.calls = tube.calls /\ v.answers = tube.answers /\ v.state = tube.state
      /\ v.core = tube.core /\ v.connecting = tube.connecting
  BY <1>1 DEF TpDBusTubeChannel
<1> HIDE DEF v
<1>7. u \in TpDBusTubeChannel
  BY <1>3, <1>4 DEF TpDBusTubeChannel
<1>8. u.result = v.result /\ u.address = v.address
  BY <1>4, ZenonT(40) DEF TpDBusTubeChannel
<1>9. /\ u.calls = v.calls /\ u.answers = v.answers /\ u.state = v.state
      /\ u.core = v.core /\ u.connecting = v.connecting /\ u.pending # "sent"
  BY <1>3, <1>4 DEF TpDBusTubeChannel
<1> HIDE DEF u
<1>10. /\ tube' \in TpDBusTubeChannel /\ tube'.result = FALSE /\ tube'.calls = tube.calls
       /\ tube'.answers = tube.answers + (IF tube.result THEN 1 ELSE 0)
       /\ tube'.state = tube.state /\ tube'.core = tube.core /\ tube'.pending # "sent"
       /\ tube'.connecting = tube.connecting /\ tube'.address = tube.address
  <2>1. CASE tube.result
    <3>1. tube' = complete_operation(u)
      BY <1>2, <2>1
    <3>2. /\ tube' \in TpDBusTubeChannel /\ tube'.result = FALSE /\ tube'.calls = u.calls
          /\ tube'.answers = u.answers + (IF u.result THEN 1 ELSE 0)
          /\ tube'.state = u.state /\ tube'.core = u.core /\ tube'.pending = u.pending
          /\ tube'.connecting = u.connecting /\ tube'.address = u.address
      BY <1>7, <3>1, CompleteFacts, ZenonT(60)
    <3> QED
      BY <1>5, <1>6, <1>8, <1>9, <2>1, <3>2
  <2>2. CASE ~tube.result
    <3>1. tube.result = FALSE /\ tube.answers + 0 = tube.answers
      BY <1>1, <2>2 DEF TpDBusTubeChannel
    <3> QED
      BY <1>2, <1>5, <1>6, <1>7, <1>8, <1>9, <2>2, <3>1
  <2> QED
    BY <2>1, <2>2, Zenon
<1>11. Types'
  BY <1>1, <1>10 DEF Types
<1>12. ReadFirst' /\ OpensOnce'
  BY <1>1, <1>10 DEF IInv, ReadFirst, OpensOnce
<1>13. AnsweredExactly'
  <2>1. tube.answers \in Nat /\ tube.calls \in Nat
    BY <1>1 DEF TpDBusTubeChannel
  <2> QED
    BY <1>10, <2>1 DEF IInv, AnsweredExactly
<1>14. OpeningIsSeen' /\ ClosingAnswers'
  BY <1>10 DEF IInv, OpeningIsSeen, ClosingAnswers
<1> QED
  BY <1>11, <1>12, <1>13, <1>14 DEF IInv

(* An answer to whatever is under way, by a callback that changes nothing the
   invariant speaks of but what waits for it. *)
LEMMA AnswerStep ==
  ASSUME IInv, UNCHANGED <<wire, svc>>, NEW u \in TpDBusTubeChannel,
         tube' = complete_operation(u),
         u.result = tube.result, u.calls = tube.calls, u.answers = tube.answers,
         u.state = tube.state, u.address = tube.address, u.core = tube.core,
         u.pending = "sent" => tube.pending = "sent",
         u.connecting > 0 => tube.connecting > 0
  PROVE  IInv'
<1>1. /\ tube \in TpDBusTubeChannel /\ wire' = wire /\ svc' = svc
  BY DEF IInv, Types
<1>2. /\ tube' \in TpDBusTubeChannel /\ tube'.result = FALSE /\ tube'.calls = u.calls
      /\ tube'.answers = u.answers + (IF u.result THEN 1 ELSE 0)
      /\ tube'.state = u.state /\ tube'.core = u.core /\ tube'.pending = u.pending
      /\ tube'.connecting = u.connecting /\ tube'.address = u.address
  BY CompleteFacts, ZenonT(60)
<1>3. Types'
  BY <1>1, <1>2 DEF IInv, Types
<1>4. ReadFirst' /\ OpensOnce'
  BY <1>1, <1>2 DEF IInv, ReadFirst, OpensOnce
<1>5. AnsweredExactly'
  <2>1. tube.answers \in Nat /\ tube.calls \in Nat
    BY <1>1 DEF TpDBusTubeChannel
  <2> QED
    BY <1>2, <2>1 DEF IInv, AnsweredExactly
<1>6. OpeningIsSeen' /\ ClosingAnswers'
  BY <1>2 DEF IInv, OpeningIsSeen, ClosingAnswers
<1> QED
  BY <1>3, <1>4, <1>5, <1>6 DEF IInv

(* dbus_tube_offer_cb or dbus_tube_accept_cb, with the invalidation's error. *)
LEMMA CallFailedStep ==
  ASSUME IInv, CallFailed
  PROVE  IInv'
<1> DEFINE u == [tube EXCEPT !.pending = "no"]
<1>1. tube \in TpDBusTubeChannel /\ UNCHANGED <<wire, svc>> /\ tube' = complete_operation(u)
  BY DEF IInv, Types, CallFailed, replied
<1>2. u \in TpDBusTubeChannel
  BY <1>1 DEF TpDBusTubeChannel
<1>3. u.result = tube.result /\ u.address = tube.address
  BY <1>1, ZenonT(40) DEF TpDBusTubeChannel
<1>4. /\ u.calls = tube.calls /\ u.answers = tube.answers /\ u.state = tube.state
      /\ u.core = tube.core /\ u.pending # "sent" /\ u.connecting = tube.connecting
  BY <1>1 DEF TpDBusTubeChannel
<1> HIDE DEF u
<1> QED
  BY <1>1, <1>2, <1>3, <1>4, AnswerStep

(* dbus_connection_new_cb. *)
LEMMA ConnectedStep ==
  ASSUME IInv, Connected
  PROVE  IInv'
<1>1. PICK ok \in BOOLEAN :
        tube' = complete_operation([tube EXCEPT !.connecting = @ - 1, !.opened = @ \/ ok])
  BY ZenonT(40) DEF Connected
<1> DEFINE v == [tube EXCEPT !.connecting = @ - 1]
           u == [v EXCEPT !.opened = @ \/ ok]
<1>2. tube \in TpDBusTubeChannel /\ UNCHANGED <<wire, svc>> /\ tube.connecting > 0
      /\ tube.connecting \in Nat
  BY DEF IInv, Types, Connected, TpDBusTubeChannel
<1>3. tube' = complete_operation(u)
  BY <1>1, <1>2 DEF TpDBusTubeChannel
<1>4. v \in TpDBusTubeChannel
  <2>1. tube.connecting - 1 \in Nat
    BY <1>2
  <2> QED
    BY <1>2, <2>1 DEF TpDBusTubeChannel
<1>5. v.result = tube.result /\ v.address = tube.address
  BY <1>2, ZenonT(40) DEF TpDBusTubeChannel
<1>6. /\ v.calls = tube.calls /\ v.answers = tube.answers /\ v.state = tube.state
      /\ v.core = tube.core /\ v.pending = tube.pending
  BY <1>2 DEF TpDBusTubeChannel
<1> HIDE DEF v
<1>7. u \in TpDBusTubeChannel
  BY <1>4 DEF TpDBusTubeChannel
<1>8. u.result = v.result /\ u.address = v.address
  BY <1>4, ZenonT(40) DEF TpDBusTubeChannel
<1>9. /\ u.calls = v.calls /\ u.answers = v.answers /\ u.state = v.state
      /\ u.core = v.core /\ u.pending = v.pending
  BY <1>4 DEF TpDBusTubeChannel
<1> HIDE DEF u
<1>10. /\ u.result = tube.result /\ u.address = tube.address /\ u.calls = tube.calls
       /\ u.answers = tube.answers /\ u.state = tube.state /\ u.core = tube.core
       /\ u.pending = tube.pending
  BY <1>5, <1>6, <1>8, <1>9
<1> QED
  BY <1>2, <1>3, <1>7, <1>10, AnswerStep

(* A message changes nothing but what its callback does, and the messages
   after it move forward: what is left of the invariant for them. *)
LEMMA WireAfterReceive ==
  ASSUME IInv, Receive
  PROVE  /\ wire \in Seq(Messages) /\ wire' \in Seq(Messages) /\ wire[1] \in Messages
         /\ wire[1] = Head(wire) /\ 1 \in DOMAIN wire /\ wire[1].type # "closed"
         /\ DOMAIN wire \subseteq Nat /\ DOMAIN wire' \subseteq Nat \ {0}
         /\ \A i \in DOMAIN wire' : i + 1 \in DOMAIN wire /\ wire'[i] = wire[i + 1]
<1>1. wire \in Seq(Messages) /\ wire # <<>> /\ wire' = Tail(wire) /\ Head(wire).type # "closed"
  BY DEF IInv, Types, Receive
<1> QED
  BY <1>1, TailFacts

(* _tp_dbus_tube_channel_get_state_cb: State's value, which is the first.   *)
LEMMA GetStep ==
  ASSUME SoundConstants, IInv, Receive, Head(wire).type = "get"
  PROVE  IInv'
<1> DEFINE m == Head(wire)
           c == IF m.ok THEN "ready" ELSE "failed"
           s == IF m.ok THEN m.state ELSE tube.state
           v == [tube EXCEPT !.core = c]
<1>1. /\ wire \in Seq(Messages) /\ wire' \in Seq(Messages) /\ m \in Messages
      /\ wire[1] = m /\ 1 \in DOMAIN wire /\ DOMAIN wire' \subseteq Nat \ {0}
      /\ \A i \in DOMAIN wire' : i + 1 \in DOMAIN wire /\ wire'[i] = wire[i + 1]
  BY WireAfterReceive
<1>2. /\ tube \in TpDBusTubeChannel /\ svc' = svc
      /\ svc \in [state : States, asked : BOOLEAN, replied : BOOLEAN, get : BOOLEAN]
      /\ tube' = [tube EXCEPT !.core = c, !.state = s] /\ tube.valid
  BY DEF IInv, Types, Receive, Got, get_state
<1>3. tube' = [v EXCEPT !.state = s]
  BY <1>2 DEF TpDBusTubeChannel
<1>4. /\ tube.core = "getting" /\ m.state = First /\ First \in States \ {"open"}
      /\ tube.state # "open" /\ ~svc.asked /\ tube.pending # "sent" /\ svc.get = FALSE
      /\ \A i \in DOMAIN wire : wire[i].type # "state"
      /\ \A i \in DOMAIN wire : wire[i].type = "get" => i = 1
  <2>1. tube.core = "getting" /\ m.state = First
    BY <1>1 DEF IInv, ReadFirst
  <2>2. First \in States \ {"open"}
    BY DEF First, States
  <2>3. svc.get = FALSE
    BY <1>1, <1>2, ZenonT(40) DEF IInv, ReadFirst
  <2>4. \A i \in DOMAIN wire : wire[i].type = "get" => i = 1
    BY <1>1 DEF IInv, ReadFirst
  <2> QED
    BY <2>1, <2>2, <2>3, <2>4 DEF IInv, ReadFirst
<1>5. c \in {"ready", "failed"} /\ s \in States \ {"open"}
  BY <1>2, <1>4 DEF TpDBusTubeChannel
<1> HIDE DEF m, c, s
<1>6. v \in TpDBusTubeChannel
  BY <1>2, <1>5 DEF TpDBusTubeChannel
<1>7. v.result = tube.result /\ v.address = tube.address /\ v.preparing = tube.preparing
      /\ v.valid = tube.valid
  BY <1>2, ZenonT(40) DEF TpDBusTubeChannel
<1>8. /\ v.calls = tube.calls /\ v.answers = tube.answers /\ v.core = c
      /\ v.pending = tube.pending /\ v.connecting = tube.connecting
  BY <1>2 DEF TpDBusTubeChannel
<1> HIDE DEF v
<1>9. tube' \in TpDBusTubeChannel
  BY <1>3, <1>5, <1>6 DEF TpDBusTubeChannel
<1>10. tube'.result = v.result /\ tube'.address = v.address /\ tube'.preparing = v.preparing
       /\ tube'.valid = v.valid
  BY <1>3, <1>6, ZenonT(40) DEF TpDBusTubeChannel
<1>11. /\ tube'.calls = v.calls /\ tube'.answers = v.answers /\ tube'.core = v.core
       /\ tube'.pending = v.pending /\ tube'.connecting = v.connecting /\ tube'.state = s
  BY <1>3, <1>6 DEF TpDBusTubeChannel
<1>12. Types'
  BY <1>1, <1>2, <1>9 DEF Types
<1>13. ReadFirst'
  <2>1. \A i \in DOMAIN wire' : wire'[i].type # "state" /\ wire'[i].type # "get"
    BY <1>1, <1>4
  <2>2. tube'.core = c /\ tube'.state # "open" /\ tube'.pending # "sent"
    BY <1>4, <1>5, <1>8, <1>11
  <2>3. svc'.asked = svc.asked /\ svc'.get = FALSE /\ svc'.state \in {First, "closed"}
    BY <1>2, <1>4 DEF IInv, ReadFirst
  <2> QED
    BY <1>4, <2>1, <2>2, <2>3 DEF ReadFirst
<1>14. OpensOnce'
  <2>1. \A i \in DOMAIN wire' : wire'[i].type # "state"
    BY <1>1, <1>4
  <2>2. tube'.state # "open"
    BY <1>5, <1>11
  <2>3. svc.state \notin {"open", "closed"} => \A i \in DOMAIN wire' : wire'[i].state # "open"
    BY <1>1 DEF IInv, OpensOnce
  <2> QED
    BY <1>2, <2>1, <2>2, <2>3 DEF OpensOnce
<1>15. AnsweredExactly'
  BY <1>7, <1>8, <1>10, <1>11 DEF IInv, AnsweredExactly
<1>16. OpeningIsSeen'
  BY <1>4, <1>5, <1>8, <1>11 DEF IInv, OpeningIsSeen
<1>17. ClosingAnswers'
  BY <1>2, <1>7, <1>10 DEF ClosingAnswers
<1> QED
  BY <1>12, <1>13, <1>14, <1>15, <1>16, <1>17 DEF IInv

(* dbus_tube_channel_state_changed_cb: TubeChannelStateChanged, which may open
   the tube. *)
LEMMA StateStep ==
  ASSUME IInv, Receive, Head(wire).type = "state"
  PROVE  IInv'
<1> DEFINE m == Head(wire)
           v == [tube EXCEPT !.state = m.state]
<1>1. /\ wire \in Seq(Messages) /\ wire' \in Seq(Messages) /\ m \in Messages
      /\ wire[1] = m /\ 1 \in DOMAIN wire /\ DOMAIN wire' \subseteq Nat \ {0}
      /\ \A i \in DOMAIN wire' : i + 1 \in DOMAIN wire /\ wire'[i] = wire[i + 1]
  BY WireAfterReceive
<1>2. /\ tube \in TpDBusTubeChannel /\ svc' = svc
      /\ svc \in [state : States, asked : BOOLEAN, replied : BOOLEAN, get : BOOLEAN]
      /\ tube' = check_tube_open(v) /\ tube.valid
  BY DEF IInv, Types, Receive, Got, state_changed
<1>3. m.state \in States /\ m.type = "state"
  BY <1>1 DEF Messages
<1>4. tube.core = "ready" /\ tube.state # "open"
  BY <1>1, <1>3 DEF IInv, ReadFirst, OpensOnce
<1> HIDE DEF m
<1>5. v \in TpDBusTubeChannel
  BY <1>2, <1>3 DEF TpDBusTubeChannel
<1>6. v.result = tube.result /\ v.address = tube.address /\ v.preparing = tube.preparing
      /\ v.valid = tube.valid
  BY <1>2, ZenonT(40) DEF TpDBusTubeChannel
<1>7. /\ v.calls = tube.calls /\ v.answers = tube.answers /\ v.core = tube.core
      /\ v.pending = tube.pending /\ v.connecting = tube.connecting /\ v.state = m.state
  BY <1>2 DEF TpDBusTubeChannel
<1> HIDE DEF v
<1>8. /\ tube' \in TpDBusTubeChannel /\ tube'.result = v.result /\ tube'.calls = v.calls
      /\ tube'.answers = v.answers
      /\ tube'.state = v.state /\ tube'.address = v.address /\ tube'.core = v.core
      /\ tube'.preparing = v.preparing /\ tube'.pending = v.pending /\ tube'.valid = v.valid
      /\ \/ tube'.connecting = v.connecting /\ ~(v.result /\ v.address /\ v.state = "open")
         \/ tube'.connecting = v.connecting + 1 /\ v.result /\ v.address /\ v.state = "open"
  BY <1>2, <1>5, CheckOpenFacts
<1>9. Types'
  BY <1>1, <1>2, <1>8 DEF Types
<1>10. ReadFirst'
  <2>1. tube'.core = "ready" /\ svc' = svc
    BY <1>2, <1>4, <1>7, <1>8
  <2>2. \A i \in DOMAIN wire' : wire'[i].type # "get"
    BY <1>1, <1>4 DEF IInv, ReadFirst
  <2>3. ~svc.get
    BY <1>4 DEF IInv, ReadFirst
  <2> QED
    BY <2>1, <2>2, <2>3 DEF ReadFirst
<1>11. OpensOnce'
  <2>1. svc.state \notin {"open", "closed"} =>
          m.state # "open" /\ \A i \in DOMAIN wire' : wire'[i].state # "open"
    BY <1>1 DEF IInv, OpensOnce
  <2>2. m.state = "open" => \A i \in DOMAIN wire' : wire'[i].type # "state"
    BY <1>1, <1>3 DEF IInv, OpensOnce
  <2>3. \A i, j \in DOMAIN wire' :
          wire'[i].type = "state" /\ wire'[i].state = "open" /\ wire'[j].type = "state" => j <= i
    <3> SUFFICES ASSUME NEW i \in DOMAIN wire', NEW j \in DOMAIN wire',
                        wire'[i].type = "state", wire'[i].state = "open", wire'[j].type = "state"
                 PROVE  j <= i
      OBVIOUS
    <3>1. j + 1 <= i + 1
      BY <1>1, Zenon DEF IInv, OpensOnce
    <3> QED
      BY <1>1, <3>1
  <2>4. tube'.state = m.state
    BY <1>7, <1>8
  <2> QED
    BY <1>2, <2>1, <2>2, <2>3, <2>4 DEF OpensOnce
<1>12. AnsweredExactly'
  BY <1>6, <1>7, <1>8 DEF IInv, AnsweredExactly
<1>13. OpeningIsSeen'
  <2>1. tube.connecting = 0
    BY <1>2, <1>4 DEF IInv, OpeningIsSeen, TpDBusTubeChannel
  <2> QED
    BY <1>7, <1>8, <2>1 DEF OpeningIsSeen
<1>14. ClosingAnswers'
  BY <1>2, <1>6, <1>8 DEF ClosingAnswers
<1> QED
  BY <1>9, <1>10, <1>11, <1>12, <1>13, <1>14 DEF IInv

(* dbus_tube_offer_cb or dbus_tube_accept_cb: the address, or an error.     *)
LEMMA ReplyStep ==
  ASSUME IInv, Receive, Head(wire).type = "reply"
  PROVE  IInv'
<1> DEFINE m == Head(wire)
           v == [tube EXCEPT !.pending = "no"]
           u == [v EXCEPT !.address = TRUE]
<1>1. /\ wire \in Seq(Messages) /\ wire' \in Seq(Messages) /\ m \in Messages
      /\ wire[1] = m /\ 1 \in DOMAIN wire /\ DOMAIN wire' \subseteq Nat \ {0}
      /\ \A i \in DOMAIN wire' : i + 1 \in DOMAIN wire /\ wire'[i] = wire[i + 1]
  BY WireAfterReceive
<1>2. /\ tube \in TpDBusTubeChannel /\ svc' = svc
      /\ svc \in [state : States, asked : BOOLEAN, replied : BOOLEAN, get : BOOLEAN]
      /\ tube' = replied(tube, m.ok) /\ tube.valid
  BY DEF IInv, Types, Receive, Got
<1>3. \/ m.ok /\ tube' = check_tube_open([tube EXCEPT !.pending = "no", !.address = TRUE])
      \/ tube' = complete_operation(v)
  BY <1>2 DEF replied
<1>4. [tube EXCEPT !.pending = "no", !.address = TRUE] = u
  BY <1>2 DEF TpDBusTubeChannel
<1> HIDE DEF m
<1>5. v \in TpDBusTubeChannel
  BY <1>2 DEF TpDBusTubeChannel
<1>6. v.result = tube.result /\ v.address = tube.address /\ v.preparing = tube.preparing
      /\ v.valid = tube.valid
  BY <1>2, ZenonT(40) DEF TpDBusTubeChannel
<1>7. /\ v.calls = tube.calls /\ v.answers = tube.answers /\ v.core = tube.core
      /\ v.pending = "no" /\ v.connecting = tube.connecting /\ v.state = tube.state
  BY <1>2 DEF TpDBusTubeChannel
<1> HIDE DEF v
<1>8. /\ tube' \in TpDBusTubeChannel /\ tube'.calls = tube.calls /\ tube'.state = tube.state
      /\ tube'.core = tube.core /\ tube'.pending = "no" /\ tube'.valid = tube.valid
      /\ tube'.answers + (IF tube'.result THEN 1 ELSE 0)
           = tube.answers + (IF tube.result THEN 1 ELSE 0)
      /\ OpeningIsSeen'
  <2>1. CASE tube' = check_tube_open(u)
    <3>1. u \in TpDBusTubeChannel
      BY <1>5, Zenon DEF TpDBusTubeChannel
    <3>2. u.result = v.result /\ u.address /\ u.valid = v.valid
      BY <1>5, ZenonT(40) DEF TpDBusTubeChannel
    <3>3. /\ u.calls = v.calls /\ u.answers = v.answers /\ u.core = v.core
          /\ u.pending = v.pending /\ u.connecting = v.connecting /\ u.state = v.state
      BY <1>5 DEF TpDBusTubeChannel
    <3> HIDE DEF u
    <3>4. /\ tube' \in TpDBusTubeChannel /\ tube'.result = u.result /\ tube'.calls = u.calls
          /\ tube'.answers = u.answers
          /\ tube'.state = u.state /\ tube'.address = u.address /\ tube'.core = u.core
          /\ tube'.pending = u.pending /\ tube'.valid = u.valid
          /\ \/ tube'.connecting = u.connecting /\ ~(u.result /\ u.address /\ u.state = "open")
             \/ tube'.connecting = u.connecting + 1 /\ u.result /\ u.address /\ u.state = "open"
      BY <2>1, <3>1, CheckOpenFacts
    <3>5. tube.connecting \in Nat
      BY <1>2 DEF TpDBusTubeChannel
    <3>6. OpeningIsSeen'
      BY <1>7, <3>2, <3>3, <3>4, <3>5 DEF IInv, OpeningIsSeen
    <3> QED
      BY <1>6, <1>7, <3>2, <3>3, <3>4, <3>6
  <2>2. CASE tube' = complete_operation(v)
    <3>1. /\ tube' \in TpDBusTubeChannel /\ tube'.result = FALSE /\ tube'.calls = v.calls
          /\ tube'.answers = v.answers + (IF v.result THEN 1 ELSE 0)
          /\ tube'.state = v.state /\ tube'.core = v.core /\ tube'.pending = v.pending
          /\ tube'.connecting = v.connecting /\ tube'.address = v.address
          /\ tube'.valid = v.valid
      BY <1>5, <2>2, CompleteFacts, ZenonT(60)
    <3>2. OpeningIsSeen'
      BY <1>6, <1>7, <3>1 DEF IInv, OpeningIsSeen
    <3>3. tube.answers \in Nat
      BY <1>2 DEF TpDBusTubeChannel
    <3> QED
      BY <1>6, <1>7, <3>1, <3>2, <3>3
  <2> QED
    BY <1>3, <1>4, <2>1, <2>2
<1>9. Types'
  BY <1>1, <1>2, <1>8 DEF Types
<1>10. ReadFirst'
  <2>1. \A i, j \in DOMAIN wire' : wire'[i].type = "get" /\ wire'[j].type = "get" => i = j
    <3> SUFFICES ASSUME NEW i \in DOMAIN wire', NEW j \in DOMAIN wire',
                        wire'[i].type = "get", wire'[j].type = "get"
                 PROVE  i = j
      OBVIOUS
    <3>1. i + 1 = j + 1
      BY <1>1, Zenon DEF IInv, ReadFirst
    <3> QED
      BY <1>1, <3>1
  <2>2. \A i \in DOMAIN wire' : wire'[i].type = "get" => tube'.core = "getting" /\ wire'[i].state = First
    BY <1>1, <1>8 DEF IInv, ReadFirst
  <2>3. svc.get => tube.core = "getting" /\ \A i \in DOMAIN wire' : wire'[i].type # "get"
    BY <1>1 DEF IInv, ReadFirst
  <2>4. tube.core # "ready" => \A i \in DOMAIN wire' : wire'[i].type # "state"
    BY <1>1 DEF IInv, ReadFirst
  <2> QED
    BY <1>2, <1>8, <2>1, <2>2, <2>3, <2>4 DEF IInv, ReadFirst
<1>11. OpensOnce'
  <2>1. svc.state \notin {"open", "closed"} => \A i \in DOMAIN wire' : wire'[i].state # "open"
    BY <1>1 DEF IInv, OpensOnce
  <2>2. tube.state = "open" => \A i \in DOMAIN wire' : wire'[i].type # "state"
    BY <1>1 DEF IInv, OpensOnce
  <2>3. \A i, j \in DOMAIN wire' :
          wire'[i].type = "state" /\ wire'[i].state = "open" /\ wire'[j].type = "state" => j <= i
    <3> SUFFICES ASSUME NEW i \in DOMAIN wire', NEW j \in DOMAIN wire',
                        wire'[i].type = "state", wire'[i].state = "open", wire'[j].type = "state"
                 PROVE  j <= i
      OBVIOUS
    <3>1. j + 1 <= i + 1
      BY <1>1, Zenon DEF IInv, OpensOnce
    <3> QED
      BY <1>1, <3>1
  <2> QED
    BY <1>2, <1>8, <2>1, <2>2, <2>3 DEF IInv, OpensOnce
<1>12. AnsweredExactly'
  BY <1>8 DEF IInv, AnsweredExactly
<1>13. ClosingAnswers'
  BY <1>2, <1>8 DEF ClosingAnswers
<1> QED
  BY <1>8, <1>9, <1>10, <1>11, <1>12, <1>13 DEF IInv

(* The connection manager sends a message: what it has to be, and what the
   manager's own state has to be then, for the invariant to go on. *)
LEMMA SendStep ==
  ASSUME IInv, NEW m \in Messages, wire' = Append(wire, m), tube' = tube,
         svc' \in [state : States, asked : BOOLEAN, replied : BOOLEAN, get : BOOLEAN],
         svc'.asked => svc.asked, svc'.get => svc.get /\ m.type # "get",
         m.type = "get" => svc.get /\ m.state = First,
         m.type = "state" => svc.asked /\ svc.state \notin {"open", "closed"},
         m.state = "open" => svc'.state \in {"open", "closed"},
         \/ svc'.state = svc.state
         \/ svc.state # "closed" /\ svc'.state = "closed"
         \/ svc.state \notin {"open", "closed"} /\ svc.asked
  PROVE  IInv'
<1>1. tube \in TpDBusTubeChannel /\ wire \in Seq(Messages)
      /\ svc \in [state : States, asked : BOOLEAN, replied : BOOLEAN, get : BOOLEAN]
  BY DEF IInv, Types
<1>2. PICK n \in Nat : /\ n \notin DOMAIN wire /\ DOMAIN wire' = DOMAIN wire \cup {n}
                       /\ wire'[n] = m
                       /\ \A i \in DOMAIN wire : i \in Nat /\ i < n /\ wire'[i] = wire[i]
  BY <1>1, AppendFacts
<1>3. wire' \in Seq(Messages)
  BY <1>1, AppendFacts
<1>4. Types'
  BY <1>1, <1>3 DEF Types
<1>5. ReadFirst'
  <2>1. svc'.asked \/ tube'.pending = "sent" => tube'.core = "ready"
    BY DEF IInv, ReadFirst
  <2>2. svc'.get => tube'.core = "getting" /\ \A i \in DOMAIN wire' : wire'[i].type # "get"
    BY <1>2 DEF IInv, ReadFirst
  <2>3. ASSUME tube'.core # "ready"
        PROVE  /\ svc'.state \in {First, "closed"} /\ tube'.state # "open"
               /\ \A i \in DOMAIN wire' : wire'[i].type # "state"
    <3>1. ~svc.asked /\ svc.state \in {First, "closed"} /\ tube.state # "open"
          /\ \A i \in DOMAIN wire : wire[i].type # "state"
      BY <2>3 DEF IInv, ReadFirst
    <3>2. m.type # "state" /\ svc'.state \in {svc.state, "closed"}
      BY <3>1
    <3> QED
      BY <1>2, <3>1, <3>2
  <2>4. \A i \in DOMAIN wire' : wire'[i].type = "get" => tube'.core = "getting" /\ wire'[i].state = First
    BY <1>2 DEF IInv, ReadFirst
  <2>5. \A i, j \in DOMAIN wire' : wire'[i].type = "get" /\ wire'[j].type = "get" => i = j
    BY <1>2 DEF IInv, ReadFirst
  <2> QED
    BY <2>1, <2>2, <2>3, <2>4, <2>5 DEF ReadFirst
<1>6. OpensOnce'
  <2>1. ASSUME svc'.state \notin {"open", "closed"}
        PROVE  tube'.state # "open" /\ \A i \in DOMAIN wire' : wire'[i].state # "open"
    <3>1. svc.state \notin {"open", "closed"} /\ m.state # "open"
      BY <2>1
    <3> QED
      BY <1>2, <3>1 DEF IInv, OpensOnce
  <2>2. tube'.state = "open" => \A i \in DOMAIN wire' : wire'[i].type # "state"
    BY <1>2 DEF IInv, OpensOnce
  <2>3. ASSUME NEW i \in DOMAIN wire', NEW j \in DOMAIN wire',
               wire'[i].type = "state", wire'[i].state = "open", wire'[j].type = "state"
        PROVE  j <= i
    <3>1. CASE i = n
      BY <1>2, <3>1
    <3>2. CASE i \in DOMAIN wire
      <4>1. svc.state \in {"open", "closed"}
        BY <1>2, <2>3, <3>2 DEF IInv, OpensOnce
      <4>2. j \in DOMAIN wire
        BY <1>2, <2>3, <4>1
      <4> QED
        BY <1>2, <2>3, <3>2, <4>2 DEF IInv, OpensOnce
    <3> QED
      BY <1>2, <3>1, <3>2
  <2> QED
    BY <2>1, <2>2, <2>3 DEF OpensOnce
<1>7. AnsweredExactly' /\ OpeningIsSeen' /\ ClosingAnswers'
  BY DEF IInv, AnsweredExactly, OpeningIsSeen, ClosingAnswers
<1> QED
  BY <1>4, <1>5, <1>6, <1>7 DEF IInv

LEMMA ServiceStep ==
  ASSUME IInv, SvcGetState \/ SvcReply \/ SvcChangeState \/ SvcClose
  PROVE  IInv'
<1> DEFINE S == [state : States, asked : BOOLEAN, replied : BOOLEAN, get : BOOLEAN]
<1>1. svc \in S /\ tube' = tube
  BY DEF IInv, Types, SvcGetState, SvcReply, SvcChangeState, SvcClose
<1>2. CASE SvcGetState
  <2>1. PICK ok \in BOOLEAN :
          wire' = Append(wire, [type |-> "get", ok |-> ok, state |-> svc.state])
    BY <1>2 DEF SvcGetState
  <2> DEFINE m == [type |-> "get", ok |-> ok, state |-> svc.state]
  <2>2. m \in Messages /\ m.type = "get" /\ m.state = svc.state
    BY <1>1 DEF Messages
  <2>3. svc' = [svc EXCEPT !.get = FALSE] /\ svc.get /\ svc.state # "closed"
    BY <1>2 DEF SvcGetState
  <2>4. svc' \in S /\ svc'.state = svc.state
    BY <1>1, <2>3, Zenon
  <2>5. svc'.asked = svc.asked /\ svc'.get = FALSE
    BY <1>1, <2>3, ZenonT(40)
  <2>6. svc.state = First /\ First # "open"
    <3>1. tube.core = "getting"
      BY <2>3 DEF IInv, ReadFirst
    <3> QED
      BY <2>3, <3>1 DEF IInv, ReadFirst, First
  <2>7. wire' = Append(wire, m)
    BY <2>1
  <2> HIDE DEF m
  <2> QED
    BY <1>1, <2>2, <2>3, <2>4, <2>5, <2>6, <2>7, SendStep, Zenon
<1>3. CASE SvcReply
  <2>1. PICK ok \in BOOLEAN :
          wire' = Append(wire, [type |-> "reply", ok |-> ok, state |-> "none"])
    BY <1>3 DEF SvcReply
  <2> DEFINE m == [type |-> "reply", ok |-> ok, state |-> "none"]
  <2>2. m \in Messages /\ m.type = "reply" /\ m.state = "none"
    BY DEF Messages
  <2>3. svc' = [svc EXCEPT !.replied = TRUE]
    BY <1>3 DEF SvcReply
  <2>4. svc' \in S /\ svc'.state = svc.state
    BY <1>1, <2>3, Zenon
  <2>5. svc'.asked = svc.asked /\ svc'.get = svc.get
    BY <1>1, <2>3, ZenonT(40)
  <2>6. wire' = Append(wire, m)
    BY <2>1
  <2> HIDE DEF m
  <2> QED
    BY <1>1, <2>2, <2>4, <2>5, <2>6, SendStep
<1>4. CASE SvcChangeState
  <2>1. PICK s \in {"open", "remote_pending"} :
          /\ svc.state \notin {s, "open", "closed"} /\ svc' = [svc EXCEPT !.state = s]
          /\ wire' = Append(wire, [type |-> "state", ok |-> TRUE, state |-> s])
    BY <1>4, Zenon DEF SvcChangeState
  <2> DEFINE m == [type |-> "state", ok |-> TRUE, state |-> s]
  <2>2. m \in Messages /\ m.type = "state" /\ m.state = s /\ s \in States
    BY <2>1 DEF Messages, States
  <2>3. svc' \in S /\ svc'.state = s
    BY <1>1, <2>1, <2>2
  <2>4. svc'.asked = svc.asked /\ svc'.get = svc.get /\ svc.asked
    BY <1>1, <1>4, <2>1, ZenonT(40) DEF SvcChangeState
  <2>5. wire' = Append(wire, m) /\ svc.state \notin {"open", "closed"}
    BY <2>1
  <2> HIDE DEF m
  <2> QED
    BY <1>1, <2>2, <2>3, <2>4, <2>5, SendStep
<1>5. CASE SvcClose
  <2> DEFINE m == [type |-> "closed", ok |-> TRUE, state |-> "none"]
             a == [svc EXCEPT !.state = "closed"]
             b == [a EXCEPT !.get = FALSE]
  <2>1. m \in Messages /\ m.type = "closed" /\ m.state = "none" /\ wire' = Append(wire, m)
        /\ svc.state # "closed"
    BY <1>5 DEF Messages, SvcClose
  <2>2. svc' = [b EXCEPT !.asked = FALSE]
    BY <1>1, <1>5 DEF SvcClose
  <2>3. svc' \in S /\ svc'.state = "closed"
    BY <1>1, <2>2, Zenon DEF States
  <2>4. svc'.asked = FALSE /\ svc'.get = FALSE
    BY <1>1, <2>2, ZenonT(40)
  <2> HIDE DEF m
  <2> QED
    BY <1>1, <2>1, <2>3, <2>4, SendStep
<1> QED
  BY <1>2, <1>3, <1>4, <1>5

(* The invariant holds of every tube. *)
THEOREM TubeInvariance ==
  SoundConstants /\ Spec => []IInv
<1> SUFFICES ASSUME SoundConstants PROVE Spec => []IInv
  OBVIOUS
<1>1. Init => IInv
  BY InitIInv
<1>2. IInv /\ [Next]_vars => IInv'
  <2> SUFFICES ASSUME IInv, [Next]_vars PROVE IInv'
    OBVIOUS
  <2>1. CASE OfferTube \/ AcceptTube
    BY <2>1, CallStep DEF OfferTube, AcceptTube
  <2>2. CASE Prepared
    BY <2>2, PreparedStep
  <2>3. CASE Receive
    <3>1. Head(wire) \in Messages /\ Head(wire).type # "closed"
      BY <2>3, WireAfterReceive
    <3>2. Head(wire).type \in {"get", "state", "reply"}
      BY <3>1 DEF Messages
    <3> QED
      BY <2>3, <3>2, GetStep, StateStep, ReplyStep
  <2>4. CASE Closed
    BY <2>4, ClosedStep
  <2>5. CASE CallFailed \/ Connected
    BY <2>5, CallFailedStep, ConnectedStep
  <2>6. CASE SvcGetState \/ SvcReply \/ SvcChangeState \/ SvcClose
    BY <2>6, ServiceStep
  <2>7. CASE UNCHANGED vars
    BY <2>7 DEF vars, IInv, Types, ReadFirst, OpensOnce, AnsweredExactly, OpeningIsSeen,
                ClosingAnswers
  <2> QED
    BY <2>1, <2>2, <2>3, <2>4, <2>5, <2>6, <2>7 DEF Next
<1> QED
  BY <1>1, <1>2, PTL DEF Spec

(* Every offer_async and accept_async is answered exactly once or is still under
   way, no opening of the tube is missed whichever of the reply and the state
   change comes last, and nobody waits for a tube that closed. *)
THEOREM TubeTransfersAreRight ==
  SoundConstants /\ Spec => []TransfersAreRight
<1>1. IInv => TransfersAreRight
  BY DEF IInv, TransfersAreRight
<1> QED
  BY <1>1, TubeInvariance, PTL

(* While the channel is not closed, one thing at a time is done for the call
   under way: its preparation, then Offer or Accept, then waiting for the tube to
   open, then the connection. *)
OneStage ==
  /\ tube.valid /\ ~tube.aborted /\ tube.pending # "failing" /\ svc.state # "closed"
  /\ \A i \in DOMAIN wire : wire[i].type # "closed"
  /\ tube.preparing => tube.result /\ tube.pending = "no" /\ tube.connecting = 0
  /\ tube.pending = "sent" => tube.result /\ tube.connecting = 0 /\ ~tube.address
  /\ tube.connecting > 0 => tube.result /\ tube.connecting = 1
  /\ tube.address /\ (tube.preparing \/ ~tube.result) => tube.state = "open"
  /\ svc.asked /\ ~svc.replied => tube.pending = "sent"
  /\ \A i \in DOMAIN wire : wire[i].type = "reply" => tube.pending = "sent" /\ svc.replied
  /\ \A i, j \in DOMAIN wire : wire[i].type = "reply" /\ wire[j].type = "reply" => i = j

(* complete_operation does not fail its assertion while a call is under way. *)
LEMMA CompleteAborts ==
  ASSUME NEW t \in TpDBusTubeChannel, t.result, NEW u, u = complete_operation(t)
  PROVE  u.aborted = t.aborted
<1>1. u = [t EXCEPT !.result = FALSE, !.answers = @ + 1]
  BY DEF complete_operation, complete
<1> QED
  BY <1>1, ZenonT(40) DEF TpDBusTubeChannel

(* check_tube_open has no assertion.                                        *)
LEMMA CheckOpenAborts ==
  ASSUME NEW t \in TpDBusTubeChannel, NEW u, u = check_tube_open(t)
  PROVE  u.aborted = t.aborted
<1>1. u = [t EXCEPT !.connecting = @ + 1] \/ u = t
  BY DEF check_tube_open, check_open
<1> QED
  BY <1>1, ZenonT(40) DEF TpDBusTubeChannel

(* offer_async and accept_async begin when nothing else is under way.       *)
LEMMA CallStage ==
  ASSUME IInv, OneStage, Call
  PROVE  OneStage'
<1>1. /\ tube \in TpDBusTubeChannel /\ wire' = wire /\ ~tube.result
      /\ svc \in [state : States, asked : BOOLEAN, replied : BOOLEAN, get : BOOLEAN]
  BY DEF IInv, Types, Call
<1>2. /\ tube'.result /\ tube'.preparing /\ tube'.address = tube.address
      /\ tube'.valid = tube.valid /\ tube'.aborted = tube.aborted
  BY <1>1, ZenonT(40) DEF Call, TpDBusTubeChannel
<1>3. tube'.pending = tube.pending /\ tube'.connecting = tube.connecting /\ tube'.state = tube.state
  BY <1>1 DEF Call, TpDBusTubeChannel
<1>4. svc'.state = svc.state /\ svc'.asked = svc.asked /\ svc'.replied = svc.replied
  BY <1>1, ZenonT(40) DEF Call
<1>5. tube.pending = "no" /\ tube.connecting = 0
  BY <1>1 DEF OneStage, TpDBusTubeChannel
<1> QED
  BY <1>1, <1>2, <1>3, <1>4, <1>5 DEF OneStage

(* The preparation ends with an answer, or with Offer or Accept.            *)
LEMMA PreparedStage ==
  ASSUME SoundConstants, IInv, OneStage, Prepared
  PROVE  OneStage'
<1> DEFINE t == [tube EXCEPT !.preparing = FALSE]
           e == IF Requested THEN [t EXCEPT !.params = TRUE] ELSE t
           sent == tube'.pending = "sent"
<1>1. /\ tube \in TpDBusTubeChannel /\ wire' = wire /\ tube.preparing
      /\ svc \in [state : States, asked : BOOLEAN, replied : BOOLEAN, get : BOOLEAN]
  BY DEF IInv, Types, Prepared
<1>2. /\ t \in TpDBusTubeChannel /\ t.preparing = FALSE /\ t.result = tube.result
      /\ t.address = tube.address /\ t.valid = tube.valid /\ t.aborted = tube.aborted
  BY <1>1, ZenonT(40) DEF TpDBusTubeChannel
<1>3. t.pending = tube.pending /\ t.connecting = tube.connecting /\ t.state = tube.state
  BY <1>1 DEF TpDBusTubeChannel
<1>4. \/ tube' = complete_operation(t)
      \/ tube' = [e EXCEPT !.pending = "sent"] /\ t.state \in {"not_offered", "local_pending"}
  BY Zenon DEF Prepared, prepare_offer, prepare_accept
<1>5. svc' = [svc EXCEPT !.asked = @ \/ sent, !.replied = @ /\ ~sent]
  BY DEF Prepared
<1> HIDE DEF t
<1>6. svc'.state = svc.state
  BY <1>1, <1>5, Zenon
<1>7. (svc'.asked <=> svc.asked \/ sent) /\ (svc'.replied <=> svc.replied /\ ~sent)
  BY <1>1, <1>5, ZenonT(40)
<1>8. /\ tube.result /\ tube.pending = "no" /\ tube.connecting = 0
      /\ tube.address => tube.state = "open"
      /\ \A i \in DOMAIN wire : wire[i].type # "reply"
      /\ ~(svc.asked /\ ~svc.replied)
  BY <1>1 DEF OneStage
<1>9. CASE tube' = complete_operation(t)
  <2>1. /\ tube'.result = FALSE /\ tube'.state = t.state /\ tube'.address = t.address
        /\ tube'.preparing = t.preparing /\ tube'.pending = t.pending
        /\ tube'.connecting = t.connecting /\ tube'.valid = t.valid
    BY <1>2, <1>9, CompleteFacts, Zenon
  <2>2. tube'.aborted = t.aborted
    BY <1>2, <1>8, <1>9, CompleteAborts, Zenon
  <2>3. ~sent /\ tube'.pending = "no" /\ tube'.connecting = 0
    BY <1>3, <1>8, <2>1
  <2> HIDE DEF sent
  <2> QED
    BY <1>1, <1>2, <1>3, <1>6, <1>7, <1>8, <2>1, <2>2, <2>3 DEF OneStage
<1>10. CASE tube' = [e EXCEPT !.pending = "sent"] /\ t.state \in {"not_offered", "local_pending"}
  <2>1. e \in TpDBusTubeChannel
    BY <1>2, ZenonT(60) DEF TpDBusTubeChannel
  <2>2. /\ e.result = t.result /\ e.address = t.address /\ e.preparing = t.preparing
        /\ e.valid = t.valid /\ e.aborted = t.aborted
    BY <1>2, ZenonT(40) DEF TpDBusTubeChannel
  <2>3. e.connecting = t.connecting /\ e.state = t.state
    BY <1>2 DEF TpDBusTubeChannel
  <2> HIDE DEF e
  <2>4. /\ tube'.result = e.result /\ tube'.address = e.address /\ tube'.preparing = e.preparing
        /\ tube'.valid = e.valid /\ tube'.aborted = e.aborted
    BY <1>10, <2>1, ZenonT(40) DEF TpDBusTubeChannel
  <2>5. tube'.connecting = e.connecting /\ tube'.state = e.state /\ tube'.pending = "sent"
    BY <1>10, <2>1 DEF TpDBusTubeChannel
  <2>6. sent /\ ~tube'.address /\ tube'.connecting = 0 /\ tube'.result /\ ~tube'.preparing
    BY <1>2, <1>3, <1>8, <1>10, <2>2, <2>3, <2>4, <2>5
  <2>7. tube'.valid = tube.valid /\ tube'.aborted = tube.aborted
    BY <1>2, <2>2, <2>4
  <2> HIDE DEF sent
  <2> QED
    BY <1>1, <1>6, <1>7, <1>8, <2>5, <2>6, <2>7 DEF OneStage
<1> QED
  BY <1>4, <1>9, <1>10, Zenon

(* dbus_connection_new_cb answers the one call that was waiting for it.     *)
LEMMA ConnectedStage ==
  ASSUME IInv, OneStage, Connected
  PROVE  OneStage'
<1>1. PICK ok \in BOOLEAN :
        tube' = complete_operation([tube EXCEPT !.connecting = @ - 1, !.opened = @ \/ ok])
  BY ZenonT(40) DEF Connected
<1> DEFINE v == [tube EXCEPT !.connecting = @ - 1]
           u == [v EXCEPT !.opened = @ \/ ok]
<1>2. /\ tube \in TpDBusTubeChannel /\ wire' = wire /\ svc' = svc /\ tube.connecting > 0
      /\ tube.connecting = 1 /\ tube.result
  BY DEF IInv, Types, Connected, OneStage
<1>3. tube' = complete_operation(u)
  BY <1>1, <1>2 DEF TpDBusTubeChannel
<1>4. v \in TpDBusTubeChannel /\ v.connecting = 0 /\ v.pending = tube.pending /\ v.state = tube.state
  BY <1>2 DEF TpDBusTubeChannel
<1>5. /\ v.result = tube.result /\ v.address = tube.address /\ v.preparing = tube.preparing
      /\ v.valid = tube.valid /\ v.aborted = tube.aborted
  BY <1>2, ZenonT(40) DEF TpDBusTubeChannel
<1> HIDE DEF v
<1>6. u \in TpDBusTubeChannel /\ u.connecting = v.connecting /\ u.pending = v.pending /\ u.state = v.state
  BY <1>4 DEF TpDBusTubeChannel
<1>7. /\ u.result = v.result /\ u.address = v.address /\ u.preparing = v.preparing
      /\ u.valid = v.valid /\ u.aborted = v.aborted
  BY <1>4, ZenonT(40) DEF TpDBusTubeChannel
<1> HIDE DEF u
<1>8. /\ tube'.result = FALSE /\ tube'.state = u.state /\ tube'.address = u.address
      /\ tube'.preparing = u.preparing /\ tube'.pending = u.pending
      /\ tube'.connecting = u.connecting /\ tube'.valid = u.valid
  BY <1>3, <1>6, CompleteFacts, ZenonT(60)
<1>9. tube'.aborted = u.aborted
  BY <1>2, <1>3, <1>5, <1>6, <1>7, CompleteAborts, Zenon
<1>10. ~tube.preparing /\ tube.pending # "sent" /\ tube.state = "open"
  BY <1>2 DEF IInv, OneStage, OpeningIsSeen
<1> QED
  BY <1>2, <1>4, <1>5, <1>6, <1>7, <1>8, <1>9, <1>10 DEF OneStage

(* State's value, and its changes, of which the one that opens the tube may be
   what the call waits for.                                                  *)
LEMMA NewsStage ==
  ASSUME IInv, OneStage, Receive, Head(wire).type \in {"get", "state"}
  PROVE  OneStage'
<1> DEFINE m == Head(wire)
<1>1. /\ wire[1] = m /\ 1 \in DOMAIN wire /\ m \in Messages /\ DOMAIN wire' \subseteq Nat \ {0}
      /\ \A i \in DOMAIN wire' : i + 1 \in DOMAIN wire /\ wire'[i] = wire[i + 1]
  BY WireAfterReceive
<1>2. /\ tube \in TpDBusTubeChannel /\ svc' = svc
      /\ \/ m.type = "get" /\ tube' = get_state(tube, m)
         \/ m.type = "state" /\ tube' = check_tube_open([tube EXCEPT !.state = m.state])
  BY DEF IInv, Types, Receive, Got, state_changed
<1>3. m.state \in States
  BY <1>1 DEF Messages
<1>4. /\ \A i \in DOMAIN wire' : /\ wire'[i].type # "closed"
                                 /\ wire'[i].type = "reply" => tube.pending = "sent" /\ svc.replied
      /\ \A i, j \in DOMAIN wire' : wire'[i].type = "reply" /\ wire'[j].type = "reply" => i = j
  <2>1. \A i, j \in DOMAIN wire' : i + 1 = j + 1 => i = j
    BY <1>1
  <2> QED
    BY <1>1, <2>1 DEF OneStage
<1>5. tube.connecting = 0 /\ tube.state # "open"
  <2>1. tube.state # "open"
    BY <1>1, <1>2 DEF IInv, ReadFirst, OpensOnce
  <2> QED
    BY <1>2, <2>1 DEF IInv, OpeningIsSeen, TpDBusTubeChannel
<1>6. tube.address => tube.result /\ ~tube.preparing
  BY <1>5 DEF OneStage
<1>7. CASE m.type = "get"
  <2> DEFINE c == IF m.ok THEN "ready" ELSE "failed"
             s == IF m.ok THEN m.state ELSE tube.state
             v == [tube EXCEPT !.core = c]
  <2>1. tube' = [v EXCEPT !.state = s]
    BY <1>2, <1>7 DEF get_state, TpDBusTubeChannel
  <2>2. c \in {"ready", "failed"} /\ s \in States
    BY <1>2, <1>3 DEF TpDBusTubeChannel
  <2> HIDE DEF m, c, s
  <2>3. v \in TpDBusTubeChannel /\ v.pending = tube.pending /\ v.connecting = tube.connecting
    BY <1>2, <2>2 DEF TpDBusTubeChannel
  <2>4. /\ v.result = tube.result /\ v.address = tube.address /\ v.preparing = tube.preparing
        /\ v.valid = tube.valid /\ v.aborted = tube.aborted
    BY <1>2, ZenonT(40) DEF TpDBusTubeChannel
  <2> HIDE DEF v
  <2>5. tube'.pending = v.pending /\ tube'.connecting = v.connecting
    BY <2>1, <2>3 DEF TpDBusTubeChannel
  <2>6. /\ tube'.result = v.result /\ tube'.address = v.address /\ tube'.preparing = v.preparing
        /\ tube'.valid = v.valid /\ tube'.aborted = v.aborted
    BY <2>1, <2>3, ZenonT(40) DEF TpDBusTubeChannel
  <2> QED
    BY <1>2, <1>4, <1>5, <1>6, <2>3, <2>4, <2>5, <2>6 DEF OneStage
<1>8. CASE m.type = "state"
  <2> DEFINE v == [tube EXCEPT !.state = m.state]
  <2>1. tube' = check_tube_open(v)
    BY <1>2, <1>8
  <2> HIDE DEF m
  <2>2. v \in TpDBusTubeChannel /\ v.pending = tube.pending /\ v.connecting = tube.connecting
    BY <1>2, <1>3 DEF TpDBusTubeChannel
  <2>3. /\ v.result = tube.result /\ v.address = tube.address /\ v.preparing = tube.preparing
        /\ v.valid = tube.valid /\ v.aborted = tube.aborted
    BY <1>2, ZenonT(40) DEF TpDBusTubeChannel
  <2> HIDE DEF v
  <2>4. /\ tube'.result = v.result /\ tube'.address = v.address
        /\ tube'.preparing = v.preparing /\ tube'.pending = v.pending /\ tube'.valid = v.valid
        /\ \/ tube'.connecting = v.connecting
           \/ tube'.connecting = v.connecting + 1 /\ v.result /\ v.address
    BY <2>1, <2>2, CheckOpenFacts
  <2>5. tube'.aborted = v.aborted
    BY <2>1, <2>2, CheckOpenAborts, Zenon
  <2>6. tube'.connecting = 0 \/ (tube'.connecting = 1 /\ tube.result /\ tube.address)
    BY <1>5, <2>2, <2>3, <2>4
  <2>7. tube.pending = "sent" => ~tube.address
    BY DEF OneStage
  <2>8. tube'.pending = tube.pending /\ tube'.result = tube.result /\ tube'.address = tube.address
        /\ tube'.preparing = tube.preparing /\ tube'.valid = tube.valid /\ tube'.aborted = tube.aborted
    BY <2>2, <2>3, <2>4, <2>5
  <2> QED
    BY <1>2, <1>4, <1>6, <2>6, <2>7, <2>8 DEF OneStage
<1> QED
  BY <1>2, <1>7, <1>8

(* dbus_tube_offer_cb or dbus_tube_accept_cb: the call that was sent is under
   way, so that it can be answered.                                          *)
LEMMA ReplyStage ==
  ASSUME IInv, OneStage, Receive, Head(wire).type = "reply"
  PROVE  OneStage'
<1> DEFINE m == Head(wire)
           v == [tube EXCEPT !.pending = "no"]
           u == [v EXCEPT !.address = TRUE]
<1>1. /\ wire[1] = m /\ 1 \in DOMAIN wire /\ m \in Messages /\ DOMAIN wire' \subseteq Nat \ {0}
      /\ \A i \in DOMAIN wire' : i + 1 \in DOMAIN wire /\ wire'[i] = wire[i + 1]
  BY WireAfterReceive
<1>2. tube \in TpDBusTubeChannel /\ svc' = svc /\ tube' = replied(tube, m.ok)
  BY DEF IInv, Types, Receive, Got
<1>3. \/ tube' = check_tube_open([tube EXCEPT !.pending = "no", !.address = TRUE])
      \/ tube' = complete_operation(v)
  BY <1>2 DEF replied
<1>4. [tube EXCEPT !.pending = "no", !.address = TRUE] = u
  BY <1>2 DEF TpDBusTubeChannel
<1>5. /\ tube.pending = "sent" /\ svc.replied /\ tube.result /\ tube.connecting = 0
      /\ ~tube.address /\ ~tube.preparing
  BY <1>1 DEF OneStage
<1>6. \A i \in DOMAIN wire' : wire'[i].type # "closed" /\ wire'[i].type # "reply"
  <2>1. \A i \in DOMAIN wire' : i + 1 # 1
    BY <1>1
  <2> QED
    BY <1>1, <2>1 DEF OneStage
<1> HIDE DEF m
<1>7. v \in TpDBusTubeChannel /\ v.pending = "no" /\ v.connecting = tube.connecting /\ v.state = tube.state
  BY <1>2 DEF TpDBusTubeChannel
<1>8. /\ v.result = tube.result /\ v.address = tube.address /\ v.preparing = tube.preparing
      /\ v.valid = tube.valid /\ v.aborted = tube.aborted
  BY <1>2, ZenonT(40) DEF TpDBusTubeChannel
<1> HIDE DEF v
<1>9. CASE tube' = check_tube_open(u)
  <2>1. u \in TpDBusTubeChannel
    BY <1>7, Zenon DEF TpDBusTubeChannel
  <2>2. u.pending = v.pending /\ u.connecting = v.connecting /\ u.state = v.state
    BY <1>7 DEF TpDBusTubeChannel
  <2>3. /\ u.result = v.result /\ u.preparing = v.preparing
        /\ u.valid = v.valid /\ u.aborted = v.aborted
    BY <1>7, ZenonT(40) DEF TpDBusTubeChannel
  <2> HIDE DEF u
  <2>4. /\ tube'.result = u.result /\ tube'.preparing = u.preparing
        /\ tube'.pending = u.pending /\ tube'.valid = u.valid
        /\ tube'.connecting = u.connecting \/ tube'.connecting = u.connecting + 1
    BY <1>9, <2>1, CheckOpenFacts
  <2>5. tube'.aborted = u.aborted
    BY <1>9, <2>1, CheckOpenAborts, Zenon
  <2>6. tube'.connecting \in {0, 1} /\ tube'.pending = "no" /\ tube'.result /\ ~tube'.preparing
    BY <1>5, <1>7, <1>8, <2>2, <2>3, <2>4
  <2>7. tube'.valid = tube.valid /\ tube'.aborted = tube.aborted
    BY <1>8, <2>3, <2>4, <2>5
  <2> QED
    BY <1>2, <1>5, <1>6, <2>6, <2>7 DEF OneStage
<1>10. CASE tube' = complete_operation(v)
  <2>1. /\ tube'.result = FALSE /\ tube'.address = v.address
        /\ tube'.preparing = v.preparing /\ tube'.pending = v.pending
        /\ tube'.connecting = v.connecting /\ tube'.valid = v.valid
    BY <1>7, <1>10, CompleteFacts, ZenonT(60)
  <2>2. tube'.aborted = v.aborted
    BY <1>5, <1>7, <1>8, <1>10, CompleteAborts, Zenon
  <2> QED
    BY <1>2, <1>5, <1>6, <1>7, <1>8, <2>1, <2>2 DEF OneStage
<1> QED
  BY <1>3, <1>4, <1>9, <1>10

(* The connection manager answers State or Offer or Accept, or moves the tube on:
   one reply for the call that was sent.                                     *)
LEMMA SendStage ==
  ASSUME IInv, OneStage, NEW m \in Messages, wire' = Append(wire, m), tube' = tube,
         m.type # "closed", svc'.state # "closed", svc'.asked = svc.asked,
         \/ m.type # "reply" /\ svc'.replied = svc.replied
         \/ svc.asked /\ ~svc.replied /\ svc'.replied
  PROVE  OneStage'
<1>1. PICK n \in Nat : /\ n \notin DOMAIN wire /\ DOMAIN wire' = DOMAIN wire \cup {n} /\ wire'[n] = m
                       /\ \A i \in DOMAIN wire : wire'[i] = wire[i]
  <2>1. wire \in Seq(Messages)
    BY DEF IInv, Types
  <2> QED
    BY <2>1, AppendFacts
<1>2. \A i \in DOMAIN wire' : wire'[i].type # "closed"
  BY <1>1 DEF OneStage
<1>3. CASE m.type # "reply" /\ svc'.replied = svc.replied
  <2>1. \A i \in DOMAIN wire' : wire'[i].type = "reply" => i \in DOMAIN wire /\ wire'[i] = wire[i]
    BY <1>1, <1>3
  <2> QED
    BY <1>2, <1>3, <2>1 DEF OneStage
<1>4. CASE svc.asked /\ ~svc.replied /\ svc'.replied
  <2>1. tube.pending = "sent" /\ \A i \in DOMAIN wire : wire[i].type # "reply"
    BY <1>4 DEF OneStage
  <2>2. \A i \in DOMAIN wire' : wire'[i].type = "reply" => i = n
    BY <1>1, <2>1
  <2> QED
    BY <1>2, <1>4, <2>1, <2>2 DEF OneStage
<1> QED
  BY <1>3, <1>4

(* The three of them.                                                        *)
LEMMA ServiceStage ==
  ASSUME IInv, OneStage, SvcGetState \/ SvcReply \/ SvcChangeState
  PROVE  OneStage'
<1>1. svc \in [state : States, asked : BOOLEAN, replied : BOOLEAN, get : BOOLEAN] /\ svc.state # "closed"
  BY DEF IInv, Types, OneStage
<1>2. CASE SvcGetState
  <2>1. PICK ok \in BOOLEAN : wire' = Append(wire, [type |-> "get", ok |-> ok, state |-> svc.state])
    BY <1>2 DEF SvcGetState
  <2> DEFINE m == [type |-> "get", ok |-> ok, state |-> svc.state]
  <2>2. m \in Messages /\ m.type = "get" /\ wire' = Append(wire, m)
    BY <1>1, <2>1 DEF Messages
  <2>3. svc'.state = svc.state /\ svc'.asked = svc.asked /\ svc'.replied = svc.replied /\ tube' = tube
    BY <1>1, <1>2, ZenonT(40) DEF SvcGetState
  <2> HIDE DEF m
  <2> QED
    BY <1>1, <2>2, <2>3, SendStage
<1>3. CASE SvcReply
  <2>1. PICK ok \in BOOLEAN : wire' = Append(wire, [type |-> "reply", ok |-> ok, state |-> "none"])
    BY <1>3, Zenon DEF SvcReply
  <2> DEFINE m == [type |-> "reply", ok |-> ok, state |-> "none"]
  <2>2. m \in Messages /\ m.type = "reply" /\ wire' = Append(wire, m)
    BY <2>1 DEF Messages
  <2>3. /\ svc'.state = svc.state /\ svc'.asked = svc.asked /\ svc'.replied /\ tube' = tube
        /\ svc.asked /\ ~svc.replied
    BY <1>1, <1>3, ZenonT(40) DEF SvcReply
  <2> HIDE DEF m
  <2> QED
    BY <1>1, <2>2, <2>3, SendStage, Zenon
<1>4. CASE SvcChangeState
  <2>1. PICK s \in {"open", "remote_pending"} :
          /\ svc' = [svc EXCEPT !.state = s]
          /\ wire' = Append(wire, [type |-> "state", ok |-> TRUE, state |-> s])
    BY <1>4, Zenon DEF SvcChangeState
  <2> DEFINE m == [type |-> "state", ok |-> TRUE, state |-> s]
  <2>2. m \in Messages /\ m.type = "state" /\ wire' = Append(wire, m) /\ s # "closed"
    BY <2>1 DEF Messages, States
  <2>3. svc'.state = s /\ svc'.asked = svc.asked /\ svc'.replied = svc.replied /\ tube' = tube
    BY <1>1, <1>4, <2>1, ZenonT(40) DEF SvcChangeState
  <2> HIDE DEF m
  <2> QED
    BY <2>2, <2>3, SendStage
<1> QED
  BY <1>2, <1>3, <1>4

(* The assertion of complete_operation fails only because channels close: on one
   that stays open, no callback answers an operation that was answered already,
   whatever the order of replies and changes of state, and whatever fails.   *)
THEOREM OpenTubeAssertionsHold ==
  SoundConstants /\ ~MayClose /\ Spec => []AssertionsHold
<1> SUFFICES ASSUME SoundConstants, ~MayClose PROVE Spec => []AssertionsHold
  OBVIOUS
<1>1. Init => OneStage
  <2> SUFFICES ASSUME Init PROVE OneStage
    OBVIOUS
  <2>1. DOMAIN wire = {} /\ svc.state # "closed" /\ tube.pending = "no" /\ tube.connecting = 0
    BY DEF Init, First
  <2>2. ~tube.result /\ ~tube.preparing /\ ~tube.address /\ tube.valid /\ ~tube.aborted /\ ~svc.asked
    BY ZenonT(40) DEF Init
  <2> QED
    BY <2>1, <2>2 DEF OneStage
<1>2. IInv /\ OneStage /\ [Next]_vars => OneStage'
  <2> SUFFICES ASSUME IInv, OneStage, [Next]_vars PROVE OneStage'
    OBVIOUS
  <2>1. CASE OfferTube \/ AcceptTube
    BY <2>1, CallStage DEF OfferTube, AcceptTube
  <2>2. CASE Prepared
    BY <2>2, PreparedStage
  <2>3. CASE Receive
    <3>1. Head(wire).type \in {"get", "state", "reply"}
      <4>1. Head(wire) \in Messages /\ Head(wire).type # "closed"
        BY <2>3, WireAfterReceive
      <4> QED
        BY <4>1 DEF Messages
    <3> QED
      BY <2>3, <3>1, NewsStage, ReplyStage
  <2>4. CASE Closed
    <3>1. wire \in Seq(Messages) /\ wire # <<>> /\ Head(wire).type = "closed"
      BY <2>4 DEF IInv, Types, Closed
    <3>2. 1 \in DOMAIN wire /\ wire[1] = Head(wire)
      BY <3>1, TailFacts
    <3> QED
      BY <3>1, <3>2 DEF OneStage
  <2>5. CASE CallFailed
    BY <2>5 DEF CallFailed, OneStage
  <2>6. CASE Connected
    BY <2>6, ConnectedStage
  <2>7. CASE SvcGetState \/ SvcReply \/ SvcChangeState
    BY <2>7, ServiceStage
  <2>8. CASE SvcClose
    BY <2>8 DEF SvcClose
  <2>9. CASE UNCHANGED vars
    BY <2>9 DEF vars, OneStage
  <2> QED
    BY <2>1, <2>2, <2>3, <2>4, <2>5, <2>6, <2>7, <2>8, <2>9 DEF Next
<1>3. OneStage => AssertionsHold
  BY DEF OneStage, AssertionsHold
<1>4. Spec => []IInv
  BY TubeInvariance
<1> QED
  BY <1>1, <1>2, <1>3, <1>4, PTL DEF Spec
=============================================================================
