------------------------------ MODULE CallTones ------------------------------
(***************************************************************************)
(* DTMF tones of a call content on the service side                        *)
(* (base-media-call-content.c): a client asks for a tone or a dial string, *)
(* the content asks the streaming implementation for one change after the  *)
(* other, and goes on when each is acknowledged, when a pause is over, or  *)
(* when the call becomes active.                                           *)
(***************************************************************************)
EXTENDS Naturals, Sequences, SequencesExt

CONSTANTS
  Strings,      \* dial strings: sequences of "1", "2" (events), "p" and "w"
  MaxRequests,  \* bound on the requests the client makes
  MaxChanges    \* bound on the call-state-changed emissions

Event == {"1", "2"}
MaxPauses == 3     \* pauses are counted up to this

SoundConstants ==
  /\ \A s \in Strings : s \in Seq(Event \cup {"p", "w"})
  /\ MaxRequests \in Nat
  /\ MaxChanges \in Nat

VARIABLE dtmf

(* The private fields of the content: currently_sending_tones is NULL when *)
(* ~busy, the string rest otherwise; watched says whether                  *)
(* channel_state_changed_id is not 0, handlers counts the connections of   *)
(* channel_state_changed_cb to the channel. active is the call's state.    *)
(* From asked on: what the client and the streaming implementation saw.    *)
Init ==
  dtmf \in { [busy |-> FALSE, rest |-> <<>>, multiple |-> FALSE,
              cancelled |-> FALSE, state |-> "none", event |-> "1",
              paused |-> FALSE, watched |-> FALSE, handlers |-> 0,
              deferred |-> <<>>, active |-> a, aborted |-> FALSE,
              asked |-> <<>>, played |-> <<>>, pauses |-> 0,
              playing |-> FALSE, stopped |-> 0, wasCancelled |-> FALSE,
              requests |-> 0, changes |-> 0] : a \in BOOLEAN }

-----------------------------------------------------------------------------
(* dtmf_next                                                               *)

(* StoppedTones is emitted and the request forgotten (label done).         *)
Done(d) ==
  [d EXCEPT !.cancelled = FALSE, !.busy = FALSE, !.rest = <<>>,
            !.stopped = @ + 1, !.wasCancelled = d.cancelled /\ d.multiple]

RequestStop(d) == [d EXCEPT !.state = "pending_stop"]

PlayNext(d) ==
  CASE d.rest = <<>> -> Done(d)
    [] d.rest # <<>> /\ Head(d.rest) \in Event ->
         [d EXCEPT !.event = Head(d.rest), !.state = "pending_send"]
    [] d.rest # <<>> /\ Head(d.rest) = "p" ->
         [d EXCEPT !.paused = TRUE, !.pauses = IF @ < MaxPauses THEN @ + 1 ELSE @]
    [] d.rest # <<>> /\ Head(d.rest) = "w" ->
         Done([d EXCEPT !.deferred = Tail(d.rest), !.rest = <<>>])

(* With the call not active, wait for its state to change.                 *)
WaitForActive(d) ==
  IF d.watched THEN d
  ELSE [d EXCEPT !.watched = TRUE, !.handlers = @ + 1]

dtmf_next(d) ==
  CASE ~d.busy -> [d EXCEPT !.aborted = TRUE]        \* g_assert, line 1062
    [] d.busy /\ d.state = "pending_send" ->
         IF d.cancelled THEN RequestStop(d) ELSE d
    [] d.busy /\ d.state = "pending_stop" -> d
    [] d.busy /\ d.state = "sending" ->
         IF d.cancelled \/ d.multiple THEN RequestStop(d) ELSE d
    [] d.busy /\ d.state = "none" ->
         IF d.paused THEN d
         ELSE IF ~d.active THEN WaitForActive(d)
         ELSE PlayNext(d)

-----------------------------------------------------------------------------
(* The client: StartTone, MultipleTones, StopTone                          *)

Request(s, many) ==
  /\ ~dtmf.aborted
  /\ ~dtmf.busy                                      \* else ServiceBusy
  /\ dtmf.requests < MaxRequests
  /\ dtmf' = dtmf_next([dtmf EXCEPT !.multiple = many, !.busy = TRUE, !.rest = s,
                                   !.deferred = <<>>, !.asked = s,
                                   !.played = <<>>, !.pauses = 0, !.stopped = 0,
                                   !.requests = @ + 1, !.wasCancelled = FALSE])

StartTone == \E e \in Event : Request(<<e>>, FALSE)

MultipleTones == \E s \in Strings : Request(s, TRUE)

(* StopTone empties the string and lets dtmf_next stop what is playing.    *)
stop_tone(d) == [d EXCEPT !.rest = <<>>, !.cancelled = TRUE]

(* BUG: the request is forgotten at once, its string is kept.              *)
stop_toneLater(d) == [d EXCEPT !.busy = FALSE, !.cancelled = TRUE]

Stopping(d) == stop_tone(d)

StopTone ==
  /\ ~dtmf.aborted
  /\ dtmf.busy                       \* else "No tone is currently being played"
  /\ dtmf' = dtmf_next(Stopping(dtmf))

-----------------------------------------------------------------------------
(* The streaming implementation: AcknowledgeDTMFChange for the state that  *)
(* was asked for. Another event, a pending state and a state that does not *)
(* match are refused and change nothing.                                   *)

acknowledged(d, s) ==
  [d EXCEPT !.rest = IF s = "none" /\ @ # <<>> THEN Tail(@) ELSE @,
            !.state = s]

(* BUG: the string is advanced when the tone starts, too.                  *)
acknowledgedTwice(d, s) ==
  [d EXCEPT !.rest = IF @ # <<>> THEN Tail(@) ELSE @, !.state = s]

Acknowledged(d, s) == acknowledged(d, s)

AcknowledgeDTMFChange ==
  /\ ~dtmf.aborted
  /\ \/ /\ dtmf.state = "pending_send"
        /\ dtmf' = dtmf_next([Acknowledged(dtmf, "sending") EXCEPT
                               !.played = Append(@, dtmf.event), !.playing = TRUE])
     \/ /\ dtmf.state = "pending_stop"
        /\ dtmf' = dtmf_next([Acknowledged(dtmf, "none") EXCEPT !.playing = FALSE])

(* The pause's timeout: the string is not advanced.                        *)
PauseTimeout ==
  /\ ~dtmf.aborted
  /\ dtmf.paused
  /\ dtmf' = dtmf_next([dtmf EXCEPT !.paused = FALSE])

(* The channel emits call-state-changed, also when only its flags changed. *)
(* channel_state_changed_cb disconnects its id from the content, which is  *)
(* not the channel it was connected to: the handler stays connected.       *)
state_changed(d) == [d EXCEPT !.watched = FALSE]

(* Every connected handler calls dtmf_next; two calls do what more do.     *)
CallStateChanged ==
  /\ ~dtmf.aborted
  /\ dtmf.changes < MaxChanges
  /\ \E a \in BOOLEAN, d \in {[dtmf EXCEPT !.changes = @ + 1]} :
       dtmf' = CASE ~a \/ d.handlers = 0 -> [d EXCEPT !.active = a]
                 [] a /\ d.handlers = 1 ->
                      dtmf_next([state_changed(d) EXCEPT !.active = a])
                 [] a /\ d.handlers > 1 ->
                      dtmf_next(dtmf_next([state_changed(d) EXCEPT !.active = a]))

Next ==
  \/ StartTone
  \/ MultipleTones
  \/ StopTone
  \/ AcknowledgeDTMFChange
  \/ PauseTimeout
  \/ CallStateChanged

Spec == Init /\ [][Next]_dtmf

Fairness ==
  /\ WF_dtmf(AcknowledgeDTMFChange)
  /\ WF_dtmf(PauseTimeout)

-----------------------------------------------------------------------------
(* Properties                                                              *)

(* The fields have their types; a request keeps its string.                *)
TypeOK ==
  /\ dtmf.state \in {"none", "pending_send", "sending", "pending_stop"}
  /\ dtmf.event \in Event
  /\ dtmf.handlers \in 0 .. MaxRequests + MaxChanges
  /\ ~dtmf.busy => dtmf.rest = <<>>
  /\ dtmf.stopped \in 0 .. 1
  /\ dtmf.pauses \in 0 .. MaxPauses

(* g_assert (self->priv->currently_sending_tones != NULL) in dtmf_next     *)
(* never fails: it holds while the state of the call does not change       *)
(* (MaxChanges = 0); a handler that stayed connected breaks it.            *)
AssertionsHold == ~dtmf.aborted

(* The events of a dial string up to the first "w".                        *)
Before(s) == IF \E i \in DOMAIN s : s[i] = "w"
             THEN SubSeq(s, 1, (CHOOSE i \in DOMAIN s :
                                  s[i] = "w" /\ \A j \in 1 .. i - 1 : s[j] # "w") - 1)
             ELSE s
Events(s) == SelectSeq(Before(s), LAMBDA c : c \in Event)

(* What is played is the dial string: whatever StopTone, acknowledgements, *)
(* pauses and state changes come between, the tones heard are in order the *)
(* first ones of the request; a request that stops without being cancelled *)
(* was played up to its "w" and what follows the "w" is deferred; a single *)
(* tone is never followed by another.                                      *)
PlayedIsAsked ==
  /\ IsPrefix(dtmf.played, Events(dtmf.asked))
  /\ (dtmf.stopped = 1 /\ ~dtmf.wasCancelled /\ dtmf.multiple)
        => /\ dtmf.played = Events(dtmf.asked)
           /\ dtmf.deferred = IF Before(dtmf.asked) = dtmf.asked THEN <<>>
                              ELSE SubSeq(dtmf.asked, Len(Before(dtmf.asked)) + 2,
                                          Len(dtmf.asked))

(* Silence is really silence: StoppedTones is emitted once per request,    *)
(* and then no tone sounds nor is one asked of the streaming               *)
(* implementation, which would take a later request for an answer to it.   *)
StoppedIsSilent ==
  (dtmf.requests > 0 /\ ~dtmf.busy) =>
    /\ dtmf.stopped = 1
    /\ ~dtmf.playing
    /\ dtmf.state = "none"

(* A dial string is played to its end or to its "w": with the streaming    *)
(* implementation answering and timers firing, every request stops, unless *)
(* the call never becomes active again.                                    *)
TonesEnd ==
  (dtmf.busy /\ dtmf.multiple) ~> (~dtmf.busy \/ ~dtmf.active \/ dtmf.aborted)

(* A pause character is one pause (spec: "results in an implementation-    *)
(* defined pause, typically for 3 seconds"). It does not hold: the string  *)
(* is not advanced past a "p", which is paused upon for ever.              *)
PausesOnce == dtmf.pauses <= Len(SelectSeq(dtmf.asked, LAMBDA c : c = "p"))
=============================================================================
