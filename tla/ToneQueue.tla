------------------------------ MODULE ToneQueue ------------------------------
(***************************************************************************)
(* Sending tones in a call, client side: tp_call_channel_send_tones_async  *)
(* (call-channel.c) over the queue that each TpCallContent keeps           *)
(* (call-content.c), with cancellation, against contents that play one     *)
(* string of tones at a time.                                              *)
(***************************************************************************)
EXTENDS Integers, Sequences, FiniteSets, SequencesExt, Folds

CONSTANTS
  Contents,      \* the contents of the call with DTMF, in their order
  MaxRequests,   \* calls of tp_call_channel_send_tones_async
  CancelFirst,   \* whether a cancellable may be cancelled before the call
  Others         \* whether another client sends tones too

SoundConstants ==
  /\ IsInjective(Contents) /\ MaxRequests \in Nat
  /\ CancelFirst \in BOOLEAN /\ Others \in BOOLEAN

VARIABLES
  app,     \* per request: the channel's counter, whether it was cancelled, and
           \* how often its callback was called
  cont,    \* per content: tones_queue, current_tones (0: NULL), calls on their
           \* way, and what was completed, in order
  idles,   \* send_tones_cancelled_idle_cb to come, for <<content, request>>
  svc,     \* per content: what it plays, what it has played, signals to come
  aborted  \* an idle has crashed on a freed SendTonesData

vars == <<app, cont, idles, svc, aborted>>

Cs == ToSet(Contents)
Requests == 1 .. MaxRequests
Foreign == MaxRequests + 1     \* tones of another client

Init ==
  /\ app = [r \in Requests |-> [sent |-> FALSE, count |-> 0, cancelled |-> FALSE,
                                called |-> 0]]
  /\ cont = [c \in Cs |-> [queue |-> <<>>, current |-> 0, calls |-> <<>>,
                           done |-> <<>>]]
  /\ idles = {}
  /\ svc = [c \in Cs |-> [playing |-> 0, played |-> {}, wire |-> <<>>]]
  /\ aborted = FALSE

-----------------------------------------------------------------------------
(* The functions below map t = [app, cont]; c is a content.                *)

(* send_tones_cb of the channel: the counter goes down (from 0 it wraps    *)
(* around), and at 0 the application's callback is called.                 *)
PartDone(a) ==
  [a EXCEPT !.count = @ - 1,
            !.called = IF a.count = 1 THEN @ + 1 ELSE @]

(* complete_sending_tones and maybe_send_tones call each other: a cancelled*)
(* head of the queue is completed, and the next one looked at.             *)
Complete(t, c, ok) ==
  LET r == t.cont[c].current
  IN  [t EXCEPT !.app[r] = PartDone(@),
                !.cont[c].current = 0,
                !.cont[c].done = Append(@, [r |-> r, ok |-> ok])]

RECURSIVE maybe_send_tones(_, _)
maybe_send_tones(t, c) ==
  IF t.cont[c].current # 0 \/ t.cont[c].queue = <<>> THEN t
  ELSE \* the popped head
    LET r == Head(t.cont[c].queue)
    IN  IF t.app[r].cancelled
        THEN maybe_send_tones(
               Complete([t EXCEPT !.cont[c].queue = Tail(@),
                                  !.cont[c].current = r], c, FALSE), c)
        ELSE [t EXCEPT !.cont[c].queue = Tail(@), !.cont[c].current = r,
                       !.cont[c].calls = Append(@, r)]

(* BUG: the tones are sent though others are being played.                 *)
maybe_send_tonesNow(t, c) ==
  IF t.cont[c].queue = <<>> THEN t
  ELSE [t EXCEPT !.cont[c].queue = Tail(@),
                 !.cont[c].current = Head(t.cont[c].queue),
                 !.cont[c].calls = Append(@, Head(t.cont[c].queue))]

MaybeSendTones(t, c) == maybe_send_tones(t, c)

complete_sending_tones(t, c, ok) ==
  IF t.cont[c].current = 0 THEN t ELSE MaybeSendTones(Complete(t, c, ok), c)

(* BUG: the next tones of the queue are not sent.                          *)
complete_sending_tonesAlone(t, c, ok) ==
  IF t.cont[c].current = 0 THEN t ELSE Complete(t, c, ok)

CompleteSendingTones(t, c, ok) == complete_sending_tones(t, c, ok)

State == [app |-> app, cont |-> cont]
Become(t) == app' = t.app /\ cont' = t.cont

-----------------------------------------------------------------------------
(* _tp_call_content_send_tones_async                                       *)
Pushed(t, c, r) == MaybeSendTones([t EXCEPT !.cont[c].queue = Append(@, r)], c)

(* tp_call_channel_send_tones_async: one request for each content, then    *)
(* the counter is set. A cancellable that is cancelled already makes       *)
(* g_cancellable_connect call send_tones_cancelled_cb at once.             *)
send_tones(t, r) ==
  [FoldLeft(LAMBDA u, c : Pushed(u, c, r), t, Contents)
     EXCEPT !.app[r].count = Len(Contents)]

(* BUG: the counter is set one too low.                                    *)
send_tonesUncounted(t, r) ==
  [FoldLeft(LAMBDA u, c : Pushed(u, c, r), t, Contents)
     EXCEPT !.app[r].count = Len(Contents) - 1]

SendTones(t, r) == send_tones(t, r)

Send(r) ==
  /\ ~aborted /\ ~app[r].sent
  /\ \A s \in Requests : s < r => app[s].sent
  /\ \E first \in {FALSE, CancelFirst} :
       /\ Become(SendTones([State EXCEPT !.app[r].sent = TRUE,
                                         !.app[r].cancelled = first], r))
       /\ idles' = IF first THEN idles \cup {<<c, r>> : c \in Cs} ELSE idles
  /\ UNCHANGED <<svc, aborted>>

(* g_cancellable_cancel: every SendTonesData that still exists is notified.*)
Exists(c, r) == cont[c].current = r \/ r \in ToSet(cont[c].queue)

Cancel(r) ==
  /\ ~aborted /\ app[r].sent /\ ~app[r].cancelled
  /\ \E c \in Cs : Exists(c, r)
  /\ app' = [app EXCEPT ![r].cancelled = TRUE]
  /\ idles' = idles \cup {<<c, r>> : c \in {d \in Cs : Exists(d, r)}}
  /\ UNCHANGED <<cont, svc, aborted>>

(* The idle compares current_tones with its SendTonesData. If that was     *)
(* freed, it may crash, find nothing, or find the memory used again for    *)
(* the tones that are playing now.                                         *)
StopTone(c) == cont' = [cont EXCEPT ![c].calls = Append(@, 0)]

CancelIdle(c, r) ==
  /\ ~aborted /\ <<c, r>> \in idles
  /\ idles' = idles \ {<<c, r>>}
  /\ \/ Exists(c, r) /\ cont[c].current = r /\ StopTone(c) /\ aborted' = aborted
     \/ Exists(c, r) /\ cont[c].current # r /\ UNCHANGED <<cont, aborted>>
     \/ ~Exists(c, r) /\ cont[c].current # 0 /\ StopTone(c) /\ aborted' = aborted
     \/ ~Exists(c, r) /\ UNCHANGED cont /\ aborted' \in BOOLEAN
  /\ UNCHANGED <<app, svc>>

(* tones_stopped_cb and multiple_tones_cb                                  *)
Receive(c) ==
  /\ ~aborted /\ svc[c].wire # <<>>
  /\ svc' = [svc EXCEPT ![c].wire = Tail(@)]
  /\ Become(IF Head(svc[c].wire) = "playing" THEN State
            ELSE CompleteSendingTones(State, c, Head(svc[c].wire) = "played"))
  /\ UNCHANGED <<idles, aborted>>

-----------------------------------------------------------------------------
(* A content of the call: one string of tones at a time, else ServiceBusy. *)

SvcCall(c) ==
  /\ cont[c].calls # <<>>
  /\ cont' = [cont EXCEPT ![c].calls = Tail(@)]
  /\ \E r \in {Head(cont[c].calls)} :
       svc' = IF r = 0
              THEN IF svc[c].playing = 0 THEN svc
                   ELSE [svc EXCEPT ![c].playing = 0,
                                    ![c].wire = Append(@, "cancelled")]
              ELSE IF svc[c].playing = 0
              THEN [svc EXCEPT ![c].playing = r, ![c].wire = Append(@, "playing")]
              ELSE [svc EXCEPT ![c].wire = Append(@, "error")]
  /\ UNCHANGED <<app, idles, aborted>>

SvcPlayed(c) ==
  /\ svc[c].playing # 0
  /\ svc' = [svc EXCEPT ![c].playing = 0, ![c].played = @ \cup {svc[c].playing},
                        ![c].wire = Append(@, "played")]
  /\ UNCHANGED <<app, cont, idles, aborted>>

SvcOther(c) ==
  /\ Others /\ svc[c].playing = 0 /\ Foreign \notin svc[c].played
  /\ svc' = [svc EXCEPT ![c].playing = Foreign]
  /\ UNCHANGED <<app, cont, idles, aborted>>

Next ==
  \/ \E r \in Requests : Send(r) \/ Cancel(r)
  \/ \E c \in Cs, r \in Requests : CancelIdle(c, r)
  \/ \E c \in Cs : Receive(c) \/ SvcCall(c) \/ SvcPlayed(c) \/ SvcOther(c)

Spec == Init /\ [][Next]_vars

-----------------------------------------------------------------------------
(* Properties                                                              *)

(* The fields have their types.                                            *)
TypeOK ==
  /\ \A c \in Cs : cont[c].current \in 0 .. MaxRequests
                   /\ cont[c].queue \in Seq(Requests)
  /\ \A r \in Requests : app[r].called \in Nat
  /\ idles \subseteq Cs \X Requests

Parts(c) == [i \in DOMAIN cont[c].done |-> cont[c].done[i].r]

(* Each content completes the requests once each and in the order they were*)
(* made, cancelled ones too ("Otherwise wait for its turn in the queue to  *)
(* preserve order").                                                       *)
CompletedInOrder == \A c \in Cs : \A i \in DOMAIN Parts(c) : Parts(c)[i] = i

(* A content plays one request at a time: nothing the client sends is      *)
(* refused for being early, and what completes as played was played,       *)
(* whatever is cancelled when.                                             *)
PlayedBeforeCompleted ==
  \A c \in Cs :
    /\ \A i \in DOMAIN cont[c].done :
         cont[c].done[i].ok => cont[c].done[i].r \in svc[c].played
    /\ "error" \notin ToSet(svc[c].wire)

(* The application is called back once, and not before all contents are    *)
(* done.                                                                   *)
CalledBackLast ==
  \A r \in Requests :
    /\ app[r].called <= 1
    /\ app[r].called = 1 => \A c \in Cs : r \in ToSet(Parts(c))

(* When all contents are done with a request, its callback was called (the *)
(* documented "callback to call when the operation finishes").             *)
CalledBackWhenDone ==
  \A r \in Requests :
    (\A c \in Cs : r \in ToSet(Parts(c))) => app[r].called = 1

(* The queue is not forgotten: tones wait only for tones that play.        *)
QueueMoves == \A c \in Cs : cont[c].queue # <<>> => cont[c].current # 0

(* An idle finds the SendTonesData it was queued with.                     *)
IdleFindsData == \A p \in idles : Exists(p[1], p[2])
=============================================================================
