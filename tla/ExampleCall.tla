----------------------------- MODULE ExampleCall ------------------------------
(* The call connection manager of examples/cm/call: the presence that brings
   calls in, the manager that makes call channels, and the channels with the
   contact that it simulates, whose identifier says how it behaves.  Timers stand
   for the network.  What TpBaseCallChannel, TpBaseCallContent and TpBaseCallStream
   do with the calls is included; which media flow is BaseMediaCall's subject. *)
EXTENDS Integers, Sequences, FiniteSets, SequencesExt, TLC

CONSTANTS
  Peers,        \* whom the user may call, by what their identifiers contain:
                \*   "plain", "(busy)", "(no answer)", "(terminate)",
                \*   "(no unhold)", "(inability to unhold)", "self"
  Media,        \* the pairs of initial audio and video that are asked for
  Statuses,     \* the presences that are set: <<away, message>>
  Ops,          \* the D-Bus methods that are called
  MaxChannels, MaxContents, MaxOps      \* bounds

VARIABLES
  self,         \* the connection, the manager, its channels and their timers
  made          \* what clients were told, and the number of calls they made

vars == <<self, made>>

SoundConstants ==
  /\ Peers \subseteq {"plain", "(busy)", "(no answer)", "(terminate)", "(no unhold)",
                      "(inability to unhold)", "self"}
  /\ Media \subseteq BOOLEAN \X BOOLEAN /\ Statuses \subseteq BOOLEAN \X {"", "hi"}
  /\ MaxChannels \in Nat /\ MaxContents \in Nat /\ MaxOps \in Nat

SendingStates == {"NONE", "PENDING_SEND", "SENDING"}
Id == 1 .. MaxChannels

-----------------------------------------------------------------------------
(* Timers of the channels and the manager fire in the order in which they were
   started; those of the streams have a delay of their own. *)
Start(s, cb, i) == [s EXCEPT !.timers = Append(@, [cb |-> cb, i |-> i])]

(* A stream has its channel only once it is in a content: what its constructor
   does is not held back by a call that is not accepted. *)
update_local_sending_state(ch, st, new) ==
  [st EXCEPT !.local = IF new = "SENDING" /\ st.in /\ ~ch.accepted /\ ~ch.requested
                       THEN "PENDING_SEND" ELSE new]

update_remote_sending_state(ch, st, new) ==
  [st EXCEPT !.remote = IF new = "SENDING" /\ st.in /\ ch.requested /\ ~ch.accepted
                        THEN "PENDING_SEND" ELSE new]

(* Only the message depends on the state: the contact sends from now on. *)
simulate_contact_agreed_to_send(ch, st) == update_remote_sending_state(ch, st, "SENDING")

accept_proposed_direction(ch, st) ==
  IF st.local # "PENDING_SEND" THEN st ELSE update_local_sending_state(ch, st, "SENDING")

(* agreed_delay_id: "no" timer yet, "running", or "fired", which nothing resets. *)
change_direction(ch, st, want_to_send, want_to_receive) ==
  LET a == IF want_to_send
           THEN IF st.local # "SENDING" THEN update_local_sending_state(ch, st, "SENDING") ELSE st
           ELSE IF st.local # "NONE" THEN update_local_sending_state(ch, st, "NONE") ELSE st
  IN  IF want_to_receive
      THEN IF st.remote # "NONE" THEN a
           ELSE [update_remote_sending_state(ch, a, "PENDING_SEND") EXCEPT
                   !.agreed = IF @ = "no" THEN "running" ELSE @]
      ELSE update_remote_sending_state(ch, a, "NONE")

(* Both directions are asked for when the other side adds a stream. *)
receive_direction_request(ch, st) ==
  update_remote_sending_state(ch,
    IF st.local = "NONE" THEN update_local_sending_state(ch, st, "PENDING_SEND") ELSE st, "SENDING")

stream_new(ch, locally_requested) ==
  LET st == [local |-> "NONE", remote |-> "NONE", agreed |-> "no", in |-> FALSE, connected |-> FALSE]
  IN  IF locally_requested THEN change_direction(ch, st, TRUE, TRUE)
      ELSE receive_direction_request(ch, st)

stream_set_sending(ch, st, sending) == change_direction(ch, st, sending, st.remote = "SENDING")

stream_request_receiving(ch, st, receive) == change_direction(ch, st, st.local = "SENDING", receive)

(* The D-Bus methods SetSending and RequestReceiving of TpBaseCallStream. *)
set_sending(ch, st, send) ==
  LET same == IF send THEN st.local = "SENDING" ELSE st.local # "SENDING"
  IN  update_local_sending_state(ch, IF same THEN st ELSE stream_set_sending(ch, st, send),
                                 IF send THEN "SENDING" ELSE "NONE")

request_receiving(ch, st, receiving) ==
  IF receiving <=> (st.remote # "NONE") THEN st ELSE stream_request_receiving(ch, st, receiving)

-----------------------------------------------------------------------------
(* The call states of TpBaseCallChannel; a client hears of it once it is registered. *)
IsConnected(ch) == \A c \in Range(ch.contents) : c.stream.connected

Bumped(state, connected) ==
  IF connected /\ state = "INITIALISING" THEN "INITIALISED"
  ELSE IF connected /\ state = "ACCEPTED" THEN "ACTIVE" ELSE state

set_state(s, i, state) ==
  LET ch == s.chans[i]
      new == Bumped(state, IsConnected(ch))
  IN  IF ch.state = state THEN s
      ELSE [s EXCEPT !.chans[i].state = new,
                     !.chans[i].ringing = @ /\ state = "INITIALISED",
                     !.chans[i].queued = @ /\ state \in {"INITIALISING", "INITIALISED"},
                     !.chans[i].told.state = IF ch.registered THEN new ELSE @]

update_member_flags(s, i, flags) == [s EXCEPT !.chans[i].member = flags]

remove_member(s, i) == [s EXCEPT !.chans[i].member = "absent"]

(* The first of name, name (1), name (2)... that no content has. *)
UniqueName(ch, name) ==
  CHOOSE n \in {<<name, k>> : k \in 0 .. Len(ch.contents)} :
    /\ \A c \in Range(ch.contents) : c.name # n
    /\ \A k \in 0 .. n[2] - 1 : \E c \in Range(ch.contents) : c.name = <<name, k>>

add_content(s, i, media, locally_requested, initial) ==
  LET ch == s.chans[i]
      content == [name |-> UniqueName(ch, media), initial |-> initial, local |-> locally_requested,
                  id |-> ch.next, stream |-> [stream_new(ch, locally_requested) EXCEPT !.in = TRUE]]
  IN  [s EXCEPT !.chans[i].contents = <<content>> \o @,
                !.chans[i].next = @ + 1,
                !.chans[i].told.contents = @ \union {ch.next}]

remove_content(s, i, k) ==
  [s EXCEPT !.chans[i].contents = RemoveAt(@, k),
            !.chans[i].told.contents = @ \ {s.chans[i].contents[k].id}]

RemoveAll(s, i) ==
  FoldLeft(LAMBDA acc, k : remove_content(acc, i, 1), s, s.chans[i].contents)

terminate(s, i) ==
  IF s.chans[i].state = "ENDED" THEN s
  ELSE RemoveAll(remove_member(set_state(s, i, "ENDED"), i), i)

(* tp_base_channel_close (): the manager lets go of it in channel_closed_cb (). *)
close_channel(s, i) ==
  [terminate(s, i) EXCEPT !.chans[i].closed = TRUE, !.managed = @ \ {i}]

(* new_channel () of the manager, and the constructor. *)
new_channel(s, peer, requested, audio, video) ==
  LET i == Len(s.chans) + 1
      bare == [peer |-> peer, requested |-> requested, state |-> "UNKNOWN", accepted |-> FALSE,
               member |-> "0", ringing |-> FALSE, queued |-> FALSE, contents |-> << >>, next |-> 1,
               hold |-> "UNHELD", wanted |-> "UNHELD", closed |-> FALSE, registered |-> FALSE,
               told |-> [state |-> "UNKNOWN", contents |-> {}, hold |-> "UNHELD"]]
      made0 == set_state([s EXCEPT !.chans = Append(@, bare)], i,
                         IF requested THEN "PENDING_INITIATOR" ELSE "INITIALISED")
      withAudio == IF audio THEN add_content(made0, i, "audio", requested, TRUE) ELSE made0
      withVideo == IF video THEN add_content(withAudio, i, "video", requested, TRUE) ELSE withAudio
  IN  [withVideo EXCEPT !.chans[i].registered = TRUE,
                        !.chans[i].told.state = withVideo.chans[i].state,
                        !.managed = @ \union {i}]

(* example_call_manager_request (). *)
request(s, peer, audio, video, require_new) ==
  LET theirs == {i \in s.managed : s.chans[i].peer = peer}
  IN  IF (~audio /\ ~video) \/ peer = "self" THEN [s EXCEPT !.reply = "failed"]
      ELSE IF ~require_new /\ theirs # {} THEN [s EXCEPT !.reply = "satisfied"]
      ELSE [new_channel(s, peer, TRUE, audio, video) EXCEPT !.reply = "new"]

close_all(s) ==
  [FoldLeft(LAMBDA acc, i : IF i \in s.managed THEN close_channel(acc, i) ELSE acc,
            s, [i \in DOMAIN s.chans |-> i])
   EXCEPT !.managed = {}, !.available = FALSE]

set_own_status(s, away, message) ==
  IF s.away = away /\ s.message = message THEN s
  ELSE LET t == [s EXCEPT !.away = away, !.message = message, !.presence = <<away, message>>]
       IN  IF away \/ ~s.available THEN t ELSE Start(t, "incoming", 0)

-----------------------------------------------------------------------------
(* What the simulated contact does. *)
initiate_outgoing(s, i) == Start(set_state(s, i, "INITIALISED"), "ringing", i)

accept_incoming_call(s, i) ==
  LET t == set_state(s, i, "ACCEPTED") IN
  [t EXCEPT !.chans[i].contents =
     [k \in DOMAIN @ |-> IF ~@[k].initial THEN @[k]
                         ELSE [@[k] EXCEPT !.stream = accept_proposed_direction(t.chans[i], @)]]]

(* Accept: TpBaseCallChannel's method, then the virtual method. *)
accept(s, i) ==
  LET ch == s.chans[i] IN
  IF ch.requested
  THEN IF ch.state # "PENDING_INITIATOR" THEN s
       ELSE initiate_outgoing(set_state(s, i, "INITIALISING"), i)
  ELSE IF ch.state # "INITIALISED" THEN s
       ELSE accept_incoming_call([set_state(s, i, "ACCEPTED") EXCEPT !.chans[i].accepted = TRUE], i)

(* The member comes back even if the call has ended meanwhile. *)
simulate_contact_ringing_cb(s, i) ==
  LET t == update_member_flags(s, i, "RINGING") IN
  CASE s.chans[i].peer = "(busy)" -> Start(t, "busy", i)
    [] s.chans[i].peer = "(no answer)" -> t
    [] OTHER -> Start(t, "answered", i)

simulate_contact_busy_cb(s, i) == IF s.chans[i].state = "ENDED" THEN s ELSE terminate(s, i)

(* tp_base_call_channel_remote_accept (), and every stream agrees to send. *)
remote_accept(s, i) ==
  IF s.chans[i].accepted THEN s
  ELSE set_state([s EXCEPT !.chans[i].accepted = TRUE], i, "ACCEPTED")

contact_answered(s, i) ==
  LET t == remote_accept(s, i)
      u == [t EXCEPT !.chans[i].contents =
              [k \in DOMAIN @ |-> [@[k] EXCEPT !.stream =
                                     simulate_contact_agreed_to_send(t.chans[i], @)]]]
  IN  IF s.chans[i].peer = "(terminate)" THEN Start(u, "ended", i) ELSE u

simulate_contact_answered_cb(s, i) == IF s.chans[i].state = "ENDED" THEN s ELSE contact_answered(s, i)

simulate_contact_ended_cb(s, i) == IF s.chans[i].state = "ENDED" THEN s ELSE terminate(s, i)

SetHold(s, i, hold) == [s EXCEPT !.chans[i].hold = hold, !.chans[i].told.hold = hold]

simulate_inability_to_unhold(s, i) == Start(SetHold(s, i, "PENDING_HOLD"), "hold", i)

(* wanted is what the last request, or the contact, will make of it. *)
request_hold(s, i, hold) ==
  LET ch == s.chans[i]
      final == IF hold \/ ch.peer = "(inability to unhold)" THEN "HELD" ELSE "UNHELD"
  IN  CASE ch.hold = (IF hold THEN "HELD" ELSE "UNHELD") -> s
        [] ch.hold # "UNHELD" /\ ~hold /\ ch.peer = "(no unhold)" -> s
        [] OTHER ->
             [Start(SetHold(s, i, IF hold THEN "PENDING_HOLD" ELSE "PENDING_UNHOLD"),
                    CASE hold -> "hold" [] ~hold /\ ch.peer = "(inability to unhold)" -> "inability"
                      [] OTHER -> "unhold", i)
              EXCEPT !.chans[i].wanted = final]

(* simulate_incoming_call_cb (): nothing once the manager is disconnected. *)
incoming_call(s) ==
  IF ~s.available \/ Len(s.chans) = MaxChannels THEN s
  ELSE new_channel(s, "caller", FALSE, TRUE, FALSE)

Fire(s, t) ==
  CASE t.cb = "incoming" -> incoming_call(s)
    [] t.cb = "ringing" -> simulate_contact_ringing_cb(s, t.i)
    [] t.cb = "busy" -> simulate_contact_busy_cb(s, t.i)
    [] t.cb = "answered" -> simulate_contact_answered_cb(s, t.i)
    [] t.cb = "ended" -> simulate_contact_ended_cb(s, t.i)
    [] t.cb = "hold" -> SetHold(s, t.i, "HELD")
    [] t.cb = "unhold" -> SetHold(s, t.i, "UNHELD")
    [] t.cb = "inability" -> simulate_inability_to_unhold(s, t.i)

-----------------------------------------------------------------------------
Init ==
  /\ self = [connected |-> TRUE, available |-> TRUE, away |-> FALSE, message |-> "",
             presence |-> <<FALSE, "">>, chans |-> << >>, managed |-> {}, timers |-> << >>,
             reply |-> "none"]
  /\ made = 0

Call(op) == op \in Ops /\ made < MaxOps /\ made' = made + 1

Exported(i) == i \in DOMAIN self.chans /\ ~self.chans[i].closed

RequestChannel ==
  \E peer \in Peers, m \in Media, new \in BOOLEAN :
    /\ Call("RequestChannel") /\ self.connected /\ Len(self.chans) < MaxChannels
    /\ self' = request(self, peer, m[1], m[2], new)

SetPresence ==
  \E p \in Statuses :
    /\ Call("SetPresence") /\ self.connected
    /\ self' = set_own_status(self, p[1], p[2])

Accept == \E i \in Id : Exported(i) /\ Call("Accept") /\ self' = accept(self, i)

Hangup ==
  \E i \in Id :
    /\ Exported(i) /\ Call("Hangup") /\ self.chans[i].state # "ENDED"
    /\ self' = set_state(terminate(self, i), i, "ENDED")

Close == \E i \in Id : Exported(i) /\ Call("Close") /\ self' = close_channel(self, i)

RequestHold ==
  \E i \in Id, hold \in BOOLEAN :
    Exported(i) /\ Call("RequestHold") /\ self' = request_hold(self, i, hold)

AddContent ==
  \E i \in Id, media \in {"audio", "video"} :
    /\ Exported(i) /\ Call("AddContent") /\ self.chans[i].state # "ENDED"
    /\ Len(self.chans[i].contents) < MaxContents
    /\ self' = add_content(self, i, media, TRUE, FALSE)

RemoveContent ==
  \E i \in Id : \E k \in 1 .. MaxContents :
    /\ Exported(i) /\ k \in DOMAIN self.chans[i].contents /\ Call("Remove")
    /\ self' = remove_content(self, i, k)

SetDirection ==
  \E i \in Id : \E k \in 1 .. MaxContents, want \in BOOLEAN :
    /\ Exported(i) /\ k \in DOMAIN self.chans[i].contents
    /\ \/ /\ Call("SetSending")
          /\ self' = [self EXCEPT !.chans[i].contents[k].stream = set_sending(self.chans[i], @, want)]
       \/ /\ Call("RequestReceiving")
          /\ self' = [self EXCEPT !.chans[i].contents[k].stream =
                        request_receiving(self.chans[i], @, want)]

(* SetRinging and SetQueued of an incoming call. *)
SetRingingOrQueued ==
  \E i \in Id :
    /\ Exported(i) /\ ~self.chans[i].requested
    /\ \/ /\ Call("SetRinging") /\ self.chans[i].state = "INITIALISED"
          /\ self' = [self EXCEPT !.chans[i].ringing = TRUE, !.chans[i].queued = FALSE]
       \/ /\ Call("SetQueued") /\ self.chans[i].state \in {"INITIALISING", "INITIALISED"}
          /\ self' = [self EXCEPT !.chans[i].queued = TRUE]

(* The streaming implementation connects or loses the endpoint of a stream. *)
EndpointState ==
  \E i \in Id : \E k \in 1 .. MaxContents :
    /\ Exported(i) /\ k \in DOMAIN self.chans[i].contents /\ Call("EndpointState")
    /\ LET s == [self EXCEPT !.chans[i].contents[k].stream.connected = ~@]
           ch == s.chans[i]
       IN  self' = CASE ch.state \in {"INITIALISING", "ACCEPTED"} /\ IsConnected(ch) ->
                          set_state(s, i, Bumped(ch.state, TRUE))
                     [] ch.state = "ACTIVE" /\ ~IsConnected(ch) -> set_state(s, i, "ACCEPTED")
                     [] OTHER -> s

Disconnect ==
  /\ self.connected /\ Call("Disconnect")
  /\ self' = close_all([self EXCEPT !.connected = FALSE])

Timer ==
  /\ self.timers # << >>
  /\ self' = Fire([self EXCEPT !.timers = Tail(@)], Head(self.timers))
  /\ UNCHANGED made

(* simulate_contact_agreed_to_send_cb () of a stream that is still there. *)
AgreedTimer ==
  /\ \E i \in DOMAIN self.chans : \E k \in DOMAIN self.chans[i].contents :
       LET st == self.chans[i].contents[k].stream IN
       /\ st.agreed = "running"
       /\ self' = [self EXCEPT !.chans[i].contents[k].stream =
                     [simulate_contact_agreed_to_send(self.chans[i], st) EXCEPT !.agreed = "fired"]]
  /\ UNCHANGED made

Next ==
  \/ RequestChannel \/ SetPresence \/ Accept \/ Hangup \/ Close \/ RequestHold \/ AddContent
  \/ RemoveContent \/ SetDirection \/ SetRingingOrQueued \/ EndpointState \/ Disconnect
  \/ Timer \/ AgreedTimer

Spec == Init /\ [][Next]_vars

-----------------------------------------------------------------------------
(* The channels, their contents and streams, and the timers. *)
TypeOK ==
  /\ self.managed \subseteq DOMAIN self.chans /\ made \in 0 .. MaxOps
  /\ \A ch \in Range(self.chans) :
       /\ ch.state \in {"PENDING_INITIATOR", "INITIALISING", "INITIALISED", "ACCEPTED", "ACTIVE", "ENDED"}
       /\ ch.hold \in {"UNHELD", "PENDING_HOLD", "HELD", "PENDING_UNHOLD"}
       /\ ch.member \in {"absent", "0", "RINGING"}
       /\ \A c \in Range(ch.contents) :
            c.stream.local \in SendingStates /\ c.stream.remote \in SendingStates
  /\ \A t \in Range(self.timers) : t.i \in {0} \union DOMAIN self.chans

(* The assertions of the timers (call-channel.c:396, 445): the contact answers or
   is busy only while the call is INITIALISED, whatever the user and the streaming
   implementation did since it rang. *)
AnswersInTime ==
  self.timers # << >> =>
    LET t == Head(self.timers) IN
    t.cb \in {"answered", "busy"} => self.chans[t.i].state \in {"INITIALISED", "ENDED"}

(* A call that has ended stays so, without contents, whatever timers it had; its
   contact is gone too unless "ringing" came after the end; and a channel is
   managed until it is closed, in which case the call has ended. *)
EndedIsOver ==
  \A i \in DOMAIN self.chans :
    LET ch == self.chans[i] IN
    /\ ch.state = "ENDED" => ch.contents = << >> /\ ch.member \in {"absent", "RINGING"}
    /\ i \in self.managed <=> ~ch.closed
    /\ ch.closed => ch.state = "ENDED"
    /\ ~self.connected => ch.closed

(* No stream sends before the call is accepted: neither ours in a call that came
   in, nor theirs in a call that we make.  A content that the user adds before they
   accept is the exception, as its stream is not in the call yet when it is made. *)
QuietUntilAccepted ==
  \A ch \in Range(self.chans) : \A c \in Range(ch.contents) :
    ~ch.accepted =>
      /\ ch.requested => c.stream.remote # "SENDING"
      /\ ~ch.requested /\ ~c.local => c.stream.local # "SENDING"

(* Once its timers have fired, a channel is held as the last request for it, or the
   contact that cannot be unheld, made it; the contents of a call have different
   names; and who followed the signals knows the state, the contents and the hold. *)
CallIsTold ==
  \A i \in DOMAIN self.chans :
    LET ch == self.chans[i] IN
    /\ (\A t \in Range(self.timers) : ~(t.i = i /\ t.cb \in {"hold", "unhold", "inability"})) =>
         ch.hold = ch.wanted
    /\ \A j, k \in DOMAIN ch.contents : j # k => ch.contents[j].name # ch.contents[k].name
    /\ ch.told = [state |-> ch.state, contents |-> {c.id : c \in Range(ch.contents)}, hold |-> ch.hold]

(* Only a connected user who is available is called, and they were told the presence
   that the connection has. *)
PresenceIsTold == self.presence = <<self.away, self.message>>
=============================================================================
