----------------------------- MODULE CallChannel -----------------------------
(***************************************************************************)
(* TpCallChannel (call-channel.c): the client's view of a call, with its   *)
(* TpCallContents and their streams (call-content.c, call-stream.c, which  *)
(* fetch and follow their lists the same way). Preparing it takes two      *)
(* replies, GetAll and GetHoldState, and a turn of the channel's contacts  *)
(* queue, while CallMembersChanged, ContentAdded and ContentRemoved come   *)
(* in.                                                                     *)
(***************************************************************************)
EXTENDS Naturals, Sequences, FiniteSets, SequencesExt

CONSTANTS
  Contacts, Contents,
  HasHold,      \* whether the channel has the Hold interface
  Early,        \* whether members may change before GetAll is answered
  MayFail,      \* whether the two calls may fail
  MaxChanges

SoundConstants ==
  /\ HasHold \in BOOLEAN /\ Early \in BOOLEAN /\ MayFail \in BOOLEAN
  /\ MaxChanges \in Nat

VARIABLES
  ch,      \* the TpCallChannel
  wire,    \* from the connection manager, in order
  svc      \* the call at the connection manager, and the calls it has

vars == <<ch, wire, svc>>

Init ==
  /\ ch = [started |-> FALSE, core_result |-> FALSE, answers |-> 0,
           misanswered |-> FALSE, prepared |-> FALSE, whole |-> TRUE,
           props |-> FALSE, initial |-> FALSE, hold |-> FALSE,
           members |-> {}, contents |-> <<>>, queue |-> <<>>, adding |-> FALSE]
  /\ wire = <<>>
  /\ \E m \in SUBSET Contacts, c \in SUBSET Contents :
       svc = [members |-> m, contents |-> c, fresh |-> Contents \ c,
              calls |-> <<>>, changes |-> 0]

Send(m) == wire' = Append(wire, m)

-----------------------------------------------------------------------------
(* Preparing the core feature                                              *)

PrepareCore ==
  /\ ~ch.started
  /\ ch' = [ch EXCEPT !.started = TRUE, !.core_result = TRUE]
  /\ svc' = [svc EXCEPT !.calls = IF HasHold THEN <<"GetAll", "GetHoldState">>
                                  ELSE <<"GetAll">>]
  /\ UNCHANGED wire

(* Completing core_result, which the code takes to be there; `whole'       *)
(* remembers what the application could see when it was told.              *)
complete(c, ok) ==
  IF ~c.core_result THEN [c EXCEPT !.misanswered = TRUE]
  ELSE [c EXCEPT !.core_result = FALSE, !.answers = @ + 1, !.prepared = ok,
                 !.whole = ok => \A i \in DOMAIN c.queue : ~c.queue[i].first]

channel_maybe_core_prepared(c) ==
  IF c.core_result /\ c.initial /\ c.props /\ c.hold
  THEN complete(c, TRUE) ELSE c

(* BUG: the hold state is not waited for.                                  *)
channel_maybe_core_preparedEarly(c) ==
  IF c.core_result /\ c.props THEN complete(c, TRUE) ELSE c

MaybeCorePrepared(c) == channel_maybe_core_prepared(c)

(* update_call_members puts the change in the channel's contacts queue;    *)
(* `first' marks the initial members.                                      *)
Queue(c, add, rem, first) ==
  [c EXCEPT !.queue = Append(@, [add |-> add, rem |-> rem, first |-> first])]

(* update_call_members_prepared_cb, when its contacts are prepared.        *)
update_prepared(c) ==
  LET u == Head(c.queue)
      d == [c EXCEPT !.queue = Tail(@),
                     !.members = (@ \cup u.add) \ u.rem]
  IN  IF d.initial THEN d     \* ::members-changed
      ELSE MaybeCorePrepared([d EXCEPT !.initial = TRUE])

(* BUG: a change that is not the head of the queue overtakes it.           *)
update_preparedLast(c) ==
  LET u == Last(c.queue)
      d == [c EXCEPT !.queue = Front(@),
                     !.members = (@ \cup u.add) \ u.rem]
  IN  IF d.initial THEN d
      ELSE MaybeCorePrepared([d EXCEPT !.initial = TRUE])

UpdatePrepared(c) == update_prepared(c)

MembersPrepared ==
  /\ ch.queue # <<>>
  /\ ch' = UpdatePrepared(ch)
  /\ UNCHANGED <<wire, svc>>

got_all_properties(c, m) ==
  IF ~m.ok THEN complete(c, FALSE)
  ELSE [Queue(c, m.members, {}, TRUE)
          EXCEPT !.props = TRUE, !.contents = @ \o SetToSeq(m.contents)]

got_hold_state(c, m) ==
  IF ~m.ok THEN complete(c, FALSE)
  ELSE MaybeCorePrepared([c EXCEPT !.hold = TRUE])

(* ensure_content, from ContentAdded and from the reply to AddContent.     *)
ensure_content(c, p) ==
  IF p \in ToSet(c.contents) THEN c
  ELSE [c EXCEPT !.contents = Append(@, p)]

(* BUG: the content is not looked for first.                               *)
ensure_contentAgain(c, p) == [c EXCEPT !.contents = Append(@, p)]

EnsureContent(c, p) == ensure_content(c, p)

(* g_ptr_array_remove_index_fast: the last takes the place of the removed. *)
RemoveFast(s, x) ==
  LET i == SelectInSeq(s, LAMBDA y : y = x)
  IN  IF i = 0 THEN s ELSE Front([s EXCEPT ![i] = Last(s)])

content_signal(c, m) ==
  IF ~c.props THEN c
  ELSE IF m.add THEN EnsureContent(c, m.path)
  ELSE [c EXCEPT !.contents = RemoveFast(@, m.path)]

(* BUG: signals from before GetAll's reply count too.                      *)
content_signalEarly(c, m) ==
  IF m.add THEN EnsureContent(c, m.path)
  ELSE [c EXCEPT !.contents = RemoveFast(@, m.path)]

ContentSignal(c, m) == content_signal(c, m)

add_content(c, m) == [EnsureContent(c, m.path) EXCEPT !.adding = FALSE]

(* call_members_changed_cb looks at no flag.                               *)
call_members_changed(c, m) == Queue(c, m.add, m.rem, FALSE)

Received(c, m) ==
  CASE m.type = "all" -> got_all_properties(c, m)
    [] m.type = "hold" -> got_hold_state(c, m)
    [] m.type = "content" -> ContentSignal(c, m)
    [] m.type = "added" -> add_content(c, m)
    [] m.type = "members" -> call_members_changed(c, m)

Receive ==
  /\ wire # <<>>
  /\ ch' = IF ch.started THEN Received(ch, Head(wire)) ELSE ch
  /\ wire' = Tail(wire)
  /\ UNCHANGED svc

-----------------------------------------------------------------------------
(* tp_call_channel_add_content_async, on a prepared channel                *)

AddContent ==
  /\ ch.prepared /\ ~ch.adding /\ svc.fresh # {}
  /\ ch' = [ch EXCEPT !.adding = TRUE]
  /\ svc' = [svc EXCEPT !.calls = Append(@, "AddContent")]
  /\ UNCHANGED wire

-----------------------------------------------------------------------------
(* The connection manager answers the calls in their order.                *)

Answered == svc' = [svc EXCEPT !.calls = Tail(@)]

SvcAnswer ==
  /\ svc.calls # <<>>
  /\ \/ /\ Head(svc.calls) = "GetAll" /\ Answered
        /\ \E ok \in {TRUE, ~MayFail} :
             Send([type |-> "all", ok |-> ok, members |-> svc.members,
                   contents |-> svc.contents])
     \/ /\ Head(svc.calls) = "GetHoldState" /\ Answered
        /\ \E ok \in {TRUE, ~MayFail} : Send([type |-> "hold", ok |-> ok])

SvcAdds ==      \* base-call-channel.c announces it and then returns its path
  /\ svc.calls # <<>> /\ Head(svc.calls) = "AddContent"
  /\ \E p \in svc.fresh :
       /\ svc' = [svc EXCEPT !.calls = Tail(@), !.contents = @ \cup {p},
                             !.fresh = @ \ {p}]
       /\ wire' = wire \o <<[type |-> "content", add |-> TRUE, path |-> p],
                            [type |-> "added", path |-> p]>>
  /\ UNCHANGED ch

SvcAnswers == SvcAnswer /\ UNCHANGED ch

SvcChangesContents ==
  /\ svc.changes < MaxChanges
  /\ \E p \in svc.contents \cup svc.fresh, add \in BOOLEAN :
       /\ add <=> p \in svc.fresh
       /\ svc' = [svc EXCEPT !.changes = @ + 1, !.fresh = @ \ {p},
                    !.contents = IF add THEN @ \cup {p} ELSE @ \ {p}]
       /\ Send([type |-> "content", add |-> add, path |-> p])
  /\ UNCHANGED ch

SvcChangesMembers ==
  /\ svc.changes < MaxChanges
  /\ Early \/ ch.props
  /\ \E x \in Contacts, add \in BOOLEAN :
       /\ add <=> x \notin svc.members
       /\ svc' = [svc EXCEPT !.changes = @ + 1,
                    !.members = IF add THEN @ \cup {x} ELSE @ \ {x}]
       /\ Send([type |-> "members", add |-> IF add THEN {x} ELSE {},
                rem |-> IF add THEN {} ELSE {x}])
  /\ UNCHANGED ch

Next ==
  \/ PrepareCore \/ MembersPrepared \/ Receive \/ AddContent
  \/ SvcAnswers \/ SvcAdds \/ SvcChangesContents \/ SvcChangesMembers

Spec == Init /\ [][Next]_vars

-----------------------------------------------------------------------------
(* Properties                                                              *)

Quiet == wire = <<>> /\ ch.queue = <<>> /\ svc.calls = <<>>

(* The fields have their types.                                            *)
TypeOK ==
  /\ ch.members \subseteq Contacts /\ ch.contents \in Seq(Contents)
  /\ ch.answers \in 0 .. 1 /\ svc.changes \in 0 .. MaxChanges

(* All received, a prepared TpCallChannel has the contents of the call,    *)
(* each once, though ContentAdded may come before GetAll's reply, or before*)
(* AddContent's, and contents come and go in between.                      *)
ContentsMirrored ==
  /\ IsInjective(ch.contents)
  /\ Quiet /\ ch.prepared => ToSet(ch.contents) = svc.contents

(* ... and its members, though changes wait for their contacts.            *)
MembersMirrored == Quiet /\ ch.prepared => ch.members = svc.members

(* A prepared call has its initial members ("core_result will be complete  *)
(* in update_call_members_prepared_cb() when the initial members are       *)
(* prepared").                                                             *)
PreparedIsWhole == ch.prepared => ch.whole /\ ch.props

(* The preparation is answered once.                                       *)
CoreAnsweredOnce == ~ch.misanswered

(* When all is received, the preparation has been answered: the comment in *)
(* got_all_properties_cb() says that it is, by the members or by the hold  *)
(* state.                                                                  *)
CoreIsAnswered == Quiet /\ ch.started => ~ch.core_result
=============================================================================
