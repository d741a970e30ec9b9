---------------------------- MODULE GroupChannel ----------------------------
(***************************************************************************)
(* A group channel seen from both ends: the connection manager's mixin     *)
(* (GroupMixin) and the TpChannel that mirrors it, channel-group.c and the *)
(* group half of channel-contacts.c.                                       *)
(*                                                                         *)
(* The channel connects to all of the group signals, asks for the          *)
(* properties, and ignores changes until the answer is there.  A service   *)
(* that has no such properties is asked by four separate calls instead.    *)
(* From then on it applies each change twice: at once to the sets of       *)
(* handles, and, when the TpContact objects of the change are prepared, to *)
(* the tables of contacts.  The second goes through a queue so that the    *)
(* changes keep their order.  The bus keeps the order of the service's     *)
(* signals and replies.                                                    *)
(***************************************************************************)
EXTENDS GroupMixin

CONSTANTS Actors,        \* who may be named as the actor of a change
          Reasons,       \* the reasons the manager gives for a change
          FlagSets,      \* the flags a channel may start with and change to
          Places,        \* where the contacts may be to start with
          FirstSelf,     \* the user's handle when the channel is made
          SelfRemoval,   \* whether the user may always leave
          ConnSelf,      \* the connection's own self handle
          MaxChanges     \* bound: changes by the manager and requests

VARIABLES svc,       \* the mixin
          chan,      \* the TpChannel
          kicked,    \* history: a ready channel is told of the user's removal
          changes

vars == <<svc, chan, kicked, changes>>

Causes == {NoCause} \cup [actor : Actors, reason : Reasons]

SoundConstants ==
  /\ Handles \subseteq Nat \ {NoHandle} /\ IsFiniteSet(Handles)
  /\ Owners \cap Handles = {} /\ NoHandle \notin Owners
  /\ Actors \subseteq Handles /\ FlagSets \subseteq SUBSET Flags
  /\ FirstSelf \in Handles /\ SelfRemoval \in BOOLEAN
  /\ Places \subseteq [Handles -> {"out", "member", "lp", "rp"}]

Calls == {"getall", "flags", "self", "members", "lpinfo"}

(***************************************************************************)
(* TpChannelPrivate, as far as groups go.  `known` is group_members #      *)
(* NULL, `infoTable` group_local_pending_info # NULL, `tables` the contact *)
(* tables # NULL.  A contact object is its handle.  `aborted` is a failed  *)
(* g_assert.                                                               *)
(***************************************************************************)
NewChannel(tooOld) ==
  [stage |-> "getall", known |-> FALSE, members |-> {}, lp |-> {}, rp |-> {},
   infoTable |-> FALSE, info |-> [h \in {} |-> NoCause],
   haveFlags |-> FALSE, flags |-> {}, self |-> NoHandle,
   haveOwners |-> FALSE, owners |-> NoOwners,
   signals |-> {"members", "self", "owners"} \X BOOLEAN,
   tooOld |-> tooOld, tables |-> FALSE, membersC |-> {}, lpC |-> {},
   rpC |-> {}, ownersC |-> NoOwners, selfC |-> NoHandle,
   queue |-> <<>>, current |-> <<>>,
   removeError |-> FALSE, invalidated |-> "no", aborted |-> FALSE]

Aborted(c) == [c EXCEPT !.aborted = TRUE]

Invalidate(c, why) ==
  IF c.invalidated = "no" THEN [c EXCEPT !.invalidated = why] ELSE c

Continue(c, next) ==
  [c EXCEPT !.stage = IF c.invalidated = "no" THEN next ELSE "gone"]

(***************************************************************************)
(* The contacts queue.  A prepared item is applied, then the next one is   *)
(* started; in an invalidated channel all of the rest is applied at once.  *)
(***************************************************************************)

\* mutant: who leaves is looked up among the members only
MembersPreparedMembersOnly(c, m) ==
  LET found == m.del \cap c.membersC
  IN [c EXCEPT
        !.membersC = ((@ \ found) \cup m.add) \ (m.lp \cup m.rp),
        !.lpC = (((@ \ found) \ m.add) \cup m.lp) \ m.rp,
        !.rpC = (((@ \ found) \ m.add) \ m.lp) \cup m.rp]

MembersPrepared(c, m) ==
  LET found == m.del \cap (c.membersC \cup c.lpC \cup c.rpC)
  IN [c EXCEPT
        !.membersC = ((@ \ found) \cup m.add) \ (m.lp \cup m.rp),
        !.lpC = (((@ \ found) \ m.add) \cup m.lp) \ m.rp,
        !.rpC = (((@ \ found) \ m.add) \ m.lp) \cup m.rp]

Prepared(c, m) ==
  CASE m.type = "members" -> MembersPrepared(c, m)
    [] m.type = "owners" ->
         [c EXCEPT !.ownersC = Updated(Without(@, m.removed), m.added)]
    [] m.type = "self" -> [c EXCEPT !.selfC = m.handle]

ProcessContactsQueue(c) ==
  IF c.current # <<>> \/ c.queue = <<>> THEN c
  ELSE IF c.invalidated # "no"
       THEN [FoldLeft(Prepared, c, c.queue) EXCEPT !.queue = <<>>]
       ELSE [c EXCEPT !.current = <<Head(c.queue)>>, !.queue = Tail(@)]

ContactsQueueItem(c, m) ==
  ProcessContactsQueue([c EXCEPT !.queue = Append(@, m)])

ContactsQueueHeadReady(c) ==
  ProcessContactsQueue([Prepared(c, c.current[1]) EXCEPT !.current = <<>>])

(***************************************************************************)
(* The initial state.                                                      *)
(***************************************************************************)
GotInitialGroupFlags(c, flags) ==
  IF c.flags # {} \/ c.known THEN Aborted(c)
  ELSE LET detailed == "MEMBERS_CHANGED_DETAILED" \in flags
       IN [c EXCEPT !.flags = flags, !.haveFlags = TRUE,
             !.signals = IF c.invalidated # "no" THEN @
                         ELSE @ \ {<<"members", ~detailed>>}]

\* _tp_channel_group_set_one_lp: nothing is stored for NoCause
StoreInfo(c, causes) ==
  LET told == {h \in DOMAIN causes : causes[h] # NoCause}
  IN [c EXCEPT !.infoTable = @ \/ told # {},
               !.info = Updated(Without(@, DOMAIN causes),
                                [h \in told |-> causes[h]])]

SetLp(c, info) ==
  IF c.infoTable THEN Aborted(c)
  ELSE StoreInfo([c EXCEPT !.lp = DOMAIN info, !.members = @ \ DOMAIN info,
                           !.rp = @ \ DOMAIN info], info)

\* without identifiers there are no contacts (_tp_channel_contacts_group_init)
ContactsGroupInit(c, ids) ==
  IF c.tooOld \/ ~ids THEN [c EXCEPT !.tooOld = TRUE]
  ELSE IF c.selfC # NoHandle \/ c.tables THEN Aborted(c)
  ELSE [c EXCEPT !.tables = TRUE, !.selfC = c.self, !.membersC = c.members,
                 !.lpC = c.lp, !.rpC = c.rp, !.ownersC = c.owners]

FallBack(c) == Continue([c EXCEPT !.tooOld = TRUE], "flags")

GotGroupProperties(c, r) ==
  IF ~r.ok \/ "PROPERTIES" \notin r.svc.flags THEN FallBack(c)
  ELSE LET f == GotInitialGroupFlags(c, r.svc.flags)
           s == SetLp([f EXCEPT !.known = TRUE, !.self = r.svc.self,
                         !.members = r.svc.members, !.rp = r.svc.rp],
                      r.svc.info)
           o == [s EXCEPT !.haveOwners = TRUE, !.owners = r.svc.owners,
                   !.signals = @ \ {<<"self", ~r.ids>>, <<"owners", ~r.ids>>}]
       IN Continue(ContactsGroupInit(o, r.ids), "ready")

GotGroupFlags(c, r) ==
  IF c.flags # {} THEN Aborted(c)
  ELSE IF ~r.ok THEN [c EXCEPT !.stage = "gone"]
  ELSE Continue(GotInitialGroupFlags(c, r.svc.flags \ {"PROPERTIES"}), "self")

GotSelfHandle(c, r) ==
  Continue([c EXCEPT !.self = IF r.ok THEN r.svc.self ELSE NoHandle], "members")

GotAllMembers(c, r) ==
  IF c.known \/ c.infoTable THEN Aborted(c)
  ELSE Continue([c EXCEPT !.known = TRUE,
                   !.members = IF r.ok THEN r.svc.members ELSE {},
                   !.lp = IF r.ok THEN r.svc.lp ELSE {},
                   !.rp = IF r.ok THEN r.svc.rp ELSE {}], "lpinfo")

GotLpInfo(c, r) ==
  IF ~c.known \/ c.infoTable THEN Aborted(c)
  ELSE Continue(IF r.ok THEN SetLp(c, r.svc.info) ELSE c, "ready")

GotReply(c, r) ==
  CASE c.stage = "getall" -> GotGroupProperties(c, r)
    [] c.stage = "flags" -> GotGroupFlags(c, r)
    [] c.stage = "self" -> GotSelfHandle(c, r)
    [] c.stage = "members" -> GotAllMembers(c, r)
    [] c.stage = "lpinfo" -> GotLpInfo(c, r)

(***************************************************************************)
(* The signals.                                                            *)
(***************************************************************************)
\* a signal that only renames a local-pending contact keeps the old cause
RenamedFrom(c, m) ==
  {old \in m.del : /\ m.cause.reason = "renamed" /\ m.add = {} /\ m.rp = {}
                   /\ Cardinality(m.lp) = 1 /\ Cardinality(m.del) = 1
                   /\ old \in DOMAIN c.info}

LpCauses(c, m) ==
  [h \in m.lp |-> IF RenamedFrom(c, m) = {} THEN m.cause
                  ELSE c.info[CHOOSE old \in RenamedFrom(c, m) : TRUE]]

ContactsMembersChanged(c, m) ==
  IF \/ c.tooOld
     \/ ~m.detailed /\ (m.add \cup m.lp \cup m.rp # {} \/ m.cause.actor # NoHandle)
  THEN c
  ELSE IF ~c.tables THEN Aborted(c) ELSE ContactsQueueItem(c, m)

\* mutant: who is added stays remote-pending
HandleMembersChangedKeepsRp(c, m) ==
  IF ~c.known THEN c
  ELSE LET i == StoreInfo(c, LpCauses(c, m))
           d == [i EXCEPT
                   !.members = ((@ \cup m.add) \ (m.lp \cup m.rp)) \ m.del,
                   !.lp = (((@ \ m.add) \cup m.lp) \ m.rp) \ m.del,
                   !.rp = ((@ \ m.lp) \cup m.rp) \ m.del,
                   !.info = Without(@, m.del),
                   !.removeError = @ \/ m.del \cap {c.self, ConnSelf} # {}]
       IN ContactsMembersChanged(d, m)

HandleMembersChanged(c, m) ==
  IF ~c.known THEN c
  ELSE LET i == StoreInfo(c, LpCauses(c, m))
           d == [i EXCEPT
                   !.members = ((@ \cup m.add) \ (m.lp \cup m.rp)) \ m.del,
                   !.lp = (((@ \ m.add) \cup m.lp) \ m.rp) \ m.del,
                   !.rp = ((((@ \ m.add) \ m.lp) \cup m.rp)) \ m.del,
                   !.info = Without(@, m.del),
                   !.removeError = @ \/ m.del \cap {c.self, ConnSelf} # {}]
       IN ContactsMembersChanged(d, m)

SelfHandleChanged(c, m) ==
  LET d == [c EXCEPT !.self = m.handle]
  IN IF m.detailed /\ ~c.tooOld THEN ContactsQueueItem(d, m) ELSE d

HandleOwnersChanged(c, m) ==
  LET d == IF ~c.haveOwners THEN c
           ELSE [c EXCEPT !.owners = Without(Updated(@, m.added), m.removed)]
  IN IF ~m.detailed \/ c.tooOld THEN d
     ELSE IF ~c.tables THEN Aborted(d) ELSE ContactsQueueItem(d, m)

GroupFlagsChanged(c, m) ==
  LET added == m.added \ c.flags
      removed == m.removed \cap c.flags
  IN IF ~c.haveFlags THEN c
     ELSE IF (added \cup removed) \cap ImmutableFlags # {}
          THEN Invalidate(c, "inconsistent")
          ELSE [c EXCEPT !.flags = (@ \cup added) \ removed]

\* mutant: the reason of the removal is cleared too early
ClosedForgets(c) == Invalidate([c EXCEPT !.removeError = FALSE], "closed")

Closed(c) ==
  [Invalidate(c, IF c.removeError THEN "removed" ELSE "closed")
     EXCEPT !.removeError = FALSE]

Handle(c, m) ==
  CASE m.type = "reply" -> GotReply(c, m)
    [] m.type = "closed" -> Closed(c)
    [] m.type = "flags" -> GroupFlagsChanged(c, m)
    [] OTHER ->
         IF <<m.type, m.detailed>> \notin c.signals THEN c
         ELSE CASE m.type = "members" -> HandleMembersChanged(c, m)
                [] m.type = "owners" -> HandleOwnersChanged(c, m)
                [] m.type = "self" -> SelfHandleChanged(c, m)

-----------------------------------------------------------------------------
(***************************************************************************)
(* The steps.                                                              *)
(***************************************************************************)
Init ==
  /\ \E flags \in FlagSets, props \in BOOLEAN, ids \in BOOLEAN,
       place \in Places, cause \in Causes :
       \* a service without the properties does not have their flag either,
       \* nor MemberIdentifiers, which older services lack
       /\ "PROPERTIES" \in flags => props
       /\ ids => props
       /\ LET In(p) == {h \in Handles : place[h] = p}
          IN svc = [members |-> In("member"), lp |-> In("lp"), rp |-> In("rp"),
                    info |-> [h \in In("lp") |-> cause], owners |-> NoOwners,
                    flags |-> flags, self |-> FirstSelf, selfRemoval |-> SelfRemoval,
                    props |-> props, ids |-> ids, closed |-> FALSE, out |-> <<>>]
  /\ \E tooOld \in BOOLEAN : chan = NewChannel(tooOld)
  /\ kicked = FALSE /\ changes = 0

\* a step of the service, and what the history variable makes of it
Service(s) ==
  /\ ~svc.closed /\ ~chan.aborted /\ svc' = s /\ UNCHANGED chan
  /\ kicked' = /\ s.self = svc.self /\ s.self \notin Present(s)
               /\ kicked \/ (s.self \in Present(svc) /\ chan.stage = "ready")

Changes(s) == changes < MaxChanges /\ changes' = changes + 1 /\ Service(s)

ManagerChangesMembers ==
  \E to \in [Handles -> {"keep", "add", "del", "lp", "rp"}], cause \in Causes :
    LET To(p) == {h \in Handles : to[h] = p}
    IN Changes(ChangeMembers(svc, To("add"), To("del"), To("lp"), To("rp"), cause))

ManagerChangesFlags ==
  \E flags \in FlagSets :
    Changes(ChangeFlags(svc, flags \ svc.flags, svc.flags \ flags))

ManagerChangesSelf == \E h \in Handles : Changes(ChangeSelfHandle(svc, h))

ManagerAddsOwner ==
  \E h \in Handles, o \in Owners \cup {NoHandle} :
    Changes(AddHandleOwners(svc, [x \in {h} |-> o]))

InOrder(hs) == SetToSortSeq(hs, <)

RequestAdd ==
  \E hs \in SUBSET Handles : \E verdict \in [hs -> {"now", "ask", "fail"}] :
    Changes(AddMembers(svc, InOrder(hs), verdict))

RequestRemove ==
  \E hs \in SUBSET Handles : \E verdict \in [hs -> {"now", "fail"}] :
    Changes(RemoveMembersWithReason(svc, InOrder(hs), verdict))

Close ==
  /\ UNCHANGED changes
  /\ Service([svc EXCEPT !.closed = TRUE,
                !.out = Append(@, [type |-> "closed"])])

\* the properties of the group, as its getters return them
Snapshot(s) ==
  [members |-> s.members, lp |-> s.lp, rp |-> s.rp, info |-> s.info,
   owners |-> s.owners, flags |-> s.flags, self |-> s.self]

Answer ==
  /\ chan.stage \in Calls /\ chan.invalidated = "no"
  /\ \A i \in DOMAIN svc.out : svc.out[i].type # "reply"
  /\ UNCHANGED changes
  /\ Service([svc EXCEPT !.out = Append(@,
       [type |-> "reply", ok |-> svc.props \/ chan.stage # "getall",
        ids |-> svc.ids, svc |-> Snapshot(svc)])])

Deliver ==
  /\ svc.out # <<>> /\ ~chan.aborted
  /\ chan' = IF chan.invalidated = "no" THEN Handle(chan, Head(svc.out)) ELSE chan
  /\ svc' = [svc EXCEPT !.out = Tail(@)]
  /\ UNCHANGED <<kicked, changes>>

\* the call of an invalidated proxy ends with the error it was invalidated by
CallFails ==
  /\ chan.stage \in Calls /\ chan.invalidated # "no" /\ ~chan.aborted
  /\ chan' = GotReply(chan, [ok |-> FALSE])
  /\ UNCHANGED <<svc, kicked, changes>>

ItemPrepared ==
  /\ chan.current # <<>> /\ ~chan.aborted
  /\ chan' = ContactsQueueHeadReady(chan)
  /\ UNCHANGED <<svc, kicked, changes>>

Next ==
  \/ ManagerChangesMembers \/ ManagerChangesFlags \/ ManagerChangesSelf
  \/ ManagerAddsOwner \/ RequestAdd \/ RequestRemove \/ Close
  \/ Answer \/ Deliver \/ CallFails \/ ItemPrepared

Spec == Init /\ [][Next]_vars

-----------------------------------------------------------------------------
(* The types of both records. *)
TypeOK ==
  /\ svc.members \cup svc.lp \cup svc.rp \subseteq Handles
  /\ DOMAIN svc.info = svc.lp /\ svc.flags \subseteq Flags
  /\ svc.self \in Handles /\ DOMAIN svc.owners \subseteq Handles
  /\ chan.stage \in Calls \cup {"ready", "gone"}
  /\ chan.members \cup chan.lp \cup chan.rp \subseteq Handles
  /\ chan.membersC \cup chan.lpC \cup chan.rpC \subseteq Handles
  /\ chan.invalidated \in {"no", "closed", "removed", "inconsistent"}
  /\ Len(chan.current) <= 1
  /\ changes \in 0..MaxChanges

\* a channel that works, and has read all that it was sent
Listening == chan.stage = "ready" /\ chan.invalidated = "no" /\ ~chan.aborted
CaughtUp == Listening /\ svc.out = <<>>

(* However the initial properties and the signals were interleaved, on the
   new or on the fallback path, a channel that has read everything has the
   service's three sets (handle_members_changed, got_group_properties_cb). *)
GroupMirrors ==
  CaughtUp => /\ chan.members = svc.members
              /\ chan.lp = svc.lp /\ chan.rp = svc.rp

(* At no time is a contact in two of the sets, at either end. *)
SetsDisjoint ==
  \A g \in {svc, chan} : /\ g.members \cap (g.lp \cup g.rp) = {}
                         /\ g.lp \cap g.rp = {}

(* The flags, the self handle and the owners of a group follow the service
   as well (group_flags_changed_cb, self_handle_changed_cb,
   handle_owners_changed_cb). *)
AttributesMirror ==
  CaughtUp => /\ chan.self = svc.self
              /\ chan.flags \cup {"PROPERTIES"} = svc.flags \cup {"PROPERTIES"}
              /\ chan.haveOwners => chan.owners = svc.owners

(* When the queue is empty the tables of contacts say the same as the sets of
   handles, if the service sends the detailed signals
   (members_changed_prepared_cb and its siblings). *)
ContactsMirror ==
  CaughtUp /\ chan.tables /\ chan.current = <<>> /\ chan.queue = <<>>
    /\ "MEMBERS_CHANGED_DETAILED" \in chan.flags
  => /\ chan.membersC = chan.members /\ chan.lpC = chan.lp /\ chan.rpC = chan.rp
     /\ chan.ownersC = chan.owners /\ chan.selfC = chan.self

(* If the user was removed from the group and the channel was then closed,
   the channel is invalidated with the reason of the removal and not as if it
   had just been closed (tp_channel_closed_cb). *)
RemovalIsReported == chan.invalidated = "closed" => ~kicked

(* No assertion of channel-group.c or channel-contacts.c fails. *)
NoAssertionFails == ~chan.aborted
=============================================================================
