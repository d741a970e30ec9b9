----------------------------- MODULE GroupMixin -----------------------------
(***************************************************************************)
(* The service side of a group channel, group-mixin.c: the three member    *)
(* sets, why each local-pending contact is pending, the owners of          *)
(* channel-specific handles, the flags and the self handle.  A mixin is a  *)
(* record and every function an operator on it; `out` is the sequence of   *)
(* D-Bus messages it has sent, in order, which the client has yet to read. *)
(***************************************************************************)
EXTENDS Integers, FiniteSets, SequencesExt

CONSTANTS Handles,     \* the contact handles, numbers other than zero
          Owners       \* the global handles that may own one of them

NoHandle == 0

(***************************************************************************)
(* A cause is the actor and the reason of a change; the message is left    *)
(* out.  NoCause is what the client does not bother to store.              *)
(***************************************************************************)
NoCause == [actor |-> NoHandle, reason |-> "none"]

ImmutableFlags == {"PROPERTIES", "MEMBERS_CHANGED_DETAILED"}
Flags == ImmutableFlags \cup {"CAN_ADD", "CAN_REMOVE", "CAN_RESCIND"}

NoOwners == [h \in {} |-> NoHandle]

Updated(f, g) ==
  [h \in DOMAIN f \cup DOMAIN g |-> IF h \in DOMAIN g THEN g[h] ELSE f[h]]

Without(f, S) == [h \in DOMAIN f \ S |-> f[h]]

(***************************************************************************)
(* Each signal is emitted twice, in its old and in its detailed form.      *)
(***************************************************************************)
Twice(m) == << [m EXCEPT !.detailed = FALSE], [m EXCEPT !.detailed = TRUE] >>

EmitMembersChanged(s, add, del, lp, rp, cause) ==
  [s EXCEPT !.out = @ \o Twice(
     [type |-> "members", detailed |-> FALSE, add |-> add, del |-> del,
      lp |-> lp, rp |-> rp, cause |-> cause])]

EmitHandleOwnersChanged(s, added, removed) ==
  [s EXCEPT !.out = @ \o Twice(
     [type |-> "owners", detailed |-> FALSE,
      added |-> added, removed |-> removed])]

(***************************************************************************)
(* change_members: what is really new decides whether anything is sent,    *)
(* but the sets and the reasons are updated in any case.  A contact that   *)
(* leaves the group takes its owner mapping along.                         *)
(***************************************************************************)
ChangeMembers(s, add, del, lp, rp, cause) ==
  LET allM == s.members \cup add
      allL == s.lp \cup lp
      allR == s.rp \cup rp
      newAdd == add \ s.members
      newLp == lp \ s.lp
      newRp == rp \ s.rp
      newRemove == del \cap (allM \cup (allL \ add) \cup (allR \ add))
      stillL == allL \ (add \cup del \cup rp)
      gone == newRemove \cap DOMAIN s.owners
      t == [s EXCEPT
              !.members = allM \ (del \cup lp \cup rp),
              !.lp = stillL,
              !.rp = allR \ (add \cup del \cup lp),
              !.info = [h \in stillL |-> IF h \in lp THEN cause ELSE s.info[h]]]
      u == EmitMembersChanged([t EXCEPT !.owners = Without(@, gone)],
             newAdd, newRemove, newLp, newRp, cause)
  IN IF newAdd \cup newRemove \cup newLp \cup newRp = {} THEN t
     ELSE IF gone = {} THEN u
     ELSE EmitHandleOwnersChanged(u, NoOwners, gone)

ChangeFlags(s, add, del) ==
  LET added == add \ s.flags
      removed == del \cap s.flags
  IN IF added \cup removed = {} THEN s
     ELSE [s EXCEPT !.flags = (@ \cup added) \ removed,
             !.out = Append(@, [type |-> "flags", added |-> added,
                                removed |-> removed])]

ChangeSelfHandle(s, h) ==
  [s EXCEPT !.self = h,
     !.out = @ \o Twice([type |-> "self", detailed |-> FALSE, handle |-> h])]

AddHandleOwners(s, map) ==
  IF DOMAIN map = {} THEN s
  ELSE EmitHandleOwnersChanged([s EXCEPT !.owners = Updated(@, map)],
         map, {})

(***************************************************************************)
(* The AddMembers method.  All of the handles are checked before any is    *)
(* added; then the connection manager's add_member is called for each one  *)
(* that is not yet a member, until one fails.  `verdict` is what it        *)
(* decides for each handle: add it at once, ask the contact first, or      *)
(* fail; what was done for earlier handles stays done.                     *)
(***************************************************************************)
MayAdd(s, h) == "CAN_ADD" \in s.flags \/ h \in s.members \cup s.lp

AddMember(st, h, verdict) ==
  IF ~st.ok \/ h \in st.s.members THEN st
  ELSE CASE verdict[h] = "fail" -> [st EXCEPT !.ok = FALSE]
         [] verdict[h] = "now" ->
              [st EXCEPT !.s = ChangeMembers(@, {h}, {}, {}, {}, NoCause)]
         [] OTHER ->
              [st EXCEPT !.s = ChangeMembers(@, {}, {}, {}, {h}, NoCause)]

AddMembers(s, contacts, verdict) ==
  IF \E i \in DOMAIN contacts : ~MayAdd(s, contacts[i]) THEN s
  ELSE FoldLeft(LAMBDA st, h : AddMember(st, h, verdict),
                [s |-> s, ok |-> TRUE], contacts).s

(***************************************************************************)
(* RemoveMembers(WithReason): the same two passes, with the user's own     *)
(* handle always removable when the class allows it.                       *)
(***************************************************************************)
Present(s) == s.members \cup s.lp \cup s.rp

MayRemove(s, h) ==
  \/ s.selfRemoval /\ h = s.self /\ h \in Present(s)
  \/ h \in s.members /\ "CAN_REMOVE" \in s.flags
  \/ h \in s.rp \ s.members /\ "CAN_RESCIND" \in s.flags
  \/ h \notin s.members \cup s.rp

RemoveMember(st, h, verdict) ==
  IF ~st.ok \/ h \notin Present(st.s) THEN st
  ELSE IF verdict[h] = "fail" THEN [st EXCEPT !.ok = FALSE]
  ELSE [st EXCEPT !.s = ChangeMembers(@, {}, {h}, {}, {}, NoCause)]

RemoveMembersWithReason(s, contacts, verdict) ==
  IF \E i \in DOMAIN contacts : ~MayRemove(s, contacts[i]) THEN s
  ELSE FoldLeft(LAMBDA st, h : RemoveMember(st, h, verdict),
                [s |-> s, ok |-> TRUE], contacts).s
=============================================================================
