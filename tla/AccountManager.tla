---------------------------- MODULE AccountManager ----------------------------
(***************************************************************************)
(* TpAccountManager (account-manager.c): the list of valid accounts of a   *)
(* client, each prepared before it appears in the list, the presence asked *)
(* of all of them and the most available of their presences.               *)
(*                                                                         *)
(* `man` is what TpAccountManager keeps and `accts` the TpAccounts of its  *)
(* factory.  `svc` is the account manager, external; its messages and      *)
(* replies are on the `wire`, in the order it sent them.                   *)
(***************************************************************************)
EXTENDS Integers, FiniteSets, FiniteSetsExt, SequencesExt

CONSTANTS Accounts,
          Existing,    \* accounts that the account manager has at first
          Held,        \* accounts of which the application keeps the TpAccount
          Presences,   \* presences that accounts have, larger if more available
          Changes,     \* what may change: subset of {"valid", "presence", "removed", "created"}
          MaxChanges

UNSET == 0             \* TP_CONNECTION_PRESENCE_TYPE_UNSET
OFFLINE == 1

VARIABLES man, accts, svc, wire, changes

vars == <<man, accts, svc, wire, changes>>

SoundConstants ==
  /\ Existing \subseteq Accounts /\ Held \subseteq Accounts
  /\ Presences \subseteq Nat /\ OFFLINE \in Presences /\ MaxChanges \in Nat

NoAccount ==
  [proxy |-> FALSE, core |-> FALSE, valid |-> FALSE, presence |-> UNSET,
   invalidated |-> FALSE, asked |-> UNSET, preparing |-> << >>, handlers |-> 0]

NewManager ==
  [got_all |-> FALSE, core |-> FALSE, invalidated |-> FALSE, accounts |-> {}, n_preparing |-> 0,
   requested |-> UNSET, best |-> "none", presence |-> UNSET, known |-> {}, told |-> UNSET]

Fresh(a) == [exists |-> a \in Existing, was |-> a \in Existing, valid |-> TRUE, presence |-> OFFLINE]

Init ==
  /\ man = NewManager /\ accts = [a \in Accounts |-> NoAccount]
  /\ svc = [a \in Accounts |-> Fresh(a)]
  /\ wire = << >> /\ changes = 0

-----------------------------------------------------------------------------
(***************************************************************************)
(* TpAccount, as far as TpAccountManager sees it: Account has the rest.    *)
(* The properties of a new proxy are requested at once.                    *)
(***************************************************************************)
EnsureAccount(as, a, who) ==
  [as EXCEPT ![a] =
     [IF @.proxy /\ ~@.invalidated THEN @ ELSE [NoAccount EXCEPT !.proxy = TRUE]
        EXCEPT !.preparing = Append(@, who)]]

IsNew(a) == ~(accts[a].proxy /\ ~accts[a].invalidated)
AskAll(q, a) == IF IsNew(a) THEN Append(q, [m |-> "GetAll", a |-> a, props |-> svc[a]]) ELSE q

\* A TpAccount that nothing refers to is gone, and with it its signal handlers.
Referenced(m, as, a) == a \in Held \/ a \in m.accounts \/ as[a].preparing # << >>
Unref(m, as) == [a \in Accounts |-> IF Referenced(m, as, a) THEN as[a] ELSE NoAccount]
ForgetBest(m, as) == IF m.best # "none" /\ ~Referenced(m, as, m.best) THEN [m EXCEPT !.best = "freed"] ELSE m

Becomes(m, as) == man' = ForgetBest(m, as) /\ accts' = Unref(m, as)

-----------------------------------------------------------------------------
(***************************************************************************)
(* The most available presence.                                            *)
(***************************************************************************)
Best(m, as) ==
  LET p(a) == as[a].presence
      online == {a \in m.accounts : p(a) > OFFLINE}
      unset == {a \in m.accounts : p(a) = UNSET}
  IN IF online # {} THEN CHOOSE a \in online : \A b \in online : p(a) >= p(b)
     ELSE IF unset # {} THEN CHOOSE a \in unset : TRUE
     ELSE "none"

PresenceOf(as, a) == IF a = "none" THEN OFFLINE ELSE as[a].presence

UpdateMostAvailablePresence(m, as) ==
  [m EXCEPT !.best = Best(m, as), !.presence = PresenceOf(as, Best(m, as))]

\* An account without presence is connected: the user seems available.
Available == 4
GetMostAvailablePresence(m) == IF m.presence = UNSET THEN Available ELSE m.presence

Tell(m) == [m EXCEPT !.told = GetMostAvailablePresence(m)]

PresenceChanged(m, as, a) ==
  IF as[a].presence > m.presence
    THEN Tell([m EXCEPT !.best = a, !.presence = as[a].presence])
    ELSE IF m.best = a THEN Tell(UpdateMostAvailablePresence(m, as)) ELSE m

\* BUG: an account that becomes less available is not the best any more, and no other is looked for
PresenceChangedOnlyUp(m, as, a) ==
  IF as[a].presence > m.presence \/ m.best = a
    THEN Tell([m EXCEPT !.best = a, !.presence = as[a].presence])
    ELSE m

AccountPresenceChanged(m, as, a) == PresenceChanged(m, as, a)

-----------------------------------------------------------------------------
(***************************************************************************)
(* The list of accounts.                                                   *)
(***************************************************************************)
RequestPresence(as, a, p) == IF p = UNSET THEN as ELSE [as EXCEPT ![a].asked = p]

\* The manager connects its handlers to the account once more at every insertion.
InsertAccount(m, a) == [m EXCEPT !.accounts = @ \cup {a}]
InsertedAccount(as, m, a) == RequestPresence([as EXCEPT ![a].handlers = @ + 1], a, m.requested)

\* BUG: an account that appears later is not asked for the presence asked of all
InsertedAccountOnly(as, m, a) == [as EXCEPT ![a].handlers = @ + 1]

Inserted(as, m, a) == InsertedAccount(as, m, a)

(* The initial accounts have been tried: the presence asked of all is asked
   again and the most available one is found. *)
CheckCoreReady(m, as) ==
  IF m.core \/ m.n_preparing > 0 THEN m
  ELSE Tell([UpdateMostAvailablePresence(m, as) EXCEPT !.core = TRUE, !.known = m.accounts])

AskedAll(m, as) ==
  [a \in Accounts |->
     IF m.requested # UNSET /\ a \in m.accounts /\ as[a].core THEN [as[a] EXCEPT !.asked = m.requested] ELSE as[a]]

AskedWhenReady(m, as) == IF m.core \/ m.n_preparing > 0 THEN as ELSE AskedAll(m, as)

(* The account may have become invalid while it was being prepared. *)
StillValid(x) == x.valid /\ ~x.invalidated

\* BUG: the account is not looked at again
StillValidUnchecked(x) == ~x.invalidated

MayInsert(x) == StillValid(x)

Popped(as, a) == [as EXCEPT ![a].preparing = Tail(@)]

InitialPrepared(a) ==
  LET as == Popped(accts, a)
      ok == MayInsert(accts[a])
      m == [IF ok THEN InsertAccount(man, a) ELSE man EXCEPT !.n_preparing = @ - 1]
      bs == IF ok THEN Inserted(as, man, a) ELSE as
  IN Becomes(CheckCoreReady(m, bs), AskedWhenReady(m, bs))

ValidityPrepared(a) ==
  LET as == Popped(accts, a)
      m == InsertAccount(man, a)
  IN IF MayInsert(accts[a])
       THEN Becomes([m EXCEPT !.known = @ \cup {a}], Inserted(as, man, a))
       ELSE Becomes(man, as)

(* The preparation of an account ends, with its properties or because it is
   invalidated, and the callbacks are called one after another. *)
AccountPrepared(a) ==
  /\ accts[a].preparing # << >> /\ (accts[a].core \/ accts[a].invalidated)
  /\ CASE Head(accts[a].preparing) = "initial" -> InitialPrepared(a)
       [] Head(accts[a].preparing) = "validity" -> ValidityPrepared(a)
       [] Head(accts[a].preparing) = "create" -> Becomes(man, Popped(accts, a))
  /\ UNCHANGED <<svc, wire, changes>>

-----------------------------------------------------------------------------
(***************************************************************************)
(* Messages of the account manager.                                        *)
(***************************************************************************)
GotAll(valid) ==
  LET m == [man EXCEPT !.got_all = TRUE, !.n_preparing = Cardinality(valid)]
      as == [a \in Accounts |-> IF a \in valid THEN EnsureAccount(accts, a, "initial")[a] ELSE accts[a]]
  IN /\ Becomes(CheckCoreReady(m, as), AskedWhenReady(m, as))
     /\ wire' = FoldSet(LAMBDA a, q : AskAll(q, a), Tail(wire), valid)

ValidityChanged(a, valid) ==
  IF valid
    THEN Becomes(man, EnsureAccount(accts, a, "validity")) /\ wire' = AskAll(Tail(wire), a)
    ELSE /\ Becomes([man EXCEPT !.accounts = @ \ {a}, !.known = @ \ {a}], accts)
         /\ wire' = Tail(wire)

AccountCreated(a) == Becomes(man, EnsureAccount(accts, a, "create")) /\ wire' = AskAll(Tail(wire), a)

SetProperties(x, props) ==
  [x EXCEPT !.core = TRUE, !.valid = props.valid, !.presence = props.presence]

Quit(m, a) == [m EXCEPT !.accounts = @ \ {a}, !.known = @ \ {a}]

(* The reply to GetAll, which fails if the account is gone, and later changes
   of properties, of which none counts before the reply. *)
GotProperties(msg) ==
  LET a == msg.a
      as == [accts EXCEPT ![a] = SetProperties(@, msg.props)]
  IN /\ wire' = Tail(wire)
     /\ IF ~accts[a].proxy \/ accts[a].invalidated \/ (msg.m = "Changed" /\ ~accts[a].core)
          THEN UNCHANGED <<man, accts>>
          ELSE IF ~msg.props.exists
          THEN Becomes(man, [accts EXCEPT ![a].invalidated = TRUE])
          ELSE IF accts[a].handlers > 0 /\ accts[a].presence # msg.props.presence
          THEN Becomes(AccountPresenceChanged(man, as, a), as)
          ELSE Becomes(man, as)

(* Removed: the account is invalidated, which the manager hears of if it has
   connected its handlers. *)
AccountRemoved(a) ==
  /\ wire' = Tail(wire)
  /\ IF ~accts[a].proxy \/ accts[a].invalidated THEN UNCHANGED <<man, accts>>
     ELSE Becomes(IF accts[a].handlers > 0 THEN Quit(man, a) ELSE man, [accts EXCEPT ![a].invalidated = TRUE])

Receive ==
  /\ wire # << >>
  /\ LET msg == Head(wire)
     IN CASE msg.m = "ValidAccounts" -> GotAll(msg.valid)
          [] msg.m = "ValidityChanged" -> ValidityChanged(msg.a, msg.valid)
          [] msg.m = "Created" -> AccountCreated(msg.a)
          [] msg.m = "Removed" -> AccountRemoved(msg.a)
          [] msg.m \in {"GetAll", "Changed"} -> GotProperties(msg)
  /\ UNCHANGED <<svc, changes>>

\* tp_account_manager_set_all_requested_presences()
SetAllRequestedPresences(p) ==
  /\ changes < MaxChanges /\ changes' = changes + 1 /\ p # man.requested
  /\ Becomes([man EXCEPT !.requested = p], AskedAll([man EXCEPT !.requested = p], accts))
  /\ UNCHANGED <<svc, wire>>

-----------------------------------------------------------------------------
(***************************************************************************)
(* The account manager, external.  It tells a change of Valid on the       *)
(* account before AccountValidityChanged.                                  *)
(***************************************************************************)
ValidAccounts == {a \in Accounts : svc[a].exists /\ svc[a].valid}

AnswerValidAccounts ==
  /\ ~man.got_all /\ \A i \in DOMAIN wire : wire[i].m # "ValidAccounts"
  /\ wire' = Append(wire, [m |-> "ValidAccounts", valid |-> ValidAccounts])
  /\ UNCHANGED <<man, accts, svc, changes>>

Say(a, new, more) ==
  /\ changes < MaxChanges /\ changes' = changes + 1
  /\ svc' = [svc EXCEPT ![a] = new]
  /\ wire' = wire \o more
  /\ UNCHANGED <<man, accts>>

ChangedMsg(a, new) == [m |-> "Changed", a |-> a, props |-> new]

SetValid(a) ==
  LET new == [svc[a] EXCEPT !.valid = ~@]
  IN /\ "valid" \in Changes /\ svc[a].exists
     /\ Say(a, new, <<ChangedMsg(a, new), [m |-> "ValidityChanged", a |-> a, valid |-> new.valid]>>)

SetPresence(a, p) ==
  LET new == [svc[a] EXCEPT !.presence = p]
  IN /\ "presence" \in Changes /\ svc[a].exists /\ svc[a].presence # p
     /\ Say(a, new, <<ChangedMsg(a, new)>>)

RemoveAccount(a) ==
  /\ "removed" \in Changes /\ svc[a].exists
  /\ Say(a, [svc[a] EXCEPT !.exists = FALSE], <<[m |-> "Removed", a |-> a]>>)

CreateAccount(a) ==
  /\ "created" \in Changes /\ ~svc[a].was
  /\ Say(a, [svc[a] EXCEPT !.exists = TRUE, !.was = TRUE],
         <<[m |-> "ValidityChanged", a |-> a, valid |-> TRUE], [m |-> "Created", a |-> a]>>)

Next ==
  \/ Receive \/ AnswerValidAccounts
  \/ \E a \in Accounts :
       \/ AccountPrepared(a) \/ SetValid(a) \/ RemoveAccount(a) \/ CreateAccount(a)
       \/ \E p \in Presences : SetPresence(a, p)
  \/ \E p \in Presences : SetAllRequestedPresences(p)

Spec == Init /\ [][Next]_vars

-----------------------------------------------------------------------------
(* The types of the manager's fields; it counts the initial accounts that are
   being prepared. *)
TypeOK ==
  /\ man.accounts \subseteq Accounts /\ man.known \subseteq Accounts
  /\ man.best \in Accounts \cup {"none", "freed"} /\ man.presence \in Nat
  /\ man.n_preparing = Cardinality({a \in Accounts : "initial" \in Range(accts[a].preparing)})

(* The list of valid accounts is the account manager's: when every message has
   been received and nothing is being prepared, it has exactly the accounts
   that are valid, whatever became of them while they were being prepared; and
   the list never has an account that is not prepared or is gone. *)
ListsValidAccounts ==
  /\ \A a \in man.accounts : accts[a].core /\ ~accts[a].invalidated
  /\ man.got_all /\ wire = << >> /\ (\A a \in Accounts : accts[a].preparing = << >>) =>
       man.accounts = ValidAccounts

(* Once the manager is prepared, the application can follow the list by
   account-validity-changed and account-removed alone. *)
ListIsTold == man.core => man.known = man.accounts

(* A presence asked of all accounts has been asked of each of those in the
   list: of those that were there, and of those that came later. *)
PresenceReachesAll ==
  man.requested # UNSET => \A a \in man.accounts : accts[a].asked = man.requested

(* While no account comes or goes, the most available presence is the greatest
   of the accounts' presences, and it is the last that was told. *)
MostAvailableIsGreatest ==
  man.core /\ Changes \subseteq {"presence"} =>
    /\ man.told = GetMostAvailablePresence(man)
    /\ man.presence = PresenceOf(accts, Best(man, accts))
================================================================================
