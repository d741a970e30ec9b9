--------------------------- MODULE NameOwnerWatch ---------------------------
(***************************************************************************)
(* Watching the owner of a bus name (telepathy-glib/dbus-daemon.c):        *)
(* tp_dbus_daemon_watch_name_owner and _cancel_name_owner_watch, for one   *)
(* name and every TpDBusDaemon of one bus connection.                      *)
(*                                                                         *)
(* A watch adds a match rule and asks for the owner.  Signals and the      *)
(* reply come back in the order the bus sent them, and are handled from    *)
(* idle sources, in that order.  The callbacks are user code: between one  *)
(* callback and the next in the same loop (frame) the user may watch,      *)
(* cancel and drop TpDBusDaemons, as may the main program.                 *)
(***************************************************************************)
EXTENDS Naturals, Sequences, FiniteSets, SequencesExt

CONSTANTS
  NDaemons,      \* TpDBusDaemon objects on the connection
  NWatches,      \* bound: calls of tp_dbus_daemon_watch_name_owner
  Owners,        \* unique names that may own the name; "" is nobody
  MaxChanges,    \* bound: changes of owner
  WatchInside,   \* may a callback watch the name?
  UnrefInside,   \* may a callback drop the last reference to a TpDBusDaemon?
  OnDestroy      \* watch -> the watch that its destroy notify cancels, or 0

Daemons == 1..NDaemons
Watches == 1..NWatches

(* No destroy notify cancels a watch. *)
NoDestroy == [id \in Watches |-> 0]

SoundConstants ==
  /\ {NDaemons, NWatches, MaxChanges} \subseteq Nat
  /\ OnDestroy \in [Watches -> 0..NWatches]

VARIABLES
  bus,      \* the bus daemon: owner, match rules of this connection, changes
  calls,    \* method calls it has not handled, oldest first
  inbox,    \* signals and replies not dispatched yet
  idles,    \* those whose idle source has not run yet
  daemons,  \* the TpDBusDaemons in the list of the connection, newest first
  d,        \* TpDBusDaemon -> its state
  frame,    \* the loop over callbacks under way, or none
  used,     \* watches made so far
  told,     \* (history) watch -> the owners its callback was told
  ended     \* (history) destroy notifies called, cancelled watches, misuse

vars == <<bus, calls, inbox, idles, daemons, d, frame, used, told, ended>>

AllOwners == Owners \cup {""}

(***************************************************************************)
(*  ref          the user has a reference                                  *)
(*  watched      name_owner_watches has an entry for the name              *)
(*  last_owner   NULL while unknown                                        *)
(*  callbacks    the subwatches; one with callback NULL is not live        *)
(***************************************************************************)
Objects ==
  [ ref : BOOLEAN, watched : BOOLEAN, last_owner : AllOwners \cup {"NULL"},
    callbacks : Seq([id : Watches, live : BOOLEAN]) ]

NoFrame == [daemon |-> 0, i |-> 0, called |-> FALSE, signal |-> FALSE, owner |-> ""]

World ==
  [ bus |-> bus, calls |-> calls, inbox |-> inbox, idles |-> idles, daemons |-> daemons,
    d |-> d, frame |-> frame, used |-> used, told |-> told, ended |-> ended ]

Become(w) ==
  /\ bus' = w.bus /\ calls' = w.calls /\ inbox' = w.inbox /\ idles' = w.idles
  /\ daemons' = w.daemons /\ d' = w.d /\ frame' = w.frame /\ used' = w.used
  /\ told' = w.told /\ ended' = w.ended

Call(method, x) == [method |-> method, daemon |-> x]

-----------------------------------------------------------------------------
(* The bus daemon *)

Init ==
  /\ bus \in [owner : AllOwners, rules : {0}, changes : {0}]
  /\ calls = <<>> /\ inbox = <<>> /\ idles = <<>>
  /\ daemons = [i \in Daemons |-> NDaemons + 1 - i]
  /\ d = [x \in Daemons |-> [ref |-> TRUE, watched |-> FALSE, last_owner |-> "NULL",
                             callbacks |-> <<>>]]
  /\ frame = NoFrame /\ used = 0
  /\ told = [id \in Watches |-> <<>>]
  /\ ended = [destroyed |-> [id \in Watches |-> 0], cancelled |-> {}, late |-> FALSE,
              misuse |-> FALSE]

(* The owner changes; NameOwnerChanged is sent once, however many rules match. *)
OwnerChanges(owner) ==
  /\ bus.changes < MaxChanges /\ owner # bus.owner
  /\ bus' = [bus EXCEPT !.owner = owner, !.changes = @ + 1]
  /\ inbox' = IF bus.rules = 0 THEN inbox
              ELSE Append(inbox, [signal |-> TRUE, daemon |-> 0, owner |-> owner])
  /\ UNCHANGED <<calls, idles, daemons, d, frame, used, told, ended>>

(* AddMatch, RemoveMatch or GetNameOwner *)
BusHandles ==
  LET c == Head(calls)
  IN  /\ calls # <<>>
      /\ calls' = Tail(calls)
      /\ bus' = CASE c.method = "AddMatch"    -> [bus EXCEPT !.rules = @ + 1]
                  [] c.method = "RemoveMatch" -> [bus EXCEPT !.rules = @ - 1]
                  [] OTHER                    -> bus
      /\ inbox' = IF c.method # "GetNameOwner" THEN inbox
                  ELSE Append(inbox, [signal |-> FALSE, daemon |-> c.daemon, owner |-> bus.owner])
      /\ UNCHANGED <<idles, daemons, d, frame, used, told, ended>>

(* _tp_dbus_daemon_name_owner_changed_filter, _get_name_owner_notify *)
Dispatch ==
  /\ frame = NoFrame /\ inbox # <<>>
  /\ inbox' = Tail(inbox) /\ idles' = Append(idles, Head(inbox))
  /\ UNCHANGED <<bus, calls, daemons, d, frame, used, told, ended>>

-----------------------------------------------------------------------------
(* GetNameOwnerContexts and name_owner_changed hold references *)
Referenced(w, x) ==
  LET Of(s) == \E i \in DOMAIN s : s[i].daemon = x
      asking == {i \in DOMAIN w.calls : w.calls[i] = Call("GetNameOwner", x)}
  IN  w.d[x].ref \/ w.frame.daemon = x \/ Of(w.inbox) \/ Of(w.idles) \/ asking # {}

RECURSIVE MaybeFree(_, _)

(* Call the destroy notify of watch id, which may cancel another watch. *)
Destroy(w, x, id) ==
  LET v     == [w EXCEPT !.ended.destroyed[id] = @ + 1]
      other == OnDestroy[id]
      found == {i \in DOMAIN v.d[x].callbacks :
                  v.d[x].callbacks[i].id = other /\ v.d[x].callbacks[i].live}
  IN  IF found = {} THEN v
      ELSE MaybeFree([v EXCEPT !.d[x].callbacks[CHOOSE i \in found : TRUE].live = FALSE,
                               !.ended.cancelled = @ \cup {other}], x)

(* Mutant: the match rule is left behind. *)
StopWatchingKeepsRule(w, x) ==
  [w EXCEPT !.d[x].watched = FALSE, !.d[x].last_owner = "NULL", !.d[x].callbacks = <<>>]

(* Mutant: two match rules are removed. *)
StopWatchingTwice(w, x) ==
  [w EXCEPT !.d[x].watched = FALSE, !.d[x].last_owner = "NULL", !.d[x].callbacks = <<>>,
            !.calls = @ \o <<Call("RemoveMatch", x), Call("RemoveMatch", x)>>]

(* _tp_dbus_daemon_stop_watching *)
StopWatching(w, x) ==
  LET v == FoldLeft(LAMBDA u, s : [u EXCEPT !.ended.destroyed[s.id] = @ + 1],
                    w, w.d[x].callbacks)
  IN  [v EXCEPT !.d[x].watched = FALSE, !.d[x].last_owner = "NULL",
                !.d[x].callbacks = <<>>, !.calls = Append(@, Call("RemoveMatch", x))]

(* The loop of tp_dbus_daemon_maybe_free_name_owner_watch, from index i down:
   when the array was changed under it, it goes on with a wrong index. *)
RECURSIVE SweepFrom(_, _, _)
SweepFrom(w, x, i) ==
  IF i = 0 \/ w.ended.misuse THEN w
  ELSE IF w.d[x].callbacks[i].live THEN SweepFrom(w, x, i - 1)
  ELSE LET v == Destroy(w, x, w.d[x].callbacks[i].id)
       IN  IF Len(v.d[x].callbacks) # Len(w.d[x].callbacks)
           THEN [v EXCEPT !.ended.misuse = TRUE]
           ELSE SweepFrom([v EXCEPT !.d[x].callbacks = RemoveAt(@, i)], x, i - 1)

(* tp_dbus_daemon_maybe_free_name_owner_watch *)
MaybeFree(w, x) ==
  LET v == SweepFrom(w, x, Len(w.d[x].callbacks))
  IN  IF w.frame.daemon = x THEN w
      ELSE IF v.d[x].callbacks = <<>> /\ v.d[x].watched THEN StopWatching(v, x) ELSE v

(* Mutant: the TpDBusDaemon goes without removing its match rule. *)
MaybeDisposeKeepsRule(w, x) ==
  IF Referenced(w, x) THEN w
  ELSE [w EXCEPT !.d[x].watched = FALSE, !.d[x].callbacks = <<>>,
                 !.daemons = SelectSeq(@, LAMBDA y : y # x)]

(* tp_dbus_daemon_dispose, when the last reference goes *)
MaybeDispose(w, x) ==
  IF Referenced(w, x) THEN w
  ELSE LET v == IF w.d[x].watched THEN StopWatching(w, x) ELSE w
       IN  [v EXCEPT !.daemons = SelectSeq(@, LAMBDA y : y # x)]

(* The callback of watch id of x is called. *)
Tell(w, x, id, owner) ==
  [w EXCEPT !.told[id] = Append(@, owner), !.ended.late = @ \/ id \in w.ended.cancelled]

-----------------------------------------------------------------------------
(* The loop over the callbacks *)

(* Mutant: an owner that is known already is told again. *)
NameOwnerChangedAgain(w, x, owner, signal) ==
  IF ~w.d[x].watched THEN [w EXCEPT !.frame = NoFrame]
  ELSE [w EXCEPT !.d[x].last_owner = owner,
                 !.frame = [daemon |-> x, i |-> 1, called |-> FALSE, signal |-> signal,
                            owner |-> owner]]

(* Mutant: that nobody owns the name is not worth telling at first. *)
NameOwnerChangedNoNull(w, x, owner, signal) ==
  IF ~w.d[x].watched \/ w.d[x].last_owner = owner \/ (w.d[x].last_owner = "NULL" /\ owner = "")
  THEN [w EXCEPT !.frame = NoFrame]
  ELSE [w EXCEPT !.d[x].last_owner = owner,
                 !.frame = [daemon |-> x, i |-> 1, called |-> FALSE, signal |-> signal,
                            owner |-> owner]]

(* _tp_dbus_daemon_name_owner_changed, up to its loop *)
NameOwnerChanged(w, x, owner, signal) ==
  IF ~w.d[x].watched \/ w.d[x].last_owner = owner THEN [w EXCEPT !.frame = NoFrame]
  ELSE [w EXCEPT !.d[x].last_owner = owner,
                 !.frame = [daemon |-> x, i |-> 1, called |-> FALSE, signal |-> signal,
                            owner |-> owner]]

(* Mutant: only one TpDBusDaemon of the list handles the signal. *)
FromNthOnly(w, n, owner) ==
  IF n # 1 \/ w.daemons = <<>> THEN [w EXCEPT !.frame = NoFrame]
  ELSE NameOwnerChanged(w, w.daemons[n], owner, TRUE)

(* noc_idle_context_invoke: the daemons of the list from the nth on, to the
   first that has callbacks to call *)
RECURSIVE FromNth(_, _, _)
FromNth(w, n, owner) ==
  IF n > Len(w.daemons) THEN [w EXCEPT !.frame = NoFrame]
  ELSE LET v == NameOwnerChanged(w, w.daemons[n], owner, TRUE)
       IN  IF v.frame = NoFrame THEN FromNth(v, n + 1, owner) ELSE v

(* noc_idle_context_invoke, _tp_dbus_daemon_get_name_owner_idle *)
RunIdle ==
  LET m == Head(idles)
      w == [World EXCEPT !.idles = Tail(@)]
      v == NameOwnerChanged(w, m.daemon, m.owner, FALSE)
  IN  /\ frame = NoFrame /\ idles # <<>>
      /\ Become(IF m.signal THEN FromNth(w, 1, m.owner)
                ELSE IF v.frame = NoFrame THEN MaybeDispose(v, m.daemon) ELSE v)

(* Mutant: cancelled watches are called too. *)
InvokeNextDead ==
  LET x == frame.daemon
      s == d[x].callbacks[frame.i]
  IN  /\ frame # NoFrame /\ frame.i <= Len(d[x].callbacks)
      /\ Become([Tell(World, x, s.id, frame.owner)
                   EXCEPT !.frame.i = @ + 1, !.frame.called = TRUE])

(* One turn of the loop of _tp_dbus_daemon_name_owner_changed *)
InvokeNext ==
  LET x == frame.daemon
      s == d[x].callbacks[frame.i]
      w == IF s.live THEN [Tell(World, x, s.id, frame.owner) EXCEPT !.frame.called = TRUE]
           ELSE World
  IN  /\ frame # NoFrame /\ frame.i <= Len(d[x].callbacks)
      /\ Become([w EXCEPT !.frame.i = @ + 1])

(* Mutant: the watches cancelled in the loop are not swept. *)
InvokeEndNoSweep ==
  LET x == frame.daemon
      n == SelectInSeq(daemons, LAMBDA y : y = x)
      w == [World EXCEPT !.frame = NoFrame]
  IN  /\ frame # NoFrame /\ frame.i > Len(d[x].callbacks)
      /\ Become(IF ~frame.signal THEN w ELSE FromNth(w, n + 1, frame.owner))

(* The end of the loop.  noc_idle_context_invoke goes on with the next daemon
   of the list, even if this one has left it. *)
InvokeEnd ==
  LET x == frame.daemon
      w == [World EXCEPT !.frame = NoFrame]
      v == MaybeDispose(MaybeFree(w, x), x)
      n == SelectInSeq(v.daemons, LAMBDA y : y = x)
  IN  /\ frame # NoFrame /\ frame.i > Len(d[x].callbacks)
      /\ Become(IF ~frame.signal THEN v
                ELSE IF n = 0 THEN [v EXCEPT !.ended.misuse = TRUE]
                ELSE FromNth(v, n + 1, frame.owner))

-----------------------------------------------------------------------------
(* User code, in the main program or in a callback *)

UserRuns == frame = NoFrame \/ frame.called

(* Mutant: the match rule is added after the owner is asked for. *)
AskOwnerFirst(x) == <<Call("GetNameOwner", x), Call("AddMatch", x)>>

(* What the first watch of a TpDBusDaemon sends *)
AskOwner(x) == <<Call("AddMatch", x), Call("GetNameOwner", x)>>

(* tp_dbus_daemon_watch_name_owner *)
Watch(x) ==
  LET id == used + 1
      w  == [World EXCEPT !.used = id, !.d[x].watched = TRUE,
                          !.d[x].callbacks = Append(@, [id |-> id, live |-> TRUE]),
                          !.calls = IF d[x].watched THEN @ ELSE @ \o AskOwner(x)]
  IN  /\ UserRuns /\ (frame = NoFrame \/ WatchInside)
      /\ d[x].ref /\ used < NWatches
      /\ Become(IF d[x].last_owner # "NULL" THEN Tell(w, x, id, d[x].last_owner) ELSE w)

(* Mutant: the subwatch is taken out of the array at once, loop or no loop. *)
CancelEntryAtOnce(w, x, i) ==
  [w EXCEPT !.d[x].callbacks = RemoveAt(@, i), !.ended.destroyed[d[x].callbacks[i].id] = @ + 1]

(* Mutant: the destroy notify is called at once, and again by the sweep. *)
CancelEntryTwice(w, x, i) ==
  [w EXCEPT !.d[x].callbacks[i].live = FALSE, !.ended.destroyed[d[x].callbacks[i].id] = @ + 1]

(* The subwatch only loses its callback: a loop may be going over the array. *)
CancelEntry(w, x, i) == [w EXCEPT !.d[x].callbacks[i].live = FALSE]

(* tp_dbus_daemon_cancel_name_owner_watch *)
Cancel(x, i) ==
  LET w == [World EXCEPT !.ended.cancelled = @ \cup {d[x].callbacks[i].id}]
  IN  /\ UserRuns /\ d[x].ref /\ d[x].callbacks[i].live
      /\ Become(MaybeFree(CancelEntry(w, x, i), x))

(* g_object_unref by the user *)
Unref(x) ==
  /\ UserRuns /\ (frame = NoFrame \/ UnrefInside)
  /\ d[x].ref
  /\ Become(MaybeDispose([World EXCEPT !.d[x].ref = FALSE], x))

Next ==
  \/ \E owner \in AllOwners : OwnerChanges(owner)
  \/ BusHandles \/ Dispatch \/ RunIdle \/ InvokeNext \/ InvokeEnd
  \/ \E x \in Daemons : \/ Watch(x) \/ Unref(x)
                        \/ \E i \in DOMAIN d[x].callbacks : Cancel(x, i)

Spec == Init /\ [][Next]_vars

-----------------------------------------------------------------------------
TypeOK ==
  /\ bus \in [owner : AllOwners, rules : Nat, changes : 0..MaxChanges]
  /\ d \in [Daemons -> Objects]
  /\ used \in 0..NWatches

Live(x) == {s.id : s \in {c \in ToSet(d[x].callbacks) : c.live}}

LastTold(id) == IF told[id] = <<>> THEN "NULL" ELSE Last(told[id])

(* Outside the loop every callback that is not cancelled was last told the
   owner its TpDBusDaemon knows, whenever it joined. *)
ToldWhatIsKnown ==
  \A x \in Daemons : frame.daemon # x =>
    \A id \in Live(x) : LastTold(id) = d[x].last_owner

Quiet == calls = <<>> /\ inbox = <<>> /\ idles = <<>> /\ frame = NoFrame

(* When nothing is under way a watched name has the owner that was told,
   however the changes of owner, the reply and earlier watches crossed. *)
QuietMeansTrue ==
  Quiet => \A x \in Daemons : d[x].watched => d[x].last_owner = bus.owner

(* When nothing is under way the connection has one match rule for every
   TpDBusDaemon that watches, and none is left behind. *)
OneRuleEach ==
  Quiet => bus.rules = Cardinality({x \in Daemons : d[x].watched})

(* A callback is not called after its watch was cancelled, not even when that
   is done by a callback before it in the same loop. *)
NotAfterCancel == ~ended.late

(* The destroy notify is called once, when the watch is over, and the array
   of callbacks is never used after it was changed or freed. *)
DestroyedOnce ==
  /\ \A id \in Watches : ended.destroyed[id] <= 1
  /\ \A x \in Daemons : \A id \in Live(x) : ended.destroyed[id] = 0

(* A subwatch that is cancelled or whose TpDBusDaemon is gone is destroyed,
   once the loop that might still see it is over. *)
NothingLeaks ==
  frame = NoFrame =>
    \A id \in 1..used : (\A x \in Daemons : id \notin Live(x)) => ended.destroyed[id] >= 1

(* The list of daemons and the array of callbacks are not used after they were
   changed ("hold a ref on self, to avoid it getting removed that way"), unless a
   callback dropped the last reference to the TpDBusDaemon it was called for: that
   one left the list of noc_idle_context_invoke in its own loop. *)
MisuseIsTheLastUnref ==
  ended.misuse => \E x \in Daemons : ~d[x].ref /\ x \notin ToSet(daemons)

(* A callback is called "again every time the ownership of @name changes": not
   when it has not changed. *)
ToldChangesOnly ==
  \A id \in 1..used : \A i \in 1..(Len(told[id]) - 1) : told[id][i] # told[id][i + 1]

(* A name that is watched gets known, and the watcher is told. *)
EventuallyTold ==
  \A id \in Watches :
    (id <= used) ~> (told[id] # <<>> \/ \A x \in Daemons : id \notin Live(x))
=============================================================================
