-------------------------------- MODULE Account --------------------------------
(***************************************************************************)
(* A TpAccount (account.c) that follows an account of the account manager: *)
(* its connection status and error, and the TpConnection that it exposes   *)
(* only when prepared, once TP_ACCOUNT_FEATURE_CONNECTION is prepared.     *)
(*                                                                         *)
(* `acc` is what TpAccount keeps, `conns` the TpConnections of its factory *)
(* and `wire` the messages of the account manager, which is external, on   *)
(* their way to the client in the order they were sent.                    *)
(***************************************************************************)
EXTENDS Integers, Sequences, SequencesExt

CONSTANTS Paths,       \* the object paths of connections
          Errors,      \* the names of errors that the account manager may give
          MaxChanges

VARIABLES acc, conns, wire, svc, changes

vars == <<acc, conns, wire, svc, changes>>

SoundConstants == MaxChanges \in Nat /\ "/" \notin Paths /\ "none" \notin Errors

NewConn == [proxy |-> FALSE, prepared |-> FALSE, invalid |-> FALSE, waiting |-> << >>]

NewAccount ==
  [core |-> FALSE, feature |-> "no", conn |-> "/", prepared |-> FALSE, invalidated |-> FALSE,
   status |-> "DISCONNECTED", error |-> "Disconnected", told |-> "Disconnected",
   seen |-> "/", raced |-> FALSE]

Offline == [conn |-> "/", status |-> "DISCONNECTED", error |-> "none"]

Init ==
  /\ acc = NewAccount /\ conns = [p \in Paths |-> NewConn]
  /\ svc = Offline /\ wire = << >> /\ changes = 0

-----------------------------------------------------------------------------
(***************************************************************************)
(* The connection.                                                         *)
(***************************************************************************)
ConnectionIsInternal(x) == x.feature = "yes" /\ ~x.prepared
GetConnection(x) == IF ConnectionIsInternal(x) THEN "/" ELSE x.conn
IsPublic(x) == x.conn # "/" /\ ~ConnectionIsInternal(x)

NotifyConnection(x) == [x EXCEPT !.seen = GetConnection(x)]
NotifyIf(x, changed) == IF changed THEN NotifyConnection(x) ELSE x

WithConnection(x, path) ==
  [x EXCEPT !.conn = path, !.prepared = FALSE, !.raced = @ \/ x.feature \in {"idle", "preparing"}]

SetConnection(x, path) ==
  IF x.conn # "/" /\ path = x.conn
    THEN x
    ELSE NotifyIf(WithConnection(x, path),
           IsPublic(x) \/ (path # "/" /\ IsPublic(WithConnection(x, path))))

\* BUG: only a connection that becomes public is announced
SetConnectionQuiet(x, path) ==
  IF x.conn # "/" /\ path = x.conn
    THEN x
    ELSE NotifyIf(WithConnection(x, path), path # "/" /\ IsPublic(WithConnection(x, path)))

AssignConnection(x, path) == SetConnection(x, path)

(* The factory makes a TpConnection, or finds the one it made; if the feature
   has been prepared, the connection is prepared before it is public. *)
EnsureConnection(cs, p, wait) ==
  [cs EXCEPT ![p] = [IF @.proxy /\ ~@.invalid THEN @ ELSE [NewConn EXCEPT !.proxy = TRUE]
                       EXCEPT !.waiting = @ \o wait]]

ConnsAfter(cs, x, path) ==
  IF path = "/" \/ path = x.conn
    THEN cs
    ELSE EnsureConnection(cs, path, IF x.feature = "yes" THEN <<"set">> ELSE << >>)

(* set_connection_prepare_cb(): the connection may have changed meanwhile. *)
SetConnectionPrepared(x, p, ok) ==
  IF ok /\ x.conn = p THEN NotifyConnection([x EXCEPT !.prepared = TRUE]) ELSE x

\* BUG: no check that the connection is still the same
SetConnectionPreparedLate(x, p, ok) ==
  IF ok THEN NotifyConnection([x EXCEPT !.prepared = TRUE]) ELSE x

PreparedForAccount(x, p, ok) == SetConnectionPrepared(x, p, ok)

(* connection_prepare_cb(): the connection that was being prepared for the
   feature is taken to be the one that the account has now. *)
FeatureConnectionPrepared(x, ok) ==
  [x EXCEPT !.prepared = TRUE, !.feature = IF ok THEN "yes" ELSE "failed"]

Callback(x, p, who, ok) ==
  IF who = "set" THEN PreparedForAccount(x, p, ok) ELSE FeatureConnectionPrepared(x, ok)

(* The preparation of a connection succeeds, or fails because the connection
   has been invalidated; its callbacks are called one after another. *)
ConnectionPrepared(p) ==
  /\ conns[p].waiting # << >>
  /\ conns' = [conns EXCEPT ![p].waiting = Tail(@), ![p].prepared = ~conns[p].invalid]
  /\ acc' = Callback(acc, p, Head(conns[p].waiting), ~conns[p].invalid)
  /\ UNCHANGED <<wire, svc, changes>>

ConnectionInvalidated(p) ==
  /\ conns[p].proxy /\ ~conns[p].invalid
  /\ conns' = [conns EXCEPT ![p].invalid = TRUE]
  /\ acc' = IF acc.conn = p THEN AssignConnection(acc, "/") ELSE acc
  /\ UNCHANGED <<wire, svc, changes>>

-----------------------------------------------------------------------------
(***************************************************************************)
(* Properties of the account.  A message has the properties that changed;  *)
(* "absent" stands for one that it does not mention.                       *)
(***************************************************************************)
New(old, value) == IF value = "absent" THEN old ELSE value

UpdateStatus(x, msg) ==
  [x EXCEPT !.status = New(@, msg.status), !.error = New(@, msg.error)]

\* An account that is not connected has an error; one that is has none.
Explain(x) ==
  [x EXCEPT !.error = IF x.status = "CONNECTED" THEN "none" ELSE IF @ = "none" THEN "Guessed" ELSE @,
            !.told = IF x.status = "CONNECTED" THEN "none" ELSE IF x.error = "none" THEN "Guessed" ELSE x.error]

\* BUG: an error that the account manager does not give is not guessed
ExplainGiven(x) ==
  [x EXCEPT !.error = IF x.status = "CONNECTED" THEN "none" ELSE @, !.told = x.error]

Explained(x) == Explain(x)

\* "status-changed" is emitted when the status or the error changed.
StatusChanged(x, y) == x.status # y.status \/ x.error # y.error
Settle(x, y) == IF StatusChanged(x, y) THEN Explained(y) ELSE y

Update(x, msg) == [Settle(x, UpdateStatus(x, msg)) EXCEPT !.core = TRUE]

Applied(x, msg) == IF msg.conn = "absent" THEN Update(x, msg) ELSE AssignConnection(Update(x, msg), msg.conn)

Receive ==
  LET msg == Head(wire)
  IN /\ wire # << >> /\ wire' = Tail(wire)
     /\ IF acc.invalidated \/ (msg.kind = "changed" /\ ~acc.core)
          THEN UNCHANGED <<acc, conns>>
          ELSE /\ acc' = Applied(acc, msg)
               /\ conns' = IF msg.conn = "absent" THEN conns ELSE ConnsAfter(conns, acc, msg.conn)
     /\ UNCHANGED <<svc, changes>>

InvalidateAccount(x) ==
  IF x.status = "DISCONNECTED" THEN [x EXCEPT !.invalidated = TRUE]
  ELSE [x EXCEPT !.invalidated = TRUE, !.status = "DISCONNECTED", !.error = "Cancelled", !.told = "Cancelled"]

(* The account is removed, or its properties cannot be retrieved. *)
Removed ==
  /\ ~acc.invalidated
  /\ acc' = InvalidateAccount(acc)
  /\ UNCHANGED <<conns, wire, svc, changes>>

-----------------------------------------------------------------------------
(***************************************************************************)
(* TP_ACCOUNT_FEATURE_CONNECTION.                                          *)
(***************************************************************************)
PrepareConnection ==
  /\ acc.core /\ acc.feature = "no" /\ ~acc.invalidated
  /\ acc' = [acc EXCEPT !.feature = IF acc.conn = "/" THEN "idle" ELSE "preparing"]
  /\ conns' = IF acc.conn = "/" THEN conns ELSE EnsureConnection(conns, acc.conn, <<"feature">>)
  /\ UNCHANGED <<wire, svc, changes>>

\* There was no connection: the feature is prepared from an idle callback.
NoConnectionPrepared ==
  /\ acc.feature = "idle"
  /\ acc' = [acc EXCEPT !.feature = "yes"]
  /\ UNCHANGED <<conns, wire, svc, changes>>

-----------------------------------------------------------------------------
(***************************************************************************)
(* The account manager, external.                                          *)
(***************************************************************************)
Message(kind, s) == [kind |-> kind, conn |-> s.conn, status |-> s.status, error |-> s.error]

States ==
  {Offline} \cup
  [conn : Paths, status : {"CONNECTING", "CONNECTED"}, error : {"none"}] \cup
  [conn : {"/"}, status : {"DISCONNECTED"}, error : Errors]

Changed(old, new) ==
  [kind |-> "changed"] @@ [f \in {"conn", "status", "error"} |-> IF old[f] = new[f] THEN "absent" ELSE new[f]]

Asked == \E i \in DOMAIN wire : wire[i].kind = "all"

AnswerGetAll ==
  /\ ~acc.core /\ ~Asked
  /\ wire' = Append(wire, Message("all", svc))
  /\ UNCHANGED <<acc, conns, svc, changes>>

Change(s) ==
  /\ changes < MaxChanges /\ s # svc /\ changes' = changes + 1
  /\ svc' = s
  /\ wire' = Append(wire, Changed(svc, s))
  /\ UNCHANGED <<acc, conns>>

Next ==
  \/ Receive \/ Removed \/ PrepareConnection \/ NoConnectionPrepared \/ AnswerGetAll
  \/ \E p \in Paths : ConnectionPrepared(p) \/ ConnectionInvalidated(p)
  \/ \E s \in States : Change(s)

Spec == Init /\ [][Next]_vars

-----------------------------------------------------------------------------
(* The types of the account's fields; a connection that it has is a proxy
   that its factory made. *)
TypeOK ==
  /\ acc.feature \in {"no", "idle", "preparing", "yes", "failed"}
  /\ acc.conn \in Paths \cup {"/"} /\ acc.status \in {"CONNECTING", "CONNECTED", "DISCONNECTED"}
  /\ acc.conn # "/" => conns[acc.conn].proxy /\ ~conns[acc.conn].invalid

(* When TP_ACCOUNT_FEATURE_CONNECTION is prepared, the connection that the
   account exposes has been prepared: however often the connection changes
   after the feature was prepared, and whatever connection its preparation was
   started for. *)
ExposedIsPrepared ==
  acc.feature = "yes" /\ GetConnection(acc) # "/" => conns[acc.conn].prepared

ExposedUnlessRaced == ~acc.raced => ExposedIsPrepared

(* notify::connection tells every change of the connection that can be seen,
   neither early nor late: what the application learned last is what
   tp_account_get_connection() returns. *)
NotifiedExactly == ~acc.raced => acc.seen = GetConnection(acc)

(* An account that is not connected has an error, an account that is connected
   has none, and "status-changed" told the error that the account has. *)
ErrorExplains ==
  /\ acc.core => (acc.error = "none") = (acc.status = "CONNECTED")
  /\ acc.told = acc.error

(* Once every message has been received, the account has the status, and the
   connection unless it is gone, that the account manager has. *)
FollowsManager ==
  wire = << >> /\ acc.core /\ ~acc.invalidated =>
    /\ acc.status = svc.status
    /\ acc.conn \in {svc.conn, "/"}
    /\ svc.error # "none" => acc.error = svc.error
================================================================================
