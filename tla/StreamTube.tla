------------------------------ MODULE StreamTube ------------------------------
(***************************************************************************)
(* TpStreamTubeChannel (stream-tube-channel.c, stream-tube-connection.c).  *)
(* The offering side pairs each socket connection it accepts with the      *)
(* NewRemoteConnection signal about it, whichever comes first, and makes a *)
(* TpStreamTubeConnection for its contact. The accepting side calls        *)
(* Accept, connects a socket, and pairs it with NewLocalConnection.        *)
(***************************************************************************)
EXTENDS Naturals, Sequences, FiniteSets, SequencesExt

CONSTANTS
  Requested,  \* TRUE: the offering side, FALSE: the accepting side
  Access,     \* the access control: "port", "credentials" or "localhost"
  Peers,      \* connections made to an offered tube; also their IDs
  Handle,     \* [Peers -> the handle of who made it]
  Target,     \* the tube's handle in a contact tube, 0 in a room's tube
  MayFail     \* whether contact lookups and credentials may fail, and the
              \* channel close, on the accepting side

SoundConstants ==
  /\ Access \in {"port", "credentials", "localhost"}
  /\ Handle \in [Peers -> Nat \ {0}] /\ Target \in Nat
  /\ Requested \in BOOLEAN /\ MayFail \in BOOLEAN

VARIABLES
  tube,   \* the offering side: conn_waiting_sig and sig_waiting_conn, the
          \* weak table tube_connections, and the operations under way
  peer,   \* per connection: its socket and its signal on the CM's side
  acc     \* the accepting side

vars == <<tube, peer, acc>>

Init ==
  /\ tube = [offered |-> "no", result |-> FALSE, conns |-> <<>>, sigs |-> <<>>,
             table |-> [k \in {} |-> 0], lookups |-> {}, alive |-> {},
             announced |-> [k \in {} |-> 0], rejected |-> {}, told |-> {}]
  /\ peer = [k \in Peers |-> [socket |-> "no", sig |-> FALSE]]
  /\ acc = [result |-> FALSE, param |-> FALSE, reply |-> "no", sock |-> "no",
            waiting |-> FALSE, idSet |-> FALSE, signalled |-> FALSE,
            creds |-> FALSE, lookup |-> FALSE, asked |-> 0, answers |-> 0,
            misanswered |-> FALSE, closed |-> FALSE]

-----------------------------------------------------------------------------
(* Offering: the socket service listens, then Offer is called.             *)

Offer ==
  /\ Requested /\ tube.offered = "no"
  /\ \E listens \in BOOLEAN :      \* no socket: operation_failed, from an idle
       tube' = IF listens
               THEN [tube EXCEPT !.offered = "calling", !.result = TRUE]
               ELSE [tube EXCEPT !.offered = "failed"]
  /\ UNCHANGED <<peer, acc>>

Offered ==
  /\ tube.offered = "calling"
  /\ \E ok \in BOOLEAN :
       tube' = [tube EXCEPT !.result = FALSE,
                            !.offered = IF ok THEN "open" ELSE "failed"]
  /\ UNCHANGED <<peer, acc>>

-----------------------------------------------------------------------------
(* sig_match_conn: by port, by the byte sent with the credentials (both    *)
(* unique to the connection here), or else any matches any.                *)
sig_match_conn(s, c) == Access = "localhost" \/ s = c

(* BUG: the ports and bytes are not compared.                              *)
sig_match_connAny(s, c) == TRUE

Matches(s, c) == sig_match_conn(s, c)

FirstMatch(q, P(_)) == SelectInSeq(q, P)     \* 0 when there is none

(* connection_identified makes a TpStreamTubeConnection in the table and   *)
(* looks its contact up, or announces it at once when the contact cannot   *)
(* be known (room tube with localhost); connection_rejected closes it.     *)
CanIdentify == Target # 0 \/ Access \in {"port", "credentials"}

Put(f, k, v) == [x \in DOMAIN f \cup {k} |-> IF x = k THEN v ELSE f[x]]

identified(t, s, c) ==
  IF Target # 0 /\ Handle[s] # Target
  THEN [t EXCEPT !.rejected = @ \cup {c}]
  ELSE IF CanIdentify
  THEN [t EXCEPT !.table = Put(@, s, c), !.alive = @ \cup {c},
                 !.lookups = @ \cup {<<s, c>>}]
  ELSE [t EXCEPT !.table = Put(@, s, c), !.alive = @ \cup {c},
                 !.announced = Put(@, c, 0)]

(* BUG: another contact's connection to a contact tube is let through.     *)
identifiedAnyone(t, s, c) ==
  [t EXCEPT !.table = Put(@, s, c), !.alive = @ \cup {c},
            !.lookups = @ \cup {<<s, c>>}]

Identified(t, s, c) == identified(t, s, c)

(* credentials_received: a socket looks for its signal, or waits.          *)
conn_arrives(t, c, i) ==
  IF i = 0 THEN [t EXCEPT !.conns = Append(@, c)]
  ELSE Identified([t EXCEPT !.sigs = RemoveAt(@, i)], t.sigs[i], c)

(* BUG: a socket always waits for a signal to come.                        *)
conn_arrivesWaits(t, c, i) == [t EXCEPT !.conns = Append(@, c)]

ConnArrives(t, c, i) == conn_arrives(t, c, i)

SocketArrived(c) ==
  ConnArrives(tube, c, FirstMatch(tube.sigs, LAMBDA s : Matches(s, c)))

(* service_incoming_cb: credentials are read first, and may be wrong.      *)
SocketIncoming(c) ==
  /\ Requested /\ tube.offered \in {"calling", "open"}
  /\ peer[c].socket = "no"
  /\ IF Access = "credentials"
     THEN tube' = tube /\ peer' = [peer EXCEPT ![c].socket = "reading"]
     ELSE tube' = SocketArrived(c) /\ peer' = [peer EXCEPT ![c].socket = "here"]
  /\ UNCHANGED acc

CredentialsReceived(c) ==
  /\ peer[c].socket = "reading"
  /\ \/ tube' = SocketArrived(c) /\ peer' = [peer EXCEPT ![c].socket = "here"]
     \/ tube' = tube /\ peer' = [peer EXCEPT ![c].socket = "dropped"]
  /\ UNCHANGED acc

(* _new_remote_connection: a signal looks for its socket, or waits.        *)
NewRemoteConnection(s) ==
  /\ Requested /\ tube.offered \in {"calling", "open"}
  /\ ~peer[s].sig
  /\ peer' = [peer EXCEPT ![s].sig = TRUE]
  /\ \E i \in {FirstMatch(tube.conns, LAMBDA c : Matches(s, c))} :
       tube' = IF i = 0 THEN [tube EXCEPT !.sigs = Append(@, s)]
               ELSE Identified([tube EXCEPT !.conns = RemoveAt(@, i)],
                               s, tube.conns[i])
  /\ UNCHANGED acc

(* _new_remote_connection_with_contact: on success ::incoming, whose       *)
(* handler may keep a reference; then the lookup's reference goes and the  *)
(* table forgets a connection nobody keeps                                 *)
(* (remote_connection_destroyed_cb).                                       *)
forget(t, c) ==
  [t EXCEPT !.alive = @ \ {c},
            !.table = [k \in {x \in DOMAIN @ : @[x] # c} |-> @[k]]]

(* BUG: the table keeps the destroyed connection.                          *)
forgetNot(t, c) == [t EXCEPT !.alive = @ \ {c}]

Forget(t, c) == forget(t, c)

ContactFound(s, c) ==
  /\ <<s, c>> \in tube.lookups
  /\ \E t \in {[tube EXCEPT !.lookups = @ \ {<<s, c>>}]} :
       \/ \E kept \in BOOLEAN, u \in {[t EXCEPT !.announced = Put(@, c, Handle[s])]} :
            tube' = IF kept THEN u ELSE Forget(u, c)
       \/ tube' = Forget(t, c)                      \* the lookup failed
  /\ UNCHANGED <<peer, acc>>

(* The application drops its reference.                                    *)
ConnDropped(c) ==
  /\ c \in tube.alive /\ c \in DOMAIN tube.announced
  /\ \A s \in Peers : <<s, c>> \notin tube.lookups
  /\ tube' = Forget(tube, c)
  /\ UNCHANGED <<peer, acc>>

(* connection_closed_cb: ::closed on the connection with that ID, if any.  *)
ConnectionClosed(s) ==
  /\ peer[s].sig /\ s \in DOMAIN tube.table
  /\ tube' = [tube EXCEPT !.told = @ \cup {<<s, tube.table[s]>>}]
  /\ UNCHANGED <<peer, acc>>

-----------------------------------------------------------------------------
(* Accepting                                                               *)

(* operation_failed and complete_accept_operation with priv->result NULL   *)
(* are refused by GIO with a critical warning.                             *)
Answer(a) ==
  IF a.result THEN [a EXCEPT !.result = FALSE, !.answers = @ + 1]
  ELSE [a EXCEPT !.misanswered = TRUE]

AcceptCall ==
  /\ ~Requested /\ ~acc.result /\ acc.asked < 2
  /\ \/ /\ ~acc.param
        /\ acc' = [acc EXCEPT !.asked = @ + 1, !.result = TRUE, !.param = TRUE,
                              !.reply = "pending"]
     \/ \* "Tube has already be accepted", or no socket could be made: an error
        \* from an idle
        acc' = [acc EXCEPT !.asked = @ + 1, !.answers = @ + 1]
  /\ UNCHANGED <<tube, peer>>

(* new_local_connection_identified looks the initiator up.                 *)
LocalIdentified(a) == [a EXCEPT !.lookup = TRUE]

client_socket_connected(a) ==
  LET b == [a EXCEPT !.sock = "connected", !.creds = Access = "credentials"]
  IN  IF b.idSet THEN LocalIdentified([b EXCEPT !.idSet = FALSE])
      ELSE [b EXCEPT !.waiting = TRUE]

(* BUG: an ID that came before the socket is forgotten.                    *)
client_socket_connectedLate(a) ==
  [a EXCEPT !.sock = "connected", !.creds = Access = "credentials",
            !.waiting = TRUE]

ClientSocketConnected(a) == client_socket_connected(a)

(* _channel_accepted: the socket connects at once, later or not at all.    *)
Accepted ==
  /\ acc.reply = "pending"
  /\ \E a \in {[acc EXCEPT !.reply = "done"]} :
       \/ ~acc.closed /\ acc' = ClientSocketConnected(a)
       \/ ~acc.closed /\ acc' = [a EXCEPT !.sock = "connecting"]
       \/ acc' = Answer([a EXCEPT !.sock = "failed"])
  /\ UNCHANGED <<tube, peer>>

ClientSocket ==
  /\ acc.sock = "connecting"
  /\ \/ acc' = ClientSocketConnected(acc)
     \/ ~acc.signalled /\ acc' = Answer([acc EXCEPT !.sock = "failed"])
  /\ UNCHANGED <<tube, peer>>

(* The CM sees the socket connected and emits NewLocalConnection.          *)
NewLocalConnection ==
  /\ acc.sock \in {"connecting", "connected"} /\ ~acc.signalled /\ ~acc.closed
  /\ \E a \in {[acc EXCEPT !.signalled = TRUE]} :
       acc' = IF a.waiting THEN LocalIdentified([a EXCEPT !.waiting = FALSE])
              ELSE [a EXCEPT !.idSet = TRUE]
  /\ UNCHANGED <<tube, peer>>

SendCredentials ==
  /\ acc.creds
  /\ \/ acc' = [acc EXCEPT !.creds = FALSE]
     \/ MayFail /\ acc' = Answer([acc EXCEPT !.creds = FALSE])
  /\ UNCHANGED <<tube, peer>>

(* new_local_connection_with_contact; a failure answers nobody.            *)
LocalContactFound ==
  /\ acc.lookup
  /\ \/ acc' = Answer([acc EXCEPT !.lookup = FALSE])
     \/ MayFail /\ acc' = [acc EXCEPT !.lookup = FALSE]
  /\ UNCHANGED <<tube, peer>>

Close ==
  /\ ~Requested /\ MayFail /\ ~acc.closed
  /\ acc' = [acc EXCEPT !.closed = TRUE]
  /\ UNCHANGED <<tube, peer>>

Next ==
  \/ Offer \/ Offered
  \/ \E c \in Peers :
       \/ SocketIncoming(c) \/ CredentialsReceived(c) \/ NewRemoteConnection(c)
       \/ \E s \in Peers : ContactFound(s, c)
       \/ ConnDropped(c) \/ ConnectionClosed(c)
  \/ AcceptCall \/ Accepted \/ ClientSocket \/ NewLocalConnection
  \/ SendCredentials \/ LocalContactFound \/ Close

Spec == Init /\ [][Next]_vars

-----------------------------------------------------------------------------
(* Properties                                                              *)

(* The fields have their types.                                            *)
TypeOK ==
  /\ tube.conns \in Seq(Peers) /\ tube.sigs \in Seq(Peers)
  /\ tube.offered \in {"no", "calling", "open", "failed"}
  /\ acc.sock \in {"no", "connecting", "connected", "failed"}
  /\ acc.asked \in 0 .. 2 /\ acc.answers \in 0 .. 2

(* No socket waits for a signal that waits for it: a waiting socket and a  *)
(* waiting signal never match, whatever order they and the credentials     *)
(* came in.                                                                *)
NobodyWaitsForAnother ==
  \A i \in DOMAIN tube.conns, j \in DOMAIN tube.sigs :
    ~(Access = "localhost" \/ tube.conns[i] = tube.sigs[j])

(* Who is told is who connected: where connections can be told apart, a    *)
(* tube connection is announced with the contact that made it, and ::closed*)
(* is emitted on the connection the CM means.                              *)
ContactIsRight ==
  Access # "localhost" =>
    /\ \A c \in DOMAIN tube.announced : tube.announced[c] = Handle[c]
    /\ \A p \in tube.told : p[1] = p[2]

(* A contact's tube only carries that contact's connections: another one's *)
(* is closed, never announced ("as a contact stream tube we should only    *)
(* get connection from handle %u").                                        *)
OnlyTheContact ==
  \A c \in DOMAIN tube.announced :
    Target # 0 => tube.announced[c] = Target /\ c \notin tube.rejected

(* The weak table holds live connections only, so that a late              *)
(* ConnectionClosed finds no freed object.                                 *)
TableIsAlive == \A k \in DOMAIN tube.table : tube.table[k] \in tube.alive

(* The accepting side pairs its socket with its ID in either order: never  *)
(* do both wait.                                                           *)
LocalPaired == ~(acc.waiting /\ acc.idSet)

(* An accepted tube is answered once: no answer is given to a call that    *)
(* was answered already.                                                   *)
AcceptAnsweredOnce == ~acc.misanswered /\ acc.answers <= acc.asked

(* An unanswered accept call is on its way: some reply, socket, ID or      *)
(* contact is still to come ("When the tube has been accepted, @callback   *)
(* will be called").                                                       *)
AcceptIsAnswered ==
  acc.result =>
    \/ acc.reply = "pending" \/ acc.sock = "connecting" \/ acc.lookup
    \/ ~acc.signalled /\ ~acc.closed
=============================================================================
