--------------------------- MODULE ClientInterests ---------------------------
(***************************************************************************)
(* The interests of clients in parts of a connection (telepathy-glib/      *)
(* base-connection.c): AddClientInterest, RemoveClientInterest, the        *)
(* removal of clients that left the bus and the end of the connection.     *)
(*                                                                         *)
(* The watch on a client's unique name is what NameOwnerWatch.tla shows it *)
(* to be: if the client is gone, whoever watches is told so, after all     *)
(* that the client sent.                                                   *)
(***************************************************************************)
EXTENDS Naturals, Sequences, FiniteSets, SequencesExt, FiniteSetsExt

CONSTANTS
  Clients,    \* unique names on the bus
  Tokens,     \* tokens given to tp_base_connection_add_possible_client_interest
  Lists,      \* lists of interests that clients send, unknown tokens included
  MaxCalls    \* bound: method calls

SoundConstants ==
  /\ \A l \in Lists : l \in Seq(Tokens \cup {"unknown"})
  /\ MaxCalls \in Nat

VARIABLES
  alive,              \* the clients that are on the bus
  inbox,              \* calls, and news of lost names, in the order of the bus
  sent,               \* number of calls so far
  interested_clients, \* client -> total count, for those in the hash table
  client_interests,   \* token -> client -> count; 0 when not in the hash table
  watched,            \* unique names being watched
  emitted,            \* (history) tokens whose last signal was clients-interested
  repeated,           \* (history) a signal was emitted twice running
  registered          \* the connection is on the bus

vars == <<alive, inbox, sent, interested_clients, client_interests, watched, emitted, repeated,
          registered>>

World ==
  [ total |-> interested_clients, counts |-> client_interests, watched |-> watched,
    emitted |-> emitted, repeated |-> repeated ]

Become(w) ==
  /\ interested_clients' = w.total /\ client_interests' = w.counts
  /\ watched' = w.watched /\ emitted' = w.emitted /\ repeated' = w.repeated

Lost(c) == [method |-> "lost", client |-> c, list |-> <<>>, once |-> FALSE]

(* A watch on the name of a client that is gone already brings the news of it. *)
News(was, is) ==
  IF is \ (was \cup alive) = {} THEN <<>> ELSE <<Lost(CHOOSE c \in is \ (was \cup alive) : TRUE)>>

Init ==
  /\ alive = Clients /\ inbox = <<>> /\ sent = 0
  /\ interested_clients = [c \in {} |-> 0]
  /\ client_interests = [t \in Tokens |-> [c \in Clients |-> 0]]
  /\ watched = {} /\ emitted = {} /\ repeated = FALSE /\ registered = TRUE

InterestedIn(w, t) == {c \in Clients : w.counts[t][c] > 0}

(* clients-interested and clients-uninterested *)
Interested(w, t) ==
  [w EXCEPT !.emitted = @ \cup {t}, !.repeated = @ \/ t \in w.emitted]
Uninterested(w, t) ==
  [w EXCEPT !.emitted = @ \ {t}, !.repeated = @ \/ t \notin w.emitted]

-----------------------------------------------------------------------------
(* The clients and the bus *)

Send(c, method, list, once) ==
  /\ c \in alive /\ sent < MaxCalls /\ registered
  /\ inbox' = Append(inbox, [method |-> method, client |-> c, list |-> list, once |-> once])
  /\ sent' = sent + 1
  /\ UNCHANGED <<alive, interested_clients, client_interests, watched, emitted, repeated,
                 registered>>

LeaveBus(c) ==
  /\ c \in alive
  /\ alive' = alive \ {c}
  /\ inbox' = IF c \in watched THEN Append(inbox, Lost(c)) ELSE inbox
  /\ UNCHANGED <<sent, interested_clients, client_interests, watched, emitted, repeated,
                 registered>>

-----------------------------------------------------------------------------
(* Mutant: the count of each client is watched for the signal, not the client. *)
AddOneEach(w, c, t, once) ==
  IF t \notin Tokens \/ (once /\ w.counts[t][c] > 0) THEN w
  ELSE LET v == [w EXCEPT !.counts[t][c] = @ + 1, !.total[c] = @ + 1]
       IN  IF v.counts[t][c] = 1 THEN Interested(v, t) ELSE v

(* One turn of the loop of tp_base_connection_add_client_interest_impl *)
AddOne(w, c, t, once) ==
  IF t \notin Tokens \/ (once /\ w.counts[t][c] > 0) THEN w
  ELSE LET v == [w EXCEPT !.counts[t][c] = @ + 1, !.total[c] = @ + 1]
       IN  IF v.counts[t][c] = 1 /\ Cardinality(InterestedIn(v, t)) = 1 THEN Interested(v, t) ELSE v

Forget(w, c) ==
  [w EXCEPT !.total = [x \in DOMAIN w.total \ {c} |-> w.total[x]], !.watched = @ \ {c}]

(* Mutant: a client is watched before it is known to have an interest. *)
AddImplWatchesAll(w, c, list, once) ==
  LET u == IF c \in DOMAIN w.total THEN w
           ELSE [w EXCEPT !.total = [x \in DOMAIN w.total \cup {c} |->
                                       IF x = c THEN 0 ELSE w.total[x]]]
      v == FoldLeft(LAMBDA z, t : AddOne(z, c, t, once), u, list)
  IN  [(IF v.total[c] > 0 THEN v ELSE Forget(v, c)) EXCEPT !.watched = @ \cup {c}]

(* tp_base_connection_add_client_interest_impl *)
AddImpl(w, c, list, once) ==
  LET u == IF c \in DOMAIN w.total THEN w
           ELSE [w EXCEPT !.total = [x \in DOMAIN w.total \cup {c} |->
                                       IF x = c THEN 0 ELSE w.total[x]]]
      v == FoldLeft(LAMBDA z, t : AddOne(z, c, t, once), u, list)
  IN  IF v.total[c] > 0 THEN [v EXCEPT !.watched = @ \cup {c}] ELSE Forget(v, c)

(* Mutant: the total goes down for interests the client never had. *)
RemoveOneBlind(w, c, t) ==
  IF t \notin Tokens THEN w
  ELSE LET v == [w EXCEPT !.counts[t][c] = IF @ = 0 THEN 0 ELSE @ - 1,
                          !.total[c] = IF @ = 0 THEN 0 ELSE @ - 1]
       IN  IF InterestedIn(v, t) = {} /\ w.counts[t][c] = 1 THEN Uninterested(v, t) ELSE v

(* One turn of the loop of tp_base_connection_dbus_remove_client_interest *)
RemoveOne(w, c, t) ==
  IF t \notin Tokens \/ w.counts[t][c] = 0 THEN w
  ELSE LET v == [w EXCEPT !.counts[t][c] = @ - 1, !.total[c] = @ - 1]
       IN  IF InterestedIn(v, t) = {} THEN Uninterested(v, t) ELSE v

(* Mutant: a client without interests stays in the hash table. *)
RemoveImplKeeps(w, c, list) ==
  IF c \notin DOMAIN w.total THEN w
  ELSE FoldLeft(LAMBDA z, t : RemoveOne(z, c, t), w, list)

(* tp_base_connection_dbus_remove_client_interest *)
RemoveImpl(w, c, list) ==
  IF c \notin DOMAIN w.total THEN w
  ELSE LET v == FoldLeft(LAMBDA z, t : RemoveOne(z, c, t), w, list)
       IN  IF v.total[c] = 0 THEN Forget(v, c) ELSE v

(* Mutant: the first report is ignored, even if it says the client is gone. *)
NameLostIgnored(w, c) == w

(* Mutant: nobody is told that the last interested client crashed. *)
NameLostSilent(w, c) == Forget([w EXCEPT !.counts = [t \in Tokens |-> [@[t] EXCEPT ![c] = 0]]], c)

(* tp_base_connection_interested_name_owner_changed_cb *)
NameLost(w, c) ==
  LET Drop(z, t) ==
        LET v == [z EXCEPT !.counts[t][c] = 0]
        IN  IF z.counts[t][c] > 0 /\ InterestedIn(v, t) = {} THEN Uninterested(v, t) ELSE v
  IN  Forget(FoldLeft(Drop, w, SetToSeq(Tokens)), c)

Handled(m) ==
  CASE m.method = "add"    -> AddImpl(World, m.client, m.list, m.once)
    [] m.method = "remove" -> RemoveImpl(World, m.client, m.list)
    [] m.method = "lost"   -> IF m.client \in watched THEN NameLost(World, m.client) ELSE World

(* The next message: AddClientInterest or a method that adds an interest if
   there is none yet, RemoveClientInterest, or the loss of a watched name.
   Once the connection is off the bus, calls do not reach it. *)
Handle ==
  LET m == Head(inbox)
  IN  /\ inbox # <<>>
      /\ Become(IF registered THEN Handled(m) ELSE World)
      /\ inbox' = Tail(inbox) \o News(watched, watched')
      /\ UNCHANGED <<alive, sent, registered>>

(* tp_base_connection_unregister *)
Unregister ==
  /\ registered /\ registered' = FALSE
  /\ interested_clients' = [c \in {} |-> 0] /\ watched' = {}
  /\ UNCHANGED <<alive, inbox, sent, client_interests, emitted, repeated>>

Step ==
  \/ \E c \in Clients, l \in Lists :
       \/ \E once \in BOOLEAN : Send(c, "add", l, once)
       \/ Send(c, "remove", l, FALSE)
  \/ \E c \in Clients : LeaveBus(c)
  \/ Handle

Next == Step \/ Unregister

Spec == Init /\ [][Next]_vars

-----------------------------------------------------------------------------
TypeOK ==
  /\ DOMAIN interested_clients \subseteq Clients
  /\ \A c \in DOMAIN interested_clients : interested_clients[c] \in Nat \ {0}
  /\ client_interests \in [Tokens -> [Clients -> Nat]]
  /\ watched \subseteq Clients /\ emitted \subseteq Tokens

Sum(c) == MapThenSumSet(LAMBDA t : client_interests[t][c], Tokens)

(* "This is derivable from @client_interests": interested_clients has exactly
   the clients with an interest, with the sum of their counts, as long as the
   connection is on the bus. *)
Derivable ==
  registered =>
  /\ DOMAIN interested_clients = {c \in Clients : Sum(c) > 0}
  /\ \A c \in DOMAIN interested_clients : interested_clients[c] = Sum(c)

(* The connection's last signal about a token says whether a client is
   interested in it, whatever clients add, remove and crash. *)
SignalsTell == emitted = {t \in Tokens : InterestedIn(World, t) # {}}

(* clients-interested and clients-uninterested alternate: each is a change. *)
SignalsAlternate == ~repeated

(* When everything has arrived, a client that left the bus has no interest in a
   connection that is there. *)
GoneIsForgotten ==
  registered /\ inbox = <<>> => \A t \in Tokens : InterestedIn(World, t) \subseteq alive

(* Exactly the clients with an interest are watched. *)
WatchedIsInterested == watched = DOMAIN interested_clients

(* A crashed client does not keep a token wanted. *)
CrashEndsInterest ==
  \A t \in Tokens :
    ((alive = {}) /\ t \in emitted) ~> t \notin emitted
=============================================================================
