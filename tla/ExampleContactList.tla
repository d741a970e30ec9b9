------------------------- MODULE ExampleContactList -------------------------
(* The contact list of the example connection manager
   (examples/cm/contactlist): the fake roster that its "server" sends a while
   after the connection is up, the methods with which TpBaseContactList has it
   changed, the answers of the contacts, which come on timers that nothing
   cancels, and its connection's presences.  What the D-Bus clients were told
   is kept beside what is so: TpBaseContactList emits nothing until the list was
   received, and then what the subclass's functions say at that moment. *)
EXTENDS Naturals, FiniteSets, Functions, TLC

CONSTANTS
  Contacts,     \* handles of the contact repository
  Friends,      \* on the roster of the server, subscribed both ways
  Asked,        \* on the roster, our request for their presence unanswered
  Wanting,      \* not on the roster, with a request for our presence
  Hated,        \* blocked at the server
  Cancelling,   \* whose identifier has "@cancel."
  Available,    \* whose identifier starts in the first half of the alphabet
  Me,           \* the self handle
  Tags, RosterTags,   \* group names; the tags of those on the roster
  MaxCalls      \* bound: calls of clients

VARIABLES
  self,   \* ExampleContactList and its connection
  made    \* calls made so far

SoundConstants ==
  /\ Friends \cup Asked \cup Wanting \cup Hated \cup Cancelling \cup Available \cup {Me} \subseteq Contacts
  /\ Friends \cap Asked = {} /\ (Friends \cup Asked) \cap Wanting = {}
  /\ RosterTags \in [Friends \cup Asked -> SUBSET Tags]
  /\ MaxCalls \in Nat

Answers == {"authorized", "unauthorized", "auth request"}
no_details == [subscribe |-> FALSE, requested |-> FALSE, rejected |-> FALSE,
               publish |-> FALSE, pre_approved |-> FALSE, tags |-> {}]

-----------------------------------------------------------------------------
(* What is known of a contact. *)

lookup_contact(x, c) == c \in DOMAIN x.contact_details
details(x, c) == IF lookup_contact(x, c) THEN x.contact_details[c] ELSE no_details

ensure_contact(x, c) ==
  IF lookup_contact(x, c) THEN x
  ELSE [x EXCEPT !.contacts = @ \cup {c}, !.contact_details = (c :> no_details) @@ @]

(* ensure_contact's out argument: adding a contact who has asked for our
   presence does not alter the list that clients see. *)
created(x, c) == ~lookup_contact(x, c) /\ c \notin x.publish_requests

ensure_contacts(x, S) ==
  [x EXCEPT !.contacts = @ \cup {c \in S : ~lookup_contact(x, c)},
            !.contact_details = @ @@ [c \in S |-> no_details]]

compose_presence(full, ask, removed_remotely) ==
  IF full THEN "yes" ELSE IF ask THEN "ask" ELSE IF removed_remotely THEN "removed" ELSE "no"

dup_states(x, c) ==
  LET d == details(x, c)
  IN <<compose_presence(d.subscribe, d.requested, d.rejected),
       compose_presence(d.publish, c \in x.publish_requests, c \in x.cancelled)>>

dup_contacts(x) == x.contacts
dup_groups(x) == x.all_tags
dup_contact_groups(x, c) == details(x, c).tags
dup_group_members(x, g) == {c \in x.contacts : g \in details(x, c).tags}
dup_blocked_contacts(x) == x.blocked

get_presence(x, c) ==
  IF ~details(x, c).subscribe THEN "unknown" ELSE IF c \in Available THEN "available" ELSE "away"

(* The connection's answer for the presence of a contact. *)
get_contact_status(x, c) ==
  IF c # Me THEN get_presence(x, c) ELSE IF x.away THEN "away" ELSE "available"

-----------------------------------------------------------------------------
(* TpBaseContactList telling clients. *)

contacts_changed(x, changed, removed) ==
  IF x.state # "success" THEN x
  ELSE LET told == [c \in changed |-> dup_states(x, c)] @@ x.told
       IN [x EXCEPT !.told = Restrict(told, DOMAIN told \ removed),
                    !.told_tags = [c \in Contacts |-> IF c \in removed THEN {} ELSE @[c]]]

groups_created(x, names) ==
  IF x.state # "success" THEN x ELSE [x EXCEPT !.told_groups = @ \cup names]

groups_changed(x, S, added, removed) ==
  IF x.state # "success" THEN x
  ELSE [groups_created(x, added) EXCEPT
          !.told_tags = [c \in Contacts |-> IF c \in S THEN (@[c] \cup added) \ removed ELSE @[c]]]

groups_removed(x, g) ==
  IF x.state # "success" \/ g \notin x.told_groups THEN x
  ELSE [x EXCEPT !.told_groups = @ \ {g}, !.told_tags = [c \in Contacts |-> @[c] \ {g}]]

(* The members of the old group are those that the subclass says it has. *)
group_renamed(x, old, new) ==
  IF x.state # "success" THEN x
  ELSE LET members == dup_group_members(x, old)
       IN [x EXCEPT !.told_groups = (@ \ {old}) \cup {new},
                    !.told_tags = [c \in Contacts |-> IF c \in members THEN (@[c] \ {old}) \cup {new}
                                                      ELSE @[c] \ {old}]]

contact_blocking_changed(x, S) ==
  IF x.state # "success" THEN x
  ELSE [x EXCEPT !.told_blocked = (@ \ S) \cup (dup_blocked_contacts(x) \cap S)]

set_list_received(x) ==
  LET y == contacts_changed([x EXCEPT !.state = "success"], dup_contacts(x), {})
  IN [y EXCEPT !.told_groups = dup_groups(y),
               !.told_tags = [c \in Contacts |-> dup_contact_groups(y, c)],
               !.told_blocked = dup_blocked_contacts(y)]

(* The signal presence-updated and the connection's handler, which goes by its
   own status for the self handle. *)
presence_updated(x, S) ==
  [x EXCEPT !.told_presence = [c \in Contacts |-> IF c \in S \ {Me} THEN get_presence(x, c) ELSE @[c]]]

-----------------------------------------------------------------------------
(* The life of the list. *)

constructed ==
  [state |-> "none", loading |-> FALSE,
   contacts |-> {}, contact_details |-> << >>, publish_requests |-> {}, cancelled |-> {},
   blocked |-> {}, all_tags |-> {}, away |-> FALSE,
   timers |-> [k \in Answers \X Contacts |-> 0], silent |-> {},
   told |-> << >>, told_groups |-> {}, told_tags |-> [c \in Contacts |-> {}], told_blocked |-> {},
   told_presence |-> [c \in Contacts |-> IF c = Me THEN "available" ELSE "unknown"]]

close_all(x) ==
  [x EXCEPT !.contacts = {}, !.blocked = {}, !.cancelled = {}, !.publish_requests = {},
            !.contact_details = << >>, !.all_tags = {}]

status_changed_cb(x, status) ==
  IF status = "CONNECTED" THEN [x EXCEPT !.state = "waiting", !.loading = TRUE]
  ELSE [close_all(x) EXCEPT !.state = "closed"]

(* start_connecting and shut_down are immediate. *)
start_connecting(x) == status_changed_cb(x, "CONNECTED")
shut_down(x) == status_changed_cb(x, "DISCONNECTED")

(* The roster arrives: friends and those asked, those who ask, those blocked. *)
fill_roster(x) ==
  LET onRoster == Friends \cup Asked
      y == ensure_contacts([x EXCEPT !.all_tags = @ \cup UNION Range(RosterTags)], onRoster)
  IN [y EXCEPT
        !.contact_details =
          [c \in onRoster |->
             [y.contact_details[c] EXCEPT !.subscribe = @ \/ c \in Friends, !.publish = @ \/ c \in Friends,
                                          !.requested = @ \/ c \in Asked, !.tags = RosterTags[c]]] @@ @,
        !.contacts = @ \cup Wanting,
        !.publish_requests = @ \cup Wanting,
        !.blocked = @ \cup Hated]

receive_contact_lists(x) ==
  IF x.state = "closed" THEN [x EXCEPT !.loading = FALSE]
  ELSE LET y == fill_roster([x EXCEPT !.loading = FALSE])
       IN set_list_received(presence_updated(y, DOMAIN y.contact_details))

-----------------------------------------------------------------------------
(* What contacts do, when a timer says so. *)

cancel_auth_request(x, c) ==
  LET y == IF lookup_contact(x, c)
           THEN [x EXCEPT !.contact_details[c].publish = FALSE, !.contact_details[c].pre_approved = FALSE]
           ELSE x
  IN contacts_changed([y EXCEPT !.publish_requests = @ \ {c}, !.cancelled = @ \cup {c}], {c}, {})

receive_auth_request(x, c) ==
  LET d == details(x, c)
      approved == [x EXCEPT !.contact_details[c].pre_approved = FALSE,
                            !.contact_details[c].publish = TRUE,
                            !.publish_requests = @ \ {c}, !.cancelled = @ \ {c}]
      asked == [x EXCEPT !.contacts = @ \cup {c}, !.publish_requests = @ \cup {c}]
      y == contacts_changed(IF d.pre_approved THEN approved ELSE asked, {c}, {})
  IN IF x.state = "closed" \/ d.publish THEN x
     ELSE IF c \in Cancelling THEN cancel_auth_request(y, c) ELSE y

receive_authorized(x, c) ==
  LET y == ensure_contact(x, c)
      z == presence_updated(
             contacts_changed([y EXCEPT !.contact_details[c].requested = FALSE,
                                        !.contact_details[c].rejected = FALSE,
                                        !.contact_details[c].subscribe = TRUE], {c}, {}), {c})
  IN IF x.state = "closed" THEN x
     ELSE IF details(y, c).subscribe THEN y
     ELSE IF details(y, c).publish THEN z ELSE receive_auth_request(z, c)

(* A contact that was removed while its answer was on its way is added again,
   and nobody is told. *)
receive_unauthorized(x, c) ==
  LET y == [ensure_contact(x, c) EXCEPT !.silent = IF c \in x.contacts THEN @ ELSE @ \cup {c}]
  IN IF x.state = "closed" THEN x
     ELSE IF ~details(y, c).subscribe /\ ~details(y, c).requested THEN y
     ELSE presence_updated(
            contacts_changed([y EXCEPT !.contact_details[c].requested = FALSE,
                                       !.contact_details[c].rejected = TRUE,
                                       !.contact_details[c].subscribe = FALSE], {c}, {}), {c})

answer(x, k, c) ==
  LET y == [x EXCEPT !.timers[k, c] = @ - 1]
  IN CASE k = "authorized" -> receive_authorized(y, c)
       [] k = "unauthorized" -> receive_unauthorized(y, c)
       [] k = "auth request" -> receive_auth_request(y, c)

start_timers(x, k, S) ==
  [x EXCEPT !.timers = [t \in DOMAIN @ |-> IF t[1] = k /\ t[2] \in S THEN @[t] + 1 ELSE @[t]]]

-----------------------------------------------------------------------------
(* The methods of a mutable contact list. *)

(* Changes the details of the contacts in S, which all have some. *)
with_details(x, S, Change(_)) ==
  [x EXCEPT !.contact_details = [c \in S |-> Change(@[c])] @@ @]

request_subscription(x, S, polite) ==
  LET y == ensure_contacts(x, S)
      changed == {c \in S : ~details(y, c).subscribe}
      z == with_details(y, changed, LAMBDA d : [d EXCEPT !.rejected = FALSE, !.requested = TRUE])
  IN contacts_changed(start_timers(z, IF polite THEN "authorized" ELSE "unauthorized", changed), changed, {})

(* Contacts who have not asked are remembered as approved: they come onto the
   list, and nobody is told. *)
authorize_publication(x, S) ==
  LET y == ensure_contacts(x, S)
      asking == {c \in S : c \in x.publish_requests}
      publishing == {c \in asking : ~details(x, c).publish}
      changed == (S \cap x.cancelled) \cup publishing
      z == with_details(with_details(y, S \ asking, LAMBDA d : [d EXCEPT !.pre_approved = TRUE]),
                        publishing, LAMBDA d : [d EXCEPT !.publish = TRUE])
  IN contacts_changed([z EXCEPT !.cancelled = @ \ S, !.publish_requests = @ \ publishing,
                                !.silent = @ \cup (S \ x.contacts)], changed, {})

store_contacts(x, S) == contacts_changed(ensure_contacts(x, S), {c \in S : created(x, c)}, {})

remove_contacts(x, S) ==
  LET removed == {c \in S : lookup_contact(x, c) \/ c \in x.publish_requests \/ c \in x.cancelled}
      y == [x EXCEPT !.contact_details = Restrict(@, DOMAIN @ \ removed),
                     !.publish_requests = @ \ removed, !.contacts = @ \ removed,
                     !.cancelled = @ \ removed]
  IN contacts_changed(presence_updated(y, removed), {}, removed)

unsubscribe(x, S) ==
  LET changed == {c \in S : \/ details(x, c).requested \/ details(x, c).rejected
                            \/ details(x, c).subscribe}
      Undo(d) == IF d.requested THEN [d EXCEPT !.requested = FALSE]
                 ELSE IF d.rejected THEN [d EXCEPT !.rejected = FALSE]
                 ELSE [d EXCEPT !.subscribe = FALSE]
      y == with_details(x, changed, Undo)
      lost == {c \in changed : details(x, c).subscribe /\ ~details(y, c).subscribe}
  IN contacts_changed(presence_updated(y, lost), changed, {})

(* A contact that was there only for its request is announced as removed, and
   stays in `contacts'. *)
unpublish(x, S) ==
  LET rejected == S \cap x.publish_requests
      published == {c \in S : details(x, c).publish}
      onList == {c \in S : lookup_contact(x, c)}
      removed == {c \in rejected : ~lookup_contact(x, c)}
      changed == (rejected \ removed) \cup (S \cap x.cancelled) \cup published
      y == with_details([x EXCEPT !.publish_requests = @ \ rejected, !.cancelled = @ \ S,
                                  !.silent = @ \cup removed],
                        onList, LAMBDA d : [d EXCEPT !.pre_approved = FALSE, !.publish = FALSE])
  IN contacts_changed(start_timers(y, "auth request", published), changed, removed)

block_contacts(x, S) ==
  contact_blocking_changed([x EXCEPT !.blocked = @ \cup S], S \ x.blocked)

unblock_contacts(x, S) ==
  contact_blocking_changed([x EXCEPT !.blocked = @ \ S], S \cap x.blocked)

-----------------------------------------------------------------------------
(* The methods of a mutable group list. *)

ensure_tag(x, g, emit_signal) ==
  IF g \in x.all_tags THEN x
  ELSE LET y == [x EXCEPT !.all_tags = @ \cup {g}] IN IF emit_signal THEN groups_created(y, {g}) ELSE y

set_contact_groups(x, c, names) ==
  LET y == groups_created([x EXCEPT !.all_tags = @ \cup names], names)
      z == ensure_contact(y, c)
      w == IF created(y, c) THEN contacts_changed(z, {c}, {}) ELSE z
      old == details(w, c).tags
  IN groups_changed([w EXCEPT !.contact_details[c].tags = names], {c}, names \ old, old \ names)

tagged(x, S, g) == with_details(ensure_contacts(x, S), S, LAMBDA d : [d EXCEPT !.tags = @ \cup {g}])
untagged(x, S, g) == with_details(x, S, LAMBDA d : [d EXCEPT !.tags = @ \ {g}])

add_to_group(x, g, S) ==
  LET y == ensure_tag(x, g, TRUE)
      new == {c \in S : created(y, c)}
      added == new \cup {c \in S : g \notin details(y, c).tags}
      z == contacts_changed(tagged(y, S, g), new, {})
  IN IF added = {} THEN z ELSE groups_changed(z, added, {g}, {})

remove_from_group(x, g, S) ==
  LET changed == {c \in S : g \in details(x, c).tags}
  IN groups_changed(untagged(x, changed, g), changed, {}, {g})

set_group_members(x, g, S) ==
  LET y == ensure_tag(x, g, TRUE)
      new == {c \in S : created(y, c)}
      added == new \cup {c \in S : g \notin details(y, c).tags}
      removed == dup_group_members(y, g) \ S
      z == contacts_changed(untagged(tagged(y, S, g), removed, g), new, {})
  IN groups_changed(IF added = {} THEN z ELSE groups_changed(z, added, {g}, {}), removed, {}, {g})

(* all_tags keeps the name. *)
remove_group(x, g) ==
  LET y == groups_removed(x, g)
  IN untagged(y, dup_group_members(y, g), g)

rename_group(x, old, new) ==
  LET y == group_renamed(ensure_tag(x, new, FALSE), old, new)
      members == {c \in DOMAIN y.contact_details : old \in details(y, c).tags}
  IN tagged(untagged(y, members, old), members, new)

-----------------------------------------------------------------------------
(* Methods of the connection. *)

set_alias(x, c) ==
  LET y == ensure_contact(x, c)
  IN IF x.state = "closed" THEN x ELSE IF created(x, c) THEN contacts_changed(y, {c}, {}) ELSE y

set_own_status(x, away) ==
  [x EXCEPT !.away = away, !.told_presence[Me] = IF away THEN "away" ELSE "available"]

-----------------------------------------------------------------------------
Sets == SUBSET Contacts \ {{}}

Init == self = constructed /\ made = 0

StartConnecting == self.state = "none" /\ self' = start_connecting(self) /\ UNCHANGED made
ShutDown == self.state \in {"waiting", "success"} /\ self' = shut_down(self) /\ UNCHANGED made
ReceiveContactLists == self.loading /\ self' = receive_contact_lists(self) /\ UNCHANGED made
Answer(k, c) == self.timers[k, c] > 0 /\ self' = answer(self, k, c) /\ UNCHANGED made

(* A call of a client, which TpBaseContactList lets pass only when the list is
   there. *)
Call == self.state = "success" /\ made < MaxCalls /\ made' = made + 1

RequestSubscription(S, polite) == Call /\ self' = request_subscription(self, S, polite)
Authorize(S) == Call /\ self' = authorize_publication(self, S)
StoreContacts(S) == Call /\ self' = store_contacts(self, S)
RemoveContacts(S) == Call /\ self' = remove_contacts(self, S)
StopSubscribing(S) == Call /\ self' = unsubscribe(self, S)
Unpublish(S) == Call /\ self' = unpublish(self, S)
BlockContacts(S) == Call /\ self' = block_contacts(self, S)
UnblockContacts(S) == Call /\ self' = unblock_contacts(self, S)
SetContactGroups(c, names) == Call /\ self' = set_contact_groups(self, c, names)
SetGroupMembers(g, S) == Call /\ self' = set_group_members(self, g, S)
AddToGroup(g, S) == Call /\ self' = add_to_group(self, g, S)
RemoveFromGroup(g, S) == Call /\ self' = remove_from_group(self, g, S)
RemoveGroup(g) == Call /\ self' = remove_group(self, g)
RenameGroup(old, new) ==
  /\ old \in self.told_groups /\ new \notin self.told_groups
  /\ Call /\ self' = rename_group(self, old, new)

Connected == self.state \in {"waiting", "success"} /\ made < MaxCalls /\ made' = made + 1
SetAlias(c) == Connected /\ self' = set_alias(self, c)
SetOwnStatus(away) == Connected /\ away # self.away /\ self' = set_own_status(self, away)

Next ==
  \/ StartConnecting \/ ShutDown \/ ReceiveContactLists
  \/ \E k \in Answers, c \in Contacts : Answer(k, c)
  \/ \E S \in Sets, polite \in BOOLEAN : RequestSubscription(S, polite)
  \/ \E S \in Sets :
       \/ Authorize(S) \/ StoreContacts(S) \/ RemoveContacts(S)
       \/ StopSubscribing(S) \/ Unpublish(S)
       \/ BlockContacts(S) \/ UnblockContacts(S)
  \/ \E c \in Contacts : SetAlias(c)
  \/ \E c \in Contacts, names \in SUBSET Tags : SetContactGroups(c, names)
  \/ \E g \in Tags, S \in SUBSET Contacts :
       SetGroupMembers(g, S) \/ AddToGroup(g, S) \/ RemoveFromGroup(g, S)
  \/ \E g \in Tags : RemoveGroup(g)
  \/ \E old, new \in Tags : RenameGroup(old, new)
  \/ \E away \in BOOLEAN : SetOwnStatus(away)

Spec == Init /\ [][Next]_<<self, made>>

-----------------------------------------------------------------------------
States == {"yes", "ask", "removed", "no"}

TypeOK ==
  /\ self.state \in {"none", "waiting", "success", "closed"}
  /\ self.contacts \subseteq Contacts
  /\ DOMAIN self.contact_details \subseteq self.contacts
  /\ self.publish_requests \cup self.cancelled \subseteq self.contacts
  /\ self.blocked \subseteq Contacts /\ self.all_tags \subseteq Tags
  /\ \A k \in Answers, c \in Contacts : self.timers[k, c] \in 0..MaxCalls
  /\ made \in 0..MaxCalls

(* Every contact that a client was told of has the states it was told, and the
   groups, and is on the list; no contact is on the list untold, but for those
   that ensure_contact added without a word and those whose rejected request
   left them in `contacts'. *)
ListIsTold ==
  self.state = "success" =>
    /\ \A c \in Contacts \ self.silent :
         /\ c \in self.contacts <=> c \in DOMAIN self.told
         /\ c \in DOMAIN self.told => self.told[c] = dup_states(self, c)
    /\ \A c \in Contacts : self.told_tags[c] = dup_contact_groups(self, c)
    /\ self.told_groups \subseteq dup_groups(self)
    /\ UNION Range(self.told_tags) \subseteq self.told_groups
    /\ self.told_blocked = dup_blocked_contacts(self)

(* Whatever order requests, answers and removals come in, the presence that
   clients were told of a contact is the one they would be told now. *)
PresenceIsTold ==
  self.state # "closed" => \A c \in Contacts : self.told_presence[c] = get_contact_status(self, c)

(* A subscription is in one state: asked for, refused or granted; and nobody who
   already sees our presence is shown as asking for it. *)
OneStateEach ==
  \A c \in Contacts :
    LET d == details(self, c)
    IN /\ Cardinality({f \in {"subscribe", "requested", "rejected"} : d[f]}) <= 1
       /\ ~(d.publish /\ c \in self.publish_requests)
       /\ ~(c \in self.publish_requests /\ c \in self.cancelled)
=============================================================================
