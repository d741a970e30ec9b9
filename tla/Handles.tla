------------------------------- MODULE Handles --------------------------------
(* The integers and identifiers that everything else is about: the sets of
   integers TpIntset and TpHandleSet, the priority queue TpHeap, the handle
   repositories (TpDynamicHandleRepo, TpStaticHandleRepo) and the handle methods
   of TpBaseConnection with the client's tp_connection_request_handles ().
   Kind says which of them an instance is about. *)
EXTENDS Integers, Sequences, FiniteSets, FiniteSetsExt, SequencesExt, Functions, TLC

CONSTANTS
  Kind,         \* "sets", "heap" or "repo"
  Bits,         \* BITFIELD_BITS: the integers that one entry of the table holds
  GuintMax,     \* (guint) -1
  MaxRight,     \* the bound on the size of the right set
  MaxHeap,      \* the bound on the length of the heap
  Elements,     \* what is added to the heap, compared as integers
  IdLists,      \* the sequences of identifiers that are asked for
  Normal,       \* identifier -> its normal form, or "" if it is invalid
  Static,       \* is the repository a static one, and with which identifiers
  Async,        \* does the connection normalise asynchronously
  MaxCalls      \* the bound on the D-Bus calls

VARIABLES
  self,         \* the structures
  made          \* what they should hold, and the counters

vars == <<self, made>>

SoundConstants ==
  /\ Kind \in {"sets", "heap", "repo"}
  /\ Bits \in Nat \ {0} /\ (GuintMax + 1) % Bits = 0
  /\ MaxRight \in Nat /\ MaxHeap \in Nat /\ Elements \subseteq Nat /\ MaxCalls \in Nat
  /\ \A ids \in IdLists : Range(ids) \subseteq DOMAIN Normal
  /\ Async \in BOOLEAN /\ Async => Static = << >>

-----------------------------------------------------------------------------
(* TpIntset: the table maps HIGH_PART (n) to the LOW_PARTs of the members. *)
HIGH_PART(n) == (n \div Bits) * Bits
LOW_PART(n) == n % Bits

tp_intset_new == [table |-> << >>, largest_ever |-> 0]

lookup(t, key) == IF key \in DOMAIN t THEN t[key] ELSE {}

(* g_hash_table_insert () of a bitfield, or _remove () of an empty one. *)
insert(t, key, v) == IF v = {} THEN Restrict(t, DOMAIN t \ {key}) ELSE (key :> v) @@ t

(* The table that has v(key) for every key of keys. *)
insert_all(t, keys, v(_)) == FoldSet(LAMBDA k, u : insert(u, k, v(k)), t, keys)

(* intset_update_largest_ever () with every key of keys. *)
update_largest(l, keys) == Max({l} \union {k + Bits - 1 : k \in keys})

tp_intset_clear(s) == [s EXCEPT !.table = << >>]

tp_intset_add(s, n) ==
  LET key == HIGH_PART(n) IN
  [table |-> insert(s.table, key, lookup(s.table, key) \union {LOW_PART(n)}),
   largest_ever |-> Max({n, s.largest_ever})]

tp_intset_remove(s, n) ==
  LET key == HIGH_PART(n) IN
  [s EXCEPT !.table = insert(@, key, lookup(@, key) \ {LOW_PART(n)})]

tp_intset_is_member(s, n) == LOW_PART(n) \in lookup(s.table, HIGH_PART(n))

(* What func is called with, in order: entries up to largest_ever only. *)
tp_intset_foreach(s) ==
  LET visited == {key \in DOMAIN s.table : key <= s.largest_ever}
  IN  SetToSortSeq(UNION {{key + low : low \in s.table[key]} : key \in visited}, <)

tp_intset_to_array(s) == tp_intset_foreach(s)

tp_intset_from_array(a) == FoldLeft(tp_intset_add, tp_intset_new, a)

tp_intset_size(s) == FoldSet(LAMBDA k, n : n + Cardinality(s.table[k]), 0, DOMAIN s.table)

tp_intset_is_empty(s) == Cardinality(DOMAIN s.table) = 0

tp_intset_is_equal(s, t) ==
  /\ Cardinality(DOMAIN s.table) = Cardinality(DOMAIN t.table)
  /\ \A key \in DOMAIN s.table : lookup(t.table, key) = s.table[key]

tp_intset_copy(s) == [table |-> s.table, largest_ever |-> update_largest(0, DOMAIN s.table)]

tp_intset_intersection(s, t) ==
  LET common == {key \in DOMAIN s.table : s.table[key] \intersect lookup(t.table, key) # {}}
  IN  [table |-> [key \in common |-> s.table[key] \intersect t.table[key]],
       largest_ever |-> update_largest(0, common)]

tp_intset_union_update(s, t) ==
  [table |-> insert_all(s.table, DOMAIN t.table,
                        LAMBDA key : t.table[key] \union lookup(s.table, key)),
   largest_ever |-> update_largest(s.largest_ever, DOMAIN t.table)]

tp_intset_union(s, t) == tp_intset_union_update(tp_intset_copy(s), t)

tp_intset_difference_update(s, t) ==
  [s EXCEPT !.table = insert_all(@, DOMAIN t.table,
                                 LAMBDA key : lookup(s.table, key) \ t.table[key])]

tp_intset_difference(s, t) == tp_intset_difference_update(tp_intset_copy(s), t)

(* It adds members of t, but leaves largest_ever. *)
tp_intset_symmetric_difference(s, t) ==
  [tp_intset_copy(s) EXCEPT !.table =
     insert_all(@, DOMAIN t.table,
                LAMBDA key : SymDiff(t.table[key], lookup(s.table, key)))]

(* From element, which is GuintMax at the start: the elements that the loop looks
   at, and the first of them that is a member. *)
tp_intset_iter_next(s, element) ==
  LET first == (element + 1) % (GuintMax + 1)
      hits == {n \in first .. Max({first, s.largest_ever}) : tp_intset_is_member(s, n)}
  IN  IF hits = {} THEN [found |-> FALSE] ELSE [found |-> TRUE, element |-> Min(hits)]

(* Everything that the fast iterator gives, in the order of the hash table. *)
tp_intset_fast_iter(s) == UNION {{key + low : low \in s.table[key]} : key \in DOMAIN s.table}

(* TpHandleSet: a TpIntset of handles, whose updates say what they changed. *)
tp_handle_set_copy(s) == tp_intset_copy(s)

tp_handle_set_update(s, add) ==
  [set |-> tp_intset_union(add, s), ret |-> tp_intset_difference(add, s)]

tp_handle_set_difference_update(s, remove) ==
  [set |-> tp_intset_difference(s, remove), ret |-> tp_intset_intersection(remove, s)]

(* The two sets, of which the left one is worked on, and their members. *)
SetsInit ==
  \E r \in {x \in SUBSET (0 .. GuintMax) : Cardinality(x) <= MaxRight} :
    /\ self = [left |-> tp_intset_new, right |-> tp_intset_from_array(SetToSeq(r))]
    /\ made = [left |-> {}, right |-> r, short |-> FALSE]

SetsStep(left, members, short) ==
  /\ self' = [self EXCEPT !.left = left]
  /\ made' = [made EXCEPT !.left = members, !.short = short]

AddOrRemove ==
  \/ \E n \in 0 .. GuintMax :
       \/ SetsStep(tp_intset_add(self.left, n), made.left \union {n}, made.short)
       \/ SetsStep(tp_intset_remove(self.left, n), made.left \ {n}, made.short)
  \/ SetsStep(tp_intset_clear(self.left), {}, made.short)

Update ==
  \/ SetsStep(tp_intset_union_update(self.left, self.right),
              made.left \union made.right, made.short)
  \/ SetsStep(tp_intset_difference_update(self.left, self.right),
              made.left \ made.right, made.short)
  \/ SetsStep(tp_handle_set_update(self.left, self.right).set,
              made.left \union made.right, FALSE)
  \/ SetsStep(tp_handle_set_difference_update(self.left, self.right).set,
              made.left \ made.right, FALSE)
  \/ SetsStep(tp_intset_symmetric_difference(self.left, self.right),
              SymDiff(made.left, made.right), TRUE)

(* What may be asked about a set s that should have the members m. *)
IsTheSet(s, m) ==
  /\ \A n \in 0 .. GuintMax : tp_intset_is_member(s, n) <=> n \in m
  /\ tp_intset_fast_iter(s) = m
  /\ tp_intset_size(s) = Cardinality(m)
  /\ tp_intset_is_empty(s) <=> m = {}

(* What is enumerated in order stops at largest_ever. *)
IsEnumerated(s, m) ==
  /\ tp_intset_to_array(s) = SetToSortSeq(m, <)
  /\ GuintMax \notin m =>
       \A n \in m \union {GuintMax} :
         LET rest == {k \in m : n = GuintMax \/ k > n}
         IN  tp_intset_iter_next(s, n) =
               IF rest = {} THEN [found |-> FALSE] ELSE [found |-> TRUE, element |-> Min(rest)]

(* Whatever sequence of additions, removals and updates built it, a TpIntset has
   the members that it should have, for every way to ask: membership, size, both
   iterators and the array; and so have the results of the set operations and the
   sets of changes that TpHandleSet's updates return.  tp_intset_symmetric_difference ()
   leaves largest_ever behind: its result is only enumerated up to it. *)
SetsAreRight ==
  Kind = "sets" =>
    LET s == self.left  t == self.right  ms == made.left  mt == made.right IN
    /\ IsTheSet(s, ms)
    /\ ~made.short => IsEnumerated(s, ms)
    /\ IsTheSet(tp_intset_symmetric_difference(s, t), SymDiff(ms, mt))
    /\ \A x \in {<<tp_intset_copy(s), ms>>,
                 <<tp_handle_set_copy(s), ms>>,
                 <<tp_intset_union(s, t), ms \union mt>>,
                 <<tp_intset_intersection(s, t), ms \intersect mt>>,
                 <<tp_intset_difference(s, t), ms \ mt>>,
                 <<tp_handle_set_update(s, t).ret, mt \ ms>>,
                 <<tp_handle_set_difference_update(s, t).ret, mt \intersect ms>>} :
         IsTheSet(x[1], x[2]) /\ IsEnumerated(x[1], x[2])
    /\ tp_intset_is_equal(s, t) <=> ms = mt

-----------------------------------------------------------------------------
(* TpHeap: the elements are distinct pointers, here the integers they compare as. *)
Swapped(h, i, j) == [h EXCEPT ![i] = h[j], ![j] = h[i]]

RECURSIVE sift_up(_, _)
sift_up(h, m) ==
  IF m = 1 \/ h[m] >= h[m \div 2] THEN h ELSE sift_up(Swapped(h, m, m \div 2), m \div 2)

tp_heap_add(h, e) == sift_up(Append(h, e), Len(h) + 1)

(* The loop of extract_element (): i goes down to the child that comes first. *)
RECURSIVE sift_down(_, _)
sift_down(h, i) ==
  LET m == Len(h)
      j == IF 2 * i + 1 <= m /\ h[2 * i] > h[2 * i + 1] THEN 2 * i + 1 ELSE 2 * i
  IN  IF 2 * i > m \/ h[i] <= h[j] THEN h ELSE sift_down(Swapped(h, i, j), j)

(* It starts at the root, whatever the index, with the last element still there. *)
extract_element(h, index) == Front(sift_down([h EXCEPT ![index] = h[Len(h)]], 1))

Index(h, e) == Min({i \in DOMAIN h : h[i] = e})

HeapInit ==
  /\ self = << >>
  /\ made = [held |-> {}, disturbed |-> FALSE]

HeapAdd ==
  \E e \in Elements \ (made.held \union Range(self)) :
    /\ Len(self) < MaxHeap
    /\ self' = tp_heap_add(self, e)
    /\ made' = [made EXCEPT !.held = @ \union {e}]

HeapExtractFirst ==
  /\ self # << >>
  /\ self' = extract_element(self, 1)
  /\ made' = [made EXCEPT !.held = @ \ {Head(self)}]

(* The order is lost when an element inside is removed. *)
HeapRemove ==
  \E e \in Range(self) :
    /\ self' = extract_element(self, Index(self, e))
    /\ made' = [held |-> made.held \ {e},
                disturbed |-> made.disturbed \/ Index(self, e) \notin {1, Len(self)}]

(* tp_heap_peek_first () and tp_heap_extract_first () give the smallest of the
   elements that were added and not taken yet, all of which are in the heap once,
   as long as tp_heap_remove () took no element from inside the heap: there,
   extract_element () sifts from the root instead of the index. *)
HeapIsOrdered ==
  Kind = "heap" /\ ~made.disturbed =>
    /\ Range(self) = made.held /\ Len(self) = Cardinality(made.held)
    /\ self # << >> => Head(self) = Min(made.held)

-----------------------------------------------------------------------------
(* The handle repositories: names is handle_to_priv, or handle_names of a static
   one; map is string_to_handle. *)
tp_handle_is_valid(s, h) == h \in 1 .. Len(s.names)

tp_handles_are_valid(s, hs, allow_zero) ==
  \A i \in DOMAIN hs : (hs[i] = 0 /\ allow_zero) \/ tp_handle_is_valid(s, hs[i])

tp_handle_inspect(s, h) == IF tp_handle_is_valid(s, h) THEN s.names[h] ELSE "NULL"

(* An exact look-up: in the static repository, the first such name. *)
lookup_exact(s, id) ==
  IF id \in DOMAIN s.map THEN s.map[id] ELSE 0

static_lookup_handle(s, id) ==
  LET is == {i \in DOMAIN s.names : s.names[i] = id} IN IF is = {} THEN 0 ELSE Min(is)

normalize(id) == Normal[id]

tp_handle_lookup(s, id) ==
  IF Static # << >> THEN static_lookup_handle(s, id)
  ELSE IF normalize(id) = "" THEN 0 ELSE lookup_exact(s, normalize(id))

(* The repository, and the handle of the normal form. *)
ensure_handle_take_normalized_id(s, normal_id) ==
  LET handle == Len(s.names) + 1 IN
  IF lookup_exact(s, normal_id) # 0 THEN [repo |-> s, handle |-> lookup_exact(s, normal_id)]
  ELSE [repo |-> [s EXCEPT !.names = Append(@, normal_id), !.map = (normal_id :> handle) @@ @],
        handle |-> handle]

tp_handle_ensure(s, id) ==
  IF Static # << >> THEN [repo |-> s, handle |-> static_lookup_handle(s, id)]
  ELSE IF normalize(id) = "" THEN [repo |-> s, handle |-> 0]
  ELSE ensure_handle_take_normalized_id(s, normalize(id))

(* TP_HANDLE_TYPE_s: the repository's, one without a repository, an invalid one. *)
HandleTypes == {"contact", "list", "invalid"}

Answer(s, r, reply) ==
  [s EXCEPT !.requests[r].context = FALSE, !.requests[r].reply = reply, !.wire = Append(@, r)]

(* ensure_handle_cb () of the position pos of request r. *)
ensure_handle_cb(s, r, pos, handle) ==
  LET q == s.requests[r]
      stored == IF ~q.context THEN s
                ELSE IF handle = 0 THEN Answer(s, r, <<"error">>)
                ELSE [s EXCEPT !.requests[r].handles[pos] = handle]
      counted == [stored EXCEPT !.requests[r].n_pending = @ - 1]
  IN  IF counted.requests[r].n_pending = 0 /\ counted.requests[r].context
      THEN Answer(counted, r, counted.requests[r].handles)
      ELSE counted

(* tp_handle_ensure_async () for every name in order: without normalize_async it
   ensures at once, and completes in idle. *)
EnsureAsync(s, r, ids) ==
  LET start(acc, pos) ==
        IF Async
        THEN [acc EXCEPT !.tasks = Append(@, [r |-> r, pos |-> pos, id |-> ids[pos], handle |-> 0])]
        ELSE LET e == tp_handle_ensure(acc, ids[pos]) IN
             [e.repo EXCEPT !.tasks =
                Append(@, [r |-> r, pos |-> pos, id |-> ids[pos], handle |-> e.handle])]
  IN  FoldLeft(start, s, [i \in DOMAIN ids |-> i])

tp_base_connection_dbus_request_handles(s, type, ids) ==
  LET r == Len(s.requests) + 1
      request == [s EXCEPT !.requests = Append(@,
                    [ids |-> ids, handles |-> [i \in DOMAIN ids |-> 0], n_pending |-> Len(ids),
                     context |-> TRUE, reply |-> << >>, told |-> "nothing"])]
  IN  IF ~s.connected \/ type # "contact" THEN Answer(request, r, <<"error">>)
      ELSE IF ids = << >> THEN Answer(request, r, << >>)
      ELSE EnsureAsync(request, r, ids)

(* HoldHandles, ReleaseHandles and InspectHandles of handles of the type. *)
tp_base_connection_hold_handles(s, hs) == s.connected /\ tp_handles_are_valid(s, hs, FALSE)

tp_base_connection_release_handles(s, hs) == s.connected /\ tp_handles_are_valid(s, hs, FALSE)

tp_base_connection_inspect_handles(s, hs) ==
  IF ~s.connected \/ ~tp_handles_are_valid(s, hs, FALSE) THEN <<"error">>
  ELSE [i \in DOMAIN hs |-> tp_handle_inspect(s, hs[i])]

(* What TpHandleSet of the repository puts into its map. *)
tp_handle_set_to_identifier_map(s, hs) ==
  [h \in {x \in hs : x # 0 /\ tp_handle_is_valid(s, x)} |-> tp_handle_inspect(s, h)]

RepoInit ==
  /\ self = [names |-> Static, map |-> << >>, connected |-> TRUE,
             requests |-> << >>, tasks |-> << >>, wire |-> << >>]
  /\ made = 0

RequestHandles ==
  \E type \in HandleTypes, ids \in IdLists :
    /\ Len(self.requests) < MaxCalls
    /\ self' = tp_base_connection_dbus_request_handles(self, type, ids)
    /\ UNCHANGED made

(* The idle source of the first task, or normalize_cb () of any of them, which may
   fail even for a good identifier. *)
CompleteInIdle ==
  /\ ~Async /\ self.tasks # << >>
  /\ LET t == Head(self.tasks) IN
     self' = ensure_handle_cb([self EXCEPT !.tasks = Tail(@)], t.r, t.pos, t.handle)
  /\ UNCHANGED made

normalize_cb ==
  /\ Async
  /\ \E i \in DOMAIN self.tasks :
       LET t == self.tasks[i]
           rest == [self EXCEPT !.tasks = RemoveAt(@, i)]
       IN  \/ LET e == ensure_handle_take_normalized_id(rest, normalize(t.id)) IN
              normalize(t.id) # "" /\ self' = ensure_handle_cb(e.repo, t.r, t.pos, e.handle)
           \/ self' = ensure_handle_cb(rest, t.r, t.pos, 0)
  /\ UNCHANGED made

Disconnect ==
  /\ self.connected
  /\ self' = [self EXCEPT !.connected = FALSE]
  /\ UNCHANGED made

(* connection_requested_handles () in the client. *)
connection_requested_handles ==
  /\ self.wire # << >>
  /\ LET r == Head(self.wire)
         q == self.requests[r]
     IN  self' = [self EXCEPT !.wire = Tail(@), !.requests[r].told =
                    IF q.reply = <<"error">> \/ Len(q.reply) # Len(q.ids) THEN "error" ELSE "handles"]
  /\ UNCHANGED made

RepoNext ==
  \/ RequestHandles \/ CompleteInIdle \/ normalize_cb \/ Disconnect
  \/ connection_requested_handles

Init == CASE Kind = "sets" -> SetsInit [] Kind = "heap" -> HeapInit [] Kind = "repo" -> RepoInit

Next ==
  \/ Kind = "sets" /\ (AddOrRemove \/ Update)
  \/ Kind = "heap" /\ (HeapAdd \/ HeapExtractFirst \/ HeapRemove)
  \/ Kind = "repo" /\ RepoNext

Spec == Init /\ [][Next]_vars

-----------------------------------------------------------------------------
(* The sets and sequences that the structures are built from. *)
TypeOK ==
  /\ Kind = "sets" =>
       \A s \in {self.left, self.right} :
         /\ s.largest_ever \in 0 .. GuintMax
         /\ \A key \in DOMAIN s.table :
              key % Bits = 0 /\ s.table[key] \in SUBSET (0 .. Bits - 1) \ {{}}
  /\ Kind = "heap" => self \in Seq(Elements) /\ Len(self) <= MaxHeap
  /\ Kind = "repo" =>
       /\ self.names \in Seq(STRING) /\ self.connected \in BOOLEAN
       /\ DOMAIN self.map \subseteq Range(self.names)
       /\ \A q \in Range(self.requests) : q.n_pending \in 0 .. Len(q.ids)

(* Every name in a repository has one handle and every handle one name, whichever
   requests for it were in flight together. *)
OneHandleEach ==
  Kind = "repo" =>
    /\ \A h \in DOMAIN self.names :
         /\ tp_handle_lookup(self, self.names[h]) = h
         /\ Static = << >> => lookup_exact(self, self.names[h]) = h
    /\ Cardinality(Range(self.names)) = Len(self.names)

(* A RequestHandles call is answered once: with an error as soon as one name fails,
   and otherwise when no name is pending; no name's slot is filled twice; and the
   handles that the client was told are, for ever, those of its names: they can be
   held, released, inspected and looked up. *)
RequestsAnswered ==
  Kind = "repo" =>
    \A r \in DOMAIN self.requests :
      LET q == self.requests[r]
          pending == {t \in Range(self.tasks) : t.r = r}
          replies == Cardinality({i \in DOMAIN self.wire : self.wire[i] = r})
                     + (IF q.told = "nothing" THEN 0 ELSE 1)
      IN  /\ replies = IF q.context THEN 0 ELSE 1
          /\ q.context => pending # {} /\ q.n_pending = Cardinality(pending)
          /\ \A t \in pending : q.handles[t.pos] = 0
          /\ q.told = "handles" =>
               /\ q.reply = q.handles
               /\ self.connected =>
                    /\ tp_base_connection_hold_handles(self, q.reply)
                    /\ tp_base_connection_release_handles(self, q.reply)
                    /\ tp_base_connection_inspect_handles(self, q.reply) =
                         [i \in DOMAIN q.ids |-> normalize(q.ids[i])]
               /\ \A i \in DOMAIN q.ids : tp_handle_lookup(self, q.ids[i]) = q.reply[i]
               /\ tp_handle_set_to_identifier_map(self, Range(q.reply) \union {0}) =
                    [h \in Range(q.reply) |-> self.names[h]]

(* A handle keeps its meaning. *)
HandlesArePermanent == Kind = "repo" => IsPrefix(self.names, self.names')
=============================================================================
