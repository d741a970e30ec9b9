----------------------------- MODULE MediaOffers -----------------------------
(***************************************************************************)
(* Media description offers of a call content on the service side:         *)
(* base-media-call-content.c queues the descriptions the connection        *)
(* manager offers and puts one at a time on the bus                        *)
(* (call-content-media-description.c), where the streaming implementation  *)
(* accepts or rejects it; removing the content cancels the current one.    *)
(***************************************************************************)
EXTENDS Naturals, Sequences, SequenceTheorems, TLAPS

CONSTANTS
  Descriptions,   \* the media description objects
  Contacts,       \* their remote contacts
  RemoteContact,  \* [Descriptions -> Contacts]
  HasRemote,      \* the descriptions with remote information
  MaxUpdates      \* bound on UpdateLocalMediaDescription calls

SoundConstants ==
  /\ RemoteContact \in [Descriptions -> Contacts]
  /\ HasRemote \subseteq Descriptions
  /\ MaxUpdates \in Nat
  /\ {"none", "updated"} \cap Descriptions = {}

None == "none"

VARIABLES
  content,   \* TpBaseMediaCallContent: current, result, cancellable, queue,
             \* local and remote descriptions; gone: deinit has run,
             \* disposed: the last reference went
  md,        \* TpCallContentMediaDescription, per description
  idle,      \* descriptions whose cancelled result is to complete in idle
  answers,   \* the offers answered to the connection manager, in order
  seen       \* dropped: the offers queued at removal; asked: the others, in the
             \* order they were made; updates; aborted: a g_assert failed

vars == <<content, md, idle, answers, seen>>

Init ==
  /\ content = [current |-> None, result |-> FALSE, cancellable |-> FALSE,
                queue |-> <<>>, local |-> [c \in Contacts |-> None],
                remote |-> [c \in Contacts |-> None],
                gone |-> FALSE, disposed |-> FALSE]
  /\ md = [d \in Descriptions |->
             [result |-> FALSE, cancellable |-> FALSE, registered |-> FALSE]]
  /\ idle = {}
  /\ answers = <<>>
  /\ seen = [asked |-> <<>>, dropped |-> {}, updates |-> 0, aborted |-> FALSE]

-----------------------------------------------------------------------------
(* next_offer: the head of the queue becomes the current offer, and        *)
(* _tp_call_content_media_description_offer_async registers it.            *)

MayStartNext(c) == ~c.result /\ c.queue # <<>>

(* BUG: the next offer does not wait for the current one.                  *)
MayStartNextAlways(c) == c.queue # <<>>

StartsNext(c) == MayStartNext(c)

Started(c) ==
  IF StartsNext(c)
  THEN [c EXCEPT !.current = Head(c.queue), !.result = TRUE,
                 !.cancellable = TRUE, !.queue = Tail(c.queue)]
  ELSE c

Offered(m, c) ==
  IF StartsNext(c)
  THEN [m EXCEPT ![Head(c.queue)] =
          [result |-> TRUE, cancellable |-> TRUE, registered |-> TRUE]]
  ELSE m

(* The g_asserts of next_offer.                                            *)
NextAborts(c) == StartsNext(c) /\ (c.current # None \/ c.cancellable)

(* A content that was removed still takes offers while the connection      *)
(* manager holds it: the offer goes on the bus, and nothing cancels it.    *)
OfferMediaDescription(d) ==
  /\ ~content.disposed /\ ~seen.aborted
  /\ d \notin seen.dropped /\ \A i \in DOMAIN seen.asked : seen.asked[i] # d
  /\ \E c \in {[content EXCEPT !.queue = Append(@, d)]} :
       /\ content' = Started(c)
       /\ md' = Offered(md, c)
       /\ seen' = [seen EXCEPT !.asked = Append(@, d),
                               !.aborted = @ \/ NextAborts(c)]
  /\ UNCHANGED <<idle, answers>>

-----------------------------------------------------------------------------
(* offer_finished_cb: an accepted offer sets both descriptions of its      *)
(* contact; the result completes, and the next offer starts.               *)

Accepted(c, d) ==
  [c EXCEPT !.local[RemoteContact[d]] = d, !.remote[RemoteContact[d]] = d]

(* BUG: only the local description is set.                                 *)
AcceptedLocally(c, d) == [c EXCEPT !.local[RemoteContact[d]] = d]

AcceptedBy(c, d) == Accepted(c, d)

Finished(c, d, accepted) ==
  [(IF accepted THEN AcceptedBy(c, d) ELSE c) EXCEPT
     !.current = None, !.result = FALSE, !.cancellable = FALSE]

(* The description answers: with m its object's fields after that, and c   *)
(* the content once offer_finished_cb has cleared the current offer.       *)
FinishOffer(d, m, c) ==
  /\ content' = Started(c)
  /\ md' = Offered(m, c)
  /\ answers' = Append(answers, d)
  /\ seen' = [seen EXCEPT !.aborted =
                 @ \/ content.current # d \/ NextAborts(c)]

Unregistered == [result |-> FALSE, cancellable |-> FALSE, registered |-> FALSE]

(* Accept: the cancellable is dropped before the codecs are looked at, so  *)
(* a call refused for its codecs leaves an offer nothing can cancel.       *)
Accept(d) ==
  /\ md[d].registered /\ ~seen.aborted
  /\ FinishOffer(d, [md EXCEPT ![d] = Unregistered], Finished(content, d, TRUE))
  /\ UNCHANGED idle

AcceptRefused(d) ==
  /\ md[d].registered /\ md[d].cancellable /\ ~seen.aborted
  /\ md' = [md EXCEPT ![d].cancellable = FALSE]
  /\ UNCHANGED <<content, idle, answers, seen>>

(* Reject is refused for a description without remote information.         *)
Reject(d) ==
  /\ md[d].registered /\ ~seen.aborted
  /\ d \in HasRemote
  /\ FinishOffer(d, [md EXCEPT ![d] = Unregistered], Finished(content, d, FALSE))
  /\ UNCHANGED idle

(* The cancelled result's idle.                                            *)
CancelledIdle(d) ==
  /\ d \in idle /\ ~seen.aborted
  /\ idle' = idle \ {d}
  /\ FinishOffer(d, md, Finished(content, d, FALSE))

(* UpdateLocalMediaDescription, refused for a contact without description  *)
(* and while an offer for the contact is outstanding.                      *)
MayUpdate(c) ==
  /\ content.local[c] # None
  /\ ~(content.current # None /\ RemoteContact[content.current] = c)

(* BUG: an initial description can be put in place by the client.          *)
MayUpdateInitial(c) ==
  ~(content.current # None /\ RemoteContact[content.current] = c)

Updatable(c) == MayUpdate(c)

UpdateLocalMediaDescription(c) ==
  /\ ~content.gone /\ ~seen.aborted
  /\ seen.updates < MaxUpdates
  /\ Updatable(c)
  /\ content' = [content EXCEPT !.local[c] = "updated"]
  /\ seen' = [seen EXCEPT !.updates = @ + 1]
  /\ UNCHANGED <<md, idle, answers>>

-----------------------------------------------------------------------------
(* deinit drops the queued offers and cancels the current one              *)
(* (cancelled_cb of the description, when it still listens).               *)

Dropped(c) == [c EXCEPT !.queue = <<>>, !.gone = TRUE]

(* BUG: the queue is left, and the next offer starts in a removed content. *)
DroppedCurrentOnly(c) == [c EXCEPT !.gone = TRUE]

Deinitialised(c) == Dropped(c)

Deinit ==
  /\ ~content.gone /\ ~seen.aborted
  /\ content' = Deinitialised(content)
  /\ seen' = [seen EXCEPT !.dropped = {content.queue[i] : i \in DOMAIN content.queue},
                          !.asked = SubSeq(@, 1, Len(@) - Len(content.queue))]
  /\ \E cancelled \in {{d \in {content.current} \ {None} :
                          content.cancellable /\ md[d].cancellable}} :
       /\ md' = [d \in Descriptions |->
                   IF d \in cancelled THEN Unregistered ELSE md[d]]
       /\ idle' = idle \cup cancelled
  /\ UNCHANGED answers

(* The last reference: results and the current offer's callback hold one.  *)
Dispose ==
  /\ content.gone /\ ~content.disposed /\ ~seen.aborted
  /\ ~content.result /\ content.queue = <<>>
  /\ content' = [content EXCEPT !.disposed = TRUE]
  /\ seen' = [seen EXCEPT !.aborted = @ \/ content.current # None]
  /\ UNCHANGED <<md, idle, answers>>

Next ==
  \/ \E d \in Descriptions :
       \/ OfferMediaDescription(d)
       \/ Accept(d)
       \/ AcceptRefused(d)
       \/ Reject(d)
       \/ CancelledIdle(d)
  \/ \E c \in Contacts : UpdateLocalMediaDescription(c)
  \/ Deinit
  \/ Dispose

Spec == Init /\ [][Next]_vars

-----------------------------------------------------------------------------
(* Properties                                                              *)

(* The fields have their types.                                            *)
TypeOK ==
  /\ content.current \in Descriptions \cup {None}
  /\ content.queue \in Seq(Descriptions)
  /\ \A c \in Contacts :
       /\ content.local[c] \in Descriptions \cup {None, "updated"}
       /\ content.remote[c] \in Descriptions \cup {None}
  /\ idle \subseteq Descriptions

(* The g_asserts of offer_finished_cb, next_offer and dispose hold: the    *)
(* answer is always the current offer's, no offer starts over another one, *)
(* and no content goes with an offer outstanding.                          *)
AssertionsHold == ~seen.aborted

(* One offer at a time: only the current offer is on the bus for the       *)
(* streaming implementation to answer, and none once the content is        *)
(* disposed.                                                               *)
OneOfferOnTheBus ==
  \A d \in Descriptions : md[d].registered =>
    content.current = d /\ ~content.disposed

(* The local and the remote description of a contact come from the same    *)
(* offer, the last one accepted for it, or the local one is an update of   *)
(* it: never one without the other.                                        *)
DescriptionsPaired ==
  \A c \in Contacts :
    /\ (content.local[c] = None) <=> (content.remote[c] = None)
    /\ content.local[c] \notin {None, "updated"}
         => content.local[c] = content.remote[c]

(* Offers are answered once, in the order they were made, and none gets    *)
(* lost: one not answered yet is current or queued, unless it was queued   *)
(* when the content was removed, and then it is never answered.            *)
OffersAnsweredInOrder ==
  /\ \A i, j \in DOMAIN answers : answers[i] = answers[j] => i = j
  /\ \A i \in DOMAIN answers : answers[i] = seen.asked[i] /\ answers[i] \notin seen.dropped
  /\ \A i \in DOMAIN seen.asked :
       i > Len(answers) =>
         \/ i = Len(answers) + 1 /\ content.current = seen.asked[i]
         \/ \E k \in DOMAIN content.queue : content.queue[k] = seen.asked[i]

(* What the streaming implementation is asked and what the connection      *)
(* manager is answered: the four together.                                 *)
AnsweredInOrder ==
  AssertionsHold /\ OneOfferOnTheBus /\ DescriptionsPaired /\ OffersAnsweredInOrder
-----------------------------------------------------------------------------
(* Proofs, for any descriptions and contacts.                              *)

TpBaseMediaCallContent ==
  [ current : Descriptions \cup {None}, result : BOOLEAN, cancellable : BOOLEAN,
    queue : Seq(Descriptions), local : [Contacts -> Descriptions \cup {None, "updated"}],
    remote : [Contacts -> Descriptions \cup {None}], gone : BOOLEAN, disposed : BOOLEAN ]

MediaDescription == [result : BOOLEAN, cancellable : BOOLEAN, registered : BOOLEAN]

Seens ==
  [ asked : Seq(Descriptions), dropped : SUBSET Descriptions, updates : Nat, aborted : BOOLEAN ]

Types ==
  /\ content \in TpBaseMediaCallContent /\ md \in [Descriptions -> MediaDescription]
  /\ idle \in SUBSET Descriptions /\ answers \in Seq(Descriptions) /\ seen \in Seens

(* The current offer, its result and its cancellable come and go together.  *)
Coherent(c) == (c.result <=> c.current # None) /\ (c.cancellable <=> c.current # None)

(* The current offer is on the bus or was cancelled, and no other is either. *)
OnTheBus(c, m, l) ==
  /\ \A d \in Descriptions : m[d].registered => c.current = d
  /\ \A d \in l : c.current = d /\ c.gone /\ ~m[d].registered
  /\ c.current # None => m[c.current].registered \/ c.current \in l

(* What was asked (q) is what was answered (a), then what is current, then what
   is queued. *)
Begun(c, a) == Len(a) + (IF c.current = None THEN 0 ELSE 1)

Ordered(c, a, q) ==
  /\ Len(a) <= Len(q) /\ \A i \in 1..Len(a) : a[i] = q[i]
  /\ c.current # None => Len(a) + 1 <= Len(q) /\ q[Len(a) + 1] = c.current
  /\ Len(q) = Begun(c, a) + Len(c.queue)
  /\ \A k \in 1..Len(c.queue) : c.queue[k] = q[Begun(c, a) + k]

Distinct ==
  /\ \A i, j \in 1..Len(seen.asked) : seen.asked[i] = seen.asked[j] => i = j
  /\ \A i \in 1..Len(seen.asked) : seen.asked[i] \notin seen.dropped

(* A content that is removed, then disposed, has no offer left.             *)
AtRest == content.disposed => content.gone /\ content.current = None

IInv ==
  /\ Types /\ Coherent(content) /\ OnTheBus(content, md, idle)
  /\ Ordered(content, answers, seen.asked) /\ Distinct /\ AtRest
  /\ DescriptionsPaired /\ AssertionsHold

(* The time a step may take, for a busy machine too. *)
USE SMTT(60)

(* A sequence, its parts and what an element more makes of it.              *)
LEMMA TailFacts ==
  ASSUME NEW S, NEW w \in Seq(S), w # <<>>
  PROVE  /\ Len(w) \in Nat /\ Len(w) > 0 /\ Head(w) \in S /\ Head(w) = w[1]
         /\ Tail(w) \in Seq(S) /\ Len(Tail(w)) = Len(w) - 1
         /\ \A i \in 1..(Len(w) - 1) : Tail(w)[i] = w[i + 1]
<1>1. Len(w) \in Nat /\ Len(w) # 0 /\ Head(w) = w[1]
  BY LenProperties, EmptySeq
<1>2. /\ Head(w) \in S /\ Tail(w) \in Seq(S) /\ Len(Tail(w)) = Len(w) - 1
      /\ \A i \in 1..Len(Tail(w)) : Tail(w)[i] = w[i + 1]
  BY HeadTailProperties
<1> QED
  BY <1>1, <1>2

LEMMA AppendFacts ==
  ASSUME NEW S, NEW w \in Seq(S), NEW e \in S
  PROVE  /\ Append(w, e) \in Seq(S) /\ Len(Append(w, e)) = Len(w) + 1 /\ Len(w) \in Nat
         /\ Append(w, e)[Len(w) + 1] = e /\ \A i \in 1..Len(w) : Append(w, e)[i] = w[i]
<1>1. Len(w) \in Nat
  BY LenProperties
<1>2. /\ Append(w, e) \in Seq(S) /\ Len(Append(w, e)) = Len(w) + 1
      /\ \A i \in 1..(Len(w) + 1) : Append(w, e)[i] = IF i <= Len(w) THEN w[i] ELSE e
  BY <1>1
<1>3. \A i \in 1..Len(w) : i \in 1..(Len(w) + 1) /\ i <= Len(w)
  BY <1>1
<1>4. Len(w) + 1 \in 1..(Len(w) + 1) /\ ~(Len(w) + 1 <= Len(w))
  BY <1>1
<1> QED
  BY <1>1, <1>2, <1>3, <1>4

(* next_offer: nothing happens, or the head of the queue becomes current.   *)
LEMMA StartedFacts ==
  ASSUME NEW c \in TpBaseMediaCallContent, NEW u, u = Started(c)
  PROVE  /\ u \in TpBaseMediaCallContent /\ u.local = c.local /\ u.remote = c.remote
         /\ u.gone = c.gone /\ u.disposed = c.disposed
         /\ \/ /\ StartsNext(c) /\ c.queue # <<>> /\ ~c.result
               /\ u.current = Head(c.queue) /\ u.queue = Tail(c.queue)
               /\ u.result = TRUE /\ u.cancellable = TRUE
            \/ ~StartsNext(c) /\ u = c
<1>1. CASE StartsNext(c)
  <2> DEFINE x == [c EXCEPT !.current = Head(c.queue)]
             y == [x EXCEPT !.result = TRUE]
             z == [y EXCEPT !.cancellable = TRUE]
  <2>1. c.queue \in Seq(Descriptions) /\ c.queue # <<>> /\ ~c.result
    BY <1>1 DEF StartsNext, MayStartNext, TpBaseMediaCallContent
  <2>2. Head(c.queue) \in Descriptions /\ Tail(c.queue) \in Seq(Descriptions)
    BY <2>1, TailFacts
  <2>3. u = [z EXCEPT !.queue = Tail(c.queue)]
    BY <1>1 DEF Started, TpBaseMediaCallContent
  <2>4. x \in TpBaseMediaCallContent
    BY <2>2 DEF TpBaseMediaCallContent
  <2>5. /\ x.result = c.result /\ x.cancellable = c.cancellable /\ x.gone = c.gone
        /\ x.disposed = c.disposed
    BY <2>2, ZenonT(40) DEF TpBaseMediaCallContent
  <2>6. /\ x.current = Head(c.queue) /\ x.queue = c.queue /\ x.local = c.local
        /\ x.remote = c.remote
    BY <2>2 DEF TpBaseMediaCallContent
  <2> HIDE DEF x
  <2>7. y \in TpBaseMediaCallContent
    BY <2>4, Zenon DEF TpBaseMediaCallContent
  <2>8. /\ y.result = TRUE /\ y.cancellable = x.cancellable /\ y.gone = x.gone
        /\ y.disposed = x.disposed
    BY <2>4, ZenonT(40) DEF TpBaseMediaCallContent
  <2>9. /\ y.current = x.current /\ y.queue = x.queue /\ y.local = x.local
        /\ y.remote = x.remote
    BY <2>4 DEF TpBaseMediaCallContent
  <2> HIDE DEF y
  <2>10. z \in TpBaseMediaCallContent
    BY <2>7, Zenon DEF TpBaseMediaCallContent
  <2>11. /\ z.result = y.result /\ z.cancellable = TRUE /\ z.gone = y.gone
         /\ z.disposed = y.disposed
    BY <2>7, ZenonT(40) DEF TpBaseMediaCallContent
  <2>12. /\ z.current = y.current /\ z.queue = y.queue /\ z.local = y.local
         /\ z.remote = y.remote
    BY <2>7 DEF TpBaseMediaCallContent
  <2> HIDE DEF z
  <2>13. u \in TpBaseMediaCallContent
    BY <2>2, <2>3, <2>10, Zenon DEF TpBaseMediaCallContent
  <2>14. /\ u.result = z.result /\ u.cancellable = z.cancellable /\ u.gone = z.gone
         /\ u.disposed = z.disposed
    BY <2>2, <2>3, <2>10, ZenonT(40) DEF TpBaseMediaCallContent
  <2>15. /\ u.current = z.current /\ u.queue = Tail(c.queue) /\ u.local = z.local
         /\ u.remote = z.remote
    BY <2>2, <2>3, <2>10 DEF TpBaseMediaCallContent
  <2> QED
    BY <1>1, <2>1, <2>5, <2>6, <2>8, <2>9, <2>11, <2>12, <2>13, <2>14, <2>15
<1>2. CASE ~StartsNext(c)
  BY <1>2 DEF Started
<1> QED
  BY <1>1, <1>2, Zenon

Keeps(c, u, n, l, a, q) ==
  /\ u \in TpBaseMediaCallContent /\ u.local = c.local /\ u.remote = c.remote
  /\ u.gone = c.gone /\ u.disposed = c.disposed
  /\ n \in [Descriptions -> MediaDescription]
  /\ Coherent(u) /\ OnTheBus(u, n, l) /\ Ordered(u, a, q)
  /\ ~NextAborts(c)

(* Starting the next offer keeps the order, and no assertion of next_offer
   fails. *)
LEMMA StartedKeeps ==
  ASSUME SoundConstants, NEW c \in TpBaseMediaCallContent,
         NEW m \in [Descriptions -> MediaDescription], NEW l \in SUBSET Descriptions,
         NEW a \in Seq(Descriptions), NEW q \in Seq(Descriptions),
         Coherent(c), OnTheBus(c, m, l), Ordered(c, a, q),
         NEW u, u = Started(c), NEW n, n = Offered(m, c)
  PROVE  Keeps(c, u, n, l, a, q)
<1>1. /\ u \in TpBaseMediaCallContent /\ u.local = c.local /\ u.remote = c.remote
      /\ u.gone = c.gone /\ u.disposed = c.disposed
      /\ \/ /\ StartsNext(c) /\ c.queue # <<>> /\ ~c.result
            /\ u.current = Head(c.queue) /\ u.queue = Tail(c.queue)
            /\ u.result = TRUE /\ u.cancellable = TRUE
         \/ ~StartsNext(c) /\ u = c
  BY StartedFacts, Zenon
<1>2. CASE ~StartsNext(c)
  <2>1. u = c /\ n = m /\ ~NextAborts(c)
    BY <1>1, <1>2 DEF Offered, NextAborts
  <2> QED
    BY <2>1 DEF Keeps
<1>3. CASE StartsNext(c)
  <2> DEFINE h == Head(c.queue)
             r == [result |-> TRUE, cancellable |-> TRUE, registered |-> TRUE]
  <2>1. /\ c.queue # <<>> /\ ~c.result /\ u.current = h /\ u.queue = Tail(c.queue)
        /\ u.result = TRUE /\ u.cancellable = TRUE /\ c.queue \in Seq(Descriptions)
    BY <1>1, <1>3 DEF TpBaseMediaCallContent
  <2>2. /\ Len(c.queue) \in Nat /\ Len(c.queue) > 0 /\ h \in Descriptions /\ h = c.queue[1]
        /\ Len(u.queue) = Len(c.queue) - 1
        /\ \A i \in 1..(Len(c.queue) - 1) : u.queue[i] = c.queue[i + 1]
    BY <2>1, TailFacts
  <2>3. h # None
    BY <2>2 DEF SoundConstants, None
  <2>4. c.current = None /\ ~c.cancellable
    BY <2>1 DEF Coherent
  <2>5. n = [m EXCEPT ![h] = r]
    BY <1>3 DEF Offered
  <2> HIDE DEF h
  <2>6. n \in [Descriptions -> MediaDescription]
    <3>1. r \in MediaDescription
      BY DEF MediaDescription
    <3> HIDE DEF r
    <3> QED
      BY <2>5, <3>1, Zenon
  <2>7. n[h].registered /\ \A d \in Descriptions \ {h} : n[d] = m[d]
    <3>1. r.registered
      OBVIOUS
    <3> HIDE DEF r
    <3> QED
      BY <2>2, <2>5, <3>1
  <2>8. Coherent(u)
    BY <2>1, <2>3 DEF Coherent
  <2>9. OnTheBus(u, n, l)
    <3>1. \A d \in Descriptions : ~m[d].registered
      <4>1. None \notin Descriptions
        BY DEF SoundConstants, None
      <4> QED
        BY <2>4, <4>1 DEF OnTheBus
    <3>2. l = {}
      <4>1. None \notin Descriptions
        BY DEF SoundConstants, None
      <4> QED
        BY <2>4, <4>1 DEF OnTheBus
    <3> QED
      BY <2>1, <2>7, <3>1, <3>2 DEF OnTheBus
  <2>10. Ordered(u, a, q)
    <3>1. Len(a) \in Nat /\ Len(q) \in Nat
      BY LenProperties
    <3>2. Begun(c, a) = Len(a) /\ Begun(u, a) = Len(a) + 1
      BY <2>1, <2>3, <2>4, <3>1 DEF Begun
    <3>3. /\ Len(a) <= Len(q) /\ (\A i \in 1..Len(a) : a[i] = q[i])
          /\ Len(q) = Len(a) + Len(c.queue)
          /\ \A k \in 1..Len(c.queue) : c.queue[k] = q[Len(a) + k]
      BY <2>4, <3>2 DEF Ordered
    <3>4. Len(a) + 1 <= Len(q) /\ q[Len(a) + 1] = h
      BY <2>2, <3>1, <3>3
    <3>5. Len(q) = (Len(a) + 1) + Len(u.queue)
      <4> DEFINE x == Len(a)
                 y == Len(c.queue)
                 z == Len(q)
                 w == Len(u.queue)
      <4>1. x \in Nat /\ y \in Nat /\ z = x + y /\ w = y - 1
        BY <2>2, <3>1, <3>3
      <4> HIDE DEF x, y, z, w
      <4>2. z = (x + 1) + w
        BY <4>1
      <4> QED
        BY <4>2, ZenonT(40) DEF x, z, w
    <3>6. ASSUME NEW k \in 1..Len(u.queue)
          PROVE  u.queue[k] = q[(Len(a) + 1) + k]
      <4>1. /\ k \in 1..(Len(c.queue) - 1) /\ Len(c.queue) \in Nat /\ Len(a) \in Nat
        BY <2>2, <3>1, <3>6
      <4>2. k + 1 \in 1..Len(c.queue) /\ Len(a) + (k + 1) = (Len(a) + 1) + k
        BY <4>1
      <4>3. c.queue[k + 1] = q[Len(a) + (k + 1)]
        BY <3>3, <4>2, Zenon
      <4> QED
        BY <2>2, <4>1, <4>2, <4>3
    <3> QED
      BY <2>1, <3>2, <3>3, <3>4, <3>5, <3>6, ZenonT(60) DEF Ordered
  <2>11. ~NextAborts(c)
    BY <2>4 DEF NextAborts
  <2> QED
    BY <1>1, <2>4, <2>6, <2>8, <2>9, <2>10, <2>11 DEF Keeps
<1> QED
  BY <1>2, <1>3

LEMMA InitIInv ==
  ASSUME SoundConstants, Init
  PROVE  IInv
<1>1. /\ content.current = None /\ content.queue = <<>>
      /\ content.local = [c \in Contacts |-> None] /\ content.remote = [c \in Contacts |-> None]
      /\ answers = <<>> /\ seen.asked = <<>> /\ seen.dropped = {} /\ seen.updates = 0 /\ idle = {}
  BY DEF Init
<1>2. /\ content.result = FALSE /\ content.cancellable = FALSE /\ content.gone = FALSE
      /\ content.disposed = FALSE /\ seen.aborted = FALSE
  BY ZenonT(40) DEF Init
<1>3. \A d \in Descriptions : md[d].registered = FALSE
  BY ZenonT(40) DEF Init
<1>4. Types
  <2>1. <<>> \in Seq(Descriptions)
    OBVIOUS
  <2>2. content \in TpBaseMediaCallContent
    BY DEF Init, TpBaseMediaCallContent
  <2>3. md \in [Descriptions -> MediaDescription]
    BY DEF Init, MediaDescription
  <2>4. seen \in Seens /\ idle \in SUBSET Descriptions /\ answers \in Seq(Descriptions)
    BY DEF Init, Seens
  <2> QED
    BY <2>2, <2>3, <2>4 DEF Types
<1>5. Coherent(content)
  BY <1>1, <1>2 DEF Coherent
<1>6. OnTheBus(content, md, idle)
  BY <1>1, <1>3 DEF OnTheBus
<1>7. Ordered(content, answers, seen.asked)
  <2>1. Len(<<>>) = 0
    OBVIOUS
  <2>2. Begun(content, answers) = 0
    BY <1>1, <2>1 DEF Begun
  <2> QED
    BY <1>1, <1>2, <2>1, <2>2 DEF Ordered
<1>8. Distinct /\ AtRest
  BY <1>1, <1>2 DEF Distinct, AtRest
<1>9. DescriptionsPaired /\ AssertionsHold
  BY <1>1, <1>2 DEF DescriptionsPaired, AssertionsHold
<1> QED
  BY <1>4, <1>5, <1>6, <1>7, <1>8, <1>9 DEF IInv

(* tp_base_media_call_content_offer_media_description_async. *)
LEMMA OfferStep ==
  ASSUME SoundConstants, IInv, NEW d \in Descriptions, OfferMediaDescription(d)
  PROVE  IInv'
<1> DEFINE c == [content EXCEPT !.queue = Append(@, d)]
           q == Append(seen.asked, d)
<1>1. /\ content \in TpBaseMediaCallContent /\ md \in [Descriptions -> MediaDescription]
      /\ idle \in SUBSET Descriptions /\ answers \in Seq(Descriptions) /\ seen \in Seens
      /\ content.queue \in Seq(Descriptions) /\ seen.asked \in Seq(Descriptions)
  BY DEF IInv, Types, TpBaseMediaCallContent, Seens
<1>2. /\ content' = Started(c) /\ md' = Offered(md, c) /\ ~content.disposed
      /\ seen' = [seen EXCEPT !.asked = q, !.aborted = @ \/ NextAborts(c)]
      /\ idle' = idle /\ answers' = answers
      /\ d \notin seen.dropped /\ \A i \in DOMAIN seen.asked : seen.asked[i] # d
  BY Zenon DEF OfferMediaDescription
<1>3. /\ Append(content.queue, d) \in Seq(Descriptions)
      /\ Len(Append(content.queue, d)) = Len(content.queue) + 1 /\ Len(content.queue) \in Nat
      /\ Append(content.queue, d)[Len(content.queue) + 1] = d
      /\ \A i \in 1..Len(content.queue) : Append(content.queue, d)[i] = content.queue[i]
  BY <1>1, AppendFacts
<1>4. /\ q \in Seq(Descriptions) /\ Len(q) = Len(seen.asked) + 1 /\ Len(seen.asked) \in Nat
      /\ q[Len(seen.asked) + 1] = d /\ \A i \in 1..Len(seen.asked) : q[i] = seen.asked[i]
  BY <1>1, AppendFacts
<1>5. Len(answers) \in Nat /\ DOMAIN seen.asked = 1..Len(seen.asked)
  BY <1>1, LenProperties
<1>6. c \in TpBaseMediaCallContent
  BY <1>1, <1>3, Zenon DEF TpBaseMediaCallContent
<1>7. /\ c.result = content.result /\ c.cancellable = content.cancellable
      /\ c.gone = content.gone /\ c.disposed = content.disposed
  BY <1>1, <1>3, ZenonT(40) DEF TpBaseMediaCallContent
<1>8. /\ c.current = content.current /\ c.queue = Append(content.queue, d)
      /\ c.local = content.local /\ c.remote = content.remote
  BY <1>1, <1>3 DEF TpBaseMediaCallContent
<1> HIDE DEF c, q
<1>9. Coherent(c) /\ OnTheBus(c, md, idle)
  BY <1>7, <1>8 DEF IInv, Coherent, OnTheBus
<1>10. Ordered(c, answers, q)
  <2>1. Begun(c, answers) = Begun(content, answers)
    BY <1>8 DEF Begun
  <2>2. PICK b \in Nat : b = Begun(content, answers)
    BY <1>5 DEF Begun
  <2>3. /\ Len(answers) <= Len(seen.asked) /\ (\A i \in 1..Len(answers) : answers[i] = seen.asked[i])
        /\ Len(seen.asked) = b + Len(content.queue)
        /\ \A k \in 1..Len(content.queue) : content.queue[k] = seen.asked[b + k]
    BY <1>2, <2>2 DEF IInv, Ordered
  <2>4. content.current # None =>
          Len(answers) + 1 <= Len(seen.asked) /\ seen.asked[Len(answers) + 1] = content.current
    BY DEF IInv, Ordered
  <2>5. Len(answers) <= Len(q) /\ \A i \in 1..Len(answers) : answers[i] = q[i]
    BY <1>4, <1>5, <2>3
  <2>6. c.current # None => Len(answers) + 1 <= Len(q) /\ q[Len(answers) + 1] = c.current
    BY <1>4, <1>5, <1>8, <2>4
  <2>7. Len(q) = b + Len(c.queue)
    <3>1. /\ Len(q) = Len(seen.asked) + 1 /\ Len(seen.asked) = b + Len(content.queue)
          /\ Len(c.queue) = Len(content.queue) + 1 /\ Len(content.queue) \in Nat
      BY <1>3, <1>4, <1>8, <2>3
    <3> QED
      BY <3>1
  <2>8. ASSUME NEW k \in 1..Len(c.queue)
        PROVE  c.queue[k] = q[b + k]
    <3>1. k \in Nat /\ (k \in 1..Len(content.queue) \/ k = Len(content.queue) + 1)
      BY <1>3, <1>8, <2>8
    <3>2. CASE k \in 1..Len(content.queue)
      <4>1. b + k \in 1..Len(seen.asked)
        BY <1>3, <2>3, <3>2
      <4> QED
        BY <1>3, <1>4, <1>8, <2>3, <3>2, <4>1
    <3>3. CASE k = Len(content.queue) + 1
      <4>1. b + k = Len(seen.asked) + 1
        BY <1>3, <2>3, <3>3
      <4> QED
        BY <1>3, <1>4, <1>8, <3>3, <4>1
    <3> QED
      BY <3>1, <3>2, <3>3
  <2> QED
    BY <2>1, <2>2, <2>5, <2>6, <2>7, <2>8 DEF Ordered
<1>11. /\ content' \in TpBaseMediaCallContent /\ content'.local = c.local
       /\ content'.remote = c.remote /\ content'.gone = c.gone /\ content'.disposed = c.disposed
       /\ md' \in [Descriptions -> MediaDescription]
       /\ Coherent(content') /\ OnTheBus(content', md', idle) /\ Ordered(content', answers, q)
       /\ ~NextAborts(c)
  <2>1. Keeps(c, content', md', idle, answers, q)
    BY <1>1, <1>2, <1>4, <1>6, <1>9, <1>10, StartedKeeps
  <2> QED
    BY <2>1 DEF Keeps
<1>12. seen' \in Seens /\ seen'.asked = q /\ seen'.dropped = seen.dropped
  <2> DEFINE s == [seen EXCEPT !.asked = q]
  <2>1. s \in Seens /\ s.asked = q /\ s.dropped = seen.dropped
    BY <1>1, <1>4, Zenon DEF Seens
  <2>2. seen' = [s EXCEPT !.aborted = @ \/ NextAborts(c)]
    BY <1>1, <1>2 DEF Seens
  <2> HIDE DEF s
  <2>3. seen' \in Seens
    BY <2>1, <2>2, ZenonT(40) DEF Seens
  <2> QED
    BY <2>1, <2>2, <2>3 DEF Seens
<1>13. AssertionsHold'
  BY <1>1, <1>2, <1>11, ZenonT(40) DEF IInv, AssertionsHold, Seens
<1>14. Types'
  BY <1>1, <1>2, <1>11, <1>12 DEF Types
<1>15. Distinct'
  BY <1>2, <1>4, <1>5, <1>12 DEF IInv, Distinct
<1>16. AtRest'
  <2>1. ~content'.disposed
    BY <1>2, <1>7, <1>11
  <2> QED
    BY <2>1 DEF AtRest
<1>17. DescriptionsPaired'
  BY <1>8, <1>11 DEF IInv, DescriptionsPaired
<1> QED
  BY <1>2, <1>11, <1>12, <1>13, <1>14, <1>15, <1>16, <1>17 DEF IInv

(* offer_finished_cb for an accepted offer: both descriptions of its contact. *)
LEMMA AcceptedFacts ==
  ASSUME SoundConstants, NEW c \in TpBaseMediaCallContent, NEW d \in Descriptions,
         NEW u, u = AcceptedBy(c, d)
  PROVE  /\ u \in TpBaseMediaCallContent /\ u.result = c.result
         /\ u.cancellable = c.cancellable /\ u.gone = c.gone /\ u.disposed = c.disposed
         /\ u.current = c.current /\ u.queue = c.queue
         /\ u.local = [c.local EXCEPT ![RemoteContact[d]] = d]
         /\ u.remote = [c.remote EXCEPT ![RemoteContact[d]] = d]
<1> DEFINE f == [c.local EXCEPT ![RemoteContact[d]] = d]
           g == [c.remote EXCEPT ![RemoteContact[d]] = d]
           x == [c EXCEPT !.local = f]
<1>1. /\ c.local \in [Contacts -> Descriptions \cup {None, "updated"}]
      /\ c.remote \in [Contacts -> Descriptions \cup {None}]
  BY DEF TpBaseMediaCallContent
<1>2. u = [x EXCEPT !.remote = g]
  BY DEF AcceptedBy, Accepted, TpBaseMediaCallContent
<1>3. /\ f \in [Contacts -> Descriptions \cup {None, "updated"}]
      /\ g \in [Contacts -> Descriptions \cup {None}]
  BY <1>1, Zenon
<1> HIDE DEF f, g
<1>4. x \in TpBaseMediaCallContent
  BY <1>3 DEF TpBaseMediaCallContent
<1>5. /\ x.result = c.result /\ x.cancellable = c.cancellable /\ x.gone = c.gone
      /\ x.disposed = c.disposed
  BY <1>3, ZenonT(40) DEF TpBaseMediaCallContent
<1>6. x.current = c.current /\ x.queue = c.queue /\ x.local = f /\ x.remote = c.remote
  BY <1>3 DEF TpBaseMediaCallContent
<1> HIDE DEF x
<1>7. u \in TpBaseMediaCallContent
  BY <1>2, <1>3, <1>4, Zenon DEF TpBaseMediaCallContent
<1>8. /\ u.result = x.result /\ u.cancellable = x.cancellable /\ u.gone = x.gone
      /\ u.disposed = x.disposed
  BY <1>2, <1>3, <1>4, ZenonT(40) DEF TpBaseMediaCallContent
<1>9. u.current = x.current /\ u.queue = x.queue /\ u.local = x.local /\ u.remote = g
  BY <1>2, <1>3, <1>4 DEF TpBaseMediaCallContent
<1> QED
  BY <1>4, <1>5, <1>6, <1>7, <1>8, <1>9 DEF f, g

(* offer_finished_cb clears the current offer.                              *)
Takes(c, d, u) ==
  \/ u.local = c.local /\ u.remote = c.remote
  \/ /\ u.local = [c.local EXCEPT ![RemoteContact[d]] = d]
     /\ u.remote = [c.remote EXCEPT ![RemoteContact[d]] = d]

Cleared(c, d, u) ==
  /\ u \in TpBaseMediaCallContent /\ u.result = FALSE /\ u.cancellable = FALSE
  /\ u.gone = c.gone /\ u.disposed = c.disposed
  /\ u.current = None /\ u.queue = c.queue /\ Takes(c, d, u)

(* What offer_finished_cb leaves of the content.                            *)
LEMMA FinishedFacts ==
  ASSUME SoundConstants, NEW c \in TpBaseMediaCallContent, NEW d \in Descriptions,
         NEW accepted \in BOOLEAN, NEW u, u = Finished(c, d, accepted)
  PROVE  Cleared(c, d, u)
<1> DEFINE b == IF accepted THEN AcceptedBy(c, d) ELSE c
           x == [b EXCEPT !.current = None]
           y == [x EXCEPT !.result = FALSE]
<1>1. /\ b \in TpBaseMediaCallContent /\ b.gone = c.gone /\ b.disposed = c.disposed
      /\ b.queue = c.queue
      /\ \/ b.local = c.local /\ b.remote = c.remote
         \/ /\ b.local = [c.local EXCEPT ![RemoteContact[d]] = d]
            /\ b.remote = [c.remote EXCEPT ![RemoteContact[d]] = d]
  <2>1. CASE accepted
    <3>1. b = AcceptedBy(c, d)
      BY <2>1
    <3> HIDE DEF b
    <3> QED
      BY <3>1, AcceptedFacts
  <2>2. CASE ~accepted
    BY <2>2
  <2> QED
    BY <2>1, <2>2
<1>2. u = [b EXCEPT !.current = None, !.result = FALSE, !.cancellable = FALSE]
  BY DEF Finished
<1> HIDE DEF b
<1>3. u = [y EXCEPT !.cancellable = FALSE]
  BY <1>1, <1>2 DEF TpBaseMediaCallContent
<1>4. x \in TpBaseMediaCallContent
  BY <1>1 DEF TpBaseMediaCallContent
<1>5. /\ x.result = b.result /\ x.cancellable = b.cancellable /\ x.gone = b.gone
      /\ x.disposed = b.disposed
  BY <1>1, ZenonT(40) DEF TpBaseMediaCallContent
<1>6. /\ x.current = None /\ x.queue = b.queue /\ x.local = b.local
      /\ x.remote = b.remote
  BY <1>1 DEF TpBaseMediaCallContent
<1> HIDE DEF x
<1>7. y \in TpBaseMediaCallContent
  BY <1>4, Zenon DEF TpBaseMediaCallContent
<1>8. /\ y.result = FALSE /\ y.cancellable = x.cancellable /\ y.gone = x.gone
      /\ y.disposed = x.disposed
  BY <1>4, ZenonT(40) DEF TpBaseMediaCallContent
<1>9. /\ y.current = x.current /\ y.queue = x.queue /\ y.local = x.local
      /\ y.remote = x.remote
  BY <1>4 DEF TpBaseMediaCallContent
<1> HIDE DEF y
<1>10. u \in TpBaseMediaCallContent
  BY <1>3, <1>7, Zenon DEF TpBaseMediaCallContent
<1>11. /\ u.result = y.result /\ u.cancellable = FALSE /\ u.gone = y.gone
       /\ u.disposed = y.disposed
  BY <1>3, <1>7, ZenonT(40) DEF TpBaseMediaCallContent
<1>12. /\ u.current = y.current /\ u.queue = y.queue /\ u.local = y.local
       /\ u.remote = y.remote
  BY <1>3, <1>7 DEF TpBaseMediaCallContent
<1> QED
  BY <1>1, <1>4, <1>5, <1>6, <1>7, <1>8, <1>9, <1>10, <1>11, <1>12 DEF Cleared, Takes

Paired(c, x) ==
  /\ (c.local[x] = None) <=> (c.remote[x] = None)
  /\ c.local[x] \notin {None, "updated"} => c.local[x] = c.remote[x]

(* The descriptions of every contact stay paired when an offer is accepted. *)
LEMMA PairedFacts ==
  ASSUME SoundConstants, NEW c \in TpBaseMediaCallContent, NEW d \in Descriptions,
         NEW u \in TpBaseMediaCallContent, NEW x \in Contacts, Takes(c, d, u), Paired(c, x)
  PROVE  Paired(u, x)
<1>1. /\ c.local \in [Contacts -> Descriptions \cup {None, "updated"}]
      /\ c.remote \in [Contacts -> Descriptions \cup {None}]
  BY DEF TpBaseMediaCallContent
<1>2. d # None /\ d # "updated"
  BY DEF SoundConstants, None
<1>3. CASE u.local = c.local /\ u.remote = c.remote
  BY <1>3 DEF Paired
<1>4. CASE /\ u.local = [c.local EXCEPT ![RemoteContact[d]] = d]
           /\ u.remote = [c.remote EXCEPT ![RemoteContact[d]] = d]
  <2>1. \/ u.local[x] = d /\ u.remote[x] = d
        \/ u.local[x] = c.local[x] /\ u.remote[x] = c.remote[x]
    BY <1>1, <1>4
  <2> QED
    BY <1>2, <2>1 DEF Paired
<1> QED
  BY <1>3, <1>4 DEF Takes

(* An answer to the current offer, the only one on the bus: offer_finished_cb
   finds it current, and what was asked next is offered next. *)
LEMMA FinishStep ==
  ASSUME SoundConstants, IInv, NEW d \in Descriptions, content.current = d,
         NEW m \in [Descriptions -> MediaDescription],
         \A e \in Descriptions : ~m[e].registered, idle' = {},
         NEW accepted \in BOOLEAN, FinishOffer(d, m, Finished(content, d, accepted))
  PROVE  IInv'
<1> DEFINE c == Finished(content, d, accepted)
           a == Append(answers, d)
<1>1. /\ content \in TpBaseMediaCallContent /\ md \in [Descriptions -> MediaDescription]
      /\ answers \in Seq(Descriptions) /\ seen \in Seens /\ seen.asked \in Seq(Descriptions)
  BY DEF IInv, Types, Seens
<1>2. /\ content' = Started(c) /\ md' = Offered(m, c) /\ answers' = a
      /\ seen' = [seen EXCEPT !.aborted = @ \/ content.current # d \/ NextAborts(c)]
  BY DEF FinishOffer
<1>3. /\ c \in TpBaseMediaCallContent /\ c.result = FALSE /\ c.cancellable = FALSE
      /\ c.gone = content.gone /\ c.disposed = content.disposed
      /\ c.current = None /\ c.queue = content.queue /\ Takes(content, d, c)
  <2>1. Cleared(content, d, c)
    BY <1>1, FinishedFacts
  <2> QED
    BY <2>1 DEF Cleared
<1>4. /\ a \in Seq(Descriptions) /\ Len(a) = Len(answers) + 1 /\ Len(answers) \in Nat
      /\ a[Len(answers) + 1] = d /\ \A i \in 1..Len(answers) : a[i] = answers[i]
  BY <1>1, AppendFacts
<1> HIDE DEF c, a
<1>5. d # None
  BY DEF SoundConstants, None
<1>6. Coherent(c) /\ OnTheBus(c, m, {})
  BY <1>3 DEF Coherent, OnTheBus
<1>7. Begun(c, a) = Len(a) /\ Begun(content, answers) = Len(a) /\ Len(a) \in Nat
  BY <1>3, <1>4, <1>5 DEF Begun
<1>8. Ordered(c, a, seen.asked)
  <2>1. /\ Len(answers) + 1 <= Len(seen.asked) /\ seen.asked[Len(answers) + 1] = d
        /\ \A i \in 1..Len(answers) : answers[i] = seen.asked[i]
    BY <1>5 DEF IInv, Ordered
  <2>2. ASSUME NEW i \in 1..Len(a)
        PROVE  a[i] = seen.asked[i]
    <3>1. i \in 1..Len(answers) \/ i = Len(answers) + 1
      BY <1>4, <2>2
    <3> QED
      BY <1>4, <2>1, <3>1
  <2>3. /\ Len(seen.asked) = Len(a) + Len(content.queue)
        /\ \A k \in 1..Len(content.queue) : content.queue[k] = seen.asked[Len(a) + k]
    BY <1>7 DEF IInv, Ordered
  <2>4. Len(a) <= Len(seen.asked)
    BY <1>4, <2>1, ZenonT(60)
  <2> QED
    BY <1>3, <1>7, <2>2, <2>3, <2>4 DEF Ordered
<1>9. /\ content' \in TpBaseMediaCallContent /\ content'.local = c.local
      /\ content'.remote = c.remote /\ content'.gone = c.gone /\ content'.disposed = c.disposed
      /\ md' \in [Descriptions -> MediaDescription]
      /\ Coherent(content') /\ OnTheBus(content', md', {}) /\ Ordered(content', a, seen.asked)
      /\ ~NextAborts(c)
  <2>1. Keeps(c, content', md', {}, a, seen.asked)
    BY <1>1, <1>2, <1>3, <1>4, <1>6, <1>8, StartedKeeps
  <2> QED
    BY <1>3, <2>1 DEF Keeps
<1>10. seen' \in Seens /\ seen'.aborted = FALSE
  <2>1. ~seen.aborted
    BY DEF IInv, AssertionsHold
  <2>2. seen' = [seen EXCEPT !.aborted = FALSE]
    BY <1>1, <1>2, <1>9, <2>1, Zenon DEF Seens
  <2> QED
    BY <1>1, <2>2, ZenonT(40) DEF Seens
<1>11. seen'.asked = seen.asked /\ seen'.dropped = seen.dropped
  BY <1>1, <1>2 DEF Seens
<1>12. Types'
  BY <1>2, <1>4, <1>9, <1>10 DEF Types
<1>13. AtRest'
  <2>1. ~content.disposed
    BY <1>5 DEF IInv, AtRest
  <2> QED
    BY <1>3, <1>9, <2>1 DEF AtRest
<1>14. DescriptionsPaired'
  <2>1. ASSUME NEW x \in Contacts
        PROVE  Paired(c, x)
    <3>1. Paired(content, x)
      BY ZenonT(60) DEF IInv, DescriptionsPaired, Paired
    <3> QED
      BY <1>1, <1>3, <3>1, PairedFacts
  <2> QED
    BY <1>9, <2>1 DEF DescriptionsPaired, Paired
<1>15. Distinct'
  BY <1>11 DEF IInv, Distinct
<1>16. AssertionsHold'
  BY <1>10 DEF AssertionsHold
<1> QED
  BY <1>2, <1>9, <1>11, <1>12, <1>13, <1>14, <1>15, <1>16, ZenonT(60) DEF IInv

(* Accept and Reject: the description leaves the bus with the answer.       *)
LEMMA AnswerStep ==
  ASSUME SoundConstants, IInv, NEW d \in Descriptions, Accept(d) \/ Reject(d)
  PROVE  IInv'
<1>1. md \in [Descriptions -> MediaDescription] /\ md[d].registered /\ idle' = idle
  BY Zenon DEF IInv, Types, Accept, Reject
<1>2. content.current = d /\ idle = {}
  BY <1>1 DEF IInv, OnTheBus
<1> DEFINE m == [md EXCEPT ![d] = Unregistered]
<1>3. m \in [Descriptions -> MediaDescription] /\ \A e \in Descriptions : ~m[e].registered
  <2>1. Unregistered \in MediaDescription /\ ~Unregistered.registered
    BY DEF Unregistered, MediaDescription
  <2>2. \A e \in Descriptions \ {d} : ~md[e].registered
    BY <1>2 DEF IInv, OnTheBus
  <2> QED
    BY <1>1, <2>1, <2>2
<1>4. \E accepted \in BOOLEAN : FinishOffer(d, m, Finished(content, d, accepted))
  BY Zenon DEF Accept, Reject
<1> HIDE DEF m
<1> QED
  BY <1>1, <1>2, <1>3, <1>4, FinishStep

(* The cancelled result completes in idle.                                  *)
LEMMA CancelledStep ==
  ASSUME SoundConstants, IInv, NEW d \in Descriptions, CancelledIdle(d)
  PROVE  IInv'
<1>1. /\ md \in [Descriptions -> MediaDescription] /\ d \in idle /\ idle' = idle \ {d}
      /\ FinishOffer(d, md, Finished(content, d, FALSE))
  BY Zenon DEF IInv, Types, CancelledIdle
<1>2. content.current = d /\ idle' = {} /\ ~md[d].registered
  BY <1>1 DEF IInv, OnTheBus
<1>3. \A e \in Descriptions : ~md[e].registered
  BY <1>2 DEF IInv, OnTheBus
<1> QED
  BY <1>1, <1>2, <1>3, FinishStep, Zenon

(* Accept refused for its codecs: the offer stays on the bus.               *)
LEMMA RefusedStep ==
  ASSUME SoundConstants, IInv, NEW d \in Descriptions, AcceptRefused(d)
  PROVE  IInv'
<1>1. /\ md \in [Descriptions -> MediaDescription]
      /\ md' = [md EXCEPT ![d].cancellable = FALSE]
      /\ content' = content /\ idle' = idle /\ answers' = answers /\ seen' = seen
  BY DEF IInv, Types, AcceptRefused
<1> DEFINE r == [md[d] EXCEPT !.cancellable = FALSE]
<1>2. md[d] \in MediaDescription /\ md' = [md EXCEPT ![d] = r]
  BY <1>1
<1>3. r \in MediaDescription /\ r.registered = md[d].registered
  BY <1>2, ZenonT(40) DEF MediaDescription
<1> HIDE DEF r
<1>4. md' \in [Descriptions -> MediaDescription]
  BY <1>1, <1>2, <1>3, Zenon
<1>5. \A e \in Descriptions : md'[e].registered <=> md[e].registered
  BY <1>1, <1>2, <1>3
<1>6. Types' /\ Coherent(content') /\ Ordered(content', answers', seen'.asked)
  BY <1>1, <1>4 DEF IInv, Types
<1>7. OnTheBus(content', md', idle')
  <2>1. content.current # None => content.current \in Descriptions
    BY DEF IInv, Types, TpBaseMediaCallContent
  <2>2. idle \subseteq Descriptions
    BY DEF IInv, Types
  <2> QED
    BY <1>1, <1>5, <2>1, <2>2 DEF IInv, OnTheBus
<1>8. Distinct' /\ AtRest' /\ DescriptionsPaired' /\ AssertionsHold'
  BY <1>1 DEF IInv, Distinct, AtRest, DescriptionsPaired, AssertionsHold
<1> QED
  BY <1>6, <1>7, <1>8 DEF IInv

(* UpdateLocalMediaDescription: the contact has a description already.      *)
LEMMA UpdateStep ==
  ASSUME SoundConstants, IInv, NEW x \in Contacts, UpdateLocalMediaDescription(x)
  PROVE  IInv'
<1> DEFINE f == [content.local EXCEPT ![x] = "updated"]
<1>1. /\ content \in TpBaseMediaCallContent /\ seen \in Seens
      /\ content.local \in [Contacts -> Descriptions \cup {None, "updated"}]
      /\ seen.updates \in Nat
  BY DEF IInv, Types, TpBaseMediaCallContent, Seens
<1>2. /\ content' = [content EXCEPT !.local[x] = "updated"]
      /\ seen' = [seen EXCEPT !.updates = @ + 1] /\ content.local[x] # None
      /\ md' = md /\ idle' = idle /\ answers' = answers
  BY DEF UpdateLocalMediaDescription, Updatable, MayUpdate
<1>3. content' = [content EXCEPT !.local = f]
  BY <1>1, <1>2 DEF TpBaseMediaCallContent
<1>4. f \in [Contacts -> Descriptions \cup {None, "updated"}]
  BY <1>1
<1>5. f[x] = "updated" /\ \A y \in Contacts \ {x} : f[y] = content.local[y]
  BY <1>1
<1> HIDE DEF f
<1>6. content' \in TpBaseMediaCallContent
  BY <1>1, <1>3, <1>4, Zenon DEF TpBaseMediaCallContent
<1>7. /\ content'.result = content.result /\ content'.cancellable = content.cancellable
      /\ content'.gone = content.gone /\ content'.disposed = content.disposed
  BY <1>1, <1>3, <1>4, ZenonT(40) DEF TpBaseMediaCallContent
<1>8. /\ content'.current = content.current /\ content'.queue = content.queue
      /\ content'.local = f /\ content'.remote = content.remote
  BY <1>1, <1>3, <1>4 DEF TpBaseMediaCallContent
<1>9. seen' \in Seens /\ seen'.asked = seen.asked /\ seen'.dropped = seen.dropped
  BY <1>1, <1>2 DEF Seens
<1>10. seen'.aborted = seen.aborted
  BY <1>1, <1>2, ZenonT(40) DEF Seens
<1>11. Types'
  BY <1>2, <1>6, <1>9 DEF IInv, Types
<1>12. Coherent(content') /\ OnTheBus(content', md', idle')
  BY <1>2, <1>7, <1>8 DEF IInv, Coherent, OnTheBus
<1>13. Begun(content', answers') = Begun(content, answers)
  BY <1>2, <1>8 DEF Begun
<1>14. Ordered(content', answers', seen'.asked)
  BY <1>2, <1>7, <1>8, <1>9, <1>13 DEF IInv, Ordered
<1>15. Distinct' /\ AssertionsHold'
  BY <1>9, <1>10 DEF IInv, Distinct, AssertionsHold
<1>16. AtRest'
  BY <1>7, <1>8, <1>9, <1>13, ZenonT(60) DEF IInv, AtRest
<1>17. DescriptionsPaired'
  <2>1. content.remote[x] # None
    BY <1>2 DEF IInv, DescriptionsPaired
  <2>2. "updated" # None
    BY Zenon DEF None
  <2> QED
    BY <1>5, <1>8, <2>1, <2>2 DEF IInv, DescriptionsPaired
<1> QED
  BY <1>11, <1>12, <1>14, <1>15, <1>16, <1>17 DEF IInv

(* deinit: the queued offers are dropped and the current one is cancelled if its
   description still listens. *)
LEMMA DeinitStep ==
  ASSUME SoundConstants, IInv, Deinit
  PROVE  IInv'
<1> DEFINE dropped == {content.queue[i] : i \in DOMAIN content.queue}
           cancelled == {d \in {content.current} \ {None} :
                           content.cancellable /\ md[d].cancellable}
           g == [content EXCEPT !.queue = <<>>]
           q == SubSeq(seen.asked, 1, Len(seen.asked) - Len(content.queue))
<1>1. /\ content \in TpBaseMediaCallContent /\ md \in [Descriptions -> MediaDescription]
      /\ idle \in SUBSET Descriptions /\ answers \in Seq(Descriptions) /\ seen \in Seens
      /\ content.queue \in Seq(Descriptions) /\ seen.asked \in Seq(Descriptions)
      /\ content.current \in Descriptions \cup {None}
  BY DEF IInv, Types, TpBaseMediaCallContent, Seens
<1>2. /\ ~content.gone /\ content' = Deinitialised(content)
      /\ seen' = [seen EXCEPT !.dropped = dropped, !.asked = q]
      /\ md' = [d \in Descriptions |-> IF d \in cancelled THEN Unregistered ELSE md[d]]
      /\ idle' = idle \cup cancelled /\ answers' = answers
  BY DEF Deinit
<1>3. idle = {}
  BY <1>2 DEF IInv, OnTheBus
<1>4. cancelled \in SUBSET Descriptions /\ \A d \in cancelled : content.current = d
  BY <1>1
<1>5. dropped \in SUBSET Descriptions
  BY <1>1
<1>6. content' = [g EXCEPT !.gone = TRUE]
  BY <1>1, <1>2 DEF Deinitialised, Dropped, TpBaseMediaCallContent
<1> HIDE DEF cancelled
<1>7. g \in TpBaseMediaCallContent
  <2>1. <<>> \in Seq(Descriptions)
    OBVIOUS
  <2> QED
    BY <1>1, <2>1, ZenonT(40) DEF TpBaseMediaCallContent
<1>8. /\ g.result = content.result /\ g.cancellable = content.cancellable
      /\ g.disposed = content.disposed
  BY <1>1, ZenonT(40) DEF TpBaseMediaCallContent
<1>9. /\ g.current = content.current /\ g.queue = <<>> /\ g.local = content.local
      /\ g.remote = content.remote
  BY <1>1 DEF TpBaseMediaCallContent
<1> HIDE DEF g
<1>10. content' \in TpBaseMediaCallContent
  BY <1>6, <1>7, Zenon DEF TpBaseMediaCallContent
<1>11. /\ content'.result = g.result /\ content'.cancellable = g.cancellable
       /\ content'.gone = TRUE /\ content'.disposed = g.disposed
  BY <1>6, <1>7, ZenonT(40) DEF TpBaseMediaCallContent
<1>12. /\ content'.current = g.current /\ content'.queue = g.queue
       /\ content'.local = g.local /\ content'.remote = g.remote
  BY <1>6, <1>7 DEF TpBaseMediaCallContent
<1>13. PICK b \in Nat : b = Begun(content, answers)
  <2>1. Len(answers) \in Nat
    BY <1>1, LenProperties
  <2> QED
    BY <2>1 DEF Begun
<1>14. /\ Len(seen.asked) = b + Len(content.queue) /\ Len(content.queue) \in Nat
       /\ \A k \in 1..Len(content.queue) : content.queue[k] = seen.asked[b + k]
       /\ DOMAIN content.queue = 1..Len(content.queue)
  <2>1. Len(content.queue) \in Nat /\ DOMAIN content.queue = 1..Len(content.queue)
    BY <1>1, LenProperties
  <2> QED
    BY <1>13, <2>1 DEF IInv, Ordered
<1>15. q \in Seq(Descriptions) /\ Len(q) = b /\ \A i \in 1..b : q[i] = seen.asked[i]
  <2>1. Len(seen.asked) - Len(content.queue) = b /\ b <= Len(seen.asked)
    BY <1>13, <1>14
  <2>2. q = SubSeq(seen.asked, 1, b)
    BY <2>1, Zenon
  <2> HIDE DEF q
  <2> QED
    BY <1>1, <1>13, <2>1, <2>2
<1> HIDE DEF q
<1>16. ASSUME NEW i \in 1..b
       PROVE  q[i] \notin dropped
  <2>1. ASSUME NEW k \in 1..Len(content.queue)
        PROVE  content.queue[k] # q[i]
    <3>1. b + k \in 1..Len(seen.asked) /\ i \in 1..Len(seen.asked) /\ b + k # i
      BY <1>13, <1>14, <1>16, <2>1
    <3>2. seen.asked[b + k] # seen.asked[i]
      BY <3>1 DEF IInv, Distinct
    <3> QED
      BY <1>14, <1>15, <1>16, <2>1, <3>2
  <2> QED
    BY <1>14, <2>1
<1> HIDE DEF dropped
<1>17. seen' \in Seens /\ seen'.asked = q /\ seen'.dropped = dropped
  <2> DEFINE s == [seen EXCEPT !.dropped = dropped]
  <2>1. s \in Seens /\ s.dropped = dropped
    BY <1>1, <1>5 DEF Seens
  <2>2. seen' = [s EXCEPT !.asked = q]
    BY <1>1, <1>2 DEF Seens
  <2> HIDE DEF s
  <2> QED
    BY <1>15, <2>1, <2>2 DEF Seens
<1>18. seen'.aborted = seen.aborted
  BY <1>1, <1>2, ZenonT(40) DEF Seens
<1>19. Unregistered \in MediaDescription /\ ~Unregistered.registered
  BY DEF Unregistered, MediaDescription
<1>20. /\ md' \in [Descriptions -> MediaDescription]
       /\ \A d \in cancelled : md'[d] = Unregistered
       /\ \A d \in Descriptions \ cancelled : md'[d] = md[d]
  BY <1>1, <1>2, <1>4, <1>19
<1>21. Types'
  BY <1>1, <1>2, <1>4, <1>10, <1>17, <1>20 DEF Types
<1>22. Coherent(content')
  BY <1>8, <1>9, <1>11, <1>12 DEF IInv, Coherent
<1>23. OnTheBus(content', md', idle')
  <2>1. content'.current = content.current /\ content'.gone /\ idle' = cancelled
    BY <1>2, <1>3, <1>9, <1>11, <1>12
  <2>2. \A d \in Descriptions : md'[d].registered => content.current = d
    BY <1>4, <1>20 DEF IInv, OnTheBus
  <2>3. \A d \in cancelled : content.current = d /\ ~md'[d].registered
    BY <1>4, <1>19, <1>20
  <2>4. ASSUME content.current # None
        PROVE  md'[content.current].registered \/ content.current \in cancelled
    <3>1. content.current \in Descriptions /\ md[content.current].registered
      BY <1>1, <1>3, <2>4 DEF IInv, OnTheBus
    <3> QED
      BY <1>20, <3>1
  <2> QED
    BY <2>1, <2>2, <2>3, <2>4 DEF OnTheBus
<1>24. Begun(content', answers') = Begun(content, answers)
  BY <1>2, <1>9, <1>12 DEF Begun
<1>25. Ordered(content', answers', q)
  <2>1. /\ Len(answers) \in Nat /\ b = Len(answers) + (IF content.current = None THEN 0 ELSE 1)
        /\ \A i \in 1..Len(answers) : answers[i] = seen.asked[i]
        /\ content.current # None => seen.asked[Len(answers) + 1] = content.current
    <3>1. Len(answers) \in Nat
      BY <1>1, LenProperties
    <3>2. b = Len(answers) + (IF content.current = None THEN 0 ELSE 1)
      BY <1>13, Zenon DEF Begun
    <3>3. /\ \A i \in 1..Len(answers) : answers[i] = seen.asked[i]
          /\ content.current # None => seen.asked[Len(answers) + 1] = content.current
      BY Zenon DEF IInv, Ordered
    <3> QED
      BY <3>1, <3>2, <3>3
  <2>2. Len(answers) <= b /\ \A i \in 1..Len(answers) : i \in 1..b
    BY <1>13, <2>1
  <2>3. content.current # None => b = Len(answers) + 1 /\ Len(answers) + 1 \in 1..b
    BY <1>13, <2>1
  <2>4. content'.current = content.current /\ content'.queue = <<>> /\ Len(content'.queue) = 0
    BY <1>9, <1>12
  <2> QED
    BY <1>2, <1>13, <1>15, <1>24, <2>1, <2>2, <2>3, <2>4 DEF Ordered
<1>26. Distinct' /\ AssertionsHold'
  <2>1. \A i \in 1..b : i \in 1..Len(seen.asked)
    BY <1>13, <1>14
  <2> QED
    BY <1>15, <1>16, <1>17, <1>18, <2>1 DEF IInv, Distinct, AssertionsHold
<1>27. AtRest'
  <2>1. ~content.disposed
    BY <1>2 DEF IInv, AtRest
  <2> QED
    BY <1>8, <1>11, <2>1 DEF AtRest
<1>28. DescriptionsPaired'
  BY <1>9, <1>12 DEF IInv, DescriptionsPaired
<1> QED
  BY <1>17, <1>21, <1>22, <1>23, <1>25, <1>26, <1>27, <1>28, ZenonT(60) DEF IInv

(* dispose: the result of the current offer would hold a reference.         *)
LEMMA DisposeStep ==
  ASSUME SoundConstants, IInv, Dispose
  PROVE  IInv'
<1>1. /\ content \in TpBaseMediaCallContent /\ seen \in Seens
      /\ content.gone /\ ~content.result /\ content' = [content EXCEPT !.disposed = TRUE]
      /\ seen' = [seen EXCEPT !.aborted = @ \/ content.current # None]
      /\ md' = md /\ idle' = idle /\ answers' = answers
  BY DEF IInv, Types, Dispose
<1>2. content.current = None
  BY <1>1 DEF IInv, Coherent
<1>3. content' \in TpBaseMediaCallContent
  BY <1>1, Zenon DEF TpBaseMediaCallContent
<1>4. /\ content'.result = content.result /\ content'.cancellable = content.cancellable
      /\ content'.gone = content.gone
  BY <1>1, ZenonT(40) DEF TpBaseMediaCallContent
<1>5. /\ content'.current = content.current /\ content'.queue = content.queue
      /\ content'.local = content.local /\ content'.remote = content.remote
  BY <1>1 DEF TpBaseMediaCallContent
<1>6. seen' \in Seens /\ seen'.aborted = FALSE
  <2>1. ~seen.aborted
    BY DEF IInv, AssertionsHold
  <2>2. seen' = [seen EXCEPT !.aborted = FALSE]
    BY <1>1, <1>2, <2>1, Zenon DEF Seens
  <2> QED
    BY <1>1, <2>2, ZenonT(40) DEF Seens
<1>7. seen'.asked = seen.asked /\ seen'.dropped = seen.dropped
  BY <1>1 DEF Seens
<1>8. Types'
  BY <1>1, <1>3, <1>6 DEF IInv, Types
<1>9. Coherent(content') /\ OnTheBus(content', md', idle')
  BY <1>1, <1>4, <1>5 DEF IInv, Coherent, OnTheBus
<1>10. Begun(content', answers') = Begun(content, answers)
  BY <1>1, <1>5 DEF Begun
<1>11. Ordered(content', answers', seen'.asked)
  BY <1>1, <1>4, <1>5, <1>7, <1>10, ZenonT(60) DEF IInv, Ordered
<1>12. Distinct' /\ AssertionsHold'
  BY <1>6, <1>7 DEF IInv, Distinct, AssertionsHold
<1>13. AtRest'
  BY <1>1, <1>2, <1>4, <1>5, <1>7, <1>10 DEF IInv, AtRest
<1>14. DescriptionsPaired'
  BY <1>5 DEF IInv, DescriptionsPaired
<1> QED
  BY <1>8, <1>9, <1>11, <1>12, <1>13, <1>14 DEF IInv

(* What the invariant says of the answers.                                  *)
LEMMA InOrder ==
  ASSUME SoundConstants, IInv
  PROVE  OffersAnsweredInOrder
<1>1. /\ answers \in Seq(Descriptions) /\ seen.asked \in Seq(Descriptions)
      /\ content.queue \in Seq(Descriptions)
  BY DEF IInv, Types, Seens, TpBaseMediaCallContent
<1>2. /\ Len(answers) \in Nat /\ DOMAIN answers = 1..Len(answers) /\ Len(seen.asked) \in Nat
      /\ DOMAIN seen.asked = 1..Len(seen.asked) /\ Len(content.queue) \in Nat
      /\ DOMAIN content.queue = 1..Len(content.queue)
  BY <1>1, LenProperties
<1>3. Len(answers) <= Len(seen.asked) /\ \A i \in 1..Len(answers) : answers[i] = seen.asked[i]
  BY DEF IInv, Ordered
<1>4. \A i \in 1..Len(answers) : i \in 1..Len(seen.asked)
  BY <1>2, <1>3
<1>5. \A i, j \in DOMAIN answers : answers[i] = answers[j] => i = j
  BY <1>2, <1>3, <1>4 DEF IInv, Distinct
<1>6. ASSUME NEW i \in DOMAIN seen.asked, i > Len(answers)
      PROVE  \/ i = Len(answers) + 1 /\ content.current = seen.asked[i]
             \/ \E k \in DOMAIN content.queue : content.queue[k] = seen.asked[i]
  <2>1. PICK b \in Nat : b = Begun(content, answers)
    <3>1. Len(answers) \in Nat
      BY <1>2
    <3> QED
      BY <3>1 DEF Begun
  <2>2. CASE i <= b
    <3>1. content.current # None /\ i = Len(answers) + 1
      <4>1. Len(answers) \in Nat /\ i \in Nat /\ i > Len(answers)
        BY <1>2, <1>6
      <4>2. \/ content.current = None /\ b = Len(answers)
            \/ content.current # None /\ b = Len(answers) + 1
        BY <2>1, <4>1 DEF Begun
      <4> QED
        BY <2>2, <4>1, <4>2
    <3> QED
      BY <3>1 DEF IInv, Ordered
  <2>3. CASE i > b
    <3>1. /\ Len(seen.asked) = b + Len(content.queue)
          /\ \A k \in 1..Len(content.queue) : content.queue[k] = seen.asked[b + k]
      BY <2>1 DEF IInv, Ordered
    <3>2. i - b \in 1..Len(content.queue) /\ b + (i - b) = i
      BY <1>2, <1>6, <2>1, <2>3, <3>1
    <3> QED
      BY <1>2, <3>1, <3>2, Zenon
  <2> QED
    BY <1>2, <1>6, <2>1, <2>2, <2>3
<1>7. \A i \in DOMAIN answers : answers[i] \notin seen.dropped
  BY <1>2, <1>3, <1>4 DEF IInv, Distinct
<1> QED
  BY <1>2, <1>3, <1>5, <1>6, <1>7 DEF OffersAnsweredInOrder

(* Whatever the streaming implementation answers and whenever the content is
   removed: the current offer, its result and the one on the bus agree, and what
   was asked is what was answered, what is current and what is queued.      *)
THEOREM OffersInvariance == SoundConstants /\ Spec => []IInv
<1> SUFFICES ASSUME SoundConstants
             PROVE  Spec => []IInv
  OBVIOUS
<1>1. Init => IInv
  BY InitIInv
<1>2. IInv /\ [Next]_vars => IInv'
  <2> SUFFICES ASSUME IInv, [Next]_vars
               PROVE  IInv'
    OBVIOUS
  <2>1. CASE \E d \in Descriptions : OfferMediaDescription(d)
    BY <2>1, OfferStep
  <2>2. CASE \E d \in Descriptions : Accept(d) \/ Reject(d)
    BY <2>2, AnswerStep
  <2>3. CASE \E d \in Descriptions : AcceptRefused(d)
    BY <2>3, RefusedStep
  <2>4. CASE \E d \in Descriptions : CancelledIdle(d)
    BY <2>4, CancelledStep
  <2>5. CASE \E x \in Contacts : UpdateLocalMediaDescription(x)
    BY <2>5, UpdateStep
  <2>6. CASE Deinit
    BY <2>6, DeinitStep
  <2>7. CASE Dispose
    BY <2>7, DisposeStep
  <2>8. CASE UNCHANGED vars
    BY <2>8 DEF vars, IInv, Types, Distinct, AtRest, DescriptionsPaired, AssertionsHold
  <2> QED
    BY <2>1, <2>2, <2>3, <2>4, <2>5, <2>6, <2>7, <2>8 DEF Next
<1> QED
  BY <1>1, <1>2, PTL DEF Spec

(* base-media-call-content.c: the g_asserts of next_offer, offer_finished_cb and
   dispose never fail; one offer at a time is on the bus; the descriptions of a
   contact come from the same offer; offers are answered once and in order. *)
THEOREM OffersAreAnsweredInOrder == SoundConstants /\ Spec => []AnsweredInOrder
<1> SUFFICES ASSUME SoundConstants
             PROVE  Spec => []AnsweredInOrder
  OBVIOUS
<1>1. Spec => []IInv
  BY OffersInvariance
<1>2. IInv => AnsweredInOrder
  <2> SUFFICES ASSUME IInv
               PROVE  AnsweredInOrder
    BY ZenonT(60)
  <2>1. OneOfferOnTheBus
    <3>1. None \notin Descriptions
      BY DEF SoundConstants, None
    <3> QED
      BY <3>1 DEF IInv, OnTheBus, AtRest, OneOfferOnTheBus
  <2>2. AssertionsHold /\ DescriptionsPaired
    BY DEF IInv
  <2> QED
    BY <2>1, <2>2, InOrder DEF AnsweredInOrder
<1> QED
  BY <1>1, <1>2, PTL

=============================================================================
