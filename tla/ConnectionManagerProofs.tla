----------------------- MODULE ConnectionManagerProofs -----------------------
(***************************************************************************)
(* What is proved of TpConnectionManager, for every sequence of protocols, *)
(* either kind of process and of proxy, every .manager file, and however   *)
(* often the process starts.  IInv is the inductive invariant; each        *)
(* callback has a lemma that says what it does to the object's fields, and *)
(* each action one that says that it keeps IInv.                           *)
(***************************************************************************)
EXTENDS ConnectionManager, SequenceTheorems, TLAPS

CallNames == {"GetAll", "ListProtocols"} \cup Names

Messages ==
  [m : {"owner"}, new : BOOLEAN] \cup [m : {"ignored"}]
    \cup [m : {"reply"}, of : CallNames, error : BOOLEAN, names : Seq(Names), found : Tables]

Replies == {i \in DOMAIN wire : wire[i].m = "reply"}
AnyOwner == \E i \in DOMAIN wire : wire[i].m = "owner"
OwnerBefore(i) == \E j \in DOMAIN wire : j < i /\ wire[j].m = "owner"
OwnerAfter(i) == \E j \in DOMAIN wire : j > i /\ wire[j].m = "owner"

StepOf(k) ==
  CASE k = "GetAll" -> "PROPERTIES" [] k = "ListProtocols" -> "PROTOCOLS" [] OTHER -> "PARAMETERS"

(* There is one call at a time, and it is the one introspection_step names. *)
OneCall ==
  /\ wire \in Seq(Messages) /\ call \in {"none"} \cup CallNames
  /\ cm.in_call <=> call # "none" \/ Replies # {}
  /\ call # "none" => Replies = {} /\ cm.step = StepOf(call)
  /\ \A i \in Replies :
       /\ cm.step = StepOf(wire[i].of)
       /\ wire[i].error \/ ~wire[i].found.known => wire[i].found = None
  /\ \A i, j \in Replies : i = j

(* What is known at each step. *)
Stages ==
  /\ ~cm.aborted
  /\ cm.in_call <=> cm.step # "IDLE"
  /\ cm.step # "PARAMETERS" => cm.found = None /\ cm.pending = <<>>
  /\ cm.step = "PARAMETERS" => cm.found.known

(* Where the information comes from. *)
Sources ==
  /\ cm.core = "prepared" <=> cm.source > 0
  /\ cm.source > 0 <=> cm.objects.known

(* The proxy knows of the process what the messages on their way do not say. *)
Owners ==
  /\ ~cm.name_known => ~cm.running
  /\ cm.running <=> sig = "activated"
  /\ ~AnyOwner => (cm.running <=> svc.running)
  /\ \A i \in DOMAIN wire :
       wire[i].m = "owner" /\ ~OwnerAfter(i) => (wire[i].new <=> svc.running)

SameRun(S) == \A f, g \in S : f[2] = g[2]
OfRun(S, n) == \A f \in S : f[2] = n

(* What was found is of one run of the process, and an answer that will be
   dispatched before the next news of the process is of the same run. *)
Runs ==
  /\ ~cm.running => cm.found.set = {}
  /\ ~AnyOwner => OfRun(cm.found.set, svc.run)
  /\ \A i \in Replies :
       /\ SameRun(wire[i].found.set)
       /\ ~OwnerAfter(i) => OfRun(wire[i].found.set, svc.run)
       /\ ~OwnerBefore(i) =>
            /\ SameRun(cm.found.set \cup wire[i].found.set)
            /\ ~wire[i].error => cm.running
  /\ cm.source = 2 => SameRun(cm.objects.set)

Fresh == svc.running /\ ~AnyOwner
PendingNames == {cm.pending[i] : i \in DOMAIN cm.pending}
Asked == IF call # "none" THEN {call} ELSE {wire[i].of : i \in Replies}

(* The introspection of a process that goes on running does not stop before all
   its protocols were found: an error comes only from a process that has gone,
   whose going will be dispatched before the answer or after it. *)
Completes ==
  /\ cm.step = "PARAMETERS" => cm.running
  /\ \A i \in Replies : ~wire[i].error /\ ~OwnerAfter(i) =>
       wire[i].names = Protocols /\ wire[i].found = FoundBy(wire[i].of, svc.run)
  /\ Always /\ ~Errors =>
       /\ \A i \in Replies : wire[i].error =>
            \/ ~svc.running
            \/ OwnerAfter(i)
            \/ \E j \in DOMAIN wire :
                 /\ j < i /\ wire[j].m = "owner"
                 /\ ~wire[j].new \/ cm.running \/ OwnerBefore(j)
       /\ Fresh /\ cm.step = "PARAMETERS" =>
            OfferedBy(svc.run) = cm.found.set \cup {<<n, svc.run>> : n \in PendingNames \cup Asked}
       /\ Fresh /\ ~cm.in_call /\ ~cm.introspect_idle =>
            cm.source = 2 /\ cm.objects.set = OfferedBy(svc.run)

IInv == TypeOK /\ OneCall /\ Stages /\ Sources /\ Owners /\ Runs /\ Completes

-----------------------------------------------------------------------------
(* The time a step may take, for a busy machine too. *)
USE SMTT(60)

(* What g_ptr_array_remove_index_fast leaves is all but the first element. *)
LEMMA RemoveIndexFastFacts ==
  ASSUME NEW S, NEW s \in Seq(S), s # <<>>
  PROVE  /\ RemoveIndexFast(s) \in Seq(S)
         /\ Head(s) \in S
         /\ \A x : (\E i \in DOMAIN s : s[i] = x)
              <=> (x = Head(s) \/ \E i \in DOMAIN RemoveIndexFast(s) : RemoveIndexFast(s)[i] = x)
<1>1. PICK n \in Nat \ {0} : /\ Len(s) = n /\ DOMAIN s = 1..n /\ Head(s) = s[1]
                             /\ \A i \in 1..n : s[i] \in S
  <2>1. Len(s) \in Nat /\ DOMAIN s = 1..Len(s) /\ Head(s) = s[1] /\ \A i \in 1..Len(s) : s[i] \in S
    BY LenProperties
  <2>2. Len(s) # 0
    BY EmptySeq
  <2> QED
    BY <2>1, <2>2, Zenon
<1> DEFINE t == RemoveIndexFast(s)
<1>2. t = [i \in 1..(n - 1) |-> IF i = 1 THEN s[n] ELSE s[i]]
  BY <1>1 DEF RemoveIndexFast
<1> HIDE DEF t
<1>3. t \in [1..(n - 1) -> S] /\ n - 1 \in Nat
  BY <1>1, <1>2
<1>4. t \in Seq(S)
  BY <1>3, SeqDef
<1>5. ASSUME NEW i \in 1..n, i # 1 PROVE \E j \in 1..(n - 1) : t[j] = s[i]
  <2>1. CASE i = n
    <3>1. 1 \in 1..(n - 1)
      BY <1>5, <2>1
    <3> QED
      BY <3>1, <1>2, <2>1
  <2>2. CASE i # n
    <3>1. i \in 1..(n - 1)
      BY <1>5, <2>2
    <3> QED
      BY <3>1, <1>2, <1>5
  <2> QED
    BY <2>1, <2>2
<1>6. ASSUME NEW j \in 1..(n - 1) PROVE \E i \in 1..n : s[i] = t[j]
  <2>1. j \in 1..n /\ n \in 1..n
    OBVIOUS
  <2> QED
    BY <2>1, <1>2
<1>7. 1 \in 1..n
  OBVIOUS
<1>8. DOMAIN t = 1..(n - 1)
  BY <1>2
<1>9. Head(s) \in S
  BY <1>1, <1>7, Zenon
<1>10. ASSUME NEW x, NEW i \in DOMAIN s, s[i] = x PROVE x = Head(s) \/ \E j \in DOMAIN t : t[j] = x
  BY <1>1, <1>5, <1>8, <1>10, Zenon
<1>11. ASSUME NEW x, x = Head(s) \/ \E j \in DOMAIN t : t[j] = x PROVE \E i \in DOMAIN s : s[i] = x
  BY <1>1, <1>6, <1>7, <1>8, <1>11, Zenon
<1> QED
  BY <1>4, <1>9, <1>10, <1>11, Zenon DEF t

(* Dispatching the first message moves the others one place forward. *)
LEMMA TailFacts ==
  ASSUME NEW S, NEW w \in Seq(S), w # <<>>
  PROVE  /\ Tail(w) \in Seq(S) /\ Head(w) \in S /\ Head(w) = w[1]
         /\ 1 \in DOMAIN w /\ DOMAIN w \subseteq Nat \ {0} /\ DOMAIN Tail(w) \subseteq Nat \ {0}
         /\ \A i \in DOMAIN Tail(w) : i + 1 \in DOMAIN w /\ Tail(w)[i] = w[i + 1]
         /\ \A i \in DOMAIN w \ {1} : i - 1 \in DOMAIN Tail(w) /\ Tail(w)[i - 1] = w[i]
<1>1. Len(w) \in Nat \ {0} /\ DOMAIN w = 1..Len(w) /\ Head(w) = w[1]
  BY LenProperties, EmptySeq
<1>2. /\ Head(w) \in S /\ Tail(w) \in Seq(S) /\ Len(Tail(w)) = Len(w) - 1
      /\ \A i \in 1..Len(Tail(w)) : Tail(w)[i] = w[i + 1]
  BY HeadTailProperties
<1>3. DOMAIN Tail(w) = 1..(Len(w) - 1)
  BY <1>2, LenProperties
<1> QED
  BY <1>1, <1>2, <1>3

(* A message that is sent takes the place after the last. *)
LEMMA AppendFacts ==
  ASSUME NEW S, NEW w \in Seq(S), NEW e \in S
  PROVE  /\ Append(w, e) \in Seq(S)
         /\ Len(w) + 1 \in Nat \ {0} /\ Len(w) + 1 \notin DOMAIN w
         /\ DOMAIN Append(w, e) = DOMAIN w \cup {Len(w) + 1}
         /\ Append(w, e)[Len(w) + 1] = e
         /\ \A i \in DOMAIN w : i \in Nat \ {0} /\ i < Len(w) + 1 /\ Append(w, e)[i] = w[i]
<1>1. Len(w) \in Nat /\ DOMAIN w = 1..Len(w)
  BY LenProperties
<1>2. /\ Append(w, e) \in Seq(S) /\ Len(Append(w, e)) = Len(w) + 1
      /\ \A i \in 1..(Len(w) + 1) : Append(w, e)[i] = IF i <= Len(w) THEN w[i] ELSE e
  BY <1>1
<1>3. DOMAIN Append(w, e) = 1..(Len(w) + 1)
  BY <1>2, LenProperties
<1> QED
  BY <1>1, <1>2, <1>3

(* Cancelling the call leaves the news of the name's owner as it was, and no answer. *)
LEMMA CancelledFacts ==
  ASSUME NEW w \in Seq(Messages)
  PROVE  /\ Cancelled(w) \in Seq(Messages)
         /\ DOMAIN Cancelled(w) = DOMAIN w
         /\ \A i \in DOMAIN w : /\ Cancelled(w)[i].m \in {"owner", "ignored"}
                                /\ Cancelled(w)[i].m = "owner" <=> w[i].m = "owner"
                                /\ w[i].m = "owner" => Cancelled(w)[i] = w[i]
<1>1. Len(w) \in Nat /\ DOMAIN w = 1..Len(w) /\ \A i \in 1..Len(w) : w[i] \in Messages
  BY LenProperties
<1>2. [m |-> "ignored"] \in Messages
  BY DEF Messages
<1>3. Cancelled(w) \in [1..Len(w) -> Messages]
  BY <1>1, <1>2 DEF Cancelled
<1>4. Cancelled(w) \in Seq(Messages)
  BY <1>1, <1>3, SeqDef
<1>5. ASSUME NEW i \in DOMAIN w
      PROVE  /\ Cancelled(w)[i].m \in {"owner", "ignored"}
             /\ Cancelled(w)[i].m = "owner" <=> w[i].m = "owner"
             /\ w[i].m = "owner" => Cancelled(w)[i] = w[i]
  BY DEF Cancelled
<1> QED
  BY <1>1, <1>3, <1>4, <1>5

(* The fields that the introspection leaves alone. *)
SameElse(c, d) ==
  /\ d.name_known = c.name_known /\ d.running = c.running /\ d.want = c.want
  /\ d.retried = c.retried /\ d.introspect_idle = c.introspect_idle
  /\ d.file_idle = c.file_idle /\ d.asked = c.asked /\ d.aborted = c.aborted

SameInfo(c, d) == d.source = c.source /\ d.objects = c.objects /\ d.core = c.core

(* The introspection is over. *)
Over(d) == d.step = "IDLE" /\ d.in_call = FALSE /\ d.found = None /\ d.pending = <<>>
           /\ d.core = IF d.source > 0 THEN "prepared" ELSE "failed"

(* tp_connection_manager_end_introspection forgets the introspection and nothing else, and
   prepares CORE or fails it. *)
LEMMA EndIntrospectionFacts ==
  ASSUME NEW c \in TpConnectionManager
  PROVE  /\ EndIntrospection(c) \in TpConnectionManager
         /\ SameElse(c, EndIntrospection(c)) /\ Over(EndIntrospection(c))
         /\ EndIntrospection(c).source = c.source /\ EndIntrospection(c).objects = c.objects
<1> DEFINE d == [c EXCEPT !.step = "IDLE", !.in_call = FALSE, !.found = None, !.pending = <<>>]
           e == [d EXCEPT !.core = IF d.source > 0 THEN "prepared" ELSE "failed"]
<1>1. None \in Tables /\ <<>> \in Seq(Names)
  BY DEF None, Tables, Found
<1>2. d \in TpConnectionManager
  BY <1>1, Zenon DEF TpConnectionManager
<1>3. SameElse(c, d)
  BY DEF TpConnectionManager, SameElse
<1>4. d.step = "IDLE" /\ d.in_call = FALSE /\ d.found = None /\ d.pending = <<>>
      /\ d.source = c.source /\ d.objects = c.objects
  BY DEF TpConnectionManager
<1> HIDE DEF d
<1>5. e \in TpConnectionManager
  BY <1>2 DEF TpConnectionManager
<1>6. SameElse(c, e)
  BY <1>2, <1>3 DEF TpConnectionManager, SameElse
<1>7. Over(e) /\ e.source = c.source /\ e.objects = c.objects
  BY <1>2, <1>4 DEF TpConnectionManager, Over
<1>8. EndIntrospection(c) = e
  BY ZenonT(60) DEF EndIntrospection, ResetIntrospection, ReadyOrFailed, d
<1> QED
  BY <1>5, <1>6, <1>7, <1>8

(* The branches of tp_connection_manager_continue_introspection. *)
LEMMA ContinueIntrospectionFacts ==
  ASSUME NEW c \in TpConnectionManager, NEW r, r = ContinueIntrospection(c)
  PROVE  /\ r.c \in TpConnectionManager /\ SameElse(c, r.c)
         /\ c.step = "IDLE" =>
              /\ r.k = "GetAll" /\ r.c.step = "PROPERTIES" /\ r.c.in_call /\ SameInfo(c, r.c)
              /\ r.c.found = c.found /\ r.c.pending = c.pending
         /\ c.step = "PROPERTIES" /\ ~c.found.known =>
              /\ r.k = "ListProtocols" /\ r.c.step = "PROTOCOLS" /\ r.c.in_call /\ SameInfo(c, r.c)
              /\ r.c.found = c.found /\ r.c.pending = c.pending
         /\ c.step # "IDLE" /\ ~(c.step = "PROPERTIES" /\ ~c.found.known) /\ c.pending = <<>> =>
              r.k = "none" /\ Over(r.c) /\ r.c.source = 2 /\ r.c.objects = c.found
         /\ c.step # "IDLE" /\ ~(c.step = "PROPERTIES" /\ ~c.found.known) /\ c.pending # <<>> =>
              /\ r.k = Head(c.pending) /\ r.c.step = "PARAMETERS" /\ r.c.in_call /\ SameInfo(c, r.c)
              /\ r.c.found = c.found /\ r.c.pending = RemoveIndexFast(c.pending)
<1>1. CASE c.step = "IDLE"
  BY <1>1, ZenonT(60) DEF ContinueIntrospection, Calls, Does, TpConnectionManager, SameElse, SameInfo
<1>2. CASE c.step = "PROPERTIES" /\ ~c.found.known
  BY <1>2, ZenonT(60) DEF ContinueIntrospection, Calls, Does, TpConnectionManager, SameElse, SameInfo
<1>3. CASE c.step # "IDLE" /\ ~(c.step = "PROPERTIES" /\ ~c.found.known) /\ c.pending = <<>>
  <2> DEFINE d == [c EXCEPT !.objects = c.found, !.source = 2]
  <2>1. r.k = "none" /\ r.c = EndIntrospection(d)
    BY <1>3 DEF ContinueIntrospection, Does, Finish
  <2>0. c.found \in Tables /\ 2 \in 0..2
    BY DEF TpConnectionManager
  <2>5. d \in TpConnectionManager
    BY <2>0, Zenon DEF TpConnectionManager
  <2>2. d \in TpConnectionManager /\ d.source = 2 /\ d.objects = c.found
    BY <2>5 DEF TpConnectionManager
  <2>4. SameElse(c, d)
    BY DEF TpConnectionManager, SameElse
  <2> HIDE DEF d
  <2>3. SameElse(c, r.c)
    BY <2>1, <2>2, <2>4, EndIntrospectionFacts DEF SameElse
  <2> QED
    BY <1>3, <2>1, <2>2, <2>3, EndIntrospectionFacts
<1>4. CASE c.step # "IDLE" /\ ~(c.step = "PROPERTIES" /\ ~c.found.known) /\ c.pending # <<>>
  <2> DEFINE p == RemoveIndexFast(c.pending)
  <2>1. p \in Seq(Names) /\ Head(c.pending) \in Names
    BY <1>4, RemoveIndexFastFacts DEF TpConnectionManager
  <2>2. r = Calls([c EXCEPT !.pending = p], "PARAMETERS", Head(c.pending))
    BY <1>4 DEF ContinueIntrospection
  <2> HIDE DEF p
  <2>3. /\ r.c \in TpConnectionManager /\ SameElse(c, r.c) /\ r.k = Head(c.pending)
        /\ r.c.step = "PARAMETERS" /\ r.c.in_call /\ SameInfo(c, r.c)
        /\ r.c.found = c.found /\ r.c.pending = p
    <3> DEFINE d == [c EXCEPT !.pending = p]
    <3>1. d \in TpConnectionManager /\ d.pending = p /\ d.found = c.found /\ SameInfo(c, d)
      BY <2>1, Zenon DEF TpConnectionManager, SameInfo
    <3>2. SameElse(c, d)
      BY DEF TpConnectionManager, SameElse
    <3> HIDE DEF d
    <3>3. r.c = [d EXCEPT !.step = "PARAMETERS", !.in_call = TRUE] /\ r.k = Head(c.pending)
      BY <2>2 DEF Calls, Does, d
    <3>4. r.c \in TpConnectionManager
      BY <3>1, <3>3, ZenonT(60) DEF TpConnectionManager
    <3>5. SameElse(c, r.c)
      BY <3>1, <3>2, <3>3 DEF TpConnectionManager, SameElse
    <3>6. /\ r.c.step = "PARAMETERS" /\ r.c.in_call /\ SameInfo(c, r.c)
          /\ r.c.found = c.found /\ r.c.pending = p
      BY <3>1, <3>3 DEF TpConnectionManager, SameInfo
    <3> QED
      BY <3>3, <3>4, <3>5, <3>6
  <2> QED
    BY <1>4, <2>3 DEF p
<1> QED
  BY <1>1, <1>2, <1>3, <1>4

(* The introspection starts again, or for the first time. *)
Begun(c, d) == /\ d.step = "PROPERTIES" /\ d.in_call /\ d.found = None /\ d.pending = <<>>
               /\ SameInfo(c, d)

SameIntrospection(c, d) ==
  /\ d.step = c.step /\ d.in_call = c.in_call /\ d.found = c.found /\ d.pending = c.pending
  /\ SameInfo(c, d)

(* tp_connection_manager_name_owner_changed_cb, when there is no owner: nothing is going on,
   or the introspection ends, or starts again. *)
LEMMA OwnerLostFacts ==
  ASSUME NEW c \in TpConnectionManager, NEW r, r = OwnerLost(c)
  PROVE  /\ r.c \in TpConnectionManager /\ r.c.running = FALSE
         /\ r.c.name_known = c.name_known /\ r.c.want = c.want /\ r.c.file_idle = c.file_idle
         /\ r.c.introspect_idle = c.introspect_idle /\ r.c.aborted = c.aborted
         /\ r.c.source = c.source /\ r.c.objects = c.objects
         /\ \/ r.k = "none" /\ ~InProgress(c) /\ SameIntrospection(c, r.c)
            \/ r.k = "cancel" /\ InProgress(c) /\ Over(r.c)
            \/ r.k = "GetAll" /\ InProgress(c) /\ Begun(c, r.c)
<1> DEFINE d == [c EXCEPT !.running = FALSE]
<1>1. /\ d \in TpConnectionManager /\ d.running = FALSE /\ SameInfo(c, d)
      /\ d.step = c.step /\ d.found = c.found /\ d.pending = c.pending
  BY Zenon DEF TpConnectionManager, SameInfo
<1>2. /\ d.name_known = c.name_known /\ d.want = c.want /\ d.file_idle = c.file_idle
      /\ d.introspect_idle = c.introspect_idle /\ d.aborted = c.aborted /\ d.in_call = c.in_call
  BY DEF TpConnectionManager
<1>3. CASE ~InProgress(c)
  <2>1. r.k = "none" /\ r.c = d
    BY <1>3 DEF OwnerLost, Does
  <2> HIDE DEF d
  <2> QED
    BY <1>1, <1>2, <1>3, <2>1 DEF SameIntrospection, SameInfo
<1>4. CASE InProgress(c) /\ c.retried
  <2>1. r.k = "cancel" /\ r.c = EndIntrospection(d)
    BY <1>4 DEF OwnerLost, Does
  <2> HIDE DEF d
  <2> QED
    BY <1>1, <1>2, <1>4, <2>1, EndIntrospectionFacts DEF SameElse, SameInfo
<1>5. CASE InProgress(c) /\ ~c.retried
  <2> DEFINE e == [d EXCEPT !.retried = TRUE]
             f == [e EXCEPT !.step = "IDLE", !.in_call = FALSE, !.found = None, !.pending = <<>>]
  <2>1. r = ContinueIntrospection(f)
    BY <1>5 DEF OwnerLost, ResetIntrospection
  <2> HIDE DEF d
  <2>2. e \in TpConnectionManager /\ SameInfo(d, e) /\ e.running = FALSE
    BY <1>1, Zenon DEF TpConnectionManager, SameInfo
  <2>3. /\ e.name_known = d.name_known /\ e.want = d.want /\ e.file_idle = d.file_idle
        /\ e.introspect_idle = d.introspect_idle /\ e.aborted = d.aborted
    BY <1>1 DEF TpConnectionManager
  <2> HIDE DEF e
  <2>4. None \in Tables /\ <<>> \in Seq(Names)
    BY DEF None, Tables, Found
  <2>5. f \in TpConnectionManager
    BY <2>2, <2>4, ZenonT(60) DEF TpConnectionManager
  <2>6. f.step = "IDLE" /\ f.found = None /\ f.pending = <<>> /\ SameInfo(e, f)
    BY <2>2 DEF TpConnectionManager, SameInfo
  <2>7. SameElse(e, f)
    BY <2>2 DEF TpConnectionManager, SameElse
  <2> HIDE DEF f
  <2>8. r.c \in TpConnectionManager /\ SameElse(f, r.c) /\ r.k = "GetAll" /\ Begun(f, r.c)
    BY <2>1, <2>5, <2>6, ContinueIntrospectionFacts DEF Begun
  <2>9. Begun(c, r.c) /\ r.c.source = c.source /\ r.c.objects = c.objects
    BY <2>8, <2>6, <2>2, <1>1 DEF Begun, SameInfo
  <2>10. /\ r.c.running = FALSE /\ r.c.name_known = c.name_known /\ r.c.want = c.want
         /\ r.c.file_idle = c.file_idle /\ r.c.introspect_idle = c.introspect_idle
         /\ r.c.aborted = c.aborted
    BY <2>8, <2>7, <2>3, <2>2, <1>2 DEF SameElse
  <2> QED
    BY <1>5, <2>8, <2>9, <2>10
<1> QED
  BY <1>3, <1>4, <1>5, Zenon

(* What tp_connection_manager_name_owner_changed_cb does. *)
LEMMA OwnerFacts ==
  ASSUME NEW c \in TpConnectionManager, NEW new \in BOOLEAN,
         NEW r, r = (IF new THEN GainOwner(c) ELSE LoseOwner(c)),
         NEW d, d = FirstTime(r.c)
  PROVE  /\ d \in TpConnectionManager /\ d.name_known /\ (d.running <=> new)
         /\ new => d.introspect_idle
         /\ d.aborted = c.aborted /\ d.source = c.source /\ d.objects = c.objects
         /\ \/ /\ r.k = "none" /\ (~InProgress(c) \/ (new /\ ~c.running))
               /\ SameIntrospection(c, d)
            \/ r.k = "cancel" /\ InProgress(c) /\ Over(d)
            \/ r.k = "GetAll" /\ InProgress(c) /\ Begun(c, d)
<1> DEFINE e == r.c
<1>1. /\ e \in TpConnectionManager /\ (e.running <=> new) /\ (new => e.introspect_idle)
      /\ e.aborted = c.aborted /\ e.source = c.source /\ e.objects = c.objects
      /\ \/ r.k = "none" /\ (~InProgress(c) \/ (new /\ ~c.running)) /\ SameIntrospection(c, e)
         \/ r.k = "cancel" /\ InProgress(c) /\ Over(e)
         \/ r.k = "GetAll" /\ InProgress(c) /\ Begun(c, e)
  <2>1. CASE ~new
    BY <2>1, OwnerLostFacts, ZenonT(60) DEF LoseOwner
  <2>2. CASE new
    <3> DEFINE q == IF c.running THEN OwnerLost(c) ELSE Does(c, "none")
               f == q.c
    <3>1. r.k = q.k /\ e = [f EXCEPT !.running = TRUE, !.introspect_idle = TRUE]
      BY <2>2 DEF GainOwner, OwnerFound, LoseOwner, Does
    <3>2. /\ f \in TpConnectionManager
          /\ f.aborted = c.aborted /\ f.source = c.source /\ f.objects = c.objects
          /\ \/ q.k = "none" /\ (~InProgress(c) \/ ~c.running) /\ SameIntrospection(c, f)
             \/ q.k = "cancel" /\ InProgress(c) /\ Over(f)
             \/ q.k = "GetAll" /\ InProgress(c) /\ Begun(c, f)
      <4>1. CASE c.running
        BY <4>1, OwnerLostFacts, ZenonT(60)
      <4>2. CASE ~c.running
        BY <4>2 DEF Does, SameIntrospection, SameInfo
      <4> QED
        BY <4>1, <4>2
    <3> HIDE DEF f, q, e
    <3>3. e \in TpConnectionManager
      BY <3>1, <3>2, ZenonT(60) DEF TpConnectionManager
    <3>4. e.running /\ e.introspect_idle
      BY <3>1, <3>2 DEF TpConnectionManager
    <3>5. e.aborted = f.aborted /\ e.in_call = f.in_call
      BY <3>1, <3>2 DEF TpConnectionManager
    <3>6. /\ e.source = f.source /\ e.objects = f.objects /\ e.core = f.core
          /\ e.step = f.step /\ e.found = f.found /\ e.pending = f.pending
      BY <3>1, <3>2 DEF TpConnectionManager
    <3>7. \/ r.k = "none" /\ (~InProgress(c) \/ (new /\ ~c.running)) /\ SameIntrospection(c, e)
          \/ r.k = "cancel" /\ InProgress(c) /\ Over(e)
          \/ r.k = "GetAll" /\ InProgress(c) /\ Begun(c, e)
      BY <2>2, <3>1, <3>2, <3>5, <3>6 DEF SameIntrospection, SameInfo, Over, Begun
    <3> QED
      BY <2>2, <3>2, <3>3, <3>4, <3>5, <3>6, <3>7
  <2> QED
    BY <2>1, <2>2
<1> HIDE DEF e
<1>2. CASE c.name_known /\ e.name_known
  BY <1>1, <1>2 DEF FirstTime, e
<1>3. CASE ~e.name_known
  <2>1. d = [e EXCEPT !.name_known = TRUE, !.file_idle = TRUE,
                      !.introspect_idle = e.introspect_idle \/ e.want]
    BY <1>3 DEF FirstTime, e
  <2>2. d \in TpConnectionManager
    BY <1>1, <2>1, ZenonT(60) DEF TpConnectionManager
  <2>3. d.name_known /\ (e.introspect_idle => d.introspect_idle)
    BY <1>1, <2>1, Zenon DEF TpConnectionManager
  <2>4. d.aborted = e.aborted /\ d.in_call = e.in_call /\ d.running = e.running
    BY <1>1, <2>1, Zenon DEF TpConnectionManager
  <2>5. /\ d.source = e.source /\ d.objects = e.objects /\ d.core = e.core
        /\ d.step = e.step /\ d.found = e.found /\ d.pending = e.pending
    BY <1>1, <2>1, Zenon DEF TpConnectionManager
  <2>6. \/ r.k = "none" /\ (~InProgress(c) \/ (new /\ ~c.running)) /\ SameIntrospection(c, d)
        \/ r.k = "cancel" /\ InProgress(c) /\ Over(d)
        \/ r.k = "GetAll" /\ InProgress(c) /\ Begun(c, d)
    BY <1>1, <2>4, <2>5 DEF SameIntrospection, SameInfo, Over, Begun
  <2> QED
    BY <1>1, <2>2, <2>3, <2>4, <2>5, <2>6
<1>4. CASE e.name_known
  BY <1>1, <1>4 DEF FirstTime, e
<1> QED
  BY <1>3, <1>4

(* What becomes of a proxy c that dispatches the answer m: it is then d, and makes the call k. *)
Answered(c, m, k, d) ==
  \/ /\ m.of = "GetAll" /\ ~m.found.known
     /\ k = "ListProtocols" /\ d.step = "PROTOCOLS" /\ d.in_call
     /\ d.found = None /\ d.pending = <<>> /\ SameInfo(c, d)
  \/ /\ m.of = "GetAll" /\ m.found.known
     /\ k = "none" /\ Over(d) /\ d.source = 2 /\ d.objects = m.found
  \/ /\ m.of = "ListProtocols" /\ m.error
     /\ k = "none" /\ Over(d) /\ d.source = c.source /\ d.objects = c.objects
  \/ /\ m.of = "ListProtocols" /\ ~m.error /\ m.names = <<>>
     /\ k = "none" /\ Over(d) /\ d.source = 2 /\ d.objects = Some({})
  \/ /\ m.of = "ListProtocols" /\ ~m.error /\ m.names # <<>>
     /\ k = Head(m.names) /\ d.step = "PARAMETERS" /\ d.in_call
     /\ d.found = Some({}) /\ d.pending = RemoveIndexFast(m.names) /\ SameInfo(c, d)
  \/ /\ m.of \in Names /\ c.pending = <<>>
     /\ k = "none" /\ Over(d) /\ d.source = 2
     /\ d.objects = Some(c.found.set \cup m.found.set)
  \/ /\ m.of \in Names /\ c.pending # <<>>
     /\ k = Head(c.pending) /\ d.step = "PARAMETERS" /\ d.in_call
     /\ d.found = Some(c.found.set \cup m.found.set)
     /\ d.pending = RemoveIndexFast(c.pending) /\ SameInfo(c, d)

(* What a reply does to an introspection that is at the step it was asked in. *)
LEMMA ReplyFacts ==
  ASSUME SoundConstants, NEW c \in TpConnectionManager, c.in_call,
         NEW m \in Messages, m.m = "reply", c.step = StepOf(m.of),
         ~m.found.known => m.found = None,
         c.step # "PARAMETERS" => c.found = None /\ c.pending = <<>>,
         NEW r, r = Callback(c, m)
  PROVE  /\ r.c \in TpConnectionManager /\ SameElse(c, r.c)
         /\ Answered(c, m, r.k, r.c)
<1> USE DEF Answered
<1>1. /\ m.of \in CallNames /\ m.names \in Seq(Names) /\ m.found \in Tables /\ m.error \in BOOLEAN
      /\ m.found.set \in Found
  BY DEF Messages, Tables
<1>2. c.found \in Tables /\ c.found.set \in Found /\ c.pending \in Seq(Names)
  BY DEF TpConnectionManager, Tables
<1>3. ~None.known /\ \A S \in Found : Some(S) \in Tables /\ Some(S).known
  BY DEF None, Some, Tables
<1>4. {} \in Found /\ c.found.set \cup m.found.set \in Found
  BY <1>1, <1>2, ZenonT(60) DEF Found
<1> HIDE DEF None, Some
<1>5. CASE m.of = "GetAll"
  <2> DEFINE e == [c EXCEPT !.in_call = FALSE, !.found = m.found]
  <2>1. c.step = "PROPERTIES"
    BY <1>5 DEF StepOf
  <2>2. r = ContinueIntrospection(e)
    BY <1>5, <2>1, <1>3 DEF Callback, GetAllCb, Asserts
  <2>3. e \in TpConnectionManager
    BY <1>1, ZenonT(60) DEF TpConnectionManager
  <2>4. SameElse(c, e)
    BY DEF TpConnectionManager, SameElse
  <2>5. e.step = "PROPERTIES" /\ e.found = m.found /\ e.pending = <<>> /\ SameInfo(c, e)
    BY <2>1 DEF TpConnectionManager, SameInfo
  <2> HIDE DEF e
  <2>6. SameElse(c, r.c) /\ r.c \in TpConnectionManager
    BY <2>2, <2>3, <2>4, ContinueIntrospectionFacts DEF SameElse
  <2>7. CASE ~m.found.known
    <3>1. /\ r.k = "ListProtocols" /\ r.c.step = "PROTOCOLS" /\ r.c.in_call
          /\ r.c.found = None /\ r.c.pending = <<>> /\ SameInfo(c, r.c)
      BY <2>2, <2>3, <2>5, <2>7, ContinueIntrospectionFacts DEF SameInfo
    <3> QED
      BY <1>5, <2>6, <2>7, <3>1
  <2>8. CASE m.found.known
    <3>1. r.k = "none" /\ Over(r.c) /\ r.c.source = 2 /\ r.c.objects = m.found
      BY <2>2, <2>3, <2>5, <2>8, ContinueIntrospectionFacts
    <3> QED
      BY <1>5, <2>6, <2>8, <3>1
  <2> QED
    BY <2>7, <2>8
<1>6. CASE m.of = "ListProtocols" /\ m.error
  <2> DEFINE e == [c EXCEPT !.in_call = FALSE]
  <2>1. r.k = "none" /\ r.c = EndIntrospection(e)
    BY <1>6 DEF Callback, GotProtocols, Asserts, Does
  <2>2. e \in TpConnectionManager /\ e.source = c.source /\ e.objects = c.objects
    BY ZenonT(60) DEF TpConnectionManager
  <2>3. SameElse(c, e)
    BY DEF TpConnectionManager, SameElse
  <2> HIDE DEF e
  <2>4. SameElse(c, r.c)
    BY <2>1, <2>2, <2>3, EndIntrospectionFacts DEF SameElse
  <2> QED
    <3>1. /\ r.c \in TpConnectionManager /\ Over(r.c)
          /\ r.c.source = c.source /\ r.c.objects = c.objects
      BY <2>1, <2>2, EndIntrospectionFacts
    <3> QED
      BY <1>6, <2>1, <2>4, <3>1
<1>7. CASE m.of = "ListProtocols" /\ ~m.error
  <2> DEFINE e == [c EXCEPT !.in_call = FALSE, !.found = Some({}), !.pending = m.names]
  <2>1. c.step = "PROTOCOLS"
    BY <1>7 DEF StepOf
  <2>2. r = ContinueIntrospection(e)
    BY <1>7, <2>1, <1>3 DEF Callback, GotProtocols, Asserts
  <2>3. e \in TpConnectionManager
    BY <1>1, <1>3, <1>4, ZenonT(60) DEF TpConnectionManager
  <2>4. SameElse(c, e)
    BY DEF TpConnectionManager, SameElse
  <2>5. e.step = "PROTOCOLS" /\ e.found = Some({}) /\ e.pending = m.names /\ SameInfo(c, e)
    BY <2>1 DEF TpConnectionManager, SameInfo
  <2> HIDE DEF e
  <2>6. SameElse(c, r.c) /\ r.c \in TpConnectionManager
    BY <2>2, <2>3, <2>4, ContinueIntrospectionFacts DEF SameElse
  <2>7. CASE m.names = <<>>
    <3>1. r.k = "none" /\ Over(r.c) /\ r.c.source = 2 /\ r.c.objects = Some({})
      BY <2>2, <2>3, <2>5, <2>7, ContinueIntrospectionFacts
    <3> QED
      BY <1>7, <2>6, <2>7, <3>1
  <2>8. CASE m.names # <<>>
    <3>1. /\ r.k = Head(m.names) /\ r.c.step = "PARAMETERS" /\ r.c.in_call
          /\ r.c.found = Some({}) /\ r.c.pending = RemoveIndexFast(m.names) /\ SameInfo(c, r.c)
      BY <2>2, <2>3, <2>5, <2>8, ContinueIntrospectionFacts, SMTT(30) DEF SameInfo
    <3> QED
      BY <1>7, <2>6, <2>8, <3>1
  <2> QED
    BY <2>7, <2>8
<1>8. CASE m.of \in Names
  <2> DEFINE s == Some(c.found.set \cup m.found.set)
             e == [c EXCEPT !.in_call = FALSE, !.found = s]
  <2>1. c.step = "PARAMETERS" /\ m.of # "GetAll" /\ m.of # "ListProtocols"
    BY <1>8 DEF StepOf, SoundConstants
  <2>2. r = ContinueIntrospection(e)
    BY <2>1, ZenonT(60) DEF Callback, GotParameters, Asserts
  <2>3. s \in Tables
    BY <1>3, <1>4
  <2> HIDE DEF s
  <2>4. e \in TpConnectionManager
    BY <2>3, ZenonT(60) DEF TpConnectionManager
  <2>5. SameElse(c, e)
    BY DEF TpConnectionManager, SameElse
  <2>6. e.step = "PARAMETERS" /\ e.found = s /\ e.pending = c.pending /\ SameInfo(c, e)
    BY <2>1 DEF TpConnectionManager, SameInfo
  <2> HIDE DEF e
  <2>7. SameElse(c, r.c) /\ r.c \in TpConnectionManager
    BY <2>2, <2>4, <2>5, ContinueIntrospectionFacts DEF SameElse
  <2>8. CASE c.pending = <<>>
    <3>1. r.k = "none" /\ Over(r.c) /\ r.c.source = 2 /\ r.c.objects = s
      BY <2>2, <2>4, <2>6, <2>8, ContinueIntrospectionFacts
    <3> QED
      BY <1>8, <2>7, <2>8, <3>1 DEF s
  <2>9. CASE c.pending # <<>>
    <3>1. /\ r.k = Head(c.pending) /\ r.c.step = "PARAMETERS" /\ r.c.in_call
          /\ r.c.found = s /\ r.c.pending = RemoveIndexFast(c.pending) /\ SameInfo(c, r.c)
      BY <2>2, <2>4, <2>6, <2>9, ContinueIntrospectionFacts DEF SameInfo
    <3> QED
      BY <1>8, <2>7, <2>9, <3>1 DEF s
  <2> QED
    BY <2>8, <2>9
<1> QED
  BY <1>1, <1>5, <1>6, <1>7, <1>8 DEF CallNames

(* The messages after the first is dispatched, and perhaps a call cancelled. *)
LEMMA DispatchFacts ==
  ASSUME wire \in Seq(Messages), wire # <<>>,
         wire' = Tail(wire) \/ wire' = Cancelled(Tail(wire))
  PROVE  /\ wire' \in Seq(Messages) /\ 1 \in DOMAIN wire /\ DOMAIN wire \subseteq Nat \ {0}
         /\ Head(wire) = wire[1] /\ Head(wire) \in Messages
         /\ AnyOwner <=> Head(wire).m = "owner" \/ AnyOwner'
         /\ AnyOwner' <=> OwnerAfter(1)
         /\ \A i \in DOMAIN wire' :
              /\ i \in Nat \ {0} /\ i + 1 \in DOMAIN wire
              /\ wire'[i].m = "owner" <=> wire[i + 1].m = "owner"
              /\ wire'[i].m = "owner" => wire'[i] = wire[i + 1]
              /\ OwnerAfter(i)' <=> OwnerAfter(i + 1)
              /\ OwnerBefore(i + 1) <=> Head(wire).m = "owner" \/ OwnerBefore(i)'
         /\ wire' = Tail(wire) =>
              /\ \A i \in DOMAIN wire' : wire'[i] = wire[i + 1]
              /\ \A i \in DOMAIN wire \ {1} : i - 1 \in DOMAIN wire' /\ wire'[i - 1] = wire[i]
         /\ wire' = Cancelled(Tail(wire)) => Replies' = {}
<1> DEFINE w == Tail(wire)
<1>1. /\ w \in Seq(Messages) /\ Head(wire) \in Messages /\ Head(wire) = wire[1]
      /\ 1 \in DOMAIN wire /\ DOMAIN wire \subseteq Nat \ {0} /\ DOMAIN w \subseteq Nat \ {0}
      /\ \A i \in DOMAIN w : i + 1 \in DOMAIN wire /\ w[i] = wire[i + 1]
      /\ \A i \in DOMAIN wire \ {1} : i - 1 \in DOMAIN w /\ w[i - 1] = wire[i]
  BY TailFacts
<1> HIDE DEF w
<1>2. /\ Cancelled(w) \in Seq(Messages) /\ DOMAIN Cancelled(w) = DOMAIN w
      /\ \A i \in DOMAIN w : /\ Cancelled(w)[i].m \in {"owner", "ignored"}
                             /\ Cancelled(w)[i].m = "owner" <=> w[i].m = "owner"
                             /\ w[i].m = "owner" => Cancelled(w)[i] = w[i]
  BY <1>1, CancelledFacts
<1>3. /\ wire' \in Seq(Messages) /\ DOMAIN wire' = DOMAIN w
      /\ \A i \in DOMAIN w : /\ wire'[i].m = "owner" <=> w[i].m = "owner"
                             /\ w[i].m = "owner" => wire'[i] = w[i]
  BY <1>1, <1>2, Zenon DEF w
<1>4. /\ wire' = Tail(wire) =>
           /\ \A i \in DOMAIN wire' : wire'[i] = wire[i + 1]
           /\ \A i \in DOMAIN wire \ {1} : i - 1 \in DOMAIN wire' /\ wire'[i - 1] = wire[i]
      /\ wire' = Cancelled(Tail(wire)) => Replies' = {}
  BY <1>1, <1>2, Zenon DEF w, Replies
<1>5. \A i \in DOMAIN wire' :
        /\ i \in Nat \ {0} /\ i + 1 \in DOMAIN wire
        /\ wire'[i].m = "owner" <=> wire[i + 1].m = "owner"
        /\ wire'[i].m = "owner" => wire'[i] = wire[i + 1]
  BY <1>1, <1>3
<1>6. \A i \in DOMAIN wire \ {1} :
        i - 1 \in DOMAIN wire' /\ (wire'[i - 1].m = "owner" <=> wire[i].m = "owner")
  BY <1>1, <1>3, ZenonT(60)
<1>7. AnyOwner <=> Head(wire).m = "owner" \/ AnyOwner'
  BY <1>1, <1>5, <1>6 DEF AnyOwner
<1>8. AnyOwner' <=> OwnerAfter(1)
  <2>1. ASSUME NEW i \in DOMAIN wire', wire'[i].m = "owner" PROVE OwnerAfter(1)
    <3>1. i + 1 \in DOMAIN wire /\ i + 1 > 1 /\ wire[i + 1].m = "owner"
      BY <2>1, <1>5
    <3> QED
      BY <3>1 DEF OwnerAfter
  <2>2. ASSUME NEW i \in DOMAIN wire, i > 1, wire[i].m = "owner" PROVE AnyOwner'
    <3>1. i - 1 \in DOMAIN wire' /\ wire'[i - 1].m = "owner"
      BY <2>2, <1>6
    <3> QED
      BY <3>1 DEF AnyOwner
  <2> QED
    BY <2>1, <2>2 DEF AnyOwner, OwnerAfter
<1>9. ASSUME NEW i \in DOMAIN wire'
      PROVE  /\ OwnerAfter(i)' <=> OwnerAfter(i + 1)
             /\ OwnerBefore(i + 1) <=> Head(wire).m = "owner" \/ OwnerBefore(i)'
  <2>1. OwnerAfter(i)' => OwnerAfter(i + 1)
    BY <1>1, <1>5 DEF OwnerAfter
  <2>2. OwnerAfter(i + 1) => OwnerAfter(i)'
    <3> SUFFICES ASSUME NEW j \in DOMAIN wire, j > i + 1, wire[j].m = "owner"
                 PROVE  OwnerAfter(i)'
      BY DEF OwnerAfter
    <3>1. j - 1 \in DOMAIN wire' /\ wire'[j - 1].m = "owner" /\ j - 1 > i
      BY <1>1, <1>5, <1>6
    <3> QED
      BY <3>1 DEF OwnerAfter
  <2>3. OwnerBefore(i + 1) => Head(wire).m = "owner" \/ OwnerBefore(i)'
    <3> SUFFICES ASSUME NEW j \in DOMAIN wire, j < i + 1, wire[j].m = "owner", j # 1
                 PROVE  OwnerBefore(i)'
      BY <1>1 DEF OwnerBefore
    <3>1. j \in Nat /\ i \in Nat
      BY <1>1, <1>5
    <3>2. j - 1 < i
      BY <3>1
    <3>3. j - 1 \in DOMAIN wire' /\ wire'[j - 1].m = "owner"
      BY <1>6
    <3> QED
      BY <3>2, <3>3 DEF OwnerBefore
  <2>4. Head(wire).m = "owner" => OwnerBefore(i + 1)
    BY <1>1, <1>5 DEF OwnerBefore
  <2>5. OwnerBefore(i)' => OwnerBefore(i + 1)
    BY <1>1, <1>5 DEF OwnerBefore
  <2> QED
    BY <2>1, <2>2, <2>3, <2>4, <2>5
<1> QED
  BY <1>1, <1>3, <1>4, <1>5, <1>7, <1>8, <1>9, ZenonT(60)

(* name_owner_changed_cb keeps the invariant: what the old process said goes with it. *)
LEMMA OwnerStep ==
  ASSUME SoundConstants, IInv, NameOwnerChanged
  PROVE  IInv'
<1> DEFINE m == Head(wire)
           r == IF m.new THEN GainOwner(cm) ELSE LoseOwner(cm)
<1>1. /\ cm \in TpConnectionManager /\ wire \in Seq(Messages) /\ wire # <<>> /\ m.m = "owner"
      /\ svc' = svc /\ call \in {"none"} \cup CallNames
  BY DEF IInv, TypeOK, OneCall, NameOwnerChanged
<1>2. /\ cm' = FirstTime(r.c)
      /\ call' = IF r.k = "none" THEN call ELSE IF r.k = "cancel" THEN "none" ELSE r.k
      /\ wire' = IF r.k = "none" THEN Tail(wire) ELSE Cancelled(Tail(wire))
      /\ sig' = IF m.new THEN "activated" ELSE IF cm.name_known THEN "exited" ELSE sig
  BY Zenon DEF NameOwnerChanged, Becomes, Does
<1>3. /\ wire' \in Seq(Messages) /\ 1 \in DOMAIN wire /\ DOMAIN wire \subseteq Nat \ {0}
      /\ m = wire[1] /\ m \in Messages
      /\ AnyOwner /\ (AnyOwner' <=> OwnerAfter(1))
      /\ \A i \in DOMAIN wire' :
              /\ i \in Nat \ {0} /\ i + 1 \in DOMAIN wire
              /\ wire'[i].m = "owner" <=> wire[i + 1].m = "owner"
              /\ wire'[i].m = "owner" => wire'[i] = wire[i + 1]
              /\ OwnerAfter(i)' <=> OwnerAfter(i + 1)
      /\ wire' = Tail(wire) =>
           /\ \A i \in DOMAIN wire' : wire'[i] = wire[i + 1]
           /\ \A i \in DOMAIN wire \ {1} : i - 1 \in DOMAIN wire' /\ wire'[i - 1] = wire[i]
      /\ wire' = Cancelled(Tail(wire)) => Replies' = {}
  BY <1>1, <1>2, DispatchFacts, ZenonT(60)
<1>4. m.new \in BOOLEAN
  BY <1>1, <1>3 DEF Messages
<1>5. /\ cm' \in TpConnectionManager /\ cm'.name_known /\ (cm'.running <=> m.new)
      /\ m.new => cm'.introspect_idle
      /\ cm'.aborted = cm.aborted /\ cm'.source = cm.source /\ cm'.objects = cm.objects
      /\ \/ r.k = "none" /\ (~InProgress(cm) \/ (m.new /\ ~cm.running)) /\ SameIntrospection(cm, cm')
         \/ r.k = "cancel" /\ InProgress(cm) /\ Over(cm')
         \/ r.k = "GetAll" /\ InProgress(cm) /\ Begun(cm, cm')
  BY <1>1, <1>2, <1>4, OwnerFacts
<1> HIDE DEF m, r
<1>6. InProgress(cm) <=> cm.in_call
  BY DEF IInv, Stages, InProgress, None
<1>7. TypeOK'
  BY <1>1, <1>2, <1>5 DEF IInv, TypeOK
<1>8. Owners'
  <2>1. cm'.running <=> sig' = "activated"
    BY <1>2, <1>5, Zenon DEF IInv, Owners
  <2>2. ~AnyOwner' => (cm'.running <=> svc'.running)
    BY <1>1, <1>3, <1>5, Zenon DEF IInv, Owners
  <2>3. ASSUME NEW i \in DOMAIN wire', wire'[i].m = "owner", ~OwnerAfter(i)'
        PROVE  wire'[i].new <=> svc'.running
    BY <1>1, <1>3, <2>3, ZenonT(60) DEF IInv, Owners
  <2> QED
    BY <1>5, <2>1, <2>2, <2>3, Zenon DEF Owners
<1>9. Sources'
  BY <1>5 DEF IInv, Sources, SameIntrospection, Over, Begun, SameInfo, TypeOK, TpConnectionManager
<1>10. CASE r.k = "none"
  <2>1. wire' = Tail(wire) /\ call' = call /\ SameIntrospection(cm, cm')
        /\ (~cm.in_call \/ (m.new /\ ~cm.running))
    BY <1>10, <1>2, <1>5, <1>6, Zenon
  <2>2. /\ \A i \in Replies' : i + 1 \in Replies /\ wire'[i] = wire[i + 1] /\ i \in Nat
        /\ \A i \in Replies : i - 1 \in Replies' /\ i \in Nat
    BY <1>1, <1>3, <2>1, ZenonT(60) DEF Replies
  <2>3. OneCall'
    <3>1. cm'.in_call <=> call' # "none" \/ Replies' # {}
      BY <2>1, <2>2 DEF IInv, OneCall, SameIntrospection
    <3>2. call' # "none" => Replies' = {} /\ cm'.step = StepOf(call')
      BY <2>1, <2>2 DEF IInv, OneCall, SameIntrospection
    <3>3. ASSUME NEW i \in Replies'
          PROVE  /\ cm'.step = StepOf(wire'[i].of)
                 /\ wire'[i].error \/ ~wire'[i].found.known => wire'[i].found = None
      <4>1. i + 1 \in Replies /\ wire'[i] = wire[i + 1] /\ cm'.step = cm.step
        BY <2>1, <2>2, Zenon DEF SameIntrospection
      <4> QED
        BY <4>1 DEF IInv, OneCall
    <3>4. ASSUME NEW i \in Replies', NEW j \in Replies' PROVE i = j
      <4>1. i + 1 = j + 1 /\ i \in Nat /\ j \in Nat
        BY <2>2 DEF IInv, OneCall
      <4> QED
        BY <4>1
    <3> QED
      BY <1>1, <1>3, <2>1, <3>1, <3>2, <3>3, <3>4, Zenon DEF OneCall
  <2>4. Stages'
    BY <1>5, <2>1 DEF IInv, Stages, SameIntrospection
  <2>5. cm.found.set = {} /\ cm'.found.set = {}
    BY <2>1 DEF IInv, Stages, Runs, None, SameIntrospection
  <2>6. Runs'
    <3>1. ASSUME NEW i \in Replies'
          PROVE  /\ SameRun(wire'[i].found.set)
                 /\ ~OwnerAfter(i)' => OfRun(wire'[i].found.set, svc'.run)
      <4>1. i + 1 \in Replies /\ wire'[i] = wire[i + 1] /\ (OwnerAfter(i)' <=> OwnerAfter(i + 1))
        BY <1>3, <2>2, Zenon DEF Replies
      <4> QED
        BY <4>1, <1>1, Zenon DEF IInv, Runs
    <3>2. ASSUME NEW i \in Replies'
          PROVE  /\ SameRun(cm'.found.set \cup wire'[i].found.set)
                 /\ ~wire'[i].error => cm'.running
      <4>1. cm.in_call
        BY <2>2 DEF IInv, OneCall
      <4>2. cm'.running
        BY <4>1, <2>1, <1>5
      <4>3. cm'.found.set \cup wire'[i].found.set = wire'[i].found.set
        BY <2>5
      <4> QED
        BY <4>2, <4>3, <3>1, ZenonT(60)
    <3> QED
      BY <1>5, <2>1, <2>5, <3>1, <3>2, Zenon DEF IInv, Runs, OfRun
  <2>7. Completes'
    <3>1. cm'.step = "PARAMETERS" => cm'.running
      BY <1>5, <2>1 DEF IInv, Stages, SameIntrospection
    <3>2. ASSUME NEW i \in Replies', ~wire'[i].error, ~OwnerAfter(i)'
          PROVE  wire'[i].names = Protocols /\ wire'[i].found = FoundBy(wire'[i].of, svc'.run)
      BY <1>1, <1>3, <2>2, <3>2 DEF IInv, Completes, Replies
    <3>3. ASSUME Always, ~Errors, NEW i \in Replies', wire'[i].error
          PROVE  \/ ~svc'.running
                 \/ OwnerAfter(i)'
                 \/ \E j \in DOMAIN wire' :
                      /\ j < i /\ wire'[j].m = "owner"
                      /\ ~wire'[j].new \/ cm'.running \/ OwnerBefore(j)'
      <4>1. m.new /\ ~cm.running /\ cm'.running
        BY <2>1, <2>2, <1>5, Zenon DEF IInv, OneCall
      <4>2. i \in DOMAIN wire' /\ i \in Nat /\ i + 1 \in Replies /\ wire[i + 1].error
        BY <3>3, <2>2, Zenon DEF Replies
      <4>3. \/ ~svc.running
            \/ OwnerAfter(i + 1)
            \/ \E j \in DOMAIN wire :
                 /\ j < i + 1 /\ wire[j].m = "owner"
                 /\ ~wire[j].new \/ cm.running \/ OwnerBefore(j)
        BY <4>2, <3>3, Zenon DEF IInv, Completes
      <4>4. ASSUME NEW j \in DOMAIN wire, j < i + 1, wire[j].m = "owner",
                   ~wire[j].new \/ cm.running \/ OwnerBefore(j)
            PROVE  \E k \in DOMAIN wire' :
                      /\ k < i /\ wire'[k].m = "owner"
                      /\ ~wire'[k].new \/ cm'.running \/ OwnerBefore(k)'
        <5>1. j # 1
          BY <4>1, <4>4, <1>3 DEF OwnerBefore
        <5>2. j - 1 \in DOMAIN wire' /\ wire'[j - 1].m = "owner" /\ j \in Nat
          BY <5>1, <4>4, <2>1, <1>3
        <5>3. j - 1 < i
          BY <5>2, <4>2, <4>4
        <5> QED
          BY <5>2, <5>3, <4>1, ZenonT(60)
      <4> QED
        BY <4>2, <4>3, <4>4, <1>1, <1>3, Zenon
    <3>4. Fresh' /\ cm'.step = "PARAMETERS" => FALSE
      BY <2>1, Zenon DEF IInv, Completes, Stages, SameIntrospection
    <3>5. Fresh' => cm'.introspect_idle
      BY <1>1, <1>3, <1>5, Zenon DEF IInv, Owners, Fresh
    <3> QED
      BY <3>1, <3>2, <3>3, <3>4, <3>5 DEF Completes
  <2> QED
    BY <1>7, <1>8, <1>9, <2>3, <2>4, <2>6, <2>7, Zenon DEF IInv
<1>11. CASE r.k \in {"cancel", "GetAll"}
  <2>1. Replies' = {}
    BY <1>11, <1>2, <1>3, ZenonT(60)
  <2>2. \/ call' = "none" /\ Over(cm')
        \/ call' = "GetAll" /\ Begun(cm, cm')
    BY <1>11, <1>2, <1>5
  <2>3. cm'.found = None /\ cm'.found.set = {} /\ cm'.pending = <<>> /\ cm'.step \in {"IDLE", "PROPERTIES"}
        /\ (cm'.in_call <=> call' # "none") /\ (call' # "none" => cm'.step = StepOf(call'))
        /\ (cm'.in_call <=> cm'.step # "IDLE")
    BY <2>2 DEF Over, Begun, None, StepOf
  <2>4. OneCall'
    BY <1>3, <2>1, <2>2, <2>3, Zenon DEF OneCall, CallNames
  <2>5. Stages'
    BY <1>5, <2>3, Zenon DEF IInv, Stages
  <2>6. Runs'
    BY <1>5, <2>1, <2>3, ZenonT(60) DEF IInv, Runs, OfRun
  <2>7. Fresh' => cm'.introspect_idle
    BY <1>1, <1>3, <1>5 DEF IInv, Owners, Fresh
  <2>8. Completes'
    BY <2>1, <2>3, <2>7 DEF Completes
  <2> QED
    BY <1>7, <1>8, <1>9, <2>4, <2>5, <2>6, <2>8 DEF IInv
<1> QED
  BY <1>5, <1>10, <1>11

(* The introspection's callbacks keep the invariant. *)
LEMMA ReplyStep ==
  ASSUME SoundConstants, IInv, Reply
  PROVE  IInv'
<1> DEFINE m == Head(wire)
           r == Callback(cm, m)
<1>1. /\ cm \in TpConnectionManager /\ wire \in Seq(Messages) /\ wire # <<>> /\ m.m = "reply"
      /\ svc' = svc
  BY DEF IInv, TypeOK, OneCall, Reply
<1>2. /\ cm' = r.c
      /\ call' = IF r.k = "none" THEN call ELSE IF r.k = "cancel" THEN "none" ELSE r.k
      /\ wire' = IF r.k = "none" THEN Tail(wire) ELSE Cancelled(Tail(wire))
      /\ sig' = IF m.of = "ListProtocols" /\ m.error /\ ~cm.running THEN "exited" ELSE sig
  BY Zenon DEF Reply, Becomes
<1>3. /\ wire' \in Seq(Messages) /\ 1 \in DOMAIN wire /\ DOMAIN wire \subseteq Nat \ {0}
      /\ m = wire[1] /\ m \in Messages
      /\ AnyOwner <=> AnyOwner'
      /\ AnyOwner' <=> OwnerAfter(1)
      /\ \A i \in DOMAIN wire' :
              /\ i \in Nat \ {0} /\ i + 1 \in DOMAIN wire
              /\ wire'[i].m = "owner" <=> wire[i + 1].m = "owner"
              /\ wire'[i].m = "owner" => wire'[i] = wire[i + 1]
              /\ OwnerAfter(i)' <=> OwnerAfter(i + 1)
      /\ wire' = Tail(wire) => \A i \in DOMAIN wire' : wire'[i] = wire[i + 1]
      /\ wire' = Cancelled(Tail(wire)) => Replies' = {}
  BY <1>1, <1>2, DispatchFacts, Zenon
<1>4. 1 \in Replies /\ Replies = {1} /\ call = "none" /\ cm.in_call /\ ~OwnerBefore(1)
  <2>1. 1 \in Replies
    BY <1>1, <1>3, Zenon DEF Replies
  <2>2. Replies = {1} /\ call = "none" /\ cm.in_call
    BY <2>1 DEF IInv, OneCall
  <2>3. ~OwnerBefore(1)
    BY <1>3 DEF OwnerBefore
  <2> QED
    BY <2>1, <2>2, <2>3
<1>5. Replies' = {}
  <2>1. CASE wire' = Tail(wire)
    <3> SUFFICES ASSUME NEW i \in Replies' PROVE FALSE
      BY Zenon
    <3>1. i \in Nat \ {0} /\ i + 1 \in Replies
      BY <2>1, <1>3, Zenon DEF Replies
    <3> QED
      BY <3>1, <1>4
  <2> QED
    BY <2>1, <1>2, <1>3
<1>6. /\ m.of \in CallNames /\ m.names \in Seq(Names) /\ m.found \in Tables /\ m.error \in BOOLEAN
      /\ cm.step = StepOf(m.of) /\ (m.error \/ ~m.found.known => m.found = None)
      /\ SameRun(m.found.set) /\ (~AnyOwner => OfRun(m.found.set, svc.run))
      /\ SameRun(cm.found.set \cup m.found.set) /\ (~m.error => cm.running)
      /\ ~m.error /\ ~AnyOwner => m.names = Protocols /\ m.found = FoundBy(m.of, svc.run)
  <2>1. m.of \in CallNames /\ m.names \in Seq(Names) /\ m.found \in Tables /\ m.error \in BOOLEAN
    BY <1>1, <1>3, Zenon DEF Messages
  <2>2. cm.step = StepOf(m.of) /\ (m.error \/ ~m.found.known => m.found = None)
    BY <1>3, <1>4, ZenonT(60) DEF IInv, OneCall
  <2>3. /\ SameRun(m.found.set) /\ (~AnyOwner => OfRun(m.found.set, svc.run))
        /\ SameRun(cm.found.set \cup m.found.set) /\ (~m.error => cm.running)
    BY <1>3, <1>4, Zenon DEF IInv, Runs
  <2>4. ~m.error /\ ~AnyOwner => m.names = Protocols /\ m.found = FoundBy(m.of, svc.run)
    BY <1>3, <1>4, Zenon DEF IInv, Completes
  <2> QED
    BY <2>1, <2>2, <2>3, <2>4, Zenon
<1>7. Always /\ ~Errors /\ Fresh => ~m.error
  <2> SUFFICES ASSUME Always, ~Errors, Fresh, m.error PROVE FALSE
    BY Zenon
  <2>1. \/ ~svc.running
        \/ OwnerAfter(1)
        \/ \E j \in DOMAIN wire :
             /\ j < 1 /\ wire[j].m = "owner"
             /\ ~wire[j].new \/ cm.running \/ OwnerBefore(j)
    BY <1>3, <1>4, ZenonT(60) DEF IInv, Completes
  <2> QED
    BY <2>1, <1>3 DEF Fresh
<1>8. /\ cm' \in TpConnectionManager /\ SameElse(cm, cm')
      /\ Answered(cm, m, r.k, cm')
  <2>1. cm.step # "PARAMETERS" => cm.found = None /\ cm.pending = <<>>
    BY DEF IInv, Stages
  <2>2. r = Callback(cm, m)
    BY Zenon
  <2> HIDE DEF m, r
  <2>3. /\ m \in Messages /\ m.m = "reply" /\ cm.in_call /\ cm \in TpConnectionManager
        /\ cm.step = StepOf(m.of) /\ (~m.found.known => m.found = None)
    BY <1>1, <1>3, <1>4, <1>6, ZenonT(60)
  <2> QED
    BY <1>2, <2>1, <2>2, <2>3, ReplyFacts
<1> USE DEF Answered
<1> HIDE DEF m, r
<1>9. /\ m.names # <<>> => Head(m.names) \in Names
      /\ cm.pending # <<>> => Head(cm.pending) \in Names
      /\ cm.pending \in Seq(Names)
  <2>1. cm.pending \in Seq(Names)
    BY <1>1 DEF TpConnectionManager
  <2> QED
    BY <2>1, <1>6, RemoveIndexFastFacts
<1>10. /\ ~None.known /\ None.set = {}
       /\ \A S : Some(S).known /\ Some(S).set = S
  BY DEF None, Some
<1>11. \A n \in Names : n \notin {"none", "cancel", "GetAll", "ListProtocols"} /\ StepOf(n) = "PARAMETERS"
  BY Zenon DEF SoundConstants, StepOf
<1>12. /\ cm'.running = cm.running /\ cm'.name_known = cm.name_known
       /\ cm'.aborted = cm.aborted /\ cm'.introspect_idle = cm.introspect_idle
  BY <1>8, ZenonT(60) DEF SameElse
<1>13. \/ call' = "none" /\ Over(cm')
       \/ /\ call' \in CallNames /\ call' # "none" /\ cm'.in_call /\ cm'.step = StepOf(call') /\ cm'.step # "IDLE"
          /\ cm'.step # "PARAMETERS" => cm'.found = None /\ cm'.pending = <<>>
          /\ cm'.step = "PARAMETERS" => cm'.found.known
  <2>1. StepOf("ListProtocols") = "PROTOCOLS"
    BY Zenon DEF StepOf
  <2> QED
    BY <1>2, <1>4, <1>8, <1>9, <1>10, <1>11, <2>1 DEF CallNames
<1>14. TypeOK'
  BY <1>1, <1>2, <1>8, Zenon DEF IInv, TypeOK
<1>15. OneCall'
  BY <1>3, <1>5, <1>13, Zenon DEF OneCall, Over
<1>16. Stages'
  BY <1>12, <1>13, ZenonT(60) DEF IInv, Stages, Over
<1>17. Sources'
  BY <1>8, <1>10, SMTT(30) DEF IInv, Sources, Over, SameInfo, TypeOK, TpConnectionManager
<1>18. Owners'
  <2>1. cm'.running <=> sig' = "activated"
    BY <1>2, <1>12, Zenon DEF IInv, Owners
  <2>2. ASSUME NEW i \in DOMAIN wire', wire'[i].m = "owner", ~OwnerAfter(i)'
        PROVE  wire'[i].new <=> svc'.running
    BY <1>1, <1>3, <2>2, ZenonT(60) DEF IInv, Owners
  <2> QED
    BY <1>1, <1>3, <1>12, <2>1, <2>2, Zenon DEF IInv, Owners
<1>19. Runs'
  <2>1. cm.step = "PARAMETERS" => cm.running
    BY Zenon DEF IInv, Completes
  <2>2. ~cm'.running => cm'.found.set = {}
    <3>1. m.of \in Names => cm.running
      BY <2>1, <1>6, <1>11, Zenon
    <3> QED
      BY <3>1, <1>8, <1>10, <1>12, Zenon DEF Over
  <2>3. ~AnyOwner' => OfRun(cm'.found.set, svc'.run)
    <3> SUFFICES ASSUME ~AnyOwner PROVE OfRun(cm'.found.set, svc.run)
      BY <1>1, <1>3
    <3>1. OfRun({}, svc.run) /\ OfRun(cm.found.set \cup m.found.set, svc.run)
      BY <1>6 DEF IInv, Runs, OfRun
    <3> QED
      BY <3>1, <1>8, <1>10, ZenonT(60) DEF Over
  <2>4. cm'.source = 2 => SameRun(cm'.objects.set)
    <3>1. SameRun({}) /\ (cm.source = 2 => SameRun(cm.objects.set))
      BY Zenon DEF IInv, Runs, SameRun
    <3> QED
      BY <3>1, <1>6, <1>8, <1>10 DEF SameInfo
  <2> QED
    BY <1>5, <2>2, <2>3, <2>4, Zenon DEF Runs
<1>20. Completes'
  <2>1. cm'.step = "PARAMETERS" => cm'.running
    <3>1. m.of \in Names => cm.running
      BY <1>6, <1>11, Zenon DEF IInv, Completes
    <3> QED
      BY <3>1, <1>6, <1>8, <1>12, Zenon DEF Over
  <2>2. Fresh' <=> Fresh
    BY <1>1, <1>3, Zenon DEF Fresh
  <2>3. ASSUME Always, ~Errors, Fresh
        PROVE  /\ ~m.error /\ m.names = Protocols /\ m.found = FoundBy(m.of, svc.run)
               /\ m.of \in Names =>
                    /\ OfferedBy(svc.run)
                         = cm.found.set \cup {<<n, svc.run>> : n \in PendingNames \cup {m.of}}
                    /\ m.found.set = {<<m.of, svc.run>>}
    <3>1. ~m.error /\ m.names = Protocols /\ m.found = FoundBy(m.of, svc.run)
      BY <2>3, <1>6, <1>7, ZenonT(60) DEF Fresh
    <3>2. Asked = {m.of}
      BY <1>3, <1>4 DEF Asked
    <3>3. m.of \in Names => m.found.set = {<<m.of, svc.run>>}
      <4> SUFFICES ASSUME m.of \in Names PROVE m.found.set = {<<m.of, svc.run>>}
        OBVIOUS
      <4>1. m.found.set = {f \in OfferedBy(svc.run) : f[1] = m.of}
        BY <3>1, <1>10, <1>11, Zenon DEF FoundBy
      <4> QED
        BY <4>1 DEF OfferedBy
    <3>4. m.of \in Names =>
            OfferedBy(svc.run) = cm.found.set \cup {<<n, svc.run>> : n \in PendingNames \cup {m.of}}
      BY <2>3, <3>2, <1>6, <1>11, Zenon DEF IInv, Completes
    <3> QED
      BY <3>1, <3>3, <3>4, Zenon
  <2>4. ASSUME Always, ~Errors, Fresh', cm'.step = "PARAMETERS"
        PROVE  OfferedBy(svc'.run)
                 = cm'.found.set \cup {<<n, svc'.run>> : n \in (PendingNames \cup Asked)'}
    <3>1. CASE m.of = "ListProtocols"
      <4>1. /\ Protocols # <<>> /\ call' = Head(Protocols) /\ cm'.found.set = {}
            /\ cm'.pending = RemoveIndexFast(Protocols) /\ Protocols \in Seq(Names) /\ call' # "none"
        BY <3>1, <2>2, <2>3, <2>4, <1>2, <1>6, <1>8, <1>9, <1>10, <1>11, ZenonT(60) DEF Over
      <4>2. \A x : x \in Names <=> x \in (PendingNames \cup Asked)'
        <5>0. Protocols \in Seq(Names) /\ Protocols # <<>>
          BY <4>1
        <5>1. \A x : (\E i \in DOMAIN Protocols : Protocols[i] = x)
                <=> (x = Head(Protocols) \/ \E i \in DOMAIN RemoveIndexFast(Protocols) :
                                               RemoveIndexFast(Protocols)[i] = x)
          BY <5>0, RemoveIndexFastFacts, ZenonT(60)
        <5>2. Asked' = {Head(Protocols)}
          BY <4>1 DEF Asked
        <5> QED
          BY <5>1, <5>2, <4>1, ZenonT(60) DEF Names, PendingNames
      <4>3. (PendingNames \cup Asked)' = Names
        BY <4>2, Zenon
      <4> QED
        BY <4>1, <4>3, <1>1, Zenon DEF OfferedBy
    <3>2. CASE m.of \in Names
      <4>1. /\ cm.pending # <<>> /\ call' = Head(cm.pending) /\ call' # "none"
            /\ cm'.found.set = cm.found.set \cup m.found.set
            /\ cm'.pending = RemoveIndexFast(cm.pending)
        BY <3>2, <2>4, <1>2, <1>8, <1>9, <1>10, <1>11, ZenonT(60) DEF Over
      <4>2. \A x : x \in PendingNames <=> x \in (PendingNames \cup Asked)'
        <5>0. cm.pending \in Seq(Names) /\ cm.pending # <<>>
          BY <4>1, <1>9
        <5>1. \A x : (\E i \in DOMAIN cm.pending : cm.pending[i] = x)
                <=> (x = Head(cm.pending) \/ \E i \in DOMAIN RemoveIndexFast(cm.pending) :
                                               RemoveIndexFast(cm.pending)[i] = x)
          BY <5>0, RemoveIndexFastFacts, Zenon
        <5>2. Asked' = {Head(cm.pending)}
          BY <4>1 DEF Asked
        <5> QED
          BY <5>1, <5>2, <4>1 DEF PendingNames
      <4>3. (PendingNames \cup Asked)' = PendingNames
        BY <4>2
      <4>4. /\ OfferedBy(svc.run)
                 = cm.found.set \cup {<<n, svc.run>> : n \in PendingNames \cup {m.of}}
            /\ m.found.set = {<<m.of, svc.run>>}
        BY <3>2, <2>2, <2>3, <2>4
      <4> QED
        BY <4>1, <4>3, <4>4, <1>1, Zenon
    <3> QED
      BY <3>1, <3>2, <2>4, <1>8, Zenon DEF Over
  <2>5. ASSUME Always, ~Errors, Fresh', ~cm'.in_call, ~cm'.introspect_idle
        PROVE  cm'.source = 2 /\ cm'.objects.set = OfferedBy(svc'.run)
    <3>1. CASE m.of = "GetAll"
      <4>1. m.found = Some(OfferedBy(svc.run)) /\ cm'.source = 2 /\ cm'.objects = m.found
        BY <3>1, <2>2, <2>3, <2>5, <1>8, <1>10, <1>11, ZenonT(60) DEF FoundBy
      <4> QED
        BY <4>1, <1>1, <1>10, SMTT(30) DEF OfferedBy
    <3>2. CASE m.of = "ListProtocols"
      <4>1. m.names = Protocols /\ ~m.error
        BY <2>2, <2>3, <2>5, ZenonT(60)
      <4>2. m.names # <<>>
        BY <4>1 DEF SoundConstants
      <4> QED
        BY <3>2, <4>1, <4>2, <2>5, <1>8, <1>11, ZenonT(60)
    <3>3. CASE m.of \in Names
      <4>1. cm'.source = 2 /\ cm'.objects.set = cm.found.set \cup m.found.set /\ cm.pending = <<>>
        BY <3>3, <2>5, <1>8, <1>10, <1>11, Zenon
      <4>2. /\ OfferedBy(svc.run)
                 = cm.found.set \cup {<<n, svc.run>> : n \in PendingNames \cup {m.of}}
            /\ m.found.set = {<<m.of, svc.run>>}
        BY <3>3, <2>2, <2>3, <2>5, ZenonT(60)
      <4>3. PendingNames = {}
        BY <4>1 DEF PendingNames
      <4>4. OfferedBy(svc.run) = cm'.objects.set
        BY <4>1, <4>2, <4>3, ZenonT(30)
      <4> QED
        BY <4>1, <4>4, <1>1, Zenon DEF OfferedBy
    <3> QED
      BY <3>1, <3>2, <3>3, <1>6 DEF CallNames
  <2> QED
    BY <1>5, <2>1, <2>4, <2>5, Zenon DEF Completes
<1> QED
  BY <1>14, <1>15, <1>16, <1>17, <1>18, <1>19, <1>20, ZenonT(60) DEF IInv

(* A step that leaves the introspection as it was. *)
LEMMA KeepStep ==
  ASSUME IInv, cm' \in TpConnectionManager, svc' = svc, sig' = sig, wire' = wire, call' = call,
         cm'.running = cm.running, cm.name_known => cm'.name_known, cm'.aborted = cm.aborted,
         cm'.step = cm.step, cm'.in_call = cm.in_call, cm'.found = cm.found, cm'.pending = cm.pending,
         Sources', cm'.source = 2 => SameRun(cm'.objects.set),
         Always /\ ~Errors /\ Fresh /\ ~cm.in_call /\ ~cm'.introspect_idle =>
           cm'.source = 2 /\ cm'.objects.set = OfferedBy(svc.run)
  PROVE  IInv'
<1>1. TypeOK'
  BY Zenon DEF IInv, TypeOK
<1>2. /\ Replies' = Replies /\ (AnyOwner' <=> AnyOwner) /\ (Fresh' <=> Fresh)
      /\ Asked' = Asked /\ PendingNames' = PendingNames
      /\ \A i : (OwnerAfter(i)' <=> OwnerAfter(i)) /\ (OwnerBefore(i)' <=> OwnerBefore(i))
  BY Zenon DEF Replies, AnyOwner, Fresh, Asked, PendingNames, OwnerAfter, OwnerBefore
<1>3. OneCall'
  BY <1>2, Zenon DEF IInv, OneCall
<1>4. Stages'
  BY Zenon DEF IInv, Stages
<1>5. Owners'
  BY <1>2, Zenon DEF IInv, Owners
<1>6. Runs'
  BY <1>2, Zenon DEF IInv, Runs
<1>7. Completes'
  BY <1>2, ZenonT(60) DEF IInv, Completes
<1> QED
  BY <1>1, <1>3, <1>4, <1>5, <1>6, <1>7, Zenon DEF IInv

(* A step that starts an introspection. *)
LEMMA BeginStep ==
  ASSUME IInv, cm' \in TpConnectionManager, svc' = svc, sig' = sig, ~cm.in_call,
         wire' = Cancelled(wire), call' = "GetAll",
         cm'.running = cm.running, cm'.name_known = cm.name_known, cm'.aborted = cm.aborted,
         Begun(cm, cm')
  PROVE  IInv'
<1>1. TypeOK'
  BY Zenon DEF IInv, TypeOK
<1>2. wire \in Seq(Messages)
  BY Zenon DEF IInv, OneCall
<1>3. /\ wire' \in Seq(Messages) /\ DOMAIN wire' = DOMAIN wire
      /\ \A i \in DOMAIN wire : /\ wire'[i].m \in {"owner", "ignored"}
                                /\ wire'[i].m = "owner" <=> wire[i].m = "owner"
                                /\ wire[i].m = "owner" => wire'[i] = wire[i]
  BY <1>2, CancelledFacts, Zenon
<1>4. Replies' = {}
  BY <1>3, ZenonT(60) DEF Replies
<1>5. /\ AnyOwner' <=> AnyOwner
      /\ \A i \in DOMAIN wire : OwnerAfter(i)' <=> OwnerAfter(i)
  BY <1>3 DEF AnyOwner, OwnerAfter
<1>6. cm'.found = None /\ cm'.found.set = {} /\ cm'.pending = <<>> /\ cm'.step = "PROPERTIES" /\ cm'.in_call
      /\ StepOf("GetAll") = "PROPERTIES"
  BY DEF Begun, None, StepOf
<1>7. OneCall'
  BY <1>3, <1>4, <1>6, Zenon DEF OneCall, CallNames
<1>8. Stages'
  BY <1>6, Zenon DEF IInv, Stages
<1>9. Sources'
  BY Zenon DEF IInv, Sources, Begun, SameInfo
<1>10. Owners'
  <2>1. ASSUME NEW i \in DOMAIN wire', wire'[i].m = "owner", ~OwnerAfter(i)'
        PROVE  wire'[i].new <=> svc'.running
    BY <1>3, <1>5, <2>1, Zenon DEF IInv, Owners
  <2> QED
    BY <1>5, <2>1, Zenon DEF IInv, Owners
<1>11. Runs'
  BY <1>4, <1>6, Zenon DEF IInv, Runs, OfRun, Begun, SameInfo
<1>12. Completes'
  BY <1>4, <1>6, Zenon DEF Completes
<1> QED
  BY <1>1, <1>7, <1>8, <1>9, <1>10, <1>11, <1>12, Zenon DEF IInv

(* tp_connection_manager_idle_introspect starts an introspection, or leaves all as it is. *)
LEMMA IdleIntrospectFacts ==
  ASSUME NEW c \in TpConnectionManager, NEW r, r = IdleIntrospect(c),
         ~InProgress(c) => c.step = "IDLE" /\ c.found = None /\ c.pending = <<>>
  PROVE  /\ r.c \in TpConnectionManager /\ r.c.running = c.running
         /\ r.c.name_known = c.name_known /\ r.c.aborted = c.aborted /\ r.c.introspect_idle = FALSE
         /\ \/ r.k = "none" /\ (InProgress(c) \/ ~Always) /\ SameIntrospection(c, r.c)
            \/ r.k = "GetAll" /\ ~InProgress(c) /\ Begun(c, r.c)
<1> DEFINE d == [c EXCEPT !.introspect_idle = FALSE]
<1>1. /\ d \in TpConnectionManager /\ SameInfo(c, d)
      /\ d.step = c.step /\ d.found = c.found /\ d.pending = c.pending
  BY ZenonT(60) DEF TpConnectionManager, SameInfo
<1>2. /\ d.name_known = c.name_known /\ d.running = c.running /\ d.introspect_idle = FALSE
      /\ d.aborted = c.aborted /\ d.in_call = c.in_call
  BY DEF TpConnectionManager
<1>3. CASE ~InProgress(c) /\ (Always \/ c.source = 0)
  <2>1. r = ContinueIntrospection(d)
    BY <1>3, ZenonT(60) DEF IdleIntrospect
  <2> HIDE DEF d
  <2>2. r.c \in TpConnectionManager /\ SameElse(d, r.c) /\ r.k = "GetAll" /\ Begun(d, r.c)
    BY <1>1, <1>3, <2>1, ContinueIntrospectionFacts DEF Begun
  <2>3. Begun(c, r.c)
    BY <2>2, <1>1, ZenonT(60) DEF Begun, SameInfo
  <2> QED
    BY <1>2, <1>3, <2>2, <2>3 DEF SameElse
<1>4. CASE ~(~InProgress(c) /\ (Always \/ c.source = 0))
  <2>1. r.k = "none" /\ r.c = d
    BY <1>4, Zenon DEF IdleIntrospect, Does
  <2> HIDE DEF d
  <2> QED
    BY <1>1, <1>2, <1>4, <2>1 DEF SameIntrospection
<1> QED
  BY <1>3, <1>4, Zenon

(* The queued introspection keeps the invariant. *)
LEMMA IdleIntrospectsStep ==
  ASSUME SoundConstants, IInv, IdleIntrospects
  PROVE  IInv'
<1> DEFINE r == IdleIntrospect(cm)
<1>1. /\ cm \in TpConnectionManager /\ svc' = svc /\ sig' = sig /\ cm' = r.c
      /\ call' = IF r.k = "none" THEN call ELSE IF r.k = "cancel" THEN "none" ELSE r.k
      /\ wire' = IF r.k = "none" THEN wire ELSE Cancelled(wire)
  BY DEF IInv, TypeOK, IdleIntrospects, Becomes
<1>2. /\ InProgress(cm) <=> cm.in_call
      /\ ~InProgress(cm) => cm.step = "IDLE" /\ cm.found = None /\ cm.pending = <<>>
  BY DEF IInv, Stages, InProgress, None
<1>3. /\ r.c \in TpConnectionManager /\ r.c.running = cm.running
      /\ r.c.name_known = cm.name_known /\ r.c.aborted = cm.aborted /\ r.c.introspect_idle = FALSE
      /\ \/ r.k = "none" /\ (InProgress(cm) \/ ~Always) /\ SameIntrospection(cm, r.c)
         \/ r.k = "GetAll" /\ ~InProgress(cm) /\ Begun(cm, r.c)
  BY <1>1, <1>2, IdleIntrospectFacts, ZenonT(60)
<1> HIDE DEF r
<1>4. CASE r.k = "none"
  <2>1. SameIntrospection(cm, cm') /\ (cm.in_call \/ ~Always) /\ wire' = wire /\ call' = call
    BY <1>1, <1>2, <1>3, <1>4
  <2>2. Sources'
    BY <2>1, Zenon DEF IInv, Sources, SameIntrospection, SameInfo
  <2>3. cm'.source = 2 => SameRun(cm'.objects.set)
    BY <2>1, ZenonT(60) DEF IInv, Runs, SameIntrospection, SameInfo
  <2> QED
    BY <1>1, <1>3, <2>1, <2>2, <2>3, KeepStep DEF SameIntrospection
<1>5. CASE r.k = "GetAll"
  BY <1>1, <1>2, <1>3, <1>5, BeginStep
<1> QED
  BY <1>3, <1>4, <1>5, ZenonT(60)

(* Reading the .manager file keeps the invariant: what is known already is kept, and a file
   that cannot be read leads to an introspection. *)
LEMMA IdleReadsFileStep ==
  ASSUME SoundConstants, IInv, IdleReadsFile
  PROVE  IInv'
<1> DEFINE r == ReadFile(cm)
           d == [cm EXCEPT !.file_idle = FALSE]
<1>1. /\ cm \in TpConnectionManager /\ svc' = svc /\ sig' = sig /\ cm' = r.c
      /\ call' = IF r.k = "none" THEN call ELSE IF r.k = "cancel" THEN "none" ELSE r.k
      /\ wire' = IF r.k = "none" THEN wire ELSE Cancelled(wire)
  BY DEF IInv, TypeOK, IdleReadsFile, Becomes
<1>2. /\ InProgress(cm) <=> cm.in_call
      /\ ~InProgress(cm) => cm.step = "IDLE" /\ cm.found = None /\ cm.pending = <<>>
  BY DEF IInv, Stages, InProgress, None
<1>3. /\ d \in TpConnectionManager /\ SameInfo(cm, d)
      /\ d.step = cm.step /\ d.found = cm.found /\ d.pending = cm.pending
  BY <1>1, Zenon DEF TpConnectionManager, SameInfo
<1>4. /\ d.name_known = cm.name_known /\ d.running = cm.running
      /\ d.introspect_idle = cm.introspect_idle
      /\ d.aborted = cm.aborted /\ d.in_call = cm.in_call
  BY <1>1 DEF TpConnectionManager
<1>5. SameIntrospection(cm, d) /\ (InProgress(d) <=> InProgress(cm))
  BY <1>3, <1>4 DEF SameIntrospection, InProgress
<1>6. cm.source \in 0..2 /\ (cm.source > 0 <=> cm.objects.known)
      /\ (cm.core = "prepared" <=> cm.source > 0)
      /\ (cm.source = 2 => SameRun(cm.objects.set))
  BY <1>1 DEF IInv, Sources, Runs, TpConnectionManager
<1>7. CASE cm.objects.known \/ (File # "good" /\ cm.introspect_idle)
  <2>1. r.k = "none" /\ r.c = d
    BY <1>7, Zenon DEF ReadFile, ReadManagerFile, Does
  <2> HIDE DEF d, r
  <2>2. Sources' /\ (cm'.source = 2 => SameRun(cm'.objects.set))
    BY <1>1, <1>3, <1>6, <2>1, ZenonT(60) DEF Sources, SameInfo
  <2>3. Always /\ ~Errors /\ Fresh /\ ~cm.in_call /\ ~cm'.introspect_idle =>
           cm'.source = 2 /\ cm'.objects.set = OfferedBy(svc.run)
    BY <1>1, <1>3, <1>4, <2>1 DEF IInv, Completes, SameInfo
  <2> QED
    BY <1>1, <1>3, <1>4, <2>1, <2>2, <2>3, KeepStep
<1>8. CASE ~cm.objects.known /\ File = "good"
  <2> DEFINE o == Some({<<n, 0>> : n \in Names})
             e == [d EXCEPT !.source = 1, !.objects = o]
  <2>1. r.k = "none" /\ r.c = [e EXCEPT !.core = IF e.source > 0 THEN "prepared" ELSE "failed"]
    BY <1>8, Zenon DEF ReadFile, ReadManagerFile, ReadyOrFailed, Does
  <2>2. o \in Tables /\ o.known
    BY DEF Tables, Found, Some, SoundConstants
  <2> HIDE DEF d, o
  <2>9. e \in TpConnectionManager
    <3> DEFINE f == [d EXCEPT !.source = 1]
    <3>1. f \in TpConnectionManager
      BY <1>3 DEF TpConnectionManager
    <3>2. e = [f EXCEPT !.objects = o]
      BY <1>3 DEF TpConnectionManager
    <3> HIDE DEF f, e
    <3> QED
      BY <2>2, <3>1, <3>2 DEF TpConnectionManager
  <2>3. /\ e.source = 1 /\ e.objects = o
        /\ e.step = d.step /\ e.found = d.found /\ e.pending = d.pending
    BY <1>3 DEF TpConnectionManager
  <2>4. /\ e.name_known = d.name_known /\ e.running = d.running
        /\ e.introspect_idle = d.introspect_idle
        /\ e.aborted = d.aborted /\ e.in_call = d.in_call
    BY <1>3 DEF TpConnectionManager
  <2> HIDE DEF e, r
  <2>5. /\ cm' \in TpConnectionManager /\ cm'.source = 1 /\ cm'.objects = o /\ cm'.core = "prepared"
        /\ cm'.step = e.step /\ cm'.found = e.found /\ cm'.pending = e.pending
    BY <1>1, <2>1, <2>3, <2>9 DEF TpConnectionManager
  <2>6. /\ cm'.name_known = e.name_known /\ cm'.running = e.running
        /\ cm'.introspect_idle = e.introspect_idle
        /\ cm'.aborted = e.aborted /\ cm'.in_call = e.in_call
    BY <1>1, <2>1, <2>3, <2>9, Zenon DEF TpConnectionManager
  <2>7. Sources'
    BY <2>2, <2>5, SMTT(30) DEF Sources
  <2>8. ~(Always /\ ~Errors /\ Fresh /\ ~cm.in_call /\ ~cm'.introspect_idle)
    BY <1>4, <1>6, <1>8, <2>4, <2>6 DEF IInv, Completes
  <2> QED
    BY <1>1, <1>3, <1>4, <2>1, <2>3, <2>4, <2>5, <2>6, <2>7, <2>8, KeepStep
<1>9. CASE ~cm.objects.known /\ File # "good" /\ ~cm.introspect_idle
  <2>1. r = IdleIntrospect(d)
    BY <1>9, Zenon DEF ReadFile, ReadManagerFile
  <2> HIDE DEF d, r
  <2>2. /\ r.c \in TpConnectionManager /\ r.c.running = d.running
        /\ r.c.name_known = d.name_known /\ r.c.aborted = d.aborted /\ r.c.introspect_idle = FALSE
        /\ \/ r.k = "none" /\ (InProgress(d) \/ ~Always) /\ SameIntrospection(d, r.c)
           \/ r.k = "GetAll" /\ ~InProgress(d) /\ Begun(d, r.c)
    BY <1>2, <1>3, <1>5, <2>1, IdleIntrospectFacts, ZenonT(60)
  <2>3. CASE r.k = "none"
    <3>1. SameIntrospection(cm, cm') /\ (cm.in_call \/ ~Always) /\ wire' = wire /\ call' = call
      BY <1>1, <1>2, <1>5, <2>2, <2>3, Zenon DEF SameIntrospection, SameInfo
    <3>2. Sources' /\ (cm'.source = 2 => SameRun(cm'.objects.set))
      BY <1>6, <3>1, Zenon DEF Sources, SameIntrospection, SameInfo
    <3> QED
      BY <1>1, <1>4, <2>2, <3>1, <3>2, KeepStep DEF SameIntrospection
  <2>4. CASE r.k = "GetAll"
    <3>1. Begun(cm, cm') /\ ~cm.in_call
      BY <1>1, <1>2, <1>3, <1>5, <2>2, <2>4 DEF Begun, SameInfo
    <3> QED
      BY <1>1, <1>4, <2>2, <2>4, <3>1, BeginStep, ZenonT(60)
  <2> QED
    BY <2>2, <2>3, <2>4
<1> QED
  BY <1>7, <1>8, <1>9

(* A new proxy, which has still to hear of the name's owner. *)
LEMMA InitIInv ==
  ASSUME SoundConstants, Init
  PROVE  IInv
<1> DEFINE m == [m |-> "owner", new |-> svc.running]
<1>1. TypeOK
  <2>1. None \in Tables /\ <<>> \in Seq(Names) /\ 0 \in 0..2
    BY DEF None, Tables, Found
  <2>2. NewCM \in TpConnectionManager
    BY <2>1 DEF NewCM, TpConnectionManager
  <2>3. 0 \in 0..MaxRuns /\ 1 \in 0..MaxRuns
    BY DEF SoundConstants
  <2>4. svc \in [running : BOOLEAN, run : 0..MaxRuns]
    <3>1. CASE svc = [running |-> FALSE, run |-> 0]
      BY <2>3, <3>1
    <3>2. CASE svc = [running |-> TRUE, run |-> 1]
      BY <2>3, <3>2, Zenon
    <3> QED
      BY <3>1, <3>2 DEF Init
  <2> QED
    BY <2>2, <2>4 DEF TypeOK, Init
<1>2. m \in Messages /\ svc.running \in BOOLEAN
  <2>1. svc.running \in BOOLEAN
    BY <1>1, Zenon DEF TypeOK
  <2>2. m \in [m : {"owner"}, new : BOOLEAN]
    BY <2>1, Zenon
  <2> QED
    BY <2>1, <2>2 DEF Messages
<1>3. wire \in Seq(Messages) /\ DOMAIN wire = {1} /\ wire[1].m = "owner" /\ wire[1].new = svc.running
  <2> HIDE DEF m
  <2>1. wire = <<m>>
    BY DEF Init, m
  <2>2. wire \in Seq(Messages) /\ DOMAIN wire = {1} /\ wire[1] = m
    BY <1>2, <2>1
  <2> QED
    BY <2>2 DEF m
<1>4. Replies = {} /\ AnyOwner
  BY <1>3, Zenon DEF Replies, AnyOwner
<1>5. /\ cm.in_call = FALSE /\ cm.aborted = FALSE /\ cm.name_known = FALSE /\ cm.running = FALSE
      /\ cm.step = "IDLE" /\ cm.found = None /\ cm.objects = None /\ cm.pending = <<>>
      /\ cm.core = "none" /\ cm.source = 0 /\ call = "none" /\ sig = "none"
      /\ None.known = FALSE /\ None.set = {}
  BY ZenonT(60) DEF Init, NewCM, None
<1>6. OneCall /\ Stages /\ Sources
  BY <1>3, <1>4, <1>5 DEF OneCall, Stages, Sources
<1>7. Owners
  BY <1>3, <1>4, <1>5, ZenonT(60) DEF Owners
<1>8. Runs /\ Completes
  BY <1>4, <1>5 DEF Runs, Completes, Fresh
<1> QED
  BY <1>1, <1>6, <1>7, <1>8, ZenonT(60) DEF IInv

(* Setting manager-file only queues a look at the file. *)
LEMMA SetManagerFileStep ==
  ASSUME IInv, SetManagerFile
  PROVE  IInv'
<1>1. cm \in TpConnectionManager /\ cm' = [cm EXCEPT !.file_idle = TRUE]
  BY DEF IInv, TypeOK, SetManagerFile
<1>2. /\ cm' \in TpConnectionManager /\ SameInfo(cm, cm')
      /\ cm'.step = cm.step /\ cm'.found = cm.found /\ cm'.pending = cm.pending
  BY <1>1, Zenon DEF TpConnectionManager, SameInfo
<1>3. /\ cm'.name_known = cm.name_known /\ cm'.running = cm.running
      /\ cm'.introspect_idle = cm.introspect_idle
      /\ cm'.aborted = cm.aborted /\ cm'.in_call = cm.in_call
  BY <1>1 DEF TpConnectionManager
<1>4. Sources' /\ (cm'.source = 2 => SameRun(cm'.objects.set))
  BY <1>2, ZenonT(60) DEF IInv, Sources, Runs, SameInfo
<1>5. Always /\ ~Errors /\ Fresh /\ ~cm.in_call /\ ~cm'.introspect_idle =>
           cm'.source = 2 /\ cm'.objects.set = OfferedBy(svc.run)
  BY <1>2, <1>3 DEF IInv, Completes, SameInfo
<1> QED
  BY <1>2, <1>3, <1>4, <1>5, KeepStep DEF SetManagerFile

(* tp_connection_manager_activate only queues an introspection. *)
LEMMA ActivateStep ==
  ASSUME IInv, Activate
  PROVE  IInv'
<1> DEFINE w == cm.want \/ ~cm.name_known
           i == cm.introspect_idle \/ cm.name_known
<1>1. /\ cm \in TpConnectionManager /\ w \in BOOLEAN /\ i \in BOOLEAN
      /\ cm' = [cm EXCEPT !.asked = TRUE, !.want = w, !.introspect_idle = i]
  BY DEF IInv, TypeOK, Activate
<1> HIDE DEF w, i
<1>2. cm' \in TpConnectionManager
  BY <1>1, ZenonT(60) DEF TpConnectionManager
<1>3. /\ SameInfo(cm, cm')
      /\ cm'.step = cm.step /\ cm'.found = cm.found /\ cm'.pending = cm.pending
  BY <1>1 DEF TpConnectionManager, SameInfo
<1>4. /\ cm'.name_known = cm.name_known /\ cm'.running = cm.running
      /\ cm'.introspect_idle = i
      /\ cm'.aborted = cm.aborted /\ cm'.in_call = cm.in_call
  BY <1>1 DEF TpConnectionManager
<1>5. Sources' /\ (cm'.source = 2 => SameRun(cm'.objects.set))
  BY <1>3 DEF IInv, Sources, Runs, SameInfo
<1>6. Always /\ ~Errors /\ Fresh /\ ~cm.in_call /\ ~cm'.introspect_idle =>
           cm'.source = 2 /\ cm'.objects.set = OfferedBy(svc.run)
  BY <1>3, <1>4, Zenon DEF IInv, Completes, SameInfo, i
<1> QED
  BY <1>2, <1>3, <1>4, <1>5, <1>6, KeepStep DEF Activate

(* The answer to a cancelled call changes nothing. *)
LEMMA IgnoresStep ==
  ASSUME IInv, Ignores
  PROVE  IInv'
<1>1. /\ wire \in Seq(Messages) /\ wire # <<>> /\ wire' = Tail(wire) /\ Head(wire).m = "ignored"
      /\ cm' = cm /\ svc' = svc /\ call' = call /\ sig' = sig
  BY DEF IInv, OneCall, Ignores
<1>2. /\ wire' \in Seq(Messages) /\ wire[1].m = "ignored" /\ 1 \in DOMAIN wire
      /\ DOMAIN wire \subseteq Nat \ {0} /\ DOMAIN wire' \subseteq Nat \ {0}
      /\ \A i \in DOMAIN wire' : i + 1 \in DOMAIN wire /\ wire'[i] = wire[i + 1]
      /\ \A i \in DOMAIN wire \ {1} : i - 1 \in DOMAIN wire' /\ wire'[i - 1] = wire[i]
  BY <1>1, TailFacts
<1>3. ASSUME NEW i \in DOMAIN wire'
      PROVE  /\ i + 1 \in DOMAIN wire /\ wire'[i] = wire[i + 1]
             /\ OwnerAfter(i)' <=> OwnerAfter(i + 1)
             /\ OwnerBefore(i)' <=> OwnerBefore(i + 1)
  <2>1. i \in Nat /\ i + 1 \in DOMAIN wire /\ wire'[i] = wire[i + 1]
    BY <1>2, ZenonT(60)
  <2>2. ASSUME NEW j \in DOMAIN wire', wire'[j].m = "owner"
        PROVE  /\ j + 1 \in DOMAIN wire /\ wire[j + 1].m = "owner"
               /\ (j > i => j + 1 > i + 1) /\ (j < i => j + 1 < i + 1)
    BY <1>2, <2>1, <2>2
  <2>3. ASSUME NEW j \in DOMAIN wire, wire[j].m = "owner"
        PROVE  /\ j - 1 \in DOMAIN wire' /\ wire'[j - 1].m = "owner"
               /\ (j > i + 1 => j - 1 > i) /\ (j < i + 1 => j - 1 < i)
    <3>1. j \in DOMAIN wire \ {1}
      BY <1>2, <2>3
    <3> QED
      BY <1>2, <2>1, <2>3, <3>1, SMTT(30)
  <2>4. OwnerAfter(i)' <=> OwnerAfter(i + 1)
    BY <2>2, <2>3, Zenon DEF OwnerAfter
  <2>5. OwnerBefore(i)' <=> OwnerBefore(i + 1)
    BY <2>2, <2>3, Zenon DEF OwnerBefore
  <2> QED
    BY <2>1, <2>4, <2>5, Zenon
<1>4. AnyOwner' <=> AnyOwner
  <2>1. ASSUME NEW i \in DOMAIN wire, wire[i].m = "owner" PROVE AnyOwner'
    BY <1>2, <2>1, Zenon DEF AnyOwner
  <2> QED
    BY <1>2, <2>1, ZenonT(60) DEF AnyOwner
<1>5. \A i \in Replies' : i + 1 \in Replies /\ i \in DOMAIN wire'
  BY <1>2, Zenon DEF Replies
<1>6. \A i \in Replies : i - 1 \in Replies' /\ wire'[i - 1] = wire[i]
  BY <1>2, Zenon DEF Replies
<1>7. (Replies' = {} <=> Replies = {}) /\ (Fresh' <=> Fresh) /\ PendingNames' = PendingNames
  BY <1>1, <1>4, <1>5, <1>6, Zenon DEF Fresh, PendingNames
<1>8. Asked' = Asked
  <2>1. \A i \in Replies' : wire'[i].of = wire[i + 1].of
    BY <1>3, <1>5
  <2>2. {wire'[i].of : i \in Replies'} = {wire[i].of : i \in Replies}
    <3>1. ASSUME NEW i \in Replies' PROVE wire'[i].of \in {wire[j].of : j \in Replies}
      BY <1>5, <2>1
    <3>2. ASSUME NEW i \in Replies PROVE wire[i].of \in {wire'[j].of : j \in Replies'}
      BY <1>6
    <3> QED
      BY <3>1, <3>2
  <2> QED
    BY <1>1, <2>2, Zenon DEF Asked
<1>9. TypeOK'
  BY <1>1 DEF IInv, TypeOK
<1>10. OneCall'
  <2>1. ASSUME NEW i \in Replies'
        PROVE  /\ cm.step = StepOf(wire'[i].of)
               /\ wire'[i].error \/ ~wire'[i].found.known => wire'[i].found = None
    BY <1>3, <1>5 DEF IInv, OneCall
  <2>2. ASSUME NEW i \in Replies', NEW j \in Replies' PROVE i = j
    <3>1. i + 1 \in Replies /\ j + 1 \in Replies
      BY <1>5, Zenon
    <3>2. i + 1 = j + 1
      BY <3>1, Zenon DEF IInv, OneCall
    <3> QED
      BY <1>2, <1>5, <3>2
  <2> QED
    BY <1>1, <1>2, <1>7, <2>1, <2>2, ZenonT(60) DEF IInv, OneCall
<1>11. Stages' /\ Sources'
  BY <1>1, Zenon DEF IInv, Stages, Sources
<1>12. Owners'
  <2>1. ASSUME NEW i \in DOMAIN wire', wire'[i].m = "owner", ~OwnerAfter(i)'
        PROVE  wire'[i].new <=> svc.running
    BY <1>3, <2>1, Zenon DEF IInv, Owners
  <2> QED
    BY <1>1, <1>4, <2>1, Zenon DEF IInv, Owners
<1>13. Runs'
  <2>1. ASSUME NEW i \in Replies'
        PROVE  /\ SameRun(wire'[i].found.set)
               /\ ~OwnerAfter(i)' => OfRun(wire'[i].found.set, svc.run)
               /\ ~OwnerBefore(i)' =>
                    /\ SameRun(cm.found.set \cup wire'[i].found.set)
                    /\ ~wire'[i].error => cm.running
    <3>1. /\ i + 1 \in Replies /\ wire'[i] = wire[i + 1]
          /\ (OwnerAfter(i)' <=> OwnerAfter(i + 1)) /\ (OwnerBefore(i)' <=> OwnerBefore(i + 1))
      BY <1>3, <1>5, Zenon
    <3> QED
      BY <3>1, Zenon DEF IInv, Runs
  <2> QED
    BY <1>1, <1>4, <2>1, Zenon DEF IInv, Runs, OfRun
<1>14. Completes'
  <2>1. ASSUME NEW i \in Replies', ~wire'[i].error, ~OwnerAfter(i)'
        PROVE  wire'[i].names = Protocols /\ wire'[i].found = FoundBy(wire'[i].of, svc.run)
    BY <1>3, <1>5, <2>1, ZenonT(60) DEF IInv, Completes
  <2>2. ASSUME Always, ~Errors, NEW i \in Replies', wire'[i].error
        PROVE  \/ ~svc.running
               \/ OwnerAfter(i)'
               \/ \E j \in DOMAIN wire' :
                    /\ j < i /\ wire'[j].m = "owner"
                    /\ ~wire'[j].new \/ cm.running \/ OwnerBefore(j)'
    <3>1. /\ i \in Nat /\ i + 1 \in Replies /\ wire[i + 1].error
          /\ OwnerAfter(i)' <=> OwnerAfter(i + 1)
      BY <1>2, <1>3, <1>5, <2>2, Zenon
    <3>2. ASSUME NEW j \in DOMAIN wire, j < i + 1, wire[j].m = "owner",
                 ~wire[j].new \/ cm.running \/ OwnerBefore(j)
          PROVE  /\ j - 1 \in DOMAIN wire' /\ j - 1 < i /\ wire'[j - 1].m = "owner"
                 /\ ~wire'[j - 1].new \/ cm.running \/ OwnerBefore(j - 1)'
      <4>1. j \in DOMAIN wire \ {1}
        BY <1>2, <3>2, ZenonT(60)
      <4>2. j \in Nat /\ j - 1 \in DOMAIN wire' /\ wire'[j - 1] = wire[j] /\ j - 1 < i /\ (j - 1) + 1 = j
        BY <1>2, <3>1, <3>2, <4>1
      <4>3. OwnerBefore(j - 1)' <=> OwnerBefore((j - 1) + 1)
        BY <1>3, <4>2, Zenon
      <4> QED
        BY <3>2, <4>2, <4>3, Zenon
    <3> QED
      BY <2>2, <3>1, <3>2, Zenon DEF IInv, Completes
  <2> QED
    BY <1>1, <1>7, <1>8, <2>1, <2>2, Zenon DEF IInv, Completes
<1> QED
  BY <1>9, <1>10, <1>11, <1>12, <1>13, <1>14 DEF IInv

(* What a process says of its protocols is of its own run. *)
LEMMA FoundByFacts ==
  ASSUME SoundConstants, NEW k \in CallNames, NEW n \in 0..MaxRuns
  PROVE  /\ FoundBy(k, n) \in Tables /\ OfRun(FoundBy(k, n).set, n)
         /\ ~FoundBy(k, n).known => FoundBy(k, n) = None
<1>1. OfferedBy(n) \in Found /\ OfRun(OfferedBy(n), n)
  BY DEF OfferedBy, Found, OfRun
<1>2. None \in Tables /\ None.set = {}
  BY ZenonT(60) DEF None, Tables, Found
<1>3. \A S \in SUBSET OfferedBy(n) : Some(S) \in Tables /\ OfRun(Some(S).set, n) /\ Some(S).known
  BY <1>1 DEF Some, Tables, Found, OfRun
<1>4. OfferedBy(n) \in SUBSET OfferedBy(n) /\ {f \in OfferedBy(n) : f[1] = k} \in SUBSET OfferedBy(n)
  BY Zenon
<1>5. \/ FoundBy(k, n) = None
      \/ FoundBy(k, n) = Some(OfferedBy(n))
      \/ FoundBy(k, n) = Some({f \in OfferedBy(n) : f[1] = k})
  BY DEF FoundBy
<1>6. OfRun({}, n)
  BY ZenonT(60) DEF OfRun
<1> QED
  BY <1>2, <1>3, <1>4, <1>5, <1>6, ZenonT(60)

(* What the answer to the pending call says. *)
LEMMA AnswerFacts ==
  ASSUME SoundConstants, TypeOK, call \in CallNames, NEW error \in BOOLEAN, NEW a, a = Answer(error)
  PROVE  /\ a \in Messages /\ a.m = "reply" /\ a.of = call /\ a.error = error
         /\ ~error => a.names = Protocols /\ a.found = FoundBy(call, svc.run)
         /\ error \/ ~a.found.known => a.found = None
         /\ OfRun(a.found.set, svc.run)
<1>1. svc.run \in 0..MaxRuns
  BY DEF TypeOK
<1>2. /\ FoundBy(call, svc.run) \in Tables /\ OfRun(FoundBy(call, svc.run).set, svc.run)
      /\ ~FoundBy(call, svc.run).known => FoundBy(call, svc.run) = None
  BY <1>1, FoundByFacts, ZenonT(60)
<1>3. None \in Tables /\ None.set = {} /\ OfRun({}, svc.run)
  BY DEF None, Tables, Found, OfRun
<1>4. Protocols \in Seq(Names) /\ <<>> \in Seq(Names)
  <2>1. Len(Protocols) \in Nat /\ DOMAIN Protocols = 1..Len(Protocols)
        /\ Protocols = [i \in 1..Len(Protocols) |-> Protocols[i]]
    BY LenProperties DEF SoundConstants
  <2>2. Protocols \in [1..Len(Protocols) -> Names]
    BY <2>1, Zenon DEF Names
  <2> QED
    BY <2>1, <2>2, SeqDef
<1> DEFINE nm == IF error THEN <<>> ELSE Protocols
           fd == IF error THEN None ELSE FoundBy(call, svc.run)
<1>5. nm \in Seq(Names) /\ fd \in Tables
  BY <1>2, <1>3, <1>4, ZenonT(60)
<1>6. a = [m |-> "reply", of |-> call, error |-> error, names |-> nm, found |-> fd]
  BY DEF Answer
<1>7. (~error => nm = Protocols /\ fd = FoundBy(call, svc.run)) /\ (error => fd = None)
  BY ZenonT(60)
<1> HIDE DEF nm, fd
<1>8. a \in Messages
  BY <1>5, <1>6 DEF Messages
<1>9. a.m = "reply" /\ a.of = call /\ a.error = error /\ a.names = nm /\ a.found = fd
  BY <1>6
<1> QED
  BY <1>2, <1>3, <1>7, <1>8, <1>9

(* The process answers, or an error is sent in its stead. *)
LEMMA AnswerStep ==
  ASSUME SoundConstants, IInv, NEW error \in BOOLEAN, call # "none",
         wire' = Append(wire, Answer(error)), call' = "none", cm' = cm, svc' = svc, sig' = sig,
         ~error => svc.running, error /\ ~Errors => ~svc.running
  PROVE  IInv'
<1> DEFINE a == Answer(error)
<1>1. call \in CallNames /\ TypeOK /\ wire \in Seq(Messages) /\ Replies = {}
      /\ cm.step = StepOf(call) /\ cm.in_call
  BY Zenon DEF IInv, OneCall
<1>2. /\ a \in Messages /\ a.m = "reply" /\ a.of = call /\ a.error = error
      /\ ~error => a.names = Protocols /\ a.found = FoundBy(call, svc.run)
      /\ error \/ ~a.found.known => a.found = None
      /\ OfRun(a.found.set, svc.run)
  BY <1>1, AnswerFacts, ZenonT(60)
<1> HIDE DEF a
<1>3. PICK n : /\ wire' \in Seq(Messages) /\ n \in Nat \ {0} /\ n \notin DOMAIN wire
               /\ DOMAIN wire' = DOMAIN wire \cup {n} /\ wire'[n] = a
               /\ \A i \in DOMAIN wire : i \in Nat \ {0} /\ i < n /\ wire'[i] = wire[i]
  BY <1>1, <1>2, AppendFacts DEF a
<1>4. Replies' = {n} /\ (AnyOwner' <=> AnyOwner)
  BY <1>1, <1>2, <1>3 DEF Replies, AnyOwner
<1>5. /\ ~OwnerAfter(n)' /\ (OwnerBefore(n)' <=> AnyOwner)
      /\ \A i \in DOMAIN wire : OwnerAfter(i)' <=> OwnerAfter(i)
  BY <1>2, <1>3 DEF OwnerAfter, OwnerBefore, AnyOwner
<1>6. Asked = {call} /\ Asked' = {call} /\ PendingNames' = PendingNames /\ (Fresh' <=> Fresh)
  <2>1. {wire'[i].of : i \in {n}} = {call}
    BY <1>2, <1>3
  <2> QED
    BY <1>4, <2>1, ZenonT(60) DEF Asked, PendingNames, Fresh
<1>7. TypeOK' /\ Stages' /\ Sources'
  BY DEF IInv, TypeOK, Stages, Sources
<1>8. OneCall'
  BY <1>1, <1>2, <1>3, <1>4 DEF OneCall
<1>9. Owners'
  <2>1. ASSUME NEW i \in DOMAIN wire', wire'[i].m = "owner", ~OwnerAfter(i)'
        PROVE  wire'[i].new <=> svc.running
    BY <1>2, <1>3, <1>5, <2>1, ZenonT(60) DEF IInv, Owners
  <2> QED
    BY <1>4, <2>1, Zenon DEF IInv, Owners
<1>10. Runs'
  <2>1. SameRun(a.found.set)
    BY <1>2, Zenon DEF SameRun, OfRun
  <2>2. ~AnyOwner => SameRun(cm.found.set \cup a.found.set) /\ (~error => cm.running)
    BY <1>2, ZenonT(60) DEF IInv, Runs, Owners, SameRun, OfRun
  <2> QED
    BY <1>2, <1>3, <1>4, <1>5, <2>1, <2>2, ZenonT(60) DEF IInv, Runs
<1>11. Completes'
  <2>1. /\ ~wire'[n].error => wire'[n].names = Protocols /\ wire'[n].found = FoundBy(wire'[n].of, svc.run)
        /\ wire'[n].error /\ ~Errors => ~svc.running
    BY <1>2, <1>3, Zenon
  <2>2. cm.step = "PARAMETERS" => cm.running
    BY Zenon DEF IInv, Completes
  <2>3. Always /\ ~Errors /\ Fresh /\ cm.step = "PARAMETERS" =>
          OfferedBy(svc.run) = cm.found.set \cup {<<x, svc.run>> : x \in PendingNames \cup Asked}
    BY ZenonT(60) DEF IInv, Completes
  <2> QED
    BY <1>1, <1>4, <1>6, <2>1, <2>2, <2>3, Zenon DEF Completes
<1> QED
  BY <1>7, <1>8, <1>9, <1>10, <1>11, ZenonT(60) DEF IInv

(* The name has a new owner, or none. *)
LEMMA NewsStep ==
  ASSUME SoundConstants, IInv, NEW new \in BOOLEAN,
         wire' = Append(wire, [m |-> "owner", new |-> new]),
         svc' \in [running : BOOLEAN, run : 0..MaxRuns], svc'.running <=> new,
         call' = call, cm' = cm, sig' = sig
  PROVE  IInv'
<1> DEFINE a == [m |-> "owner", new |-> new]
<1>1. a \in Messages /\ a.m = "owner" /\ (a.new <=> new) /\ wire \in Seq(Messages)
  BY DEF Messages, IInv, OneCall
<1> HIDE DEF a
<1>2. PICK n : /\ wire' \in Seq(Messages) /\ n \in Nat \ {0} /\ n \notin DOMAIN wire
               /\ DOMAIN wire' = DOMAIN wire \cup {n} /\ wire'[n] = a
               /\ \A i \in DOMAIN wire : i \in Nat \ {0} /\ i < n /\ wire'[i] = wire[i]
  BY <1>1, AppendFacts DEF a
<1>3. Replies' = Replies /\ AnyOwner' /\ \A i \in Replies : wire'[i] = wire[i]
  BY <1>1, <1>2 DEF Replies, AnyOwner
<1>4. \A i \in DOMAIN wire : OwnerAfter(i)' /\ (OwnerBefore(i)' <=> OwnerBefore(i))
  BY <1>1, <1>2 DEF OwnerAfter, OwnerBefore
<1>5. \A i \in Replies' : i \in DOMAIN wire
  BY <1>3, Zenon DEF Replies
<1>6. TypeOK' /\ Stages' /\ Sources'
  BY Zenon DEF IInv, TypeOK, Stages, Sources
<1>7. OneCall'
  BY <1>2, <1>3, ZenonT(40) DEF IInv, OneCall
<1>8. Owners'
  BY <1>1, <1>2, <1>3, <1>4 DEF IInv, Owners
<1>9. Runs'
  BY <1>3, <1>4, <1>5, Zenon DEF IInv, Runs
<1>10. Completes'
  BY <1>3, <1>4, <1>5, Zenon DEF IInv, Completes, Fresh
<1> QED
  BY <1>6, <1>7, <1>8, <1>9, <1>10 DEF IInv

(* The process goes while a call is pending. *)
LEMMA LostStep ==
  ASSUME SoundConstants, IInv, NEW new \in BOOLEAN, call # "none", svc.running,
         wire' = Append(Append(wire, [m |-> "owner", new |-> new]), Answer(TRUE)),
         svc' \in [running : BOOLEAN, run : 0..MaxRuns], svc'.running <=> new,
         call' = "none", cm' = cm, sig' = sig
  PROVE  IInv'
<1> DEFINE a == [m |-> "owner", new |-> new]
           b == Answer(TRUE)
           told == Append(wire, a)
<1>1. a \in Messages /\ a.m = "owner" /\ (a.new <=> new)
  BY Zenon DEF Messages
<1>2. call \in CallNames /\ TypeOK /\ wire \in Seq(Messages) /\ Replies = {}
      /\ cm.step = StepOf(call) /\ cm.in_call
  BY Zenon DEF IInv, OneCall
<1>3. b \in Messages /\ b.m = "reply" /\ b.of = call /\ b.error = TRUE /\ b.found = None
  BY <1>2, AnswerFacts, ZenonT(60)
<1> HIDE DEF a, b
<1>4. PICK n : /\ told \in Seq(Messages) /\ n \in Nat \ {0} /\ n \notin DOMAIN wire
               /\ DOMAIN told = DOMAIN wire \cup {n} /\ told[n] = a
               /\ \A i \in DOMAIN wire : i \in Nat \ {0} /\ i < n /\ told[i] = wire[i]
  BY <1>1, <1>2, AppendFacts
<1>5. wire' = Append(told, b)
  BY DEF a, b
<1> HIDE DEF told
<1>6. PICK k : /\ wire' \in Seq(Messages) /\ k \in Nat \ {0} /\ k \notin DOMAIN told
               /\ DOMAIN wire' = DOMAIN told \cup {k} /\ wire'[k] = b
               /\ \A i \in DOMAIN told : i \in Nat \ {0} /\ i < k /\ wire'[i] = told[i]
  <2>1. told \in Seq(Messages) /\ b \in Messages
    BY <1>3, <1>4
  <2>2. /\ Append(told, b) \in Seq(Messages)
        /\ Len(told) + 1 \in Nat \ {0} /\ Len(told) + 1 \notin DOMAIN told
        /\ DOMAIN Append(told, b) = DOMAIN told \cup {Len(told) + 1}
        /\ Append(told, b)[Len(told) + 1] = b
        /\ \A i \in DOMAIN told : /\ i \in Nat \ {0} /\ i < Len(told) + 1
                                  /\ Append(told, b)[i] = told[i]
    BY <2>1, AppendFacts
  <2> QED
    BY <1>5, <2>2, ZenonT(60)
<1>7. /\ DOMAIN wire' = DOMAIN wire \cup {n, k} /\ n < k /\ wire'[n] = a
      /\ \A i \in DOMAIN wire : i < n /\ wire'[i] = wire[i]
  BY <1>4, <1>6, Zenon
<1>20. wire'[n].m = "owner" /\ wire'[k].m = "reply" /\ n # k
  <2>1. wire'[n] = a /\ wire'[k] = b /\ n # k
    BY <1>4, <1>6, <1>7, Zenon
  <2> QED
    BY <1>1, <1>3, <2>1, Zenon
<1>8. Replies' = {k} /\ AnyOwner'
  <2>1. \A i \in DOMAIN wire : wire[i].m # "reply"
    BY <1>2 DEF Replies
  <2>2. \A i \in DOMAIN wire' : wire'[i].m = "reply" <=> i = k
    BY <1>7, <1>20, <2>1, ZenonT(30)
  <2>3. k \in DOMAIN wire' /\ n \in DOMAIN wire' /\ wire'[n].m = "owner"
    BY <1>1, <1>7, Zenon
  <2> QED
    BY <2>2, <2>3, ZenonT(60) DEF Replies, AnyOwner
<1>9. /\ ~OwnerAfter(n)' /\ ~OwnerAfter(k)' /\ OwnerBefore(k)'
      /\ \A i \in DOMAIN wire : OwnerAfter(i)'
  <2>1. \A i \in DOMAIN wire' : i > n => i = k
    BY <1>4, <1>7
  <2>2. ~(k > k) /\ ~(n > n)
    BY <1>4, <1>6
  <2>3. \A i \in DOMAIN wire' : i > k => i > n
    BY <1>4, <1>6, <1>7
  <2>4. \A i \in DOMAIN wire : n > i
    BY <1>4, Zenon
  <2>5. n \in DOMAIN wire'
    BY <1>7, Zenon
  <2> QED
    BY <1>7, <1>20, <2>1, <2>2, <2>3, <2>4, <2>5, Zenon DEF OwnerAfter, OwnerBefore
<1>10. cm.running \/ OwnerBefore(n)'
  <2>1. AnyOwner => OwnerBefore(n)'
    BY <1>4, <1>7, ZenonT(60) DEF AnyOwner, OwnerBefore
  <2> QED
    BY <2>1, Zenon DEF IInv, Owners
<1>11. TypeOK' /\ Stages' /\ Sources'
  BY DEF IInv, TypeOK, Stages, Sources
<1>12. OneCall'
  BY <1>2, <1>3, <1>6, <1>8, ZenonT(60) DEF OneCall
<1>13. Owners'
  BY <1>1, <1>3, <1>6, <1>7, <1>8, <1>9, ZenonT(60) DEF IInv, Owners
<1>14. b.found.set = {} /\ SameRun({}) /\ OfRun({}, svc'.run)
  BY <1>3 DEF None, SameRun, OfRun
<1>15. Runs'
  BY <1>6, <1>8, <1>9, <1>14, ZenonT(60) DEF IInv, Runs
<1>16. Completes'
  <2>1. /\ n \in DOMAIN wire' /\ n < k /\ wire'[n].m = "owner" /\ wire'[k].error
        /\ ~wire'[n].new \/ cm'.running \/ OwnerBefore(n)'
    BY <1>1, <1>3, <1>6, <1>7, <1>10, ZenonT(60)
  <2>2. ~Fresh' /\ (cm'.step = "PARAMETERS" => cm'.running)
    BY <1>8 DEF IInv, Completes, Fresh
  <2> QED
    BY <1>8, <2>1, <2>2, Zenon DEF Completes
<1> QED
  BY <1>11, <1>12, <1>13, <1>15, <1>16, Zenon DEF IInv

(* A reply leaves the source of the information as it is, or makes it LIVE. *)
LEMMA ReplySource ==
  ASSUME SoundConstants, NEW c \in TpConnectionManager, c.in_call,
         NEW m \in Messages, m.m = "reply", c.step = StepOf(m.of),
         ~m.found.known => m.found = None,
         c.step # "PARAMETERS" => c.found = None /\ c.pending = <<>>,
         NEW r, r = Callback(c, m)
  PROVE  r.c.source \in {c.source, 2}
<1>1. Answered(c, m, r.k, r.c)
  BY ReplyFacts, Zenon
<1> QED
  BY <1>1, Zenon DEF Answered, SameInfo

(* Every step keeps the invariant. *)
LEMMA NextIInv ==
  ASSUME SoundConstants, IInv, [Next]_vars
  PROVE  IInv'
<1>1. CASE NameOwnerChanged
  BY <1>1, OwnerStep
<1>2. CASE Reply
  BY <1>2, ReplyStep
<1>3. CASE Ignores
  BY <1>3, IgnoresStep, ZenonT(60)
<1>4. CASE IdleIntrospects
  BY <1>4, IdleIntrospectsStep
<1>5. CASE IdleReadsFile
  BY <1>5, IdleReadsFileStep
<1>6. CASE SetManagerFile
  BY <1>6, SetManagerFileStep, Zenon
<1>7. CASE Activate
  BY <1>7, ActivateStep
<1>8. CASE Answers
  <2>1. /\ wire' = Append(wire, Answer(FALSE)) \/ wire' = Append(wire, Answer(Errors))
        /\ call # "none" /\ call' = "none" /\ cm' = cm /\ svc' = svc /\ sig' = sig
        /\ svc.running
    BY <1>8, Zenon DEF Answers
  <2>2. CASE wire' = Append(wire, Answer(FALSE))
    BY <2>1, <2>2, AnswerStep, ZenonT(60)
  <2>3. CASE wire' = Append(wire, Answer(Errors))
    <3>1. Errors \in BOOLEAN
      BY DEF SoundConstants
    <3> QED
      BY <2>1, <2>3, <3>1, AnswerStep
  <2> QED
    BY <2>1, <2>2, <2>3, Zenon
<1>9. CASE ActivationFails
  BY <1>9, AnswerStep, Zenon DEF ActivationFails
<1>10. CASE Starts
  <2>1. /\ wire' = Append(wire, [m |-> "owner", new |-> TRUE])
        /\ svc' = [running |-> TRUE, run |-> svc.run + 1]
        /\ call' = call /\ cm' = cm /\ sig' = sig
    BY <1>10 DEF Starts
  <2>2. svc' \in [running : BOOLEAN, run : 0..MaxRuns] /\ svc'.running
    BY <1>10, <2>1 DEF IInv, TypeOK, Starts, SoundConstants
  <2> QED
    BY <2>1, <2>2, NewsStep, ZenonT(60)
<1>11. ASSUME NEW new \in BOOLEAN, Lost(new), svc.running,
              svc' \in [running : BOOLEAN, run : 0..MaxRuns], svc'.running <=> new,
              call' = "none", cm' = cm, sig' = sig
       PROVE  IInv'
  <2>1. CASE call = "none"
    BY <1>11, <2>1, NewsStep DEF Lost
  <2>2. CASE call # "none"
    BY <1>11, <2>2, LostStep DEF Lost
  <2> QED
    BY <2>1, <2>2
<1>12. CASE Exits
  <2>1. svc' \in [running : BOOLEAN, run : 0..MaxRuns] /\ ~svc'.running
    BY <1>12, Zenon DEF IInv, TypeOK, Exits
  <2> QED
    BY <1>11, <1>12, <2>1, Zenon DEF Exits
<1>13. CASE IsReplaced
  <2>1. svc' \in [running : BOOLEAN, run : 0..MaxRuns] /\ svc'.running
    BY <1>13 DEF IInv, TypeOK, IsReplaced, SoundConstants
  <2> QED
    BY <1>11, <1>13, <2>1, Zenon DEF IsReplaced
<1>14. CASE UNCHANGED vars
  <2>1. cm' = cm /\ wire' = wire /\ svc' = svc /\ call' = call /\ sig' = sig
    BY <1>14 DEF vars
  <2>2. Sources' /\ cm \in TpConnectionManager /\ (cm.source = 2 => SameRun(cm.objects.set))
    BY <2>1 DEF IInv, Sources, TypeOK, Runs
  <2>3. Always /\ ~Errors /\ Fresh /\ ~cm.in_call /\ ~cm.introspect_idle =>
           cm.source = 2 /\ cm.objects.set = OfferedBy(svc.run)
    BY DEF IInv, Completes
  <2> QED
    BY <2>1, <2>2, <2>3, KeepStep
<1> QED
  BY <1>1, <1>2, <1>3, <1>4, <1>5, <1>6, <1>7, <1>8, <1>9, <1>10, <1>12, <1>13, <1>14, ZenonT(60) DEF Next

(* The inductive invariant holds in every state that the proxy, its callbacks, the
   process and the bus daemon can reach. *)
THEOREM ManagerInvariance == SoundConstants /\ Spec => []IInv
<1> SUFFICES ASSUME SoundConstants PROVE Spec => []IInv
  OBVIOUS
<1>1. Init => IInv
  BY InitIInv
<1>2. IInv /\ [Next]_vars => IInv'
  BY NextIInv
<1> QED
  BY <1>1, <1>2, PTL DEF Spec

(* The assertions of the introspection's callbacks hold, CORE is prepared exactly when
   there is something to show, and introspection_call is set exactly while a call is
   unanswered, whenever the process starts, exits, crashes or is replaced. *)
THEOREM ManagerIntrospects == SoundConstants /\ Spec => []IntrospectionIsSound
<1> SUFFICES ASSUME SoundConstants PROVE Spec => []IntrospectionIsSound
  OBVIOUS
<1>1. IInv => IntrospectionIsSound
  BY Zenon DEF IInv, Stages, Sources, OneCall, IntrospectionIsSound, Replies
<1> QED
  BY <1>1, ManagerInvariance, PTL

(* The protocols shown as live are those that one run of the process named: the table
   is never filled by a process and its successor together. *)
THEOREM ManagerShowsOneRun == SoundConstants /\ Spec => []OneRunOnly
<1> SUFFICES ASSUME SoundConstants PROVE Spec => []OneRunOnly
  OBVIOUS
<1>1. IInv => OneRunOnly
  BY ZenonT(60) DEF IInv, Runs, SameRun, OneRunOnly
<1> QED
  BY <1>1, ManagerInvariance, PTL

(* With always-introspect, when calls fail only because the process is gone, and once
   nothing is on its way, a running process is shown as it is now. *)
THEOREM ManagerIsCurrent == SoundConstants /\ Spec => []LiveIsCurrent
<1> SUFFICES ASSUME SoundConstants PROVE Spec => []LiveIsCurrent
  OBVIOUS
<1>1. IInv => LiveIsCurrent
  <2>1. wire = <<>> => ~AnyOwner
    BY DEF AnyOwner
  <2> QED
    BY <2>1 DEF IInv, Completes, Fresh, LiveIsCurrent, InProgress
<1> QED
  BY <1>1, ManagerInvariance, PTL

(* activated and exited are emitted when the process comes and goes, and not otherwise:
   the last one emitted says whether the proxy believes that the process runs. *)
THEOREM ManagerSignals == SoundConstants /\ Spec => []SignalsMatch
<1> SUFFICES ASSUME SoundConstants PROVE Spec => []SignalsMatch
  OBVIOUS
<1>1. IInv => SignalsMatch
  BY DEF IInv, Owners, SignalsMatch
<1> QED
  BY <1>1, ManagerInvariance, PTL

(* The four together, as they are checked of the managers with a good, with a bad and
   without a .manager file. *)
THEOREM ManagerIsMirrored == SoundConstants /\ Spec => []ManagersMirrored
<1> SUFFICES ASSUME SoundConstants PROVE Spec => []ManagersMirrored
  OBVIOUS
<1>1. IntrospectionIsSound /\ OneRunOnly /\ LiveIsCurrent /\ SignalsMatch => ManagersMirrored
  BY DEF ManagersMirrored
<1> QED
  BY <1>1, ManagerIntrospects, ManagerShowsOneRun, ManagerIsCurrent, ManagerSignals, PTL

(* No callback, whatever it is told and in whatever order, replaces live information by
   that of the .manager file or by nothing. *)
THEOREM ManagerNeverDegrades == SoundConstants /\ Spec => NeverDegrades
<1> SUFFICES ASSUME SoundConstants PROVE Spec => NeverDegrades
  OBVIOUS
<1>1. ASSUME IInv, [Next]_vars PROVE [InfoNeverDegrades]_vars
  <2>1. cm \in TpConnectionManager /\ cm.source \in 0..2
        /\ wire \in Seq(Messages)
        /\ (~InProgress(cm) => cm.step = "IDLE" /\ cm.found = None /\ cm.pending = <<>>)
    BY <1>1, ZenonT(60) DEF IInv, TypeOK, TpConnectionManager, OneCall, Stages, InProgress, None
  <2>2. cm' = cm => cm'.source >= cm.source
    BY <2>1
  <2>3. CASE NameOwnerChanged
    <3> DEFINE m == Head(wire)
               r == IF m.new THEN GainOwner(cm) ELSE LoseOwner(cm)
    <3>1. m \in Messages /\ m.m = "owner" /\ cm' = FirstTime(r.c)
      BY <2>1, <2>3, TailFacts, Zenon DEF NameOwnerChanged, Becomes, Does
    <3>2. m.new \in BOOLEAN
      BY <3>1, ZenonT(60) DEF Messages
    <3> HIDE DEF m
    <3>3. cm'.source = cm.source
      BY <2>1, <3>1, <3>2, OwnerFacts
    <3> QED
      BY <2>1, <3>3, SMTT(30) DEF InfoNeverDegrades
  <2>4. CASE Reply
    <3> DEFINE m == Head(wire)
    <3>1. /\ m \in Messages /\ m.m = "reply" /\ cm' = Callback(cm, m).c
          /\ 1 \in DOMAIN wire /\ m = wire[1]
      BY <2>1, <2>4, TailFacts, Zenon DEF Reply, Becomes
    <3>2. 1 \in Replies
      BY <3>1, ZenonT(60) DEF Replies
    <3>3. /\ cm.step = StepOf(m.of) /\ cm.in_call
          /\ ~m.found.known => m.found = None
          /\ cm.step # "PARAMETERS" => cm.found = None /\ cm.pending = <<>>
      BY <1>1, <3>1, <3>2 DEF IInv, OneCall, Stages
    <3> HIDE DEF m
    <3>5. PICK r : r = Callback(cm, m)
      BY Zenon
    <3>4. cm'.source \in {cm.source, 2}
      BY <2>1, <3>1, <3>3, <3>5, ReplySource, ZenonT(60)
    <3> QED
      BY <2>1, <3>4 DEF InfoNeverDegrades
  <2>5. CASE IdleIntrospects
    <3>1. cm' = IdleIntrospect(cm).c
      BY <2>5, Zenon DEF IdleIntrospects, Becomes
    <3>2. cm'.source = cm.source
      BY <2>1, <3>1, IdleIntrospectFacts, ZenonT(60) DEF Begun, SameIntrospection, SameInfo
    <3> QED
      BY <2>1, <3>2 DEF InfoNeverDegrades
  <2>6. CASE IdleReadsFile
    <3> DEFINE d == [cm EXCEPT !.file_idle = FALSE]
    <3>1. cm' = ReadManagerFile(cm).c
      BY <2>6 DEF IdleReadsFile, Becomes, ReadFile
    <3>2. d \in TpConnectionManager /\ d.source = cm.source
          /\ d.step = cm.step /\ d.found = cm.found /\ d.pending = cm.pending
      BY <2>1, Zenon DEF TpConnectionManager
    <3>3. InProgress(d) <=> InProgress(cm)
      <4>1. d.in_call = cm.in_call
        BY <2>1 DEF TpConnectionManager
      <4> QED
        BY <3>2, <4>1 DEF InProgress
    <3>4. CASE cm.objects.known \/ (File # "good" /\ cm.introspect_idle)
      BY <2>1, <3>1, <3>2, <3>4 DEF ReadManagerFile, Does, InfoNeverDegrades
    <3>5. CASE ~cm.objects.known /\ File = "good"
      <4>1. cm.source = 0
        BY <1>1, <2>1, <3>5 DEF IInv, Sources
      <4>2. cm' = ReadyOrFailed([d EXCEPT !.source = 1, !.objects = Some({<<n, 0>> : n \in Names})])
        BY <3>1, <3>5 DEF ReadManagerFile, Does
      <4>3. cm'.source = 1
        BY <2>1, <4>2, ZenonT(60) DEF ReadyOrFailed, TpConnectionManager
      <4> QED
        BY <4>1, <4>3 DEF InfoNeverDegrades
    <3>6. CASE ~cm.objects.known /\ File # "good" /\ ~cm.introspect_idle
      <4>1. cm' = IdleIntrospect(d).c
        BY <3>1, <3>6 DEF ReadManagerFile
      <4> HIDE DEF d
      <4>3. PICK r : r = IdleIntrospect(d)
        BY Zenon
      <4>4. ~InProgress(d) => d.step = "IDLE" /\ d.found = None /\ d.pending = <<>>
        BY <2>1, <3>2, <3>3, Zenon
      <4>5. SameIntrospection(d, r.c) \/ Begun(d, r.c)
        BY <3>2, <4>3, <4>4, IdleIntrospectFacts, ZenonT(60)
      <4>2. cm'.source = d.source
        BY <4>1, <4>3, <4>5 DEF Begun, SameIntrospection, SameInfo
      <4> QED
        BY <2>1, <3>2, <4>2 DEF InfoNeverDegrades
    <3> QED
      BY <3>4, <3>5, <3>6
  <2>7. CASE SetManagerFile \/ Activate
    <3>1. cm'.source = cm.source
      BY <2>1, <2>7, Zenon DEF SetManagerFile, Activate, TpConnectionManager
    <3> QED
      BY <2>1, <3>1 DEF InfoNeverDegrades
  <2>8. CASE Ignores \/ Answers \/ Starts \/ ActivationFails \/ Exits \/ IsReplaced
    BY <2>2, <2>8, Zenon DEF Ignores, Answers, Starts, ActivationFails, Exits, IsReplaced, InfoNeverDegrades
  <2> QED
    BY <1>1, <2>3, <2>4, <2>5, <2>6, <2>7, <2>8, ZenonT(60) DEF Next
<1> QED
  BY <1>1, ManagerInvariance, PTL DEF Spec, NeverDegrades
==============================================================================
