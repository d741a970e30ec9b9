-------------------------- MODULE DispatchOperation --------------------------
(***************************************************************************)
(* An approver's view of new channels: TpChannelDispatchOperation          *)
(* (channel-dispatch-operation.c).  The approver may be given the channels *)
(* with AddDispatchOperation; preparing CORE fetches the properties, among *)
(* them the current channels; ChannelLost and Finished keep the proxy up   *)
(* to date.  The approver answers by claiming the operation, for itself,   *)
(* for a TpBaseClient, or to close, leave or destroy the channels.         *)
(***************************************************************************)
EXTENDS Naturals, Sequences, FiniteSets, SequenceTheorems, TLAPS

CONSTANTS
  Channels,  \* the channels of the operation
  Given,     \* the channels are known from AddDispatchOperation
  Rivals     \* another approver may claim the operation first

VARIABLES
  cdo,     \* the TpChannelDispatchOperation
  claim,   \* the approver's Claim() and what follows from it
  wire,    \* messages from the dispatcher, oldest first
  svc,     \* the operation in the dispatcher
  lost     \* channels named by channel-lost, or missing from a new list

vars == <<cdo, claim, wire, svc, lost>>

SoundConstants ==
  /\ IsFiniteSet(Channels) /\ Channels # {}
  /\ Given \in BOOLEAN
  /\ Rivals \in BOOLEAN

-----------------------------------------------------------------------------
(* What the approver asked for, whether the answer has been processed, what
   the finish function returns, and the channels acted upon. *)
Kinds == {"claim", "claim_with", "close", "leave", "destroy"}

TpChannelDispatchOperation ==
  [ known    : BOOLEAN,  \* priv->channels is not NULL
    channels : SUBSET Channels,
    core     : {"none", "preparing", "prepared", "failed"},
    invalid  : BOOLEAN ]

Claims ==
  [ kind : Kinds \cup {"none"}, pending : BOOLEAN,
    finish : {"none", "TRUE", "FALSE"}, acted : SUBSET Channels ]

(* owner: who holds the operation; taken: the channels it held then. *)
Operation ==
  [ channels : SUBSET Channels, owner : {"nobody", "us", "rival"},
    finished : BOOLEAN, taken : SUBSET Channels ]

(* _tp_channel_dispatch_operation_ensure_channels: the channels of
   AddDispatchOperation fill the proxy if it has none. *)
EnsureChannels(c, chans) ==
  IF c.known THEN c ELSE [c EXCEPT !.known = TRUE, !.channels = chans]

(* tp_channel_dispatch_operation_channel_lost_cb *)
ChannelLostCb(c, path) ==
  IF c.known THEN [c EXCEPT !.channels = @ \ {path}] ELSE c

(* BUG: the array keeps the channel that was lost. *)
ChannelLostKept(c, path) == c

ChannelLost(c, path) == ChannelLostCb(c, path)

(* get_dispatch_operation_prop_cb and update_channels_array: the list of
   the reply replaces the one given at creation.  A reply without one of
   the mandatory properties invalidates the proxy. *)
GotProperties(c, chans, complete) ==
  IF complete
  THEN [c EXCEPT !.known = TRUE, !.channels = chans, !.core = "prepared"]
  ELSE [c EXCEPT !.core = "failed", !.invalid = TRUE]

(* BUG: the channels known already are kept. *)
GotPropertiesMerged(c, chans, complete) ==
  IF complete
  THEN [EnsureChannels(c, chans) EXCEPT !.core = "prepared"]
  ELSE [c EXCEPT !.core = "failed", !.invalid = TRUE]

UpdateChannels(c, chans, complete) == GotProperties(c, chans, complete)

(* claim_cb passes the error on. *)
ClaimCb(k, error) ==
  [k EXCEPT !.pending = FALSE, !.finish = IF error THEN "FALSE" ELSE "TRUE"]

(* claim_with_cb, claim_close_channels_cb, claim_leave_channels_cb and
   claim_destroy_channels_cb do not look at it: the TpBaseClient handles, or
   the loop closes, leaves or destroys, every channel of the proxy. *)
ActOnAll(k, c) == [k EXCEPT !.pending = FALSE, !.finish = "TRUE", !.acted = c.channels]
ClaimWithCb(k, c) == ActOnAll(k, c)
CloseChannelsCb(k, c) == ActOnAll(k, c)
LeaveChannelsCb(k, c) == ActOnAll(k, c)
DestroyChannelsCb(k, c) == ActOnAll(k, c)

ClaimAnswered(k, c, error) ==
  CASE k.kind = "claim" -> ClaimCb(k, error)
    [] k.kind = "claim_with" -> ClaimWithCb(k, c)
    [] k.kind = "close" -> CloseChannelsCb(k, c)
    [] k.kind = "leave" -> LeaveChannelsCb(k, c)
    [] k.kind = "destroy" -> DestroyChannelsCb(k, c)

(* BUG: the loop over the array stops one short. *)
ClaimActsOnSome(k, c, error) ==
  [ClaimAnswered(k, c, error) EXCEPT
     !.acted = IF @ = {} THEN {} ELSE @ \ {CHOOSE ch \in @ : TRUE}]

ClaimReply(k, c, error) == ClaimAnswered(k, c, error)

-----------------------------------------------------------------------------
Init ==
  /\ cdo = [known |-> FALSE, channels |-> {}, core |-> "none", invalid |-> FALSE]
  /\ claim = [kind |-> "none", pending |-> FALSE, finish |-> "none",
              acted |-> {}]
  /\ wire = IF Given THEN <<[m |-> "given", chans |-> Channels]>> ELSE <<>>
  /\ svc = [channels |-> Channels, owner |-> "nobody", finished |-> FALSE,
            taken |-> {}]
  /\ lost = {}

(* prepare_core_async: GetAll; the dispatcher answers with its channels at
   that moment, or with an error once the operation is gone. *)
PrepareCore ==
  /\ cdo.core = "none" /\ ~cdo.invalid
  /\ \A i \in DOMAIN wire : wire[i].m # "given"
  /\ cdo' = [cdo EXCEPT !.core = "preparing"]
  /\ \E complete \in IF svc.finished THEN {FALSE} ELSE BOOLEAN :
       wire' = Append(wire, [m |-> "properties", chans |-> svc.channels,
                             complete |-> complete])
  /\ UNCHANGED <<claim, svc, lost>>

(* The approver decides: tp_channel_dispatch_operation_claim_async,
   _claim_with_async, _close_channels_async, _leave_channels_async or
   _destroy_channels_async.  The dispatcher gives the operation to the
   first who claims it, then ends it. *)
Claim(kind) ==
  /\ cdo.core = "prepared" /\ ~cdo.invalid
  /\ claim.kind = "none"
  /\ claim' = [claim EXCEPT !.kind = kind, !.pending = TRUE]
  /\ IF svc.finished
     THEN /\ wire' = Append(wire, [m |-> "claimed", error |-> TRUE])
          /\ UNCHANGED svc
     ELSE /\ wire' = wire \o <<[m |-> "claimed", error |-> FALSE],
                               [m |-> "finished"]>>
          /\ svc' = [svc EXCEPT !.owner = "us", !.finished = TRUE,
                                !.taken = svc.channels]
  /\ UNCHANGED <<cdo, lost>>

(* External: another approver claims the operation. *)
RivalClaims ==
  /\ Rivals /\ ~svc.finished
  /\ svc' = [svc EXCEPT !.owner = "rival", !.finished = TRUE,
                        !.taken = svc.channels]
  /\ wire' = Append(wire, [m |-> "finished"])
  /\ UNCHANGED <<cdo, claim, lost>>

(* External: a channel closes; the operation ends with its last one. *)
ChannelCloses(ch) ==
  /\ ch \in svc.channels /\ ~svc.finished
  /\ svc' = [svc EXCEPT !.channels = @ \ {ch},
                        !.finished = (svc.channels = {ch})]
  /\ wire' = IF svc.channels = {ch}
             THEN wire \o <<[m |-> "lost", ch |-> ch], [m |-> "finished"]>>
             ELSE Append(wire, [m |-> "lost", ch |-> ch])
  /\ UNCHANGED <<cdo, claim, lost>>

(* The next message is dispatched.  An invalidated proxy has no signal
   handlers any more, but the callbacks of its calls still run. *)
Dispatch ==
  /\ wire # <<>>
  /\ wire' = Tail(wire)
  /\ LET m == Head(wire)
     IN  CASE m.m = "given" ->
                /\ cdo' = EnsureChannels(cdo, m.chans)
                /\ UNCHANGED <<claim, lost>>
           [] m.m = "lost" /\ ~cdo.invalid ->
                /\ cdo' = ChannelLost(cdo, m.ch)
                /\ lost' = IF cdo.known THEN lost \cup {m.ch} ELSE lost
                /\ UNCHANGED claim
           [] m.m = "finished" ->
                /\ cdo' = [cdo EXCEPT !.invalid = TRUE]
                /\ UNCHANGED <<claim, lost>>
           [] m.m = "properties" ->
                /\ cdo' = UpdateChannels(cdo, m.chans, m.complete)
                /\ lost' = IF m.complete /\ cdo.known
                           THEN lost \cup (cdo.channels \ m.chans) ELSE lost
                /\ UNCHANGED claim
           [] m.m = "claimed" ->
                /\ claim' = ClaimReply(claim, cdo, m.error)
                /\ UNCHANGED <<cdo, lost>>
           [] OTHER -> UNCHANGED <<cdo, claim, lost>>
  /\ UNCHANGED svc

Next ==
  \/ PrepareCore \/ Dispatch \/ RivalClaims
  \/ \E kind \in Kinds : Claim(kind)
  \/ \E ch \in Channels : ChannelCloses(ch)

Spec == Init /\ [][Next]_vars

-----------------------------------------------------------------------------
(* Types. *)
TypeOK ==
  /\ cdo \in TpChannelDispatchOperation
  /\ claim \in Claims
  /\ svc \in Operation
  /\ lost \subseteq Channels

(* Once CORE is prepared, the channels of the proxy are those of the
   dispatcher up to the losses still on their way, and a channel that was
   known and is gone has been reported as lost. *)
ChannelsMirrored ==
  cdo.core = "prepared" =>
    /\ svc.channels \subseteq cdo.channels
    /\ ~cdo.invalid => \A ch \in cdo.channels \ svc.channels :
         \E i \in DOMAIN wire : wire[i].m = "lost" /\ wire[i].ch = ch
    /\ Given => Channels \ cdo.channels \subseteq lost

(* A claim that succeeded acts on exactly the channels the dispatcher gave
   away: none is forgotten, and none that was lost is touched, although
   channels disappear and the operation ends while the claim is on its
   way. *)
ClaimIsWhole ==
  claim.finish # "none" /\ svc.owner = "us" /\ claim.kind # "claim"
    => claim.acted = svc.taken

(* tp_channel_dispatch_operation_claim_async reports the truth. *)
PlainClaimIsHonest ==
  claim.kind = "claim" /\ claim.finish # "none"
    => (claim.finish = "TRUE" <=> svc.owner = "us")

(* The other functions promise the same: TRUE if the Claim() call was
   successful, otherwise FALSE. *)
ClaimIsHonest ==
  claim.finish # "none" => (claim.finish = "TRUE" <=> svc.owner = "us")

-----------------------------------------------------------------------------
(* Proofs, for any channels, given with the operation or not, and any rivals. *)

Messages ==
  [m : {"given"}, chans : SUBSET Channels]
    \cup [m : {"properties"}, chans : SUBSET Channels, complete : BOOLEAN]
    \cup [m : {"claimed"}, error : BOOLEAN]
    \cup [m : {"lost"}, ch : Channels]
    \cup [m : {"finished"}]

Types == TypeOK /\ wire \in Seq(Messages)

LostAfter(n, ch) == \E j \in DOMAIN wire : j > n /\ wire[j].m = "lost" /\ wire[j].ch = ch

(* A list that is true once the losses after the n-th message are dispatched. *)
Mirrors(chans, n) ==
  svc.channels \subseteq chans /\ \A ch \in chans \ svc.channels : LostAfter(n, ch)

(* The channels of AddDispatchOperation come first, and GetAll is called when
   they have come. *)
FillsOnce ==
  /\ \A i \in DOMAIN wire : wire[i].m = "given" =>
       i = 1 /\ ~cdo.known /\ cdo.core = "none" /\ wire[i].chans = Channels
  /\ Given /\ ~cdo.known => 1 \in DOMAIN wire /\ wire[1].m = "given"
  /\ \A i \in DOMAIN wire : wire[i].m = "properties" => cdo.core = "preparing"
  /\ \A i, j \in DOMAIN wire : wire[i].m = "properties" /\ wire[j].m = "properties" => i = j
  /\ cdo.core = "prepared" => cdo.known

(* Every list of channels, the proxy's and those on their way, is true but for
   losses behind it. *)
Lists ==
  /\ \A i \in DOMAIN wire : wire[i].m = "lost" => wire[i].ch \notin svc.channels
  /\ \A i \in DOMAIN wire : wire[i].m \in {"given", "properties"} => Mirrors(wire[i].chans, i)
  /\ cdo.known => svc.channels \subseteq cdo.channels
  /\ cdo.known /\ ~cdo.invalid => Mirrors(cdo.channels, 0)
  /\ cdo.known /\ Given => Channels \ cdo.channels \subseteq lost

(* The answer to Claim() comes before the operation's end, and after it no
   channel is lost. *)
Claiming ==
  /\ claim.kind = "none" => ~claim.pending /\ claim.finish = "none"
  /\ claim.pending => claim.finish = "none"
  /\ claim.kind # "none" => svc.finished /\ cdo.core = "prepared"
  /\ svc.owner = "us" => claim.kind # "none" /\ svc.taken = svc.channels
  /\ \A i \in DOMAIN wire : wire[i].m = "finished" => svc.finished
  /\ \A i \in DOMAIN wire : wire[i].m = "claimed" =>
       /\ claim.pending
       /\ wire[i].error <=> svc.owner # "us"
       /\ ~wire[i].error => /\ ~cdo.invalid
                            /\ \A j \in DOMAIN wire : wire[j].m = "finished" => j > i
                            /\ \A j \in DOMAIN wire : wire[j].m = "lost" => j < i
  /\ \A i, j \in DOMAIN wire : wire[i].m = "claimed" /\ wire[j].m = "claimed" => i = j
  /\ ClaimIsWhole /\ PlainClaimIsHonest

IInv == Types /\ FillsOnce /\ Lists /\ Claiming

(* The time a step may take, for a busy machine too. *)
USE SMTT(60)

(* Dispatching the first message moves the others one place forward.        *)
LEMMA TailFacts ==
  ASSUME NEW S, NEW w \in Seq(S), w # <<>>
  PROVE  \E n \in Nat : /\ DOMAIN w = 1..(n + 1) /\ DOMAIN Tail(w) = 1..n /\ Tail(w) \in Seq(S)
                        /\ Head(w) = w[1] /\ w[1] \in S
                        /\ \A i \in 1..n : Tail(w)[i] = w[i + 1] /\ w[i + 1] \in S
<1>1. Len(w) \in Nat /\ Len(w) # 0 /\ DOMAIN w = 1..Len(w) /\ Head(w) = w[1]
  BY LenProperties, EmptySeq
<1>2. /\ Tail(w) \in Seq(S) /\ Len(Tail(w)) = Len(w) - 1
      /\ \A i \in 1..Len(Tail(w)) : Tail(w)[i] = w[i + 1]
  BY HeadTailProperties
<1>3. DOMAIN Tail(w) = 1..(Len(w) - 1) /\ \A i \in 1..Len(w) : w[i] \in S
  <2>1. DOMAIN Tail(w) = 1..Len(Tail(w)) /\ DOMAIN w = 1..Len(w)
    BY <1>2, LenProperties, Zenon
  <2>2. \A i \in DOMAIN w : w[i] \in S
    BY LenProperties
  <2> QED
    BY <1>2, <2>1, <2>2, Zenon
<1>4. PICK n \in Nat : Len(w) = n + 1 /\ Len(w) - 1 = n
  <2>1. Len(w) - 1 \in Nat /\ Len(w) = (Len(w) - 1) + 1
    BY <1>1
  <2> QED
    BY <2>1, Zenon
<1>5. /\ DOMAIN w = 1..(n + 1) /\ DOMAIN Tail(w) = 1..n /\ Tail(w) \in Seq(S)
      /\ Head(w) = w[1] /\ w[1] \in S
  BY <1>1, <1>2, <1>3, <1>4
<1>6. \A i \in 1..n : Tail(w)[i] = w[i + 1] /\ w[i + 1] \in S
  <2>1. \A i \in 1..n : i + 1 \in 1..(n + 1)
    OBVIOUS
  <2> QED
    BY <1>2, <1>3, <1>4, <2>1, Zenon
<1> QED
  BY <1>5, <1>6, Zenon

(* A message more.                                                          *)
LEMMA AppendFacts ==
  ASSUME NEW S, NEW w \in Seq(S), NEW a \in S
  PROVE  \E n \in Nat : /\ DOMAIN w = 1..n /\ Append(w, a) \in Seq(S) /\ Len(w) = n
                        /\ DOMAIN Append(w, a) = 1..(n + 1) /\ Append(w, a)[n + 1] = a
                        /\ \A i \in 1..n : Append(w, a)[i] = w[i] /\ w[i] \in S
<1>1. Len(w) \in Nat /\ DOMAIN w = 1..Len(w) /\ \A i \in 1..Len(w) : w[i] \in S
  BY LenProperties
<1>2. /\ Append(w, a) \in Seq(S) /\ Len(Append(w, a)) = Len(w) + 1
      /\ \A i \in 1..Len(w) : Append(w, a)[i] = w[i]
      /\ Append(w, a)[Len(w) + 1] = a
  BY AppendProperties
<1>3. DOMAIN Append(w, a) = 1..(Len(w) + 1)
  <2>1. DOMAIN Append(w, a) = 1..Len(Append(w, a))
    BY <1>2, LenProperties, Zenon
  <2> QED
    BY <1>2, <2>1, Zenon
<1> QED
  BY <1>1, <1>2, <1>3, Zenon

(* Two messages more.                                                       *)
LEMMA ConcatTwoFacts ==
  ASSUME NEW S, NEW w \in Seq(S), NEW e \in Seq(S), Len(e) = 2
  PROVE  \E n \in Nat : /\ DOMAIN w = 1..n /\ w \o e \in Seq(S) /\ DOMAIN (w \o e) = 1..(n + 2)
                        /\ (w \o e)[n + 1] = e[1] /\ (w \o e)[n + 2] = e[2]
                        /\ \A i \in 1..n : (w \o e)[i] = w[i] /\ w[i] \in S
<1>1. Len(w) \in Nat /\ DOMAIN w = 1..Len(w) /\ \A i \in 1..Len(w) : w[i] \in S
  BY LenProperties
<1>2. /\ w \o e \in Seq(S) /\ Len(w \o e) = Len(w) + Len(e)
      /\ \A i \in 1 .. Len(w) + Len(e) : (w \o e)[i] =
                     IF i <= Len(w) THEN w[i] ELSE e[i - Len(w)]
  BY ConcatProperties, Zenon
<1>3. /\ w \o e \in Seq(S) /\ Len(w \o e) = Len(w) + 2
      /\ \A i \in 1..(Len(w) + 2) : (w \o e)[i] = IF i <= Len(w) THEN w[i] ELSE e[i - Len(w)]
  BY <1>2
<1>4. DOMAIN (w \o e) = 1..(Len(w) + 2)
  <2>1. DOMAIN (w \o e) = 1..Len(w \o e)
    BY <1>3, LenProperties, Zenon
  <2> QED
    BY <1>3, <2>1, Zenon
<1>5. /\ (w \o e)[Len(w) + 1] = e[1] /\ (w \o e)[Len(w) + 2] = e[2]
      /\ \A i \in 1..Len(w) : (w \o e)[i] = w[i]
  BY <1>1, <1>3
<1> QED
  BY <1>1, <1>3, <1>4, <1>5, Zenon

(* A message is one of five.                                                *)
LEMMA MessageFacts ==
  /\ \A s \in SUBSET Channels : [m |-> "given", chans |-> s] \in Messages
  /\ \A s \in SUBSET Channels, b \in BOOLEAN :
       [m |-> "properties", chans |-> s, complete |-> b] \in Messages
  /\ \A b \in BOOLEAN : [m |-> "claimed", error |-> b] \in Messages
  /\ \A c \in Channels : [m |-> "lost", ch |-> c] \in Messages
  /\ [m |-> "finished"] \in Messages
  /\ \A x \in Messages : /\ x.m \in {"given", "properties", "claimed", "lost", "finished"}
                         /\ x.m \in {"given", "properties"} => x.chans \in SUBSET Channels
                         /\ x.m = "properties" => x.complete \in BOOLEAN
                         /\ x.m = "claimed" => x.error \in BOOLEAN
                         /\ x.m = "lost" => x.ch \in Channels
  BY DEF Messages

(* The operation as the approver is told of it.                             *)
LEMMA InitHolds ==
  ASSUME SoundConstants, Init
  PROVE  IInv
<1>1. Types
  <2>1. wire \in Seq(Messages)
    <3>1. <<[m |-> "given", chans |-> Channels]>> \in Seq(Messages)
      BY MessageFacts
    <3>2. <<>> \in Seq(Messages)
      OBVIOUS
    <3> QED
      BY <3>1, <3>2, Zenon DEF Init
  <2>2. TypeOK
    BY DEF Init, TypeOK, TpChannelDispatchOperation, Claims, Operation, Kinds
  <2> QED
    BY <2>1, <2>2 DEF Types
<1>2. CASE Given
  <2>1. DOMAIN wire = {1} /\ wire[1].m = "given" /\ wire[1].chans = Channels
    BY <1>2 DEF Init
  <2>2. FillsOnce
    BY <2>1 DEF Init, FillsOnce
  <2>3. Lists
    BY <2>1 DEF Init, Lists, Mirrors
  <2>4. Claiming
    BY <2>1 DEF Init, Claiming, ClaimIsWhole, PlainClaimIsHonest
  <2> QED
    BY <1>1, <2>2, <2>3, <2>4 DEF IInv
<1>3. CASE ~Given
  <2>1. DOMAIN wire = {}
    BY <1>3 DEF Init
  <2>2. FillsOnce
    BY <1>3, <2>1 DEF Init, FillsOnce
  <2>3. Lists
    BY <2>1 DEF Init, Lists, Mirrors
  <2>4. Claiming
    BY <2>1 DEF Init, Claiming, ClaimIsWhole, PlainClaimIsHonest
  <2> QED
    BY <1>1, <2>2, <2>3, <2>4 DEF IInv
<1> QED
  BY <1>2, <1>3

(* GetAll answers with the channels of that moment, behind every message on
   its way: prepare_core_async.                                             *)
LEMMA PrepareCoreKeeps ==
  ASSUME IInv, PrepareCore
  PROVE  IInv'
<1>1. PICK complete \in BOOLEAN :
        wire' = Append(wire, [m |-> "properties", chans |-> svc.channels, complete |-> complete])
  BY Zenon DEF PrepareCore
<1> DEFINE a == [m |-> "properties", chans |-> svc.channels, complete |-> complete]
<1>2. a \in Messages /\ a.m = "properties" /\ a.chans = svc.channels
  BY MessageFacts DEF IInv, Types, TypeOK, Operation
<1>3. wire' = Append(wire, a)
  BY <1>1
<1> HIDE DEF a
<1>4. PICK n \in Nat : /\ DOMAIN wire = 1..n /\ wire' \in Seq(Messages)
                       /\ DOMAIN wire' = 1..(n + 1) /\ wire'[n + 1] = a
                       /\ \A i \in 1..n : wire'[i] = wire[i] /\ wire[i] \in Messages
  BY <1>2, <1>3, AppendFacts DEF IInv, Types
<1>5. /\ cdo.core = "none" /\ ~cdo.invalid /\ cdo'.core = "preparing" /\ cdo' \in TpChannelDispatchOperation
      /\ cdo'.known = cdo.known /\ cdo'.channels = cdo.channels /\ cdo'.invalid = cdo.invalid
  BY Zenon DEF PrepareCore, IInv, Types, TypeOK, TpChannelDispatchOperation
<1>6. claim' = claim /\ svc' = svc /\ lost' = lost /\ \A i \in DOMAIN wire : wire[i].m # "given"
  BY DEF PrepareCore
<1>7. Types'
  BY <1>4, <1>5, <1>6 DEF IInv, Types, TypeOK
<1>8. FillsOnce'
  BY <1>2, <1>4, <1>5, <1>6 DEF IInv, FillsOnce
<1>9. \A k \in Nat, ch \in Channels : LostAfter(k, ch) => LostAfter(k, ch)'
  BY <1>4 DEF LostAfter
<1>10. svc.channels \subseteq Channels /\ cdo.channels \subseteq Channels
       /\ \A i \in 1..n : wire[i].m \in {"given", "properties"} => wire[i].chans \subseteq Channels
  BY <1>4, MessageFacts DEF IInv, Types, TypeOK, Operation, TpChannelDispatchOperation
<1>11. Lists'
  BY <1>2, <1>4, <1>5, <1>6, <1>9, <1>10 DEF IInv, Lists, Mirrors
<1>12. Claiming'
  BY <1>2, <1>4, <1>5, <1>6 DEF IInv, Claiming, ClaimIsWhole, PlainClaimIsHonest
<1> QED
  BY <1>7, <1>8, <1>11, <1>12 DEF IInv

(* Another approver is first: no claim of ours is on its way that succeeded. *)
LEMMA RivalClaimsKeeps ==
  ASSUME IInv, RivalClaims
  PROVE  IInv'
<1> DEFINE a == [m |-> "finished"]
<1>1. a \in Messages /\ a.m = "finished" /\ wire' = Append(wire, a)
  BY MessageFacts DEF RivalClaims
<1> HIDE DEF a
<1>2. PICK n \in Nat : /\ DOMAIN wire = 1..n /\ wire' \in Seq(Messages)
                       /\ DOMAIN wire' = 1..(n + 1) /\ wire'[n + 1] = a
                       /\ \A i \in 1..n : wire'[i] = wire[i] /\ wire[i] \in Messages
  BY <1>1, AppendFacts DEF IInv, Types
<1>3. /\ ~svc.finished /\ svc' \in Operation /\ svc'.finished
      /\ svc'.channels = svc.channels /\ svc'.owner = "rival"
  BY Zenon DEF RivalClaims, IInv, Types, TypeOK, Operation
<1>4. cdo' = cdo /\ claim' = claim /\ lost' = lost
  BY DEF RivalClaims
<1>5. Types'
  BY <1>2, <1>3, <1>4 DEF IInv, Types, TypeOK
<1>6. FillsOnce'
  BY <1>1, <1>2, <1>4 DEF IInv, FillsOnce
<1>7. \A k \in Nat, ch \in Channels : LostAfter(k, ch) => LostAfter(k, ch)'
  BY <1>2 DEF LostAfter
<1>8. svc.channels \subseteq Channels /\ cdo.channels \subseteq Channels
      /\ \A i \in 1..n : wire[i].m \in {"given", "properties"} => wire[i].chans \subseteq Channels
  BY <1>2, MessageFacts DEF IInv, Types, TypeOK, Operation, TpChannelDispatchOperation
<1>9. Lists'
  BY <1>1, <1>2, <1>3, <1>4, <1>7, <1>8 DEF IInv, Lists, Mirrors
<1>10. claim.kind = "none" /\ \A i \in DOMAIN wire : wire[i].m # "claimed"
  BY <1>3 DEF IInv, Claiming
<1>11. Claiming'
  BY <1>1, <1>2, <1>3, <1>4, <1>10 DEF IInv, Claiming, ClaimIsWhole, PlainClaimIsHonest
<1> QED
  BY <1>5, <1>6, <1>9, <1>11 DEF IInv

(* A channel closes before the operation has an owner: ChannelLost follows
   every list that still names the channel, and Finished follows the last.  *)
LEMMA ChannelClosesKeeps ==
  ASSUME IInv, NEW ch \in Channels, ChannelCloses(ch)
  PROVE  IInv'
<1> DEFINE a == [m |-> "lost", ch |-> ch]
           b == [m |-> "finished"]
<1>1. /\ a \in Messages /\ a.m = "lost" /\ a.ch = ch /\ b \in Messages /\ b.m = "finished"
      /\ wire' = IF svc.channels = {ch} THEN wire \o <<a, b>> ELSE Append(wire, a)
  BY MessageFacts DEF ChannelCloses
<1> HIDE DEF a, b
<1>2. PICK n \in Nat, k \in Nat :
        /\ DOMAIN wire = 1..n /\ wire' \in Seq(Messages)
        /\ DOMAIN wire' = 1..k /\ k >= n + 1 /\ wire'[n + 1] = a
        /\ \A i \in 1..n : wire'[i] = wire[i] /\ wire[i] \in Messages
        /\ \A i \in 1..k : i > n + 1 => wire'[i] = b /\ svc.channels = {ch}
  <2>1. CASE svc.channels = {ch}
    <3>1. PICK n \in Nat : /\ DOMAIN wire = 1..n /\ wire' \in Seq(Messages)
                           /\ DOMAIN wire' = 1..(n + 2)
                           /\ wire'[n + 1] = a /\ wire'[n + 2] = b
                           /\ \A i \in 1..n : wire'[i] = wire[i] /\ wire[i] \in Messages
      <4> DEFINE e == <<a, b>>
      <4>1. wire \in Seq(Messages) /\ wire' = wire \o e
        BY <1>1, <2>1 DEF IInv, Types
      <4>2. e \in Seq(Messages) /\ Len(e) = 2 /\ e[1] = a /\ e[2] = b
        BY <1>1
      <4> HIDE DEF e
      <4>3. \E n \in Nat : /\ DOMAIN wire = 1..n /\ wire \o e \in Seq(Messages)
                         /\ DOMAIN (wire \o e) = 1..(n + 2)
                         /\ (wire \o e)[n + 1] = e[1] /\ (wire \o e)[n + 2] = e[2]
                         /\ \A i \in 1..n : (wire \o e)[i] = wire[i] /\ wire[i] \in Messages
        BY <4>1, <4>2, ConcatTwoFacts, ZenonT(60)
      <4> QED
        BY <4>1, <4>2, <4>3, Zenon
    <3>2. \A i \in 1..(n + 2) : i > n + 1 => i = n + 2
      OBVIOUS
    <3>3. n + 2 \in Nat /\ n + 2 >= n + 1
      OBVIOUS
    <3> QED
      BY <2>1, <3>1, <3>2, <3>3, Zenon
  <2>2. CASE svc.channels # {ch}
    <3>1. PICK n \in Nat : /\ DOMAIN wire = 1..n /\ wire' \in Seq(Messages)
                           /\ DOMAIN wire' = 1..(n + 1) /\ wire'[n + 1] = a
                           /\ \A i \in 1..n : wire'[i] = wire[i] /\ wire[i] \in Messages
      BY <1>1, <2>2, AppendFacts DEF IInv, Types
    <3>2. \A i \in 1..(n + 1) : ~(i > n + 1)
      OBVIOUS
    <3>3. n + 1 \in Nat /\ n + 1 >= n + 1
      OBVIOUS
    <3> QED
      BY <3>1, <3>2, <3>3, Zenon
  <2> QED
    BY <2>1, <2>2, Zenon
<1>3. /\ ~svc.finished /\ svc' \in Operation /\ (svc'.finished <=> svc.channels = {ch})
      /\ svc'.channels = svc.channels \ {ch} /\ svc'.owner = svc.owner
  BY Zenon DEF ChannelCloses, IInv, Types, TypeOK, Operation
<1>4. cdo' = cdo /\ claim' = claim /\ lost' = lost
  BY DEF ChannelCloses
<1>5. Types'
  BY <1>2, <1>3, <1>4 DEF IInv, Types, TypeOK
<1>12. \A i \in DOMAIN wire' : \/ i \in DOMAIN wire /\ wire'[i] = wire[i]
                               \/ i = n + 1 /\ wire'[i] = a
                               \/ i > n + 1 /\ wire'[i] = b /\ svc.channels = {ch}
  BY <1>2
<1>13. n + 1 \in DOMAIN wire' /\ DOMAIN wire \subseteq DOMAIN wire'
  BY <1>2
<1>6. FillsOnce'
  <2>1. \A i \in DOMAIN wire' : wire'[i].m \in {"given", "properties"} =>
          i \in DOMAIN wire /\ wire'[i] = wire[i]
    BY <1>1, <1>12
  <2>2. 1 \in DOMAIN wire => 1 \in DOMAIN wire' /\ wire'[1] = wire[1]
    BY <1>2, <1>13
  <2> QED
    BY <2>1, <2>2, <1>4 DEF IInv, FillsOnce
<1>7. \A j \in Nat, c \in Channels : LostAfter(j, c) => LostAfter(j, c)'
  BY <1>2, <1>13 DEF LostAfter
<1>8. svc.channels \subseteq Channels /\ cdo.channels \subseteq Channels
      /\ \A i \in DOMAIN wire : wire[i].m \in {"given", "properties"} => wire[i].chans \subseteq Channels
  BY <1>2, MessageFacts DEF IInv, Types, TypeOK, Operation, TpChannelDispatchOperation
<1>14. \A j \in 0..n : LostAfter(j, ch)'
  <2>1. \A j \in 0..n : n + 1 > j
    OBVIOUS
  <2>2. n + 1 \in DOMAIN wire' /\ wire'[n + 1].m = "lost" /\ wire'[n + 1].ch = ch
    BY <1>1, <1>2, <1>13
  <2> QED
    BY <2>1, <2>2, Zenon DEF LostAfter
<1>15. \A j \in 0..n, chans \in SUBSET Channels : Mirrors(chans, j) => Mirrors(chans, j)'
  BY <1>3, <1>7, <1>14 DEF Mirrors
<1>9. Lists'
  <2>1. \A i \in DOMAIN wire' : wire'[i].m = "lost" => wire'[i].ch \notin svc'.channels
    BY <1>1, <1>3, <1>12 DEF IInv, Lists
  <2>2. \A i \in DOMAIN wire' : wire'[i].m \in {"given", "properties"} => Mirrors(wire[i].chans, i)'
    BY <1>1, <1>2, <1>8, <1>12, <1>15 DEF IInv, Lists
  <2>3. cdo.known => svc'.channels \subseteq cdo'.channels
    BY <1>3, <1>4 DEF IInv, Lists
  <2>4. cdo.known /\ ~cdo.invalid => Mirrors(cdo.channels, 0)'
    BY <1>4, <1>8, <1>15 DEF IInv, Lists
  <2> QED
    BY <2>1, <2>2, <2>3, <2>4, <1>4 DEF IInv, Lists
<1>10. claim.kind = "none" /\ svc.owner # "us" /\ \A i \in DOMAIN wire : wire[i].m # "claimed" /\ wire[i].m # "finished"
  BY <1>3 DEF IInv, Claiming
<1>11. Claiming'
  <2>1. \A i \in DOMAIN wire' : /\ wire'[i].m # "claimed"
                                /\ wire'[i].m = "finished" => svc'.finished
    BY <1>1, <1>3, <1>10, <1>12
  <2>2. claim'.kind = "none" /\ ~claim'.pending /\ claim'.finish = "none" /\ svc'.owner # "us"
    BY <1>3, <1>4, <1>10 DEF IInv, Claiming
  <2> QED
    BY <2>1, <2>2, Zenon DEF Claiming, ClaimIsWhole, PlainClaimIsHonest
<1> QED
  BY <1>5, <1>6, <1>9, <1>11 DEF IInv

(* The approver claims, in any of the five ways: the answer is an error, or it
   is the last message before the operation's end.                           *)
LEMMA ClaimKeeps ==
  ASSUME IInv, NEW kind \in Kinds, Claim(kind)
  PROVE  IInv'
<1>1. /\ claim.kind = "none" /\ claim' \in Claims /\ claim'.kind = kind /\ kind # "none"
      /\ claim'.pending /\ claim'.finish = claim.finish /\ claim'.finish = "none"
  <2>1. claim.finish = "none" /\ claim.kind = "none"
    BY DEF Claim, IInv, Claiming
  <2> QED
    BY <2>1, Zenon DEF Claim, IInv, Types, TypeOK, Claims, Kinds
<1>2. cdo' = cdo /\ lost' = lost /\ cdo.core = "prepared" /\ ~cdo.invalid
  BY DEF Claim
<1>3. svc.owner # "us" /\ \A i \in DOMAIN wire : wire[i].m # "claimed"
  BY <1>1 DEF IInv, Claiming
<1>4. svc.channels \subseteq Channels /\ cdo.channels \subseteq Channels
  BY DEF IInv, Types, TypeOK, Operation, TpChannelDispatchOperation
<1>5. \A i \in DOMAIN wire : wire[i].m # "given" /\ wire[i].m # "properties"
  BY <1>2 DEF IInv, FillsOnce
<1>6. cdo.known
  BY <1>2 DEF IInv, FillsOnce
<1>7. CASE svc.finished
  <2> DEFINE a == [m |-> "claimed", error |-> TRUE]
  <2>1. a \in Messages /\ a.m = "claimed" /\ a.error /\ wire' = Append(wire, a) /\ svc' = svc
    BY <1>7, MessageFacts, Zenon DEF Claim
  <2> HIDE DEF a
  <2>2. PICK n \in Nat : /\ DOMAIN wire = 1..n /\ wire' \in Seq(Messages)
                         /\ DOMAIN wire' = 1..(n + 1) /\ wire'[n + 1] = a
                         /\ \A i \in 1..n : wire'[i] = wire[i] /\ wire[i] \in Messages
    BY <2>1, AppendFacts DEF IInv, Types
  <2>3. Types'
    BY <1>1, <1>2, <2>1, <2>2 DEF IInv, Types, TypeOK
  <2>4. \A i \in DOMAIN wire' : wire'[i].m # "claimed" => i \in DOMAIN wire /\ wire'[i] = wire[i]
    BY <2>1, <2>2
  <2>5. FillsOnce'
    BY <1>2, <1>5, <1>6, <2>1, <2>4 DEF FillsOnce
  <2>6. \A ch \in Channels : LostAfter(0, ch) => LostAfter(0, ch)'
    BY <2>2 DEF LostAfter
  <2>7. Lists'
    BY <1>2, <1>4, <1>5, <2>1, <2>4, <2>6 DEF IInv, Lists, Mirrors
  <2>8. \A i \in DOMAIN wire' : wire'[i].m = "claimed" => i = n + 1
    BY <1>3, <2>2
  <2>9. Claiming'
    BY <1>1, <1>2, <1>3, <1>7, <2>1, <2>2, <2>8 DEF IInv, Claiming, ClaimIsWhole, PlainClaimIsHonest
  <2> QED
    BY <2>3, <2>5, <2>7, <2>9 DEF IInv
<1>8. CASE ~svc.finished
  <2> DEFINE a == [m |-> "claimed", error |-> FALSE]
             b == [m |-> "finished"]
             e == <<a, b>>
  <2>1. /\ a \in Messages /\ b \in Messages /\ a.m = "claimed" /\ ~a.error /\ b.m = "finished"
        /\ wire' = wire \o e
    BY <1>8, MessageFacts, Zenon DEF Claim
  <2> HIDE DEF a, b
  <2>2. e \in Seq(Messages) /\ Len(e) = 2 /\ e[1] = a /\ e[2] = b
    BY <2>1
  <2> HIDE DEF e
  <2>3. PICK n \in Nat : /\ DOMAIN wire = 1..n /\ wire' \in Seq(Messages)
                         /\ DOMAIN wire' = 1..(n + 2)
                         /\ wire'[n + 1] = a /\ wire'[n + 2] = b
                         /\ \A i \in 1..n : wire'[i] = wire[i] /\ wire[i] \in Messages
    <3>1. wire \in Seq(Messages)
      BY DEF IInv, Types
    <3>2. \E n \in Nat : /\ DOMAIN wire = 1..n /\ wire \o e \in Seq(Messages)
                       /\ DOMAIN (wire \o e) = 1..(n + 2)
                       /\ (wire \o e)[n + 1] = e[1] /\ (wire \o e)[n + 2] = e[2]
                       /\ \A i \in 1..n : (wire \o e)[i] = wire[i] /\ wire[i] \in Messages
      BY <2>2, <3>1, ConcatTwoFacts, Zenon
    <3> QED
      BY <2>1, <2>2, <3>2, Zenon
  <2>4. /\ svc' \in Operation /\ svc'.finished /\ svc'.owner = "us"
        /\ svc'.channels = svc.channels /\ svc'.taken = svc.channels
    BY <1>8, Zenon DEF Claim, IInv, Types, TypeOK, Operation
  <2>5. Types'
    BY <1>1, <1>2, <2>3, <2>4 DEF IInv, Types, TypeOK
  <2>6. \A i \in DOMAIN wire' : \/ i \in DOMAIN wire /\ wire'[i] = wire[i] /\ i < n + 1
                                \/ i = n + 1 /\ wire'[i] = a
                                \/ i = n + 2 /\ wire'[i] = b
    BY <2>3
  <2>7. FillsOnce'
    <3>1. \A i \in DOMAIN wire' : wire'[i].m # "given" /\ wire'[i].m # "properties"
      BY <1>5, <2>1, <2>6
    <3> QED
      BY <1>2, <1>6, <3>1 DEF FillsOnce
  <2>8. \A ch \in Channels : LostAfter(0, ch) => LostAfter(0, ch)'
    BY <2>3 DEF LostAfter
  <2>9. Lists'
    <3>1. \A i \in DOMAIN wire' : /\ wire'[i].m # "given" /\ wire'[i].m # "properties"
                                  /\ wire'[i].m = "lost" => wire'[i].ch \notin svc'.channels
      BY <1>5, <2>1, <2>4, <2>6 DEF IInv, Lists
    <3>2. svc'.channels \subseteq cdo'.channels
      BY <1>2, <1>6, <2>4 DEF IInv, Lists
    <3>3. \A ch \in cdo'.channels \ svc'.channels : LostAfter(0, ch)'
      BY <1>2, <1>4, <1>6, <2>4, <2>8 DEF IInv, Lists, Mirrors
    <3> QED
      BY <1>2, <3>1, <3>2, <3>3 DEF IInv, Lists, Mirrors
  <2>10. \A i \in DOMAIN wire : wire[i].m # "finished"
    BY <1>8 DEF IInv, Claiming
  <2>11. \A i \in DOMAIN wire' : /\ wire'[i].m = "claimed" => i = n + 1 /\ wire'[i] = a
                                 /\ wire'[i].m = "finished" => i = n + 2
                                 /\ wire'[i].m = "lost" => i < n + 1
    BY <1>3, <2>1, <2>6, <2>10
  <2>12. n + 2 > n + 1
    OBVIOUS
  <2>13. Claiming'
    <3>1. \A i, j \in DOMAIN wire' : wire'[i].m = "claimed" /\ wire'[j].m = "claimed" => i = j
      BY <2>11
    <3>2. \A i \in DOMAIN wire' : wire'[i].m = "claimed" =>
            /\ ~wire'[i].error
            /\ \A j \in DOMAIN wire' : wire'[j].m = "finished" => j > i
            /\ \A j \in DOMAIN wire' : wire'[j].m = "lost" => j < i
      BY <2>1, <2>11, <2>12
    <3> QED
      BY <1>1, <1>2, <2>4, <3>1, <3>2, Zenon DEF Claiming, ClaimIsWhole, PlainClaimIsHonest
  <2> QED
    BY <2>5, <2>7, <2>9, <2>13 DEF IInv
<1> QED
  BY <1>7, <1>8

(* The next message is dispatched: each makes true what it was sent for, and
   the answer to Claim() finds the channels that the dispatcher gave away.  *)
LEMMA DispatchKeeps ==
  ASSUME IInv, Dispatch
  PROVE  IInv'
<1> DEFINE m == wire[1]
<1>1. wire \in Seq(Messages) /\ wire # <<>> /\ wire' = Tail(wire) /\ svc' = svc
  BY DEF IInv, Types, Dispatch
<1>2. PICK n \in Nat : /\ DOMAIN wire = 1..(n + 1) /\ DOMAIN wire' = 1..n /\ wire' \in Seq(Messages)
                       /\ Head(wire) = m /\ m \in Messages
                       /\ \A i \in 1..n : wire'[i] = wire[i + 1] /\ wire[i + 1] \in Messages
  BY <1>1, TailFacts
<1>3. 1 \in DOMAIN wire
  BY <1>2
<1>4. \A i \in DOMAIN wire' : /\ i + 1 \in DOMAIN wire /\ i \in Nat /\ i + 1 # 1 /\ ~(i + 1 < 1)
                              /\ wire'[i] = wire[i + 1]
                              /\ wire'[i].m \in {"given", "properties"} => wire'[i].chans \subseteq Channels
  BY <1>2, MessageFacts
<1>5. \A i, j \in DOMAIN wire' : /\ i + 1 = j + 1 => i = j
                                 /\ i + 1 > j + 1 => i > j
                                 /\ i + 1 < j + 1 => i < j
  BY <1>2
<1>6. \A k \in Nat, ch \in Channels : LostAfter(k + 1, ch) => LostAfter(k, ch)'
  <2> SUFFICES ASSUME NEW k \in Nat, NEW ch \in Channels, LostAfter(k + 1, ch)
               PROVE  LostAfter(k, ch)'
    OBVIOUS
  <2>1. PICK j \in 1..(n + 1) : j > k + 1 /\ wire[j].m = "lost" /\ wire[j].ch = ch
    BY <1>2 DEF LostAfter
  <2>2. j - 1 \in 1..n /\ j - 1 > k /\ (j - 1) + 1 = j
    BY <2>1
  <2>3. wire'[j - 1] = wire[j]
    BY <1>2, <2>2
  <2> QED
    BY <1>2, <2>1, <2>2, <2>3 DEF LostAfter
<1>7. \A ch \in Channels : LostAfter(0, ch) /\ ~(m.m = "lost" /\ m.ch = ch) => LostAfter(0, ch)'
  <2> SUFFICES ASSUME NEW ch \in Channels, LostAfter(0, ch), ~(m.m = "lost" /\ m.ch = ch)
               PROVE  LostAfter(0, ch)'
    OBVIOUS
  <2>1. PICK j \in 1..(n + 1) : wire[j].m = "lost" /\ wire[j].ch = ch
    BY <1>2 DEF LostAfter
  <2>2. j # 1
    BY <2>1
  <2>3. j > 0 + 1
    BY <2>1, <2>2
  <2>4. LostAfter(0 + 1, ch)
    BY <1>2, <2>1, <2>3 DEF LostAfter
  <2> QED
    BY <1>6, <2>4
<1> HIDE DEF m
<1>8. \A i \in DOMAIN wire' : wire'[i].m # "given"
  BY <1>4 DEF IInv, FillsOnce
<1>9. /\ \A i \in DOMAIN wire' : wire'[i].m = "properties" => cdo.core = "preparing" /\ m.m # "properties"
      /\ \A i, j \in DOMAIN wire' : wire'[i].m = "properties" /\ wire'[j].m = "properties" => i = j
  BY <1>3, <1>4, <1>5 DEF IInv, FillsOnce, m
<1>10. \A i \in DOMAIN wire' : wire'[i].m = "lost" => wire'[i].ch \notin svc'.channels
  BY <1>1, <1>4 DEF IInv, Lists
<1>11. \A k \in Nat, chans \in SUBSET Channels : Mirrors(chans, k + 1) => Mirrors(chans, k)'
  BY <1>1, <1>6 DEF Mirrors
<1>12. \A i \in DOMAIN wire' : wire'[i].m \in {"given", "properties"} => Mirrors(wire[i].chans, i)'
  <2> SUFFICES ASSUME NEW i \in DOMAIN wire', wire'[i].m \in {"given", "properties"}
               PROVE  Mirrors(wire[i].chans, i)'
    OBVIOUS
  <2>1. Mirrors(wire[i + 1].chans, i + 1) /\ wire[i + 1].chans \in SUBSET Channels
    BY <1>4 DEF IInv, Lists
  <2> QED
    BY <1>4, <2>1, <1>11
<1>13. \A i \in DOMAIN wire' : wire'[i].m = "finished" => svc'.finished
  BY <1>1, <1>4 DEF IInv, Claiming
<1>14. \A i \in DOMAIN wire' : wire'[i].m = "claimed" =>
         /\ claim.pending /\ m.m # "claimed"
         /\ wire'[i].error <=> svc'.owner # "us"
         /\ ~wire'[i].error => /\ ~cdo.invalid /\ m.m # "finished"
                               /\ \A j \in DOMAIN wire' : wire'[j].m = "finished" => j > i
                               /\ \A j \in DOMAIN wire' : wire'[j].m = "lost" => j < i
  BY <1>1, <1>3, <1>4, <1>5 DEF IInv, Claiming, m
<1>15. \A i, j \in DOMAIN wire' : wire'[i].m = "claimed" /\ wire'[j].m = "claimed" => i = j
  BY <1>4, <1>5 DEF IInv, Claiming
<1>16. /\ cdo \in TpChannelDispatchOperation /\ claim \in Claims /\ lost \subseteq Channels
       /\ cdo.channels \subseteq Channels
  BY DEF IInv, Types, TypeOK, TpChannelDispatchOperation
<1>17. cdo' \in TpChannelDispatchOperation /\ claim' \in Claims /\ lost' \subseteq Channels => Types'
  BY <1>1, <1>2 DEF IInv, Types, TypeOK
<1>18. Given /\ ~cdo.known => m.m = "given"
  BY DEF IInv, FillsOnce, m
<1>20. CASE m.m = "given"
  <2>1. ~cdo.known /\ cdo.core = "none" /\ m.chans = Channels
    BY <1>3, <1>20 DEF IInv, FillsOnce, m
  <2>2. claim' = claim /\ lost' = lost /\ cdo' = EnsureChannels(cdo, m.chans)
    BY <1>2, <1>20 DEF Dispatch
  <2>3. /\ cdo' \in TpChannelDispatchOperation /\ cdo'.known /\ cdo'.channels = Channels
        /\ cdo'.core = "none" /\ cdo'.invalid = cdo.invalid
    BY <1>16, <2>1, <2>2, Zenon DEF EnsureChannels, TpChannelDispatchOperation
  <2>4. Types'
    BY <1>16, <1>17, <2>2, <2>3
  <2>5. FillsOnce'
    BY <1>8, <1>9, <2>1, <2>3 DEF FillsOnce
  <2>6. Mirrors(Channels, 0 + 1)
    BY <1>3, <1>20, <2>1 DEF IInv, Lists, m
  <2>7. Mirrors(Channels, 0)' /\ svc'.channels \subseteq Channels
    BY <1>11, <2>6 DEF Mirrors
  <2>8. Lists'
    BY <1>10, <1>12, <2>2, <2>3, <2>7 DEF Lists
  <2>9. claim.kind = "none" /\ \A i \in DOMAIN wire' : wire'[i].m # "claimed"
    BY <1>14, <2>1 DEF IInv, Claiming
  <2>10. Claiming'
    BY <1>1, <1>13, <2>2, <2>9 DEF IInv, Claiming, ClaimIsWhole, PlainClaimIsHonest
  <2> QED
    BY <2>4, <2>5, <2>8, <2>10 DEF IInv
<1>21. CASE m.m = "lost"
  <2>1. m.ch \in Channels /\ m.ch \notin svc.channels
    BY <1>2, <1>3, <1>21, MessageFacts DEF IInv, Lists, m
  <2>2. CASE ~cdo.invalid /\ cdo.known
    <3>1. /\ claim' = claim /\ lost' = lost \cup {m.ch}
          /\ cdo' = [cdo EXCEPT !.channels = @ \ {m.ch}]
      BY <1>2, <1>21, <2>2 DEF Dispatch, ChannelLost, ChannelLostCb
    <3>2. /\ cdo' \in TpChannelDispatchOperation /\ cdo'.known /\ cdo'.channels = cdo.channels \ {m.ch}
          /\ cdo'.core = cdo.core /\ ~cdo'.invalid
      BY <1>16, <2>2, <3>1 DEF TpChannelDispatchOperation
    <3>3. Types'
      BY <1>16, <1>17, <2>1, <3>1, <3>2
    <3>4. FillsOnce'
      BY <1>8, <1>9, <3>2 DEF FillsOnce
    <3>5. Mirrors(cdo.channels, 0)
      BY <2>2 DEF IInv, Lists
    <3>6. svc'.channels \subseteq cdo'.channels
      BY <1>1, <2>1, <3>2, <3>5 DEF Mirrors
    <3>7. \A ch \in cdo'.channels \ svc'.channels : LostAfter(0, ch)'
      BY <1>1, <1>7, <1>16, <3>2, <3>5 DEF Mirrors
    <3>8. Mirrors(cdo.channels, 0)'
      BY <3>6, <3>7 DEF Mirrors
    <3>9. Given => Channels \ cdo'.channels \subseteq lost'
      BY <2>2, <3>1, <3>2 DEF IInv, Lists
    <3>10. Lists'
      BY <1>10, <1>12, <3>6, <3>8, <3>9 DEF Lists
    <3>11. Claiming'
      BY <1>1, <1>13, <1>14, <1>15, <2>2, <3>1, <3>2 DEF IInv, Claiming, ClaimIsWhole, PlainClaimIsHonest
    <3> QED
      BY <3>3, <3>4, <3>10, <3>11 DEF IInv
  <2>3. CASE cdo.invalid \/ ~cdo.known
    <3>1. cdo' = cdo /\ claim' = claim /\ lost' = lost
      BY <1>2, <1>21, <2>3 DEF Dispatch, ChannelLost, ChannelLostCb
    <3>2. Types'
      BY <1>16, <1>17, <3>1
    <3>3. FillsOnce'
      BY <1>8, <1>9, <1>18, <1>21, <3>1 DEF IInv, FillsOnce
    <3>4. Lists'
      BY <1>1, <1>10, <1>12, <2>3, <3>1 DEF IInv, Lists
    <3>5. Claiming'
      BY <1>1, <1>13, <1>14, <1>15, <3>1 DEF IInv, Claiming, ClaimIsWhole, PlainClaimIsHonest
    <3> QED
      BY <3>2, <3>3, <3>4, <3>5 DEF IInv
  <2> QED
    BY <2>2, <2>3
<1>22. CASE m.m = "finished"
  <2>1. claim' = claim /\ lost' = lost /\ cdo' = [cdo EXCEPT !.invalid = TRUE]
    BY <1>2, <1>22 DEF Dispatch
  <2>2. /\ cdo' \in TpChannelDispatchOperation /\ cdo'.known = cdo.known /\ cdo'.channels = cdo.channels
        /\ cdo'.core = cdo.core /\ cdo'.invalid
    BY <1>16, <2>1, Zenon DEF TpChannelDispatchOperation
  <2>3. Types'
    BY <1>16, <1>17, <2>1, <2>2
  <2>4. FillsOnce'
    BY <1>8, <1>9, <1>18, <1>22, <2>2 DEF IInv, FillsOnce
  <2>5. Lists'
    BY <1>1, <1>10, <1>12, <2>1, <2>2 DEF IInv, Lists
  <2>6. Claiming'
    BY <1>1, <1>13, <1>14, <1>15, <1>22, <2>1, <2>2 DEF IInv, Claiming, ClaimIsWhole, PlainClaimIsHonest
  <2> QED
    BY <2>3, <2>4, <2>5, <2>6 DEF IInv
<1>23. CASE m.m = "properties"
  <2>1. cdo.core = "preparing" /\ (Given => cdo.known) /\ m.chans \subseteq Channels /\ m.complete \in BOOLEAN
    BY <1>2, <1>3, <1>18, <1>23, MessageFacts DEF IInv, FillsOnce, m
  <2>2. /\ claim' = claim /\ cdo' = UpdateChannels(cdo, m.chans, m.complete)
        /\ lost' = IF m.complete /\ cdo.known THEN lost \cup (cdo.channels \ m.chans) ELSE lost
    BY <1>2, <1>23 DEF Dispatch
  <2>3. lost' \subseteq Channels
    BY <1>16, <2>2
  <2>4. \A i \in DOMAIN wire' : wire'[i].m # "properties" /\ wire'[i].m # "given"
    BY <1>8, <1>9, <1>23
  <2>5. claim.kind = "none" /\ ~claim.pending /\ \A i \in DOMAIN wire' : wire'[i].m # "claimed"
    BY <1>14, <2>1 DEF IInv, Claiming
  <2>6. Claiming'
    BY <1>1, <1>13, <2>2, <2>5 DEF IInv, Claiming, ClaimIsWhole, PlainClaimIsHonest
  <2>7. CASE m.complete
    <3>1. /\ cdo' \in TpChannelDispatchOperation /\ cdo'.known /\ cdo'.channels = m.chans
          /\ cdo'.core = "prepared" /\ cdo'.invalid = cdo.invalid
      BY <1>16, <2>1, <2>2, <2>7, ZenonT(60) DEF UpdateChannels, GotProperties, TpChannelDispatchOperation
    <3>2. FillsOnce'
      BY <2>4, <3>1 DEF FillsOnce
    <3>3. Mirrors(m.chans, 0 + 1)
      BY <1>3, <1>23 DEF IInv, Lists, m
    <3>4. svc'.channels \subseteq cdo'.channels /\ \A ch \in cdo'.channels \ svc'.channels : LostAfter(0, ch)'
      BY <1>1, <1>6, <2>1, <3>1, <3>3 DEF Mirrors
    <3>5. Given => Channels \ cdo'.channels \subseteq lost'
      BY <2>1, <2>2, <2>7, <3>1, ZenonT(60) DEF IInv, Lists
    <3>6. Lists'
      BY <1>10, <2>4, <3>4, <3>5 DEF Lists, Mirrors
    <3> QED
      BY <1>16, <1>17, <2>2, <2>3, <2>6, <3>1, <3>2, <3>6 DEF IInv
  <2>8. CASE ~m.complete
    <3>1. /\ cdo' \in TpChannelDispatchOperation /\ cdo'.known = cdo.known /\ cdo'.channels = cdo.channels
          /\ cdo'.core = "failed" /\ cdo'.invalid /\ lost' = lost
      BY <1>16, <2>1, <2>2, <2>8, ZenonT(60) DEF UpdateChannels, GotProperties, TpChannelDispatchOperation
    <3>2. FillsOnce'
      BY <2>1, <2>4, <3>1 DEF FillsOnce
    <3>3. Lists'
      BY <1>1, <1>10, <2>4, <3>1 DEF IInv, Lists
    <3> QED
      BY <1>16, <1>17, <2>2, <2>3, <2>6, <3>1, <3>2, <3>3 DEF IInv
  <2> QED
    BY <2>1, <2>7, <2>8
<1>24. CASE m.m = "claimed"
  <2>1. /\ claim.pending /\ claim.kind # "none" /\ cdo.core = "prepared" /\ cdo.known
        /\ svc.finished /\ m.error \in BOOLEAN
        /\ m.error <=> svc.owner # "us"
        /\ ~m.error => ~cdo.invalid /\ \A j \in DOMAIN wire : wire[j].m = "lost" => j < 1
    BY <1>2, <1>3, <1>24, MessageFacts DEF IInv, Claiming, FillsOnce, m
  <2>2. cdo' = cdo /\ lost' = lost /\ claim' = ClaimAnswered(claim, cdo, m.error)
    BY <1>2, <1>24 DEF Dispatch, ClaimReply
  <2>3. claim.kind \in Kinds
    BY <1>16, <2>1 DEF Claims
  <2>4. /\ claim' \in Claims /\ claim'.kind = claim.kind /\ ~claim'.pending
        /\ claim.kind = "claim" => (claim'.finish = "TRUE" <=> ~m.error)
        /\ claim.kind # "claim" => claim'.acted = cdo.channels
    BY <1>16, <2>1, <2>2, <2>3, Zenon
    DEF ClaimAnswered, ClaimCb, ClaimWithCb, CloseChannelsCb, LeaveChannelsCb, DestroyChannelsCb, ActOnAll,
        Claims, Kinds
  <2>5. Types'
    BY <1>16, <1>17, <2>2, <2>4
  <2>6. FillsOnce'
    BY <1>8, <1>9, <2>1, <2>2 DEF FillsOnce
  <2>7. \A ch \in Channels : LostAfter(0, ch) => LostAfter(0, ch)'
    BY <1>7, <1>24
  <2>8. Lists'
    BY <1>1, <1>10, <1>12, <1>16, <2>2, <2>7 DEF IInv, Lists, Mirrors
  <2>9. svc.owner = "us" => cdo.channels = svc.taken
    <3> SUFFICES ASSUME svc.owner = "us" PROVE cdo.channels = svc.taken
      OBVIOUS
    <3>1. \A j \in DOMAIN wire : wire[j].m # "lost"
      BY <1>2, <2>1
    <3>2. Mirrors(cdo.channels, 0)
      BY <2>1 DEF IInv, Lists
    <3>3. cdo.channels = svc.channels
      BY <3>1, <3>2, Zenon DEF Mirrors, LostAfter
    <3> QED
      BY <3>3 DEF IInv, Claiming
  <2>10. ClaimIsWhole' /\ PlainClaimIsHonest'
    BY <1>1, <2>1, <2>4, <2>9 DEF ClaimIsWhole, PlainClaimIsHonest
  <2>11. \A i \in DOMAIN wire' : wire'[i].m # "claimed"
    BY <1>14, <1>24
  <2>12. Claiming'
    BY <1>1, <1>13, <2>1, <2>2, <2>4, <2>10, <2>11 DEF IInv, Claiming
  <2> QED
    BY <2>5, <2>6, <2>8, <2>12 DEF IInv
<1>25. m.m \in {"given", "properties", "claimed", "lost", "finished"}
  BY <1>2, MessageFacts
<1> QED
  BY <1>20, <1>21, <1>22, <1>23, <1>24, <1>25

(* Nothing happens.                                                         *)
LEMMA StutterKeeps ==
  ASSUME IInv, UNCHANGED vars
  PROVE  IInv'
<1>1. cdo' = cdo /\ claim' = claim /\ wire' = wire /\ svc' = svc /\ lost' = lost
  BY DEF vars
<1>2. Types' /\ FillsOnce'
  BY <1>1 DEF IInv, Types, TypeOK, FillsOnce
<1>3. Lists'
  BY <1>1 DEF IInv, Lists, Mirrors, LostAfter
<1>4. Claiming'
  BY <1>1 DEF IInv, Claiming, ClaimIsWhole, PlainClaimIsHonest
<1> QED
  BY <1>2, <1>3, <1>4 DEF IInv

(* What ties the approver's proxy to the operation of the dispatcher at every
   moment, whatever channels close and whoever claims first: the lists that
   are on their way, and the place of an answer to Claim() among them.       *)
THEOREM OperationInvariance == SoundConstants /\ Spec => []IInv
<1>1. SoundConstants /\ Init => IInv
  BY InitHolds
<1>2. IInv /\ [Next]_vars => IInv'
  BY PrepareCoreKeeps, RivalClaimsKeeps, ChannelClosesKeeps, ClaimKeeps, DispatchKeeps, StutterKeeps DEF Next
<1> QED
  BY <1>1, <1>2, PTL DEF Spec

(* For any channels, given with AddDispatchOperation or not: once CORE is
   prepared the proxy's channels are the dispatcher's up to the losses on their
   way, a claim that succeeded acts on exactly the channels that were given
   away, and tp_channel_dispatch_operation_claim_async reports the truth.    *)
THEOREM OperationIsRight ==
  SoundConstants /\ Spec => [](ChannelsMirrored /\ ClaimIsWhole /\ PlainClaimIsHonest)
<1>1. IInv => ChannelsMirrored
  BY DEF IInv, FillsOnce, Lists, Mirrors, LostAfter, ChannelsMirrored
<1>2. IInv => ClaimIsWhole /\ PlainClaimIsHonest
  BY DEF IInv, Claiming
<1> QED
  BY <1>1, <1>2, OperationInvariance, PTL
=============================================================================
