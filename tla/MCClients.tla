------------------------------ MODULE MCClients ------------------------------
(* Clients of the account manager and the channel dispatcher: TpBaseClients, a
   TpAccount, the TpAccountManager, a TpAccountChannelRequest, a
   TpChannelDispatchOperation and a TpConnectionManager; an object of any class
   with its properties; and protocols: a call on one, its description, a
   default value in its file, what it is capable of, names, and the listing of
   the managers. A behaviour is one of any one of them, which `part' names. *)
EXTENDS Integers, ConnectionManager

VARIABLES part, base, table, ctxs, invalid, deleg, handler, stray,
  acc, conns, man, accts, acr, calls, mc, chan, cdo, claim, lost,
  other_cm, other_call, other_sig, inbox, remote, changes, self, made

baseVars == <<base, table, ctxs, invalid, deleg, handler, stray>>
accountVars == <<acc, conns>>
managerVars == <<man, accts>>
otherVars == <<other_cm, other_call, other_sig>>
requestVars == <<acr, calls, mc, chan>>
operationVars == <<cdo, claim, lost>>
exampleVars == <<self, made>>
MCVars == <<part, baseVars, accountVars, managerVars, requestVars, operationVars, vars,
            otherVars, inbox, remote, changes, exampleVars>>

(* Two handlers in one process. *)
TwoHandlers == INSTANCE BaseClient WITH
  Clients <- {"k", "n"}, Channels <- {"a"}, Requests <- {}, Announced <- {},
  Roles <- [k |-> {"handle"}, n |-> {"handle"}],
  Delegates <- {}, Preferred <- << >>, MaxContexts <- 2, MaxDelegations <- 1

(* A handler that delegates to a preferred one. *)
Delegating == INSTANCE BaseClient WITH
  Clients <- {"k"}, Channels <- {"a", "b"}, Requests <- {1}, Announced <- {},
  Roles <- [k |-> {"handle"}],
  Delegates <- {"k"}, Preferred <- <<"x">>, MaxContexts <- 2, MaxDelegations <- 1

(* An observer and approver. *)
Watching == INSTANCE BaseClient WITH
  Clients <- {"k"}, Channels <- {"a", "b"}, Requests <- {1, 2}, Announced <- {1, 2},
  Roles <- [k |-> {"observe", "approve"}],
  Delegates <- {"k"}, Preferred <- <<"x", "">>, MaxContexts <- 1, MaxDelegations <- 1

Acc == INSTANCE Account WITH Paths <- {"c1", "c2"}, Errors <- {"E"}, MaxChanges <- 4,
  wire <- inbox, svc <- remote

Validity == INSTANCE AccountManager WITH
  Accounts <- {"a", "b"}, Existing <- {"a"}, Held <- {"a"}, Presences <- {1, 2},
  Changes <- {"valid", "removed", "created"}, MaxChanges <- 4, wire <- inbox, svc <- remote

Presence == INSTANCE AccountManager WITH
  Accounts <- {"a", "b"}, Existing <- {"a", "b"}, Held <- {}, Presences <- {1, 2, 3},
  Changes <- {"presence"}, MaxChanges <- 4, wire <- inbox, svc <- remote

Request == INSTANCE ChannelRequest WITH
  Actions <- {"HANDLE", "OBSERVE", "FORGET"}, MaxRehandles <- 2, MayCrash <- FALSE, wire <- inbox

CrashedRequest == INSTANCE ChannelRequest WITH
  Actions <- {"HANDLE", "OBSERVE", "FORGET"}, MaxRehandles <- 2, MayCrash <- TRUE, wire <- inbox

GivenOp == INSTANCE DispatchOperation WITH Channels <- {"a", "b"}, Given <- TRUE, Rivals <- TRUE,
  wire <- inbox, svc <- remote
FetchedOp == INSTANCE DispatchOperation WITH Channels <- {"a", "b"}, Given <- FALSE, Rivals <- TRUE,
  wire <- inbox, svc <- remote

(* The TpConnectionManager of the constants has a file, this one a bad one and
   that one none. *)
PQ == <<"p", "q">>
WithBadFile == INSTANCE ConnectionManager WITH
  Protocols <- PQ, File <- "bad", Always <- TRUE, Legacy <- FALSE, Errors <- FALSE, MaxRuns <- 2,
  cm <- other_cm, call <- other_call, sig <- other_sig, wire <- inbox, svc <- remote
WithoutFile == INSTANCE ConnectionManager WITH
  Protocols <- PQ, File <- "none", Always <- FALSE, Legacy <- TRUE, Errors <- TRUE, MaxRuns <- 2,
  cm <- other_cm, call <- other_call, sig <- other_sig, wire <- inbox, svc <- remote

(* An object of each class. *)
Objs == INSTANCE Objects WITH MaxWrites <- 2, MaxDisposals <- 2

(* The types of parameters, of which the file holds no signed 16-bit one.  A name
   is at most 4 long; of the managers on the bus one has a bad name. *)
AllDTypes == {"b", "s", "o", "as", "d", "n", "q", "i", "u", "x", "t"}
OnBus == {<<"l">>, <<"l", "d">>, <<"d">>}
ProtocolCalls == INSTANCE Protocols WITH
  Kind <- "service", DTypes <- AllDTypes, MixedCase <- FALSE, NameLimit <- 4, MaxName <- 5,
  Managers <- OnBus
Description == INSTANCE Protocols WITH
  Kind <- "description", DTypes <- AllDTypes, MixedCase <- FALSE, NameLimit <- 4, MaxName <- 5,
  Managers <- OnBus
FileDefault == INSTANCE Protocols WITH
  Kind <- "file", DTypes <- (AllDTypes \ {"n"}) \cup {"y"}, MixedCase <- FALSE, NameLimit <- 4, MaxName <- 5,
  Managers <- OnBus
Capabilities == INSTANCE Protocols WITH
  Kind <- "capabilities", DTypes <- AllDTypes, MixedCase <- FALSE, NameLimit <- 4, MaxName <- 5,
  Managers <- OnBus
ValidNames == INSTANCE Protocols WITH
  Kind <- "names", DTypes <- AllDTypes, MixedCase <- FALSE, NameLimit <- 4, MaxName <- 5,
  Managers <- OnBus
ManagerList == INSTANCE Protocols WITH
  Kind <- "listing", DTypes <- AllDTypes, MixedCase <- FALSE, NameLimit <- 4, MaxName <- 5,
  Managers <- OnBus

ASSUME SoundInstances ==
  /\ Objs!SoundConstants
  /\ ProtocolCalls!SoundConstants /\ Description!SoundConstants
  /\ FileDefault!SoundConstants /\ Capabilities!SoundConstants
  /\ ValidNames!SoundConstants /\ ManagerList!SoundConstants
  /\ TwoHandlers!SoundConstants /\ Delegating!SoundConstants /\ Watching!SoundConstants
  /\ Acc!SoundConstants /\ Validity!SoundConstants /\ Presence!SoundConstants
  /\ Request!SoundConstants /\ CrashedRequest!SoundConstants
  /\ GivenOp!SoundConstants /\ FetchedOp!SoundConstants
  /\ SoundConstants /\ WithBadFile!SoundConstants /\ WithoutFile!SoundConstants

(* The variables of a part that is not there. *)
NoBase == base = 0 /\ table = 0 /\ ctxs = 0 /\ invalid = 0 /\ deleg = 0 /\ handler = 0 /\ stray = 0
NoAccount == acc = 0 /\ conns = 0
NoManager == man = 0 /\ accts = 0
NoRequest == acr = 0 /\ calls = 0 /\ mc = 0 /\ chan = 0
NoOperation == cdo = 0 /\ claim = 0 /\ lost = 0
NoCM == ~svc.running
NoOther == other_cm = 0 /\ other_call = 0 /\ other_sig = 0
NoWire == inbox = << >> /\ remote = 0
NoChanges == changes = 0
NoExample == self = 0 /\ made = 0

BaseInit ==
  /\ NoAccount /\ NoManager /\ NoRequest /\ NoOperation /\ NoCM /\ NoWire /\ NoChanges
  /\ \/ part = "two handlers" /\ TwoHandlers!Init
     \/ part = "delegating" /\ Delegating!Init
     \/ part = "watching" /\ Watching!Init

AccountInit ==
  /\ NoBase /\ NoRequest /\ NoOperation /\ NoCM
  /\ \/ part = "account" /\ NoManager /\ Acc!Init
     \/ part = "validity" /\ NoAccount /\ Validity!Init
     \/ part = "presence" /\ NoAccount /\ Presence!Init

RequestInit ==
  /\ NoBase /\ NoAccount /\ NoManager /\ NoChanges /\ NoCM
  /\ \/ part = "request" /\ NoOperation /\ remote = 0 /\ Request!Init
     \/ part = "crashed request" /\ NoOperation /\ remote = 0 /\ CrashedRequest!Init
     \/ part = "operation" /\ NoRequest /\ GivenOp!Init
     \/ part = "fetched operation" /\ NoRequest /\ FetchedOp!Init

CMInit ==
  /\ NoBase /\ NoAccount /\ NoManager /\ NoRequest /\ NoOperation /\ NoChanges
  /\ \/ part = "cm with file" /\ NoOther /\ NoWire
     \/ part = "cm with bad file" /\ NoCM /\ WithBadFile!Init
     \/ part = "cm without file" /\ NoCM /\ WithoutFile!Init

ExampleInit ==
  /\ NoBase /\ NoAccount /\ NoManager /\ NoRequest /\ NoOperation /\ NoCM /\ NoWire /\ NoChanges
  /\ \/ part = "objects" /\ Objs!Init
     \/ part = "protocol calls" /\ ProtocolCalls!Init
     \/ part = "description" /\ Description!Init
     \/ part = "file default" /\ FileDefault!Init
     \/ part = "capabilities" /\ Capabilities!Init
     \/ part = "names" /\ ValidNames!Init
     \/ part = "manager list" /\ ManagerList!Init

MCInit ==
  /\ Init
  /\ \/ NoExample /\ NoOther /\ (BaseInit \/ AccountInit \/ RequestInit)
     \/ NoExample /\ CMInit
     \/ NoOther /\ ExampleInit

BaseStep ==
  /\ UNCHANGED <<part, accountVars, managerVars, requestVars, operationVars, vars, inbox, remote, changes>>
  /\ \/ part = "two handlers" /\ TwoHandlers!Next
     \/ part = "delegating" /\ Delegating!Next
     \/ part = "watching" /\ Watching!Next

AccountStep ==
  /\ UNCHANGED <<part, baseVars, requestVars, operationVars, vars>>
  /\ \/ part = "account" /\ UNCHANGED managerVars /\ Acc!Next
     \/ part = "validity" /\ UNCHANGED accountVars /\ Validity!Next
     \/ part = "presence" /\ UNCHANGED accountVars /\ Presence!Next

RequestStep ==
  /\ UNCHANGED <<part, baseVars, accountVars, managerVars, vars, changes>>
  /\ \/ part = "request" /\ UNCHANGED <<operationVars, remote>> /\ Request!Next
     \/ part = "crashed request" /\ UNCHANGED <<operationVars, remote>> /\ CrashedRequest!Next
     \/ part = "operation" /\ UNCHANGED requestVars /\ GivenOp!Next
     \/ part = "fetched operation" /\ UNCHANGED requestVars /\ FetchedOp!Next

CMStep ==
  /\ UNCHANGED <<part, baseVars, accountVars, managerVars, requestVars, operationVars, changes>>
  /\ \/ part = "cm with file" /\ UNCHANGED <<otherVars, inbox, remote>> /\ Next
     \/ part = "cm with bad file" /\ UNCHANGED vars /\ WithBadFile!Next
     \/ part = "cm without file" /\ UNCHANGED vars /\ WithoutFile!Next

ExampleStep ==
  /\ UNCHANGED <<part, baseVars, accountVars, managerVars, requestVars, operationVars, vars,
                 otherVars, inbox, remote, changes>>
  /\ \/ part = "objects" /\ Objs!Next
     \/ part = "protocol calls" /\ ProtocolCalls!Next
     \/ part = "description" /\ Description!Next
     \/ part = "file default" /\ FileDefault!Next
     \/ part = "capabilities" /\ Capabilities!Next
     \/ part = "names" /\ ValidNames!Next
     \/ part = "manager list" /\ ManagerList!Next

MCNext ==
  \/ UNCHANGED exampleVars /\ UNCHANGED otherVars /\ (BaseStep \/ AccountStep \/ RequestStep)
  \/ UNCHANGED exampleVars /\ CMStep
  \/ ExampleStep

MCSpec == MCInit /\ [][MCNext]_MCVars

(* The part that delegates channels, alone. *)
DelegatingSpec == MCInit /\ part = "delegating" /\ [][MCNext]_MCVars

-----------------------------------------------------------------------------
(* The types of all parts. *)
TypesOK ==
  /\ part = "two handlers" => TwoHandlers!TypeOK
  /\ part = "delegating" => Delegating!TypeOK
  /\ part = "watching" => Watching!TypeOK
  /\ part = "account" => Acc!TypeOK
  /\ part = "validity" => Validity!TypeOK
  /\ part = "presence" => Presence!TypeOK
  /\ part = "request" => Request!TypeOK
  /\ part = "crashed request" => CrashedRequest!TypeOK
  /\ part = "operation" => GivenOp!TypeOK
  /\ part = "fetched operation" => FetchedOp!TypeOK
  /\ part = "cm with file" => TypeOK
  /\ part = "cm with bad file" => WithBadFile!TypeOK
  /\ part = "cm without file" => WithoutFile!TypeOK
  /\ part = "objects" => Objs!TypeOK
  /\ part = "protocol calls" => ProtocolCalls!TypeOK
  /\ part = "description" => Description!TypeOK
  /\ part = "file default" => FileDefault!TypeOK
  /\ part = "capabilities" => Capabilities!TypeOK
  /\ part = "names" => ValidNames!TypeOK
  /\ part = "manager list" => ManagerList!TypeOK

(* A TpAccount exposes a connection only when it is prepared, short of the
   race of its feature with a change of the connection; says so by exactly the
   notifications it should; explains a disconnection by the right error; and,
   all handled, has what the account manager has.  A TpAccountManager lists the
   valid accounts, tells of each that comes or goes, asks all of them for the
   presence that was set for all, and knows the most available presence.  A
   TpConnectionManager whose file is bad or absent shows one run of the manager,
   like the one with a file (ManagersMirrored, tp_connection_manager_got_protocols).
   A TpProtocol is the same whether the manager announced it or its file was read,
   the defaults in the file being what they say. *)
AccountsMirrored ==
  /\ part = "account" =>
       Acc!ExposedUnlessRaced /\ Acc!NotifiedExactly /\ Acc!ErrorExplains /\ Acc!FollowsManager
  /\ part = "validity" =>
       Validity!ListsValidAccounts /\ Validity!ListIsTold /\ Validity!PresenceReachesAll
  /\ part = "presence" =>
       /\ Presence!ListsValidAccounts /\ Presence!ListIsTold /\ Presence!PresenceReachesAll
       /\ Presence!MostAvailableIsGreatest
  /\ part = "cm with bad file" => WithBadFile!ManagersMirrored
  /\ part = "cm without file" => WithoutFile!ManagersMirrored
  /\ part = "description" => Description!DescriptionsAgree
  /\ part = "file default" => FileDefault!ParsedAsWritten

(* What is asked is settled.  The contexts of a TpBaseClient are answered once,
   and at the latest when they are freed; the implementation is called when the
   account, connection, channels and operation are prepared, once; a client's
   HandledChannels are those it accepted, and were neither closed nor delegated;
   the process-wide table names clients that live (up to a reply that delegates some
   of the channels, see PartialDelegationIsRead).  A channel request is settled once, with
   its channel if it has one, while the dispatcher lives, and a channel that was
   handled keeps its TpAccountChannelRequest alive to handle it again; an observed
   channel is named; the channels of a dispatch operation are the dispatcher's; a
   claim covers all of them, and a plain Claim tells the truth of its success.  A
   connection is made of exactly the parameters its protocol declares, and
   identified for the same; and the managers are listed once and completely. *)
RequestsSettled ==
  /\ part = "two handlers" =>
       /\ TwoHandlers!AnsweredOnce /\ TwoHandlers!CalledWhenPrepared
       /\ TwoHandlers!HandlesWhatItAccepted /\ TwoHandlers!TableIsAlive
  /\ part = "delegating" =>
       /\ Delegating!AnsweredOnce /\ Delegating!CalledWhenPrepared
       /\ Delegating!HandlesWhatItAccepted /\ Delegating!TableIsAlive
  /\ part = "watching" => Watching!AnsweredOnce /\ Watching!CalledWhenPrepared
  /\ part = "request" => /\ Request!AssertionsHold /\ Request!HandledIsTold
                         /\ Request!ObservedIsNamed /\ Request!HandlerLivesWithChannel
  /\ part = "crashed request" =>
       /\ CrashedRequest!SettledOnceUnlessLost /\ CrashedRequest!ObservedIsNamed
       /\ CrashedRequest!HandlerLivesWithChannel
  /\ part = "operation" => GivenOp!ChannelsMirrored /\ GivenOp!ClaimIsWhole /\ GivenOp!PlainClaimIsHonest
  /\ part = "fetched operation" =>
       FetchedOp!ChannelsMirrored /\ FetchedOp!ClaimIsWhole /\ FetchedOp!PlainClaimIsHonest
  /\ part = "protocol calls" =>
       ProtocolCalls!ParametersAsDeclared /\ ProtocolCalls!IdentifiersAreNormal
  /\ part = "manager list" => ManagerList!ListingIsAnswered

(* A reply to DelegateChannels in which the dispatcher took some of the channels and
   not others is read like any other (delegate_channels_cb). *)
PartialDelegationIsRead == part = "delegating" => Delegating!DelegationStaysInBounds

(* An object of any class reads back what was written to it, whatever the order; its setters'
   assertions hold; every property it lets read or write has a case, and every property of a
   D-Bus interface that it serves an answer; and disposed of and finalized it has released
   what it held, once, short of the exceptions that are named.  A TpCapabilities
   says of a channel that it can be requested when its classes do, and names are
   valid when their grammar says so. *)
ObjectsAreSound ==
  /\ part = "objects" =>
       /\ Objs!NoInvalidProperty /\ Objs!SettersAssertionsHold /\ Objs!ReadsBack
       /\ Objs!NothingLeaks /\ Objs!NothingFreedTwice /\ Objs!DBusPropertiesAnswer
  /\ part = "capabilities" => Capabilities!SupportsIsRight
  /\ part = "names" => ValidNames!NamesAsSpecified
=============================================================================
