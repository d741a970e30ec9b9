----------------------------- MODULE MCLiveness -----------------------------
(* What must happen in the end, in small instances of the components.  A
   behaviour is one of any one of them, which `part' names, and weak fairness is
   demanded of that one only.  (Where ENABLED is costly, weak fairness is spelt
   out: infinitely often disabled, or infinitely often taken.) *)
EXTENDS Naturals, Sequences, SequencesExt, Bags, BagsExt

VARIABLES part,
  cm, conn_calls, wire, self, getting,
  bus, bus_calls, inbox, bus_idles, daemons, d, loop, used, told, ended,
  text_pending, recv_id, text_calls, text_wire, c, acks, log, initial,
  base, asked, held, open, sent,
  alive, conn_inbox, asked_for, interested_clients, client_interests, watched,
  emitted, repeated, registered,
  persist, phase, manager, connections, connections_exist, timeout_id, session, answered,
  pc, frame, ifaceAlive,
  sc, idles, stack, proxy, iface,
  state, requests, results, preparing, announcing, pending, announce, conn,
  invalidated, calls, awaited, aborted,
  acr, req_calls, req_wire, mc, chan,
  channel, ops, chan_calls, chan_wire, remote,
  dtmf

connectionVars == <<cm, conn_calls, wire, self, getting>>
watchVars == <<bus, bus_calls, inbox, bus_idles, daemons, d, loop, used, told, ended>>
textVars == <<text_pending, recv_id, text_calls, text_wire, c, acks, log, initial>>
baseVars == <<base, asked, held, open, sent>>
interestVars == <<alive, conn_inbox, asked_for, interested_clients, client_interests, watched,
                  emitted, repeated, registered>>
processVars == <<persist, phase, manager, connections, connections_exist, timeout_id, session, answered>>
callVars == <<pc, frame, ifaceAlive>>
signalVars == <<sc, idles, stack, proxy, iface>>
featureVars == <<state, requests, results, preparing, announcing, pending, announce, conn,
                 invalidated, calls, awaited, aborted>>
requestVars == <<acr, req_calls, req_wire, mc, chan>>
channelVars == <<channel, ops, chan_calls, chan_wire, remote>>

serviceVars == <<textVars, baseVars, interestVars, processVars, dtmf>>
clientVars == <<connectionVars, watchVars, callVars, signalVars, featureVars, requestVars,
                channelVars>>
vars == <<part, clientVars, serviceVars>>

Client == INSTANCE Connection WITH
  Handles <- {1, 2}, Refused <- {"GetAttributes", "GetSelfHandle"}, MaxSelfChanges <- 1,
  calls <- conn_calls

Watch == INSTANCE NameOwnerWatch WITH
  NDaemons <- 1, NWatches <- 2, Owners <- {"a", "b"}, MaxChanges <- 1,
  WatchInside <- FALSE, UnrefInside <- FALSE, OnDestroy <- <<0, 0>>,
  calls <- bus_calls, idles <- bus_idles, frame <- loop

Text == INSTANCE TextChannel WITH
  MaxMessages <- 2, MaxAcks <- 1, pending <- text_pending, calls <- text_calls, wire <- text_wire

Base == INSTANCE BaseConnection WITH
  Targets <- {"contact"}, Anonymous <- {}, Owner <- [contact |-> "manager"],
  Used <- {"Disconnect", "RequestChannel"}, MaxChannels <- 1, MaxCalls <- 2, conn <- base

Interests == INSTANCE ClientInterests WITH
  Clients <- {"c1", "c2"}, Tokens <- {"loc", "mail"}, Lists <- {<<"loc">>, <<"loc", "mail">>},
  MaxCalls <- 2, inbox <- conn_inbox, sent <- asked_for

Process == INSTANCE CMProcess WITH Connections <- 1..3, bus <- session

Pending == INSTANCE PendingCall WITH AsyncCalls <- {"a1"}, RunCalls <- {"r1"}

Signals == INSTANCE SignalConnection WITH
  Conns <- {"s1", "s2"}, WeakObjects <- {"o1"}, NoObject <- "none",
  MaxSignals <- 1, MaxDepth <- 2

MyTable == <<"MY_CORE", "RETRY", "RETRY_DEP", "BEFORE", "LATER", "CORE", "CONNECTED">>

MyDeps == [[f \in ToSet(MyTable) |-> <<>>] EXCEPT !["RETRY_DEP"] = <<"RETRY">>]

Features == INSTANCE ProxyFeatures WITH
  Table <- MyTable, Unknown <- {}, Core <- << <<"CORE">>, <<"MY_CORE">> >>, DependsOn <- MyDeps,
  LateIface <- {"LATER"}, NoIface <- {}, CanRetry <- {"RETRY"},
  Passive <- {"CORE", "CONNECTED"}, BeforeConnected <- {"BEFORE"}, ConnectedFeature <- "CONNECTED",
  IsConnection <- TRUE, MayFail <- FALSE, MayDie <- TRUE,
  Calls <- {1, 2}, CallFeatures <- {<<"RETRY_DEP", "LATER">>}

Request == INSTANCE ChannelRequest WITH
  Actions <- {"HANDLE", "OBSERVE", "FORGET"}, MaxRehandles <- 1, MayCrash <- FALSE,
  calls <- req_calls, wire <- req_wire

(* A room, of which the client is told nothing beforehand. *)
Room == [contact |-> TRUE, ifaces |-> {"Group", "Destroyable"}, broken |-> FALSE,
         answers |-> {"ChannelType", "TargetHandleType", "TargetHandle", "Interfaces"}]

Channel == INSTANCE ChannelClient WITH
  Sorts <- {Room}, Givens <- {{}}, MaxOps <- 1, MaxFlags <- 0,
  self <- channel, calls <- chan_calls, wire <- chan_wire, svc <- remote

Tones == INSTANCE CallTones WITH
  Strings <- {<<"1", "2">>, <<"1", "w", "2">>, << >>}, MaxRequests <- 2, MaxChanges <- 2

Init ==
  /\ part \in {"connection", "watch", "text", "base", "interests", "process",
              "calls", "signals", "features", "request", "channel", "tones"}
  /\ Client!Init /\ Watch!Init /\ Text!Init /\ Base!Init /\ Interests!Init /\ Process!Init
  /\ Pending!Init /\ Signals!Init /\ Features!Init /\ Request!Init /\ Channel!Init
  /\ Tones!Init
  /\ part = "connection" \/ cm = [status |-> "CONNECTED", self |-> 1, changes |-> 0,
                                  properties |-> TRUE, contacts |-> TRUE]
  /\ part = "watch" \/ bus.owner = ""
  /\ part = "process" \/ (persist /\ session)
  /\ part = "tones" \/ dtmf.active
  /\ part = "channel" \/ channel.conn = "prepared"

(* A step of one part. *)
ConnectionStep(A) ==
  /\ part = "connection" /\ A
  /\ UNCHANGED <<part, watchVars, callVars, signalVars, featureVars, requestVars, channelVars,
                 serviceVars>>
WatchStep(A) ==
  /\ part = "watch" /\ A
  /\ UNCHANGED <<part, connectionVars, callVars, signalVars, featureVars, requestVars, channelVars,
                 serviceVars>>
CallsStep(A) ==
  /\ part = "calls" /\ A
  /\ UNCHANGED <<part, connectionVars, watchVars, signalVars, featureVars, requestVars, channelVars,
                 serviceVars>>
SignalsStep(A) ==
  /\ part = "signals" /\ A
  /\ UNCHANGED <<part, connectionVars, watchVars, callVars, featureVars, requestVars, channelVars,
                 serviceVars>>
FeaturesStep(A) ==
  /\ part = "features" /\ A
  /\ UNCHANGED <<part, connectionVars, watchVars, callVars, signalVars, requestVars, channelVars,
                 serviceVars>>
RequestStep(A) ==
  /\ part = "request" /\ A
  /\ UNCHANGED <<part, connectionVars, watchVars, callVars, signalVars, featureVars, channelVars,
                 serviceVars>>
ChannelStep(A) ==
  /\ part = "channel" /\ A
  /\ UNCHANGED <<part, connectionVars, watchVars, callVars, signalVars, featureVars, requestVars,
                 serviceVars>>
TextStep(A) ==
  /\ part = "text" /\ A
  /\ UNCHANGED <<part, clientVars, baseVars, interestVars, processVars, dtmf>>
BaseStep(A) ==
  /\ part = "base" /\ A
  /\ UNCHANGED <<part, clientVars, textVars, interestVars, processVars, dtmf>>
InterestsStep(A) ==
  /\ part = "interests" /\ A
  /\ UNCHANGED <<part, clientVars, textVars, baseVars, processVars, dtmf>>
ProcessStep(A) ==
  /\ part = "process" /\ A
  /\ UNCHANGED <<part, clientVars, textVars, baseVars, interestVars, dtmf>>
TonesStep(A) ==
  /\ part = "tones" /\ A
  /\ UNCHANGED <<part, clientVars, textVars, baseVars, interestVars, processVars>>

Next ==
  \/ ConnectionStep(Client!Next) \/ WatchStep(Watch!Next) \/ CallsStep(Pending!Next)
  \/ SignalsStep(Signals!Next) \/ FeaturesStep(Features!Next) \/ RequestStep(Request!Next)
  \/ ChannelStep(Channel!Next)
  \/ TextStep(Text!Next) \/ BaseStep(Base!Next) \/ InterestsStep(Interests!Step)
  \/ ProcessStep(Process!Next) \/ TonesStep(Tones!Next)

(* What is fair.  As `part' stays the same, weak fairness of a disjunction of
   steps of different parts is weak fairness of each.
   - Peers answer: the connection manager and the bus daemon their calls,
     dbus-glib a call of a TpProxy, the streaming implementation a change of
     tone, the channel dispatcher; contacts get ready; shut_down arranges for
     finish_shutdown to be called; prepare_async functions call back, since the
     D-Bus calls they make are answered or time out. *)
PeersAnswer ==
  /\ WF_vars(\/ CallsStep(Pending!DispatchReply("a1"))
             \/ RequestStep(Request!McAnswers \/ Request!McWorks \/ Request!McSucceeds)
             \/ BaseStep(Base!SubclassFinishes)
             \/ TonesStep(Tones!AcknowledgeDTMFChange))
  /\ WF_vars(\/ CallsStep(Pending!DispatchReply("r1"))
             \/ RequestStep(Request!Handle \/ Request!ChannelPrepareCb))
  /\ WF_vars(CallsStep(Pending!DropUserData("a1")))
  /\ WF_vars(CallsStep(Pending!DropUserData("r1")))
  /\ \/ []<>CASE part = "connection" -> conn_calls = <<>>
            [] part = "text" -> text_calls = <<>>
            [] part = "watch" -> bus_calls = <<>>
            [] part = "channel" -> chan_calls = <<>>
            [] part = "features" -> ~Features!Idle \/ \A f \in DOMAIN preparing : preparing[f] = 0
            [] OTHER -> TRUE
     \/ []<><<\/ ConnectionStep(\E ok \in BOOLEAN : Client!ManagerAnswers(ok))
              \/ TextStep(Text!HandleCall)
              \/ WatchStep(Watch!BusHandles)
              \/ ChannelStep(Channel!Answer)
              \/ FeaturesStep(Features!SomeFeaturePrepared)>>_vars
  /\ \/ []<>CASE part = "connection" -> getting = EmptyBag
            [] part = "text" -> c.contacts_queue = <<>>
            [] part = "channel" -> channel.conn # "preparing"
            [] part = "interests" -> conn_inbox = <<>>
            [] part = "features" -> ~Features!Idle \/ announcing = {}
            [] OTHER -> TRUE
     \/ []<><<\/ ConnectionStep(Client!SomeSelfContactArrives)
              \/ TextStep(Text!QueueHeadReady)
              \/ ChannelStep(\E error \in BOOLEAN : Channel!ConnectionIsPrepared(error))
              \/ InterestsStep(Interests!Handle)
              \/ FeaturesStep(Features!SomeBeforeConnectedDone)>>_vars

(* - The main loop runs: messages, idle sources and timeouts are dispatched. *)
LoopRuns ==
  /\ WF_vars(\/ CallsStep(\/ Pending!DispatchIdleCancelled("a1") \/ Pending!DispatchIdleAsync("a1")
                          \/ Pending!DispatchIdleRun("a1"))
             \/ RequestStep(\/ Request!Dispatch \/ Request!EmitInvalidated \/ Request!ProceedLost)
             \/ ProcessStep(Process!Timeout))
  /\ WF_vars(\/ CallsStep(\/ Pending!DispatchIdleCancelled("r1") \/ Pending!DispatchIdleAsync("r1")
                          \/ Pending!DispatchIdleRun("r1"))
             \/ RequestStep(Request!CallBack))
  /\ \/ []<>CASE part = "connection" -> wire = <<>>
            [] part = "text" -> text_wire = <<>>
            [] part = "watch" -> loop # Watch!NoFrame \/ inbox = <<>>
            [] part = "channel" -> chan_wire = <<>>
            [] part = "signals" -> idles = <<>> \/ (Head(idles).kind = "run" /\ Len(stack) = 2)
            [] part = "features" -> ~Features!Idle \/ results = <<>>
            [] OTHER -> TRUE
     \/ []<><<\/ ConnectionStep(Client!MessageArrives)
              \/ TextStep(Text!Deliver)
              \/ WatchStep(Watch!Dispatch)
              \/ ChannelStep(Channel!Dispatch)
              \/ SignalsStep(Signals!RunInvocation \/ Signals!FinishFree \/ Signals!EmitFromIdle)
              \/ FeaturesStep(Features!ResultDispatched)>>_vars
  /\ \/ []<>CASE part = "watch" -> loop # Watch!NoFrame \/ bus_idles = <<>>
            [] part = "features" -> Features!Idle
            [] part = "signals" -> iface # "destroyed"
            [] part = "channel" ->
                 \A i \in DOMAIN ops : ops[i].at \notin {"idle", "prepared", "unprepared"}
            [] OTHER -> TRUE
     \/ []<><<\/ WatchStep(Watch!RunIdle)
              \/ FeaturesStep(Features!EmitFromIdle)
              \/ SignalsStep(Signals!IfaceFinalized)
              \/ ChannelStep(\E i \in DOMAIN ops :
                               Channel!GroupIsPrepared(i) \/ Channel!CompleteInIdle(i))>>_vars

(* - Callbacks return, an iteration of the main loop ends, nobody keeps a
     destroyed DBusGProxy (above), what is to be prepared before CONNECTED is
     announced gets done, and a subclass finishes its own introspection. *)
CodeReturns ==
  /\ WF_vars(\/ CallsStep(Pending!AsyncCallbackReturns("a1"))
             \/ ProcessStep(Process!LoopReturns))
  /\ WF_vars(CallsStep(Pending!AsyncCallbackReturns("r1")))
  /\ \/ []<>CASE part = "connection" -> ~self.announcing
            [] part = "watch" -> loop = Watch!NoFrame
            [] part = "signals" -> stack = <<>>
            [] part = "features" -> \A f \in DOMAIN state : ~Features!CoreUnknown(f)
            [] OTHER -> TRUE
     \/ []<><<\/ ConnectionStep(Client!AnnounceDone)
              \/ WatchStep(Watch!InvokeNext \/ Watch!InvokeEnd)
              \/ SignalsStep(Signals!InvocationReturns)
              \/ FeaturesStep(Features!SomeCoreIntrospected)>>_vars

Spec == Init /\ [][Next]_vars /\ PeersAnswer /\ LoopRuns /\ CodeReturns

-----------------------------------------------------------------------------
(* Whatever a user starts ends: every D-Bus call that was made is freed, and
   called back unless cancelled; every tp_proxy_prepare_async, every
   acknowledgement of messages, every request for a channel and everything asked of
   a channel is called back; and every Disconnect returns. *)
OperationsComplete ==
  /\ Pending!EveryCallCompletes /\ Features!CallsComplete /\ Text!AckReturns
  /\ Request!RequestAnswered /\ Base!DisconnectReturns /\ Channel!OperationsAnswered

(* News arrive: every queued signal is handled or cancelled; CORE of a
   TpConnection is prepared or the TpConnection is invalidated, and a connection
   that is CONNECTED is shown to be; a TpChannel is ready or invalidated; whoever
   watches a name is told who owns it. *)
NewsArrive ==
  /\ Signals!InvocationsHandled /\ Watch!EventuallyTold
  /\ part = "connection" => Client!CoreIsDecided /\ Client!EventuallyConnected
  /\ part = "channel" => Channel!IntrospectionEnds

(* Nothing lingers: a signal connection that is over is freed
   (tp_proxy_signal_connection_unref), clients that left the bus keep no token
   wanted, a connection manager with nothing to do exits, unless told to persist,
   and a string of tones is played to its end. *)
NothingLingers ==
  /\ Signals!ConnectionsFreed /\ Interests!CrashEndsInterest /\ Process!IdleExits
  /\ Tones!TonesEnd
=============================================================================
