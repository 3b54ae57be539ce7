-------------------------- MODULE NetBridge_proofs --------------------------
(***************************************************************************)
(* The bridge implements the active object; and what its threads take for  *)
(* granted about each other's state is so: for any callers, queue size and *)
(* number of failures.                                                     *)
(***************************************************************************)
EXTENDS NetBridge, TLAPS

P == INSTANCE ActiveModule_proofs WITH State <- {"Init"}, StInit <- "Init", Moves <- {}

\* The parameters NetBridge gives to ActiveModule are admissible.
LEMMA MachineAssumption == P!ActiveModuleAssumption
  BY NetBridgeAssumption DEF P!ActiveModuleAssumption, P!Event, P!SysEvent, UserEvent

\* Every step of the bridge is a step of the machine or leaves it alone.
LEMMA StepImplements == [Next]_vars => [M!Next]_(M!vars)
<1> SUFFICES ASSUME [Next]_vars PROVE M!Next \/ UNCHANGED machine
  BY DEF M!vars, machine
<1>1. "ConnReq" \in UserEvent /\ "DiscReq" \in UserEvent
  BY DEF UserEvent
<1>2. ASSUME NEW b \in {"pub", "sub"}, SetBase(b) PROVE M!Next
  BY <1>2 DEF SetBase, M!Next
<1>3. CASE ModuleThread
  BY <1>3 DEF ModuleThread, Start, GetMessage, Enter, Request, Ignore, M!Next
<1>4. ASSUME NEW c \in Caller, Calls(c) \/ Returns(c) PROVE M!Next \/ UNCHANGED machine
  <2>1. CASE ConfigSet(c) \/ DiscCmd(c)
    BY <1>1, <2>1 DEF ConfigSet, DiscCmd, M!Next
  <2>2. CASE ConfigFree(c) \/ StatMessage(c) \/ Publish(c) \/ PublishReturns(c)
    BY <2>2 DEF ConfigFree, StatMessage, Publish, PublishReturns
  <2> QED
    BY <1>4, <2>1, <2>2 DEF Calls, Returns
<1>5. CASE MqttThread
  BY <1>5 DEF MqttThread, Begin, Reconnect, Disconnect, Interface, Socket, Drop, Null,
              Session, Online, Retry, Subscribe, Lost, Forwarded
<1>6. CASE BridgeTopic \/ Receive \/ SessionLost \/ Forward \/ AddressLost
  BY <1>6 DEF BridgeTopic, Receive, SessionLost, Forward, AddressLost
<1>7. CASE UNCHANGED vars
  BY <1>7 DEF vars
<1> QED
  BY <1>2, <1>3, <1>4, <1>5, <1>6, <1>7 DEF Next

\* The bridge is an active object.
THEOREM BridgeIsActiveModule == Spec => MachineSpec
<1>1. Init => M!Init
  BY DEF Init
<1> QED
  BY <1>1, StepImplements, PTL DEF Spec, MachineSpec, M!Spec

\* P and M are the same module: their definitions expand to the same formulas.
LEMMA SameMachine ==
  /\ M!Init <=> P!Init
  /\ [M!Next]_(M!vars) <=> [P!Next]_(P!vars)
  /\ P!TypeOK => queue \in Seq(UserEvent \cup {"ENTRY", "EXIT"})
<1>1. M!Init <=> P!Init
  BY DEF M!Init, P!Init
<1>2. M!vars = P!vars
  BY DEF M!vars, P!vars
<1>3. M!Next <=> P!Next
  BY DEF M!Next, M!SetBase, M!Start, M!Post, M!Get, M!GetTimeout, M!DispatchEntry,
         M!DispatchExit, M!DispatchUser, M!Raise, M!Put, M!Full, M!Open, M!NextState,
         M!Handle, M!Tran, M!TimedEvent,
         P!Next, P!SetBase, P!Start, P!Post, P!Get, P!GetTimeout, P!DispatchEntry,
         P!DispatchExit, P!DispatchUser, P!Raise, P!Put, P!Full, P!Open, P!NextState,
         P!Handle, P!Tran, P!TimedEvent
<1>4. P!TypeOK => queue \in Seq(UserEvent \cup {"ENTRY", "EXIT"})
  BY DEF P!TypeOK, P!Event, P!SysEvent
<1> QED
  BY <1>1, <1>2, <1>3, <1>4 DEF M!vars, P!vars

QueueType == queue \in Seq(UserEvent \cup {"ENTRY", "EXIT"})

LEMMA QueueTyped == Spec => []QueueType
<1>1. P!Spec => []P!TypeOK
  BY MachineAssumption, P!Typing
<1>2. M!Spec => P!Spec
  BY SameMachine, PTL DEF M!Spec, P!Spec
<1>3. P!TypeOK => QueueType
  BY SameMachine DEF QueueType
<1> QED
  BY <1>1, <1>2, <1>3, BridgeIsActiveModule, PTL DEF MachineSpec
-----------------------------------------------------------------------------
(* EV_ENTRY comes first, and once: nothing else is there when it is raised *)
(* and mqttThread has not been started when it is handled.                 *)

InQueue(m) == \E i \in DOMAIN queue : queue[i] = m

EntryOnce ==
  /\ curr = None => queue = <<>> /\ inHand = None /\ ~ready /\ mq = "off"
  /\ InQueue("ENTRY") => inHand = None /\ ~ready /\ mq = "off" /\ Len(queue) = 1
  /\ inHand = "ENTRY" => mq = "off" /\ ~InQueue("ENTRY")

\* A user event that is posted does not touch it.
LEMMA PostKeepsEntry ==
  ASSUME QueueType, EntryOnce, NEW e \in UserEvent, M!Post(e), mq' = mq
  PROVE  EntryOnce'
<1>1. e # "ENTRY"
  BY DEF UserEvent
<1>2. ~InQueue("ENTRY")
  BY DEF M!Post, M!Open, EntryOnce
<1>3. ~InQueue("ENTRY")'
  BY <1>1, <1>2 DEF M!Post, M!Put, M!Full, InQueue, QueueType
<1>4. curr # None
  BY NetBridgeAssumption DEF M!Post, M!Open, EntryOnce
<1> QED
  BY <1>3, <1>4 DEF M!Post, EntryOnce

LEMMA EntryOnceStep == QueueType /\ EntryOnce /\ [Next]_vars => EntryOnce'
<1> SUFFICES ASSUME QueueType, EntryOnce, [Next]_vars PROVE EntryOnce'
  OBVIOUS
<1> USE DEF EntryOnce, InQueue, machine
<1>1. ASSUME NEW b \in {"pub", "sub"}, SetBase(b) PROVE EntryOnce'
  BY <1>1 DEF SetBase, M!SetBase
<1>2. CASE Start
  <2>1. queue = <<>> /\ inHand = None /\ ~ready /\ mq = "off"
    BY <1>2 DEF Start, M!Start
  <2>2. queue' = <<>> \/ queue' = Append(queue, "ENTRY")
    BY <1>2 DEF Start, M!Start, M!Raise, M!Put
  <2>3. Len(queue') \in {0, 1} /\ DOMAIN queue' \subseteq {1}
    BY <2>1, <2>2
  <2>4. curr' # None /\ inHand' = None /\ ready' = ready /\ mq' = mq
    BY <1>2, <2>1, NetBridgeAssumption DEF Start, M!Start
  <2> QED
    BY <2>1, <2>2, <2>3, <2>4, NetBridgeAssumption
<1>3. CASE GetMessage
  <2>1. /\ queue # <<>> /\ inHand' = queue[1] /\ queue' = Tail(queue)
        /\ UNCHANGED <<curr, ready, mq>> /\ curr # None
    BY <1>3 DEF GetMessage, M!Get
  <2>2. \A i \in DOMAIN queue' : queue'[i] = queue[i + 1] /\ i + 1 \in DOMAIN queue
    BY <2>1 DEF QueueType
  <2>3. CASE InQueue("ENTRY")
    <3>1. queue' = <<>> /\ mq' = "off"
      BY <2>1, <2>3 DEF QueueType
    <3> QED
      BY <2>1, <3>1
  <2>4. CASE ~InQueue("ENTRY")
    <3>1. queue[1] # "ENTRY" /\ ~InQueue("ENTRY")'
      BY <2>1, <2>2, <2>4 DEF QueueType
    <3> QED
      BY <2>1, <3>1
  <2> QED
    BY <2>3, <2>4
<1>4. CASE Enter
  BY <1>4, NetBridgeAssumption DEF Enter, M!DispatchEntry
<1>5. CASE Request \/ Ignore
  <2>1. inHand \in UserEvent /\ inHand # None /\ ~InQueue("ENTRY") /\ curr # None
    BY <1>5, NetBridgeAssumption DEF Request, Ignore, M!DispatchUser, UserEvent
  <2>2. inHand' = None /\ UNCHANGED <<curr, queue>>
    BY <1>5 DEF Request, Ignore, M!DispatchUser, M!Handle
  <2> QED
    BY <2>1, <2>2, NetBridgeAssumption
<1>6. ASSUME NEW c \in Caller, Calls(c) \/ Returns(c) PROVE EntryOnce'
  <2>1. CASE ConfigSet(c)
    BY <2>1, PostKeepsEntry DEF ConfigSet, UserEvent
  <2>2. CASE DiscCmd(c)
    BY <2>2, PostKeepsEntry DEF DiscCmd, UserEvent
  <2>3. CASE ConfigFree(c) \/ StatMessage(c) \/ Publish(c) \/ PublishReturns(c)
    BY <2>3 DEF ConfigFree, StatMessage, Publish, PublishReturns
  <2> QED
    BY <1>6, <2>1, <2>2, <2>3 DEF Calls, Returns
<1>7. CASE MqttThread \/ Receive
  <2>1. mq # "off" /\ UNCHANGED machine
    BY <1>7 DEF MqttThread, Receive, Begin, Reconnect, Disconnect, Interface, Socket, Drop, Null,
                Session, Online, Retry, Subscribe, Lost, Forwarded
  <2> QED
    BY <2>1
<1>8. CASE BridgeTopic \/ SessionLost \/ Forward \/ AddressLost
  BY <1>8 DEF BridgeTopic, SessionLost, Forward, AddressLost
<1>9. CASE UNCHANGED vars
  BY <1>9 DEF vars
<1> QED
  BY <1>1, <1>2, <1>3, <1>4, <1>5, <1>6, <1>7, <1>8, <1>9 DEF Next, ModuleThread
-----------------------------------------------------------------------------
(* What mqttThread has at each point of its loop, and what the others may  *)
(* conclude from _stat.                                                    *)

Having ==
  /\ mq \in {"socket", "session", "online", "subscribe", "serve", "deliver"} => client = "live" /\ net
  /\ mq \in {"session", "online", "subscribe", "serve", "deliver"} => sock
  /\ up => mq \in {"online", "subscribe", "serve", "deliver"}
  /\ mq \in {"subscribe", "serve", "deliver"} => stat = "Connected"
  /\ mq \in {"drop", "null"} => stat = "SockError"
  /\ stat = "Connected" => client = "live" /\ net

LinkInv == EntryOnce /\ Having

LEMMA HavingStep == EntryOnce /\ Having /\ [Next]_vars => Having'
<1> SUFFICES ASSUME EntryOnce, Having, [Next]_vars PROVE Having'
  OBVIOUS
<1> USE DEF Having, link, local
<1>1. CASE \E b \in {"pub", "sub"} : SetBase(b)
  BY <1>1 DEF SetBase
<1>2. CASE ModuleThread
  <2>1. CASE Enter
    BY <2>1 DEF Enter, M!DispatchEntry, EntryOnce
  <2>2. CASE Request
    BY <2>2 DEF Request
  <2>3. CASE Start \/ GetMessage \/ Ignore
    BY <2>3 DEF Start, GetMessage, Ignore
  <2> QED
    BY <1>2, <2>1, <2>2, <2>3 DEF ModuleThread
<1>3. ASSUME NEW c \in Caller, Calls(c) \/ Returns(c) PROVE Having'
  BY <1>3 DEF Calls, Returns, ConfigSet, DiscCmd, ConfigFree, StatMessage, Publish, PublishReturns
<1>4. CASE MqttThread
  <2>1. CASE Begin \/ Reconnect \/ Disconnect
    BY <2>1 DEF Begin, Reconnect, Disconnect
  <2>2. CASE Interface \/ Socket \/ Drop \/ Null
    BY <2>2 DEF Interface, Socket, Drop, Null
  <2>3. CASE Session \/ Online \/ Retry
    BY <2>3 DEF Session, Online, Retry
  <2>4. CASE Subscribe \/ Lost \/ Forwarded
    BY <2>4 DEF Subscribe, Lost, Forwarded
  <2> QED
    BY <1>4, <2>1, <2>2, <2>3, <2>4 DEF MqttThread
<1>5. CASE BridgeTopic \/ Receive \/ SessionLost \/ Forward \/ AddressLost
  BY <1>5 DEF BridgeTopic, Receive, SessionLost, Forward, AddressLost
<1>6. CASE UNCHANGED vars
  BY <1>6 DEF vars
<1> QED
  BY <1>1, <1>2, <1>3, <1>4, <1>5, <1>6 DEF Next

LEMMA LinkInvariant == Spec => []LinkInv
<1>1. Init => LinkInv
  BY NetBridgeAssumption DEF Init, M!Init, LinkInv, EntryOnce, InQueue, Having, Status
<1>2. QueueType /\ LinkInv /\ [Next]_vars => LinkInv'
  BY EntryOnceStep, HavingStep DEF LinkInv
<1> QED
  BY <1>1, <1>2, QueueTyped, PTL DEF Spec

\* A thread that reads Connected finds a client, if it looks at once: the
\* status is changed before the client is deleted (MQNetBridge.cpp:394-400).
THEOREM Connected == Spec => []ConnectedHasClient
<1>1. LinkInv => ConnectedHasClient
  BY DEF LinkInv, Having, ConnectedHasClient
<1> QED
  BY <1>1, LinkInvariant, PTL

\* mqttThread polls with a client and the status Connected, so the assertion
\* of MQNetBridge.cpp:512 holds.
THEOREM Serving == Spec => []ServingConnected
<1>1. LinkInv => ServingConnected
  BY DEF LinkInv, Having, ServingConnected
<1> QED
  BY <1>1, LinkInvariant, PTL

\* The session never outlives its socket: connect never finds it open.
THEOREM Socketed == Spec => []SessionOnSocket
<1>1. LinkInv => SessionOnSocket
  BY DEF LinkInv, Having, SessionOnSocket
<1> QED
  BY <1>1, LinkInvariant, PTL
-----------------------------------------------------------------------------
\* A request is only ever in the queue when there is a configuration.
Asked == mq # "off" \/ inHand = "ConnReq" \/ InQueue("ConnReq") => config # "none"

LEMMA AskedStep == QueueType /\ Asked /\ [Next]_vars => Asked'
<1> SUFFICES ASSUME QueueType, Asked, [Next]_vars PROVE Asked'
  OBVIOUS
<1> USE DEF Asked, machine, local
<1>1. ASSUME NEW b \in {"pub", "sub"}, SetBase(b) PROVE Asked'
  BY <1>1 DEF SetBase, M!SetBase, InQueue
<1>2. CASE Start
  <2>1. ~InQueue("ConnReq") => ~InQueue("ConnReq")'
    BY <1>2 DEF Start, M!Start, M!Raise, M!Put, M!Full, InQueue, QueueType
  <2> QED
    BY <1>2, <2>1 DEF Start, M!Start
<1>3. CASE GetMessage
  <2>1. inHand' = "ConnReq" \/ InQueue("ConnReq")' => InQueue("ConnReq")
    BY <1>3 DEF GetMessage, M!Get, InQueue, QueueType
  <2> QED
    BY <1>3, <2>1 DEF GetMessage
<1>4. CASE Enter \/ Request \/ Ignore
  BY <1>4, NetBridgeAssumption
     DEF Enter, Request, Ignore, M!DispatchEntry, M!DispatchUser, M!Handle, InQueue, UserEvent
<1>5. ASSUME NEW c \in Caller, Calls(c) \/ Returns(c) PROVE Asked'
  <2>1. CASE ConfigSet(c) \/ ConfigFree(c)
    BY <2>1 DEF ConfigSet, ConfigFree
  <2>2. CASE DiscCmd(c)
    <3>1. ~InQueue("ConnReq") => ~InQueue("ConnReq")'
      BY <2>2 DEF DiscCmd, M!Post, M!Put, M!Full, InQueue, QueueType
    <3> QED
      BY <2>2, <3>1 DEF DiscCmd, M!Post
  <2>3. CASE StatMessage(c) \/ Publish(c) \/ PublishReturns(c)
    BY <2>3 DEF StatMessage, Publish, PublishReturns, InQueue
  <2> QED
    BY <1>5, <2>1, <2>2, <2>3 DEF Calls, Returns
<1>6. CASE MqttThread \/ Receive
  <2>1. mq # "off" /\ UNCHANGED config
    BY <1>6 DEF MqttThread, Receive, Begin, Reconnect, Disconnect, Interface, Socket, Drop, Null,
                Session, Online, Retry, Subscribe, Lost, Forwarded
  <2> QED
    BY <2>1
<1>7. CASE BridgeTopic \/ SessionLost \/ Forward \/ AddressLost
  BY <1>7 DEF BridgeTopic, SessionLost, Forward, AddressLost, InQueue
<1>8. CASE UNCHANGED vars
  BY <1>8 DEF vars, InQueue
<1> QED
  BY <1>1, <1>2, <1>3, <1>4, <1>5, <1>6, <1>7, <1>8 DEF Next, ModuleThread

\* mqttThread never connects with strings that are still NULL.
THEOREM HasConfiguration == Spec => []Configured
<1>1. Init => Asked
  BY NetBridgeAssumption DEF Init, M!Init, Asked, InQueue, UserEvent
<1>2. Asked => Configured
  BY DEF Asked, Configured
<1> QED
  BY <1>1, <1>2, AskedStep, QueueTyped, PTL DEF Spec
-----------------------------------------------------------------------------
(* Types.                                                                  *)

SwitchType == /\ network \in BOOLEAN /\ ip \in BOOLEAN /\ net \in BOOLEAN
              /\ sock \in BOOLEAN /\ up \in BOOLEAN /\ bridged \in BOOLEAN

PlaceType ==
  /\ stat \in Status \cup {None}
  /\ config \in {"none", "torn", "set"}
  /\ client \in {"none", "live", "dead"}
  /\ mq \in MqState
  /\ lock \in Caller \cup {"mqtt", None}
  /\ call \in [Caller -> CallState]
  /\ cmds \in 0 .. MaxCmd /\ faults \in 0 .. MaxFault

LEMMA SwitchStep == SwitchType /\ [Next]_vars => SwitchType'
<1> SUFFICES ASSUME SwitchType, [Next]_vars PROVE SwitchType'
  OBVIOUS
<1> USE DEF SwitchType, link, local
<1>1. CASE (\E b \in {"pub", "sub"} : SetBase(b)) \/ ModuleThread
  BY <1>1, Zenon DEF SetBase, ModuleThread, Start, GetMessage, Enter, Request, Ignore
<1>2. ASSUME NEW c \in Caller, Calls(c) PROVE SwitchType'
  BY <1>2, Zenon DEF Calls, ConfigFree, DiscCmd, StatMessage
<1>3. ASSUME NEW c \in Caller, Returns(c) PROVE SwitchType'
  BY <1>3, Zenon DEF Returns, ConfigSet, Publish, PublishReturns
<1>4. CASE Begin \/ Reconnect \/ Disconnect
  BY <1>4, Zenon DEF Begin, Reconnect, Disconnect
<1>5. CASE Interface \/ Socket \/ Drop \/ Null
  BY <1>5, Zenon DEF Interface, Socket, Drop, Null
<1>6. CASE Session \/ Online \/ Retry \/ Subscribe
  BY <1>6, Zenon DEF Session, Online, Retry, Subscribe
<1>7. CASE Lost \/ Forwarded \/ Receive \/ Forward
  BY <1>7, Zenon DEF Lost, Forwarded, Receive, Forward
<1>8. CASE SessionLost \/ AddressLost \/ UNCHANGED vars
  BY <1>8, Zenon DEF SessionLost, AddressLost, vars
<1>9. CASE BridgeTopic
  <2>1. bridged' \in BOOLEAN
    BY <1>9 DEF BridgeTopic
  <2> QED
    BY <1>9, <2>1, Zenon DEF BridgeTopic
<1> QED
  BY <1>1, <1>2, <1>3, <1>4, <1>5, <1>6, <1>7, <1>8, <1>9, Zenon DEF Next, MqttThread

LEMMA PlaceStep == PlaceType /\ [Next]_vars => PlaceType'
<1> SUFFICES ASSUME PlaceType, [Next]_vars PROVE PlaceType'
  OBVIOUS
<1> USE NetBridgeAssumption DEF PlaceType, link, local
<1>0. /\ Fails => faults' \in 0 .. MaxFault
      /\ Works => faults' \in 0 .. MaxFault
  BY DEF Fails, Works
<1>1. CASE (\E b \in {"pub", "sub"} : SetBase(b)) \/ Start \/ GetMessage \/ Enter \/ Ignore
  BY <1>1 DEF SetBase, Start, GetMessage, Enter, Ignore, Status
<1>2. CASE Request
  BY <1>2 DEF Request, MqState
<1>3. ASSUME NEW c \in Caller, ConfigFree(c) \/ DiscCmd(c) \/ StatMessage(c) PROVE PlaceType'
  <2>1. cmds' \in 0 .. MaxCmd
    BY <1>3 DEF ConfigFree, DiscCmd, StatMessage
  <2>2. call' \in [Caller -> CallState]
    BY <1>3 DEF ConfigFree, DiscCmd, StatMessage, To, CallState
  <2> QED
    BY <1>3, <2>1, <2>2 DEF ConfigFree, DiscCmd, StatMessage
<1>4. ASSUME NEW c \in Caller, ConfigSet(c) \/ Publish(c) \/ PublishReturns(c) PROVE PlaceType'
  <2>1. faults' \in 0 .. MaxFault
    BY <1>0, <1>4 DEF ConfigSet, Publish, PublishReturns
  <2>2. call' \in [Caller -> CallState]
    BY <1>4 DEF ConfigSet, Publish, PublishReturns, To, CallState
  <2> QED
    BY <1>4, <2>1, <2>2 DEF ConfigSet, Publish, PublishReturns
<1>5. CASE Begin \/ Reconnect \/ Disconnect
  BY <1>5 DEF Begin, Reconnect, Disconnect, MqState, Status
<1>6. CASE Interface \/ Socket
  BY <1>0, <1>6 DEF Interface, Socket, MqState, Status
<1>7. CASE Drop
  <2>1. call' \in [Caller -> CallState]
    BY <1>7 DEF Drop, CallState
  <2> QED
    BY <1>7, <2>1 DEF Drop, MqState
<1>8. CASE Null \/ Online \/ Retry
  BY <1>8 DEF Null, Online, Retry, MqState, Status
<1>9. CASE Session \/ Subscribe
  BY <1>0, <1>9 DEF Session, Subscribe, MqState, Status
<1>10. CASE Lost \/ Forwarded \/ Receive \/ Forward
  BY <1>10 DEF Lost, Forwarded, Receive, Forward, MqState
<1>11. CASE SessionLost \/ AddressLost
  BY <1>0, <1>11 DEF SessionLost, AddressLost
<1>12. CASE BridgeTopic \/ UNCHANGED vars
  BY <1>12 DEF BridgeTopic, vars
<1> QED
  BY <1>1, <1>2, <1>3, <1>4, <1>5, <1>6, <1>7, <1>8, <1>9, <1>10, <1>11, <1>12
     DEF Next, ModuleThread, MqttThread, Calls, Returns

\* The variables keep their types, and the queue its bound.
THEOREM Typing == Spec => []TypeOK
<1>1. P!Spec => []P!TypeOK
  BY MachineAssumption, P!Typing
<1>2. M!Spec => P!Spec
  BY SameMachine, PTL DEF M!Spec, P!Spec
<1>3. P!TypeOK <=> M!TypeOK
  BY DEF P!TypeOK, M!TypeOK, P!Event, M!Event, P!SysEvent, M!SysEvent, P!TimedEvent, M!TimedEvent
<1>4. Init => SwitchType /\ PlaceType
  <2> SUFFICES ASSUME Init PROVE SwitchType /\ PlaceType
    OBVIOUS
  <2>1. SwitchType
    BY Zenon DEF Init, SwitchType
  <2>2. PlaceType
    BY NetBridgeAssumption DEF Init, PlaceType, MqState, CallState
  <2> QED
    BY <2>1, <2>2
<1>5. M!TypeOK /\ SwitchType /\ PlaceType => TypeOK
  BY DEF SwitchType, PlaceType, TypeOK
<1> QED
  BY <1>1, <1>2, <1>3, <1>4, <1>5, SwitchStep, PlaceStep, BridgeIsActiveModule, PTL
     DEF Spec, MachineSpec
=============================================================================
