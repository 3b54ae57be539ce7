----------------------------- MODULE NetBridge -----------------------------
(***************************************************************************)
(* Middleware/MQNetBridge: the link to a remote MQTT server.  An active    *)
(* object whose only state is stInit takes the commands; a second thread,  *)
(* started by the first /conn/cmd, connects, subscribes, polls, and starts *)
(* again when the session is lost; the threads of other modules, inside    *)
(* the local broker and with its mutex locked, run the bridge's callback,  *)
(* which stores the configuration or sends a message with the client of    *)
(* the second thread.  _stat is what they have to go by.                   *)
(***************************************************************************)
EXTENDS Naturals, Sequences

CONSTANTS Caller,     \* the threads that publish in the local broker
          QueueSize,  \* MaxQueueMessages
          MaxCmd,     \* bound: commands in a behaviour
          MaxFault,   \* bound: failures of the network in a behaviour
          None

UserEvent == {"ConnReq", "DiscReq"}

Status == {"Unknown", "Ready", "Disconnected", "Connected", "WifiError", "SockError", "MqttError"}

ASSUME NetBridgeAssumption ==
  /\ QueueSize \in Nat \ {0}
  /\ MaxCmd \in Nat /\ MaxFault \in Nat
  /\ "mqtt" \notin Caller
  /\ None \notin Caller \cup {"mqtt", "Init", "ENTRY", "EXIT", "TIMED"} \cup UserEvent \cup Status

VARIABLES
  base, curr, next, queue, inHand, ready, entered, fresh, lost, \* the machine
  stat,     \* _stat, None before it is first set
  config,   \* the strings of _cfg: not there, being replaced, or set
  network,  \* _network is not NULL
  ip,       \* the interface has an address
  net,      \* _net is not NULL
  sock,     \* its socket is connected
  client,   \* _client: NULL, an object, or a pointer to a deleted one
  up,       \* _client->isconnected
  mq,       \* where mqttThread is
  lock,     \* who holds the mutex of the local broker
  call,     \* where each caller is in the bridge's callback
  bridged,  \* a topic is bridged (addBridgeTopic)
  cmds,     \* commands so far
  faults    \* failures so far

machine == <<base, curr, next, queue, inHand, ready, entered, fresh, lost>>
link == <<network, ip, net, sock, client, up>>
local == <<config, lock, call, bridged, cmds>>
vars == <<machine, stat, link, mq, local, faults>>

M == INSTANCE ActiveModule WITH State <- {"Init"}, StInit <- "Init", Moves <- {}

MqState == {"off", "begin", "reconnect", "disconnect", "ifup", "socket", "drop", "null",
            "session", "online", "retry", "subscribe", "serve", "deliver"}

\* A caller is outside, is replacing the configuration, has seen Connected, or
\* is in publish with a client - which may be none, or deleted under its feet.
CallState == {"out", "config", "checked", "live", "dead", "none"}

TypeOK ==
  /\ M!TypeOK
  /\ stat \in Status \cup {None}
  /\ config \in {"none", "torn", "set"}
  /\ network \in BOOLEAN /\ ip \in BOOLEAN /\ net \in BOOLEAN /\ sock \in BOOLEAN
  /\ client \in {"none", "live", "dead"}
  /\ up \in BOOLEAN
  /\ mq \in MqState
  /\ lock \in Caller \cup {"mqtt", None}
  /\ call \in [Caller -> CallState]
  /\ bridged \in BOOLEAN
  /\ cmds \in 0 .. MaxCmd /\ faults \in 0 .. MaxFault

Init ==
  /\ M!Init
  /\ stat = None /\ config = "none"
  /\ network = FALSE /\ ip = FALSE /\ net = FALSE /\ sock = FALSE
  /\ client = "none" /\ up = FALSE
  /\ mq = "off" /\ lock = None /\ call = [c \in Caller |-> "out"]
  /\ bridged = FALSE /\ cmds = 0 /\ faults = 0

\* The network may fail, or has done so often enough.
Fails == faults < MaxFault /\ faults' = faults + 1
Works == UNCHANGED faults
-----------------------------------------------------------------------------
(* The thread of the module.                                               *)

SetBase(b) == M!SetBase(b) /\ UNCHANGED <<stat, link, mq, local, faults>>
Start == M!Start /\ UNCHANGED <<stat, link, mq, local, faults>>
\* mutant of GetMessage: the message stays in the queue
GetMessagePeek ==
  /\ curr # None /\ inHand = None /\ queue # <<>>
  /\ inHand' = Head(queue)
  /\ UNCHANGED <<base, curr, next, queue, ready, entered, fresh, lost>>
  /\ UNCHANGED <<stat, link, mq, local, faults>>
GetMessage == M!Get /\ UNCHANGED <<stat, link, mq, local, faults>>

\* EV_ENTRY: the status becomes known to be Unknown.
Enter ==
  /\ M!DispatchEntry
  /\ stat' = "Unknown"
  /\ UNCHANGED <<link, mq, local, faults>>

\* mutant of Request: the thread is taken to be Ready before its start
RequestReady ==
  /\ inHand = "ConnReq"
  /\ M!DispatchUser
  /\ mq' = IF stat = "Ready" /\ mq = "off" THEN "begin" ELSE mq
  /\ UNCHANGED <<stat, link, local, faults>>
\* ConnReqEvt: starts the thread, once (a running thread is not started again).
Request ==
  /\ inHand = "ConnReq"
  /\ M!DispatchUser
  /\ mq' = IF stat = "Unknown" /\ mq = "off" THEN "begin" ELSE mq
  /\ UNCHANGED <<stat, link, local, faults>>

\* DiscReqEvt has no case.
Ignore ==
  /\ inHand = "DiscReq"
  /\ M!DispatchUser
  /\ UNCHANGED <<stat, link, mq, local, faults>>

ModuleThread == Start \/ GetMessage \/ Enter \/ Request \/ Ignore
-----------------------------------------------------------------------------
(* The callback of the bridge, in the threads of others.                   *)

To(c, at) == call' = [call EXCEPT ![c] = at]

\* /conn/cmd with seven fields: the strings are freed ...
ConfigFree(c) ==
  /\ M!Open /\ lock = None /\ call[c] = "out"
  /\ cmds < MaxCmd
  /\ cmds' = cmds + 1
  /\ lock' = c
  /\ config' = "torn"
  /\ To(c, "config")
  /\ UNCHANGED <<machine, stat, link, mq, bridged, faults>>

\* ... and copied anew, and the machine is told.
ConfigSet(c) ==
  /\ call[c] = "config"
  /\ config' = "set"
  /\ M!Post("ConnReq")
  /\ lock' = None
  /\ To(c, "out")
  /\ UNCHANGED <<stat, link, mq, bridged, cmds, faults>>

\* /disc/cmd
DiscCmd(c) ==
  /\ lock = None /\ call[c] = "out"
  /\ cmds < MaxCmd
  /\ cmds' = cmds + 1
  /\ M!Post("DiscReq")
  /\ UNCHANGED <<stat, link, mq, config, lock, call, bridged, faults>>

\* A message for a bridged topic: nothing happens unless _stat is Connected.
StatMessage(c) ==
  /\ bridged /\ lock = None /\ call[c] = "out"
  /\ stat = "Connected"
  /\ lock' = c
  /\ To(c, "checked")
  /\ UNCHANGED <<machine, stat, link, mq, config, bridged, cmds, faults>>

\* _client is read only now.
Publish(c) ==
  /\ call[c] = "checked"
  /\ To(c, client)
  /\ UNCHANGED <<machine, stat, link, mq, config, lock, bridged, cmds, faults>>

\* publish returns; one that could not be sent closes the session.  With a
\* client that was deleted it may do so to the one that has taken its place;
\* behaviours in which the program does not survive that end here.
PublishReturns(c) ==
  /\ call[c] \in {"live", "dead", "none"}
  /\ \/ Works /\ UNCHANGED up
     \/ up /\ call[c] # "none" /\ Fails /\ up' = FALSE
  /\ To(c, "out")
  /\ lock' = None
  /\ UNCHANGED <<machine, stat, network, ip, net, sock, client, mq, config, bridged, cmds>>

\* addBridgeTopic and removeBridgeTopic; the application waits for Connected.
BridgeTopic ==
  /\ lock = None
  /\ bridged \/ stat = "Connected"
  /\ bridged' = ~bridged
  /\ UNCHANGED <<machine, stat, link, mq, config, lock, call, cmds, faults>>

Returns(c) == ConfigSet(c) \/ Publish(c) \/ PublishReturns(c)
Calls(c) == ConfigFree(c) \/ DiscCmd(c) \/ StatMessage(c)
-----------------------------------------------------------------------------
(* mqttThread.                                                             *)

Begin ==
  /\ mq = "begin"
  /\ stat' = "Ready"
  /\ mq' = "reconnect"
  /\ UNCHANGED <<machine, link, local, faults>>

\* reconnect(): what is there decides where to begin.
Reconnect ==
  /\ mq = "reconnect"
  /\ \/ ~(network /\ ip) /\ mq' = "disconnect" /\ UNCHANGED sock
     \/ network /\ ip /\ client = "none" /\ mq' = "ifup" /\ sock' = FALSE
     \/ network /\ ip /\ client = "live" /\ ~up /\ mq' = "ifup" /\ sock' = FALSE
     \/ network /\ ip /\ client = "live" /\ up /\ mq' = "subscribe" /\ UNCHANGED sock
  /\ UNCHANGED <<machine, stat, network, ip, net, client, up, local, faults>>

\* disconnect(): session, socket, interface.
Disconnect ==
  /\ mq = "disconnect"
  /\ up' = FALSE /\ sock' = FALSE
  /\ network' = FALSE /\ ip' = FALSE
  /\ stat' = "Disconnected"
  /\ mq' = "ifup"
  /\ UNCHANGED <<machine, net, client, local, faults>>

\* connect(), the interface; then the objects that are missing.
Interface ==
  /\ mq = "ifup"
  /\ \/ /\ ~(network /\ ip) /\ Fails
        /\ network' = FALSE /\ ip' = FALSE
        /\ stat' = "WifiError"
        /\ mq' = "retry"
        /\ UNCHANGED <<net, client>>
     \/ /\ Works
        /\ network' = TRUE /\ ip' = TRUE
        /\ net' = TRUE /\ client' = "live"
        /\ mq' = "socket"
        /\ UNCHANGED stat
  /\ UNCHANGED <<machine, sock, up, local>>

\* mutant of Socket: the client goes before the status says so
SocketDropsFirst ==
  /\ mq = "socket"
  /\ \/ /\ Works
        /\ sock' = TRUE /\ mq' = "session"
        /\ UNCHANGED <<stat, client>>
     \/ /\ Fails
        /\ client' = "dead" /\ mq' = "drop"
        /\ UNCHANGED <<stat, sock>>
  /\ UNCHANGED <<machine, network, ip, net, up, local>>
\* mutant of Socket: a failure is traced and connect goes on
SocketGoesOn ==
  /\ mq = "socket"
  /\ \/ Works /\ sock' = TRUE
     \/ Fails /\ UNCHANGED sock
  /\ mq' = "session"
  /\ UNCHANGED <<machine, stat, network, ip, net, client, up, local>>
\* _net->connect
Socket ==
  /\ mq = "socket"
  /\ \/ /\ Works
        /\ sock' = TRUE /\ mq' = "session"
        /\ UNCHANGED stat
     \/ /\ Fails
        /\ stat' = "SockError" /\ mq' = "drop"
        /\ UNCHANGED sock
  /\ UNCHANGED <<machine, network, ip, net, client, up, local>>

\* delete _client: a caller that is in its publish has a deleted object.
Drop ==
  /\ mq = "drop"
  /\ client' = "dead" /\ up' = FALSE
  /\ call' = [c \in Caller |-> IF call[c] = "live" THEN "dead" ELSE call[c]]
  /\ mq' = "null"
  /\ UNCHANGED <<machine, stat, network, ip, net, sock, config, lock, bridged, cmds, faults>>

\* ... and the pointers are cleared.
Null ==
  /\ mq = "null"
  /\ client' = "none" /\ net' = FALSE /\ sock' = FALSE
  /\ mq' = "retry"
  /\ UNCHANGED <<machine, stat, network, ip, up, local, faults>>

\* _client->connect refuses to if it is connected already; otherwise it sends
\* CONNECT and reads the answer, for as long as the server takes.
Session ==
  /\ mq = "session"
  /\ \/ /\ ~up /\ Works
        /\ up' = TRUE /\ mq' = "online"
        /\ UNCHANGED stat
     \/ /\ IF up THEN Works ELSE Fails
        /\ stat' = "MqttError" /\ mq' = "retry"
        /\ UNCHANGED up
  /\ UNCHANGED <<machine, network, ip, net, sock, client, local>>

\* mutant of Online: the status is left as it was
OnlineSilent ==
  /\ mq = "online"
  /\ mq' = "subscribe"
  /\ UNCHANGED <<machine, stat, link, local, faults>>
Online ==
  /\ mq = "online"
  /\ stat' = "Connected"
  /\ mq' = "subscribe"
  /\ UNCHANGED <<machine, link, local, faults>>

\* The 5 s between attempts.
Retry ==
  /\ mq = "retry"
  /\ mq' = "reconnect"
  /\ UNCHANGED <<machine, stat, link, local, faults>>

\* subscribe to the remote commands and read the answer, for as long as that
\* takes; what goes wrong is only traced.
Subscribe ==
  /\ mq = "subscribe"
  /\ \/ Works /\ UNCHANGED up
     \/ up /\ Fails /\ up' = FALSE
  /\ mq' = "serve"
  /\ UNCHANGED <<machine, stat, network, ip, net, sock, client, local>>

\* yield: a message arrives, or the session is found lost, or nothing comes and
\* the thread stays in the read, poll delay or not.
Receive ==
  /\ mq = "serve" /\ up
  /\ mq' = "deliver"
  /\ UNCHANGED <<machine, stat, link, local, faults>>

SessionLost ==
  /\ mq = "serve" /\ up
  /\ Fails
  /\ up' = FALSE
  /\ UNCHANGED <<machine, stat, network, ip, net, sock, client, mq, local>>

\* mutant of Lost: the thread ends with the session
LostEnds ==
  /\ mq = "serve" /\ ~up
  /\ mq' = "off"
  /\ UNCHANGED <<machine, stat, link, local, faults>>
\* Once out of yield, the thread sees that the session is over.
Lost ==
  /\ mq = "serve" /\ ~up
  /\ mq' = "reconnect"
  /\ UNCHANGED <<machine, stat, link, local, faults>>

\* mqttEventHandler publishes in the local broker: the mutex, and back again.
Forward ==
  /\ mq = "deliver" /\ lock = None
  /\ lock' = "mqtt"
  /\ UNCHANGED <<machine, stat, link, mq, config, call, bridged, cmds, faults>>

Forwarded ==
  /\ mq = "deliver" /\ lock = "mqtt"
  /\ lock' = None
  /\ mq' = "serve"
  /\ UNCHANGED <<machine, stat, link, config, call, bridged, cmds, faults>>

MqttThread == \/ Begin \/ Reconnect \/ Disconnect \/ Interface \/ Socket \/ Drop \/ Null
              \/ Session \/ Online \/ Retry \/ Subscribe \/ Lost \/ Forwarded

\* The interface loses its address.
AddressLost ==
  /\ ip /\ Fails
  /\ ip' = FALSE
  /\ UNCHANGED <<machine, stat, network, net, sock, client, up, mq, local>>

Next ==
  \/ \E b \in {"pub", "sub"} : SetBase(b)
  \/ ModuleThread
  \/ \E c \in Caller : Calls(c) \/ Returns(c)
  \/ BridgeTopic
  \/ MqttThread
  \/ Receive \/ SessionLost \/ Forward
  \/ AddressLost

Spec == Init /\ [][Next]_vars

\* Where mqttThread reads from the server.  The socket blocks and the timeout
\* of the read is ignored: it returns when the server or the driver answers.
Reading == {"session", "subscribe", "serve"}

\* Both threads run and callbacks return; opening a socket and sending have
\* timeouts, in the driver of the interface; reading has none, and nothing is
\* assumed of it.  The broker's mutex is handed over in the order of asking.
Fairness ==
  /\ WF_vars(ModuleThread)
  /\ WF_vars(mq \notin Reading /\ MqttThread)
  /\ SF_vars(Forward)
  /\ \A c \in Caller : WF_vars(Returns(c))

FairSpec == Spec /\ Fairness
-----------------------------------------------------------------------------
\* The bridge is an active object, with its commands as user events.
MachineSpec == M!Spec

\* Whoever finds _stat Connected and looks at once finds a client, although
\* another thread makes and deletes it (MQNetBridge.cpp:185, 394-400).
ConnectedHasClient == stat = "Connected" => client = "live" /\ net

\* mqttThread subscribes and polls only with a client (the MBED_ASSERT of line
\* 512) and with the status Connected, whichever of its five ways reconnect
\* took and whatever was lost on the way.
ServingConnected ==
  mq \in {"subscribe", "serve", "deliver"} => stat = "Connected" /\ client = "live"

\* No MQTT session outlives the socket it was opened on, so that connect always
\* opens a new one and never meets the refusal of a client that is connected.
SessionOnSocket == up => sock /\ net /\ client = "live"

\* mqttThread never connects before there is a configuration: it would read
\* strings that are NULL (lines 391, 409-416).
Configured == mq # "off" => config # "none"

\* However often wifi, socket or session fail, and whichever thread notices,
\* once they stop failing the bridge is connected for good and says so - unless
\* a read is never answered: then mqttThread stays in that read, and nowhere
\* else, though a publisher may have found the session lost.
ComesBack ==
  [](mq # "off" => \/ <>[](stat = "Connected" /\ up)
                   \/ \E r \in Reading : <>[](mq = r))

\* A connection that was asked for is attempted, if the queue took the request,
\* whatever other commands came before it.
Attempted == M!Pending("ConnReq") ~> mq # "off"

\* MQNetBridge.cpp:184 "directamente lo publica ... siempre que la conexion este
\* operativa": what a caller publishes with is a client.
PublishOperative == \A c \in Caller : call[c] \notin {"none", "dead"}
=============================================================================
