------------------------ MODULE MQSerialBridge_proofs ------------------------
(***************************************************************************)
(* The bridge never goes deaf, and sends every message whole, for any      *)
(* frames, sizes and number of messages.                                   *)
(***************************************************************************)
EXTENDS MQSerialBridge, TLAPS

\* The timer of a silence runs only while the receiver is on.
RxInv == Listening /\ (rxTmr # "off" => rxIrq)

LEMMA RxStep == RxInv /\ [Next]_vars => RxInv'
<1> SUFFICES ASSUME RxInv, [Next]_vars PROVE RxInv'
  OBVIOUS
<1> USE DEF RxInv, Listening
<1>1. CASE RxByte /\ UNCHANGED <<bridge, caller>>
  <2>1. CASE rxIrq /\ Len(databuf) >= BufSize /\ rxTmr' = "off" /\ rxIrq' = FALSE
              /\ signals' = signals \cup {"OverflowOnRecv"}
    BY <1>1, <2>1 DEF bridge
  <2>2. CASE rxIrq /\ rxTmr' = "came" /\ UNCHANGED <<rxIrq, signals>>
    BY <1>1, <2>2 DEF bridge
  <2>3. CASE UNCHANGED <<rxIrq, rxTmr, signals>>
    BY <1>1, <2>3 DEF bridge
  <2>4. QED
    BY <1>1, <2>1, <2>2, <2>3 DEF RxByte, OnRxData
<1>2. CASE OnRxTimeout /\ UNCHANGED <<bridge, caller>>
  BY <1>2 DEF OnRxTimeout, bridge
<1>3. CASE Task
  <2>1. CASE Start \/ Drop \/ Recv
    BY <2>1 DEF Start, Drop, Recv, StartReceiver, AttachRx
  <2>2. CASE Wait
    BY <2>2 DEF Wait
  <2>3. CASE Publish
    BY <2>3 DEF Publish, receiver
  <2>4. QED
    BY <1>3, <2>1, <2>2, <2>3 DEF Task
<1>4. CASE OnTxData /\ UNCHANGED <<bridge, caller>>
  BY <1>4 DEF OnTxData, ClearOverrun, bridge
<1>5. CASE Call \/ SubscriptionCb \/ UNCHANGED vars
  BY <1>5 DEF Call, SubscriptionCb, Free, Compose, Send, vars, receiver, bridge
<1>6. QED
  BY <1>1, <1>2, <1>3, <1>4, <1>5 DEF Next, Terminal

\* The receiver is off exactly while its one signal waits or is being handled.
THEOREM NeverDeaf == Spec => []Listening
<1>1. Init => RxInv
  BY DEF Init, TerminalInit, RxInv, Listening
<1>2. RxInv => Listening
  BY DEF RxInv
<1>3. QED
  BY <1>1, <1>2, RxStep, PTL DEF Spec
-----------------------------------------------------------------------------
TxType ==
  /\ tosend \in {0, MsgLen} /\ sent \in Nat
  /\ tbuf \in [1 .. MsgLen -> Nat] /\ wire \in Seq(Nat)
  /\ msg \in Nat /\ accepted \in Nat

\* The transmitter is busy exactly while its interrupt is on, and then the buffer
\* holds the frame that was accepted; while the buffer is filled it is free.
Busy ==
  /\ txIrq <=> tosend # 0
  /\ tosend # 0 => \A i \in 1 .. MsgLen : tbuf[i] = accepted
  /\ spc \in {"head", "data", "send"} => tosend = 0

Filled ==
  /\ spc = "data" => tbuf[1] = msg
  /\ spc = "send" => \A i \in 1 .. MsgLen : tbuf[i] = msg

TxInv == TxType /\ Busy /\ Filled /\ WireWhole /\ NoneRefused

LEMMA TxStep == TxInv /\ [Next]_vars => TxInv'
<1> SUFFICES ASSUME TxInv, [Next]_vars PROVE TxInv'
  OBVIOUS
<1>0. (OnTxData /\ UNCHANGED <<bridge, caller>>) \/ Call \/ Free \/ Compose \/ Send \/ Task
      \/ ((RxByte \/ OnRxTimeout) /\ UNCHANGED <<bridge, caller>>) \/ UNCHANGED vars
  BY DEF Next, Terminal, SubscriptionCb
<1> USE SerialAssumption DEF TxInv, TxType, Busy, Filled, WireWhole, NoneRefused
<1>1. CASE OnTxData /\ UNCHANGED <<bridge, caller>>
  <2>1. CASE sent < tosend
    <3>1. sent + 1 \in 1 .. MsgLen /\ tbuf[sent + 1] = accepted
      BY <2>1
    <3>a. sent' = sent + 1 /\ wire' = Append(wire, tbuf[sent + 1]) /\ UNCHANGED <<txIrq, tosend>>
      <4>1. ~(sent >= tosend)
        BY <2>1
      <4>2. QED
        BY <1>1, <4>1, Zenon DEF OnTxData
    <3>b. UNCHANGED <<tbuf, caller>>
      BY <1>1 DEF OnTxData
    <3>2. wire' = Append(wire, accepted) /\ sent' = sent + 1 /\ UNCHANGED <<txIrq, tosend, tbuf, caller>>
      BY <3>1, <3>a, <3>b
    <3>3. TxType' /\ Len(wire') = Len(wire) + 1
      BY <3>2 DEF caller
    <3>4. WireWhole'
      BY <3>2, <3>3 DEF caller
    <3>5. Busy' /\ Filled' /\ NoneRefused'
      BY <3>2 DEF caller
    <3>6. QED
      BY <3>3, <3>4, <3>5
  <2>2. CASE ~(sent < tosend)
    BY <1>1, <2>2 DEF OnTxData, caller
  <2>3. QED
    BY <2>1, <2>2
<1>2. CASE Call
  <2>1. msg' \in Nat /\ spc' = "busy" /\ UNCHANGED <<transmitter, accepted>>
    BY <1>2 DEF Call
  <2>2. QED
    BY <2>1 DEF transmitter
<1>3. CASE Free
  BY <1>3 DEF Free, transmitter
<1>4. CASE Compose
  <2>1. UNCHANGED <<txIrq, tosend, sent, wire, msg, accepted>>
    BY <1>4 DEF Compose
  <2>2. CASE spc = "head"
    <3>1. spc' = "data" /\ tbuf' = [tbuf EXCEPT ![1] = msg]
      BY <1>4, <2>2 DEF Compose
    <3>2. tbuf' \in [1 .. MsgLen -> Nat] /\ tbuf'[1] = msg /\ tosend = 0
      BY <2>2, <3>1
    <3>3. QED
      BY <2>1, <3>1, <3>2
  <2>3. CASE spc = "data"
    <3>1. spc' = "send" /\ tbuf' = [i \in 1 .. MsgLen |-> IF i = 1 THEN tbuf[1] ELSE msg]
      BY <1>4, <2>3 DEF Compose
    <3>2. tbuf' \in [1 .. MsgLen -> Nat] /\ tosend = 0
      BY <2>3, <3>1
    <3>3. \A i \in 1 .. MsgLen : tbuf'[i] = msg
      BY <2>3, <3>1
    <3>4. QED
      BY <2>1, <3>1, <3>2, <3>3
  <2>4. QED
    BY <1>4, <2>2, <2>3 DEF Compose
<1>5. CASE Send
  <2>1. spc = "send" /\ tosend = 0 /\ spc' = "idle" /\ accepted' = msg
        /\ UNCHANGED <<tbuf, msg>>
    BY <1>5 DEF Send
  <2>2. tosend' = MsgLen /\ sent' = 0 /\ txIrq' = TRUE /\ wire' = <<>>
    BY <1>5, <2>1 DEF Send, SendFrame
  <2>3. TxType' /\ WireWhole'
    BY <2>1, <2>2
  <2>4. Busy' /\ Filled' /\ NoneRefused'
    BY <2>1, <2>2
  <2>5. QED
    BY <2>3, <2>4
<1>6. CASE Task \/ ((RxByte \/ OnRxTimeout) /\ UNCHANGED <<bridge, caller>>) \/ UNCHANGED vars
  <2>1. UNCHANGED <<transmitter, caller>>
    BY <1>6 DEF Task, Start, Wait, Drop, Recv, Publish, RxByte, OnRxTimeout, vars
  <2>2. QED
    BY <2>1 DEF transmitter, caller
<1>7. QED
  BY <1>0, <1>1, <1>2, <1>3, <1>4, <1>5, <1>6

LEMMA TxInvariance == Spec => []TxInv
<1>1. Init => TxInv
  BY SerialAssumption DEF Init, TerminalInit, TxInv, TxType, Busy, Filled, WireWhole, NoneRefused
<1>2. QED
  BY <1>1, TxStep, PTL DEF Spec

\* What is on the wire belongs to the frame that send took.
THEOREM FramesWhole == Spec => []WireWhole
<1>1. TxInv => WireWhole
  BY DEF TxInv
<1>2. QED
  BY <1>1, TxInvariance, PTL

\* send never finds the last frame still there.
THEOREM NoneLost == Spec => []NoneRefused
<1>1. TxInv => NoneRefused
  BY DEF TxInv
<1>2. QED
  BY <1>1, TxInvariance, PTL
-----------------------------------------------------------------------------
\* The types, with what keeps the bytes of the peer and of the wire in bounds.
Types ==
  /\ TypeOK
  /\ peer \in Byte
  /\ Len(wire) = sent

RxType ==
  /\ rxIrq \in BOOLEAN /\ rxTmr \in {"off", "came", "held"} /\ whole \in BOOLEAN
  /\ held \in Seq(Byte) /\ Len(held) <= 1 /\ overrun \in BOOLEAN
  /\ databuf \in Seq(Byte) /\ Len(databuf) <= BufSize
  /\ signals \subseteq {"ReceivedData", "OverflowOnRecv"}
  /\ peer \in Byte

WireType ==
  /\ txIrq \in BOOLEAN
  /\ tosend \in {0, MsgLen} /\ sent \in 0 .. MsgLen
  /\ tbuf \in [1 .. MsgLen -> Message]
  /\ wire \in Seq(Message) /\ Len(wire) = sent

LocalType ==
  /\ pc \in {"start", "wait", "drop", "recv", "publish"}
  /\ rbuf \in Seq(Byte)
  /\ published \subseteq {"whole", "cut"} \X Frame
  /\ spc \in {"idle", "busy", "head", "data", "send"}
  /\ msg \in Message /\ accepted \in Message

LEMMA SplitTypes == Types <=> RxType /\ WireType /\ LocalType
  BY SerialAssumption DEF Types, TypeOK, TerminalTypeOK, RxType, WireType, LocalType

LEMMA NextByteType == ASSUME peer \in Byte, NextByte PROVE peer' \in Byte
<1>1. FrameLen \in Seq(Nat) /\ Len(FrameLen) \in Nat
  BY SerialAssumption
<1>2. peer = <<peer[1], peer[2]>> /\ peer[1] \in 1 .. Len(FrameLen) /\ peer[2] \in Nat
  BY DEF Byte, Frame
<1>3. CASE peer' = <<peer[1], peer[2] + 1>>
  BY <1>1, <1>2, <1>3 DEF Byte, Frame
<1>4. CASE peer' = <<peer[1] + 1, 1>> /\ peer[1] < Len(FrameLen)
  BY <1>1, <1>2, <1>4 DEF Byte, Frame
<1> QED
  BY <1>3, <1>4 DEF NextByte

LEMMA RxTypeStep == RxType /\ [Next]_vars => RxType'
<1> SUFFICES ASSUME RxType, [Next]_vars PROVE RxType'
  OBVIOUS
<1> USE DEF RxType
<1>1. CASE RxByte
  <2>1. peer' \in Byte
    BY <1>1, NextByteType DEF RxByte
  <2>2. whole' \in BOOLEAN
    BY <1>1 DEF RxByte
  <2>3. CASE UNCHANGED <<rxIrq, rxTmr, databuf, signals>>
    <3>1. CASE held' = <<peer'>> /\ UNCHANGED overrun
      <4>1. <<peer'>> \in Seq(Byte) /\ Len(<<peer'>>) = 1
        BY <2>1
      <4> QED
        BY <2>1, <2>2, <2>3, <3>1, <4>1
    <3>2. CASE overrun' \in BOOLEAN /\ UNCHANGED held
      BY <2>1, <2>2, <2>3, <3>2
    <3> QED
      BY <1>1, <3>1, <3>2 DEF RxByte
  <2>4. CASE OnRxData(peer') /\ UNCHANGED <<held, overrun>>
    <3>1. Len(databuf) < BufSize =>
            Append(databuf, peer') \in Seq(Byte) /\ Len(Append(databuf, peer')) <= BufSize
      BY <2>1, SerialAssumption
    <3> QED
      BY <2>1, <2>2, <2>4, <3>1 DEF OnRxData
  <2> QED
    BY <1>1, <2>3, <2>4 DEF RxByte
<1>2. CASE OnRxTimeout
  BY <1>2 DEF OnRxTimeout
<1>3. CASE Start \/ Drop \/ Recv
  <2>1. <<>> \in Seq(Byte) /\ Len(<<>>) = 0 /\ 1 <= BufSize
    BY SerialAssumption
  <2>2. /\ rxIrq' = TRUE /\ databuf' = held /\ held' = <<>> /\ overrun' = FALSE
        /\ rxTmr' \in {rxTmr, "held"} /\ UNCHANGED <<signals, peer>>
    BY <1>3 DEF Start, Drop, Recv, StartReceiver, AttachRx
  <2>3. held' \in Seq(Byte) /\ Len(held') = 0
    BY <2>1, <2>2, Zenon
  <2>4. whole' \in BOOLEAN
    <3>1. whole' = IF held = <<>> THEN whole ELSE held = <<peer>> /\ peer[2] = 1
      BY <1>3 DEF Start, Drop, Recv, StartReceiver, AttachRx
    <3> QED
      BY <3>1
  <2>5. databuf' \in Seq(Byte) /\ Len(databuf') <= BufSize
    BY <2>1, <2>2, SerialAssumption
  <2>6. rxIrq' \in BOOLEAN /\ overrun' \in BOOLEAN
    BY <2>2, Zenon
  <2>7. rxTmr' \in {"off", "came", "held"}
    BY <2>2
  <2>8. Len(held') <= 1
    BY <2>3
  <2> QED
    BY <2>2, <2>3, <2>4, <2>5, <2>6, <2>7, <2>8
<1>4. CASE Wait
  BY <1>4 DEF Wait
<1>5. CASE OnTxData
  <2>1. <<>> \in Seq(Byte) /\ Len(<<>>) = 0
    OBVIOUS
  <2>2. held' \in {<<>>, held} /\ overrun' = FALSE
        /\ UNCHANGED <<rxIrq, rxTmr, databuf, signals, peer, whole>>
    BY <1>5 DEF OnTxData, ClearOverrun
  <2>3. held' \in Seq(Byte) /\ Len(held') <= 1
    <3>1. CASE held' = <<>>
      <4>1. held' \in Seq(Byte) /\ Len(held') = 0
        BY <2>1, <3>1, Zenon
      <4> QED
        BY <4>1
    <3> QED
      BY <2>2, <3>1
  <2> QED
    BY <2>2, <2>3
<1>6. CASE UNCHANGED receiver
  BY <1>6 DEF receiver
<1> QED
  BY <1>1, <1>2, <1>3, <1>4, <1>5, <1>6
     DEF Next, Terminal, Task, SubscriptionCb, Publish, Call, Free, Compose, Send, vars

LEMMA WireTypeStep == WireType /\ LocalType /\ [Next]_vars => WireType'
<1> SUFFICES ASSUME WireType, LocalType, [Next]_vars PROVE WireType'
  OBVIOUS
<1> USE DEF WireType
<1>1. MsgLen \in Nat /\ 0 \in Message
  BY SerialAssumption DEF Message
<1>2. CASE OnTxData
  <2>1. CASE sent < tosend /\ sent' = sent + 1 /\ wire' = Append(wire, tbuf[sent + 1])
             /\ UNCHANGED <<txIrq, tosend>>
    <3>1. sent + 1 \in 1 .. MsgLen /\ tbuf[sent + 1] \in Message
      BY <1>1, <2>1
    <3>2. wire' \in Seq(Message) /\ Len(wire') = sent'
      BY <2>1, <3>1
    <3> QED
      BY <1>2, <2>1, <3>1, <3>2 DEF OnTxData
  <2>2. CASE txIrq' = FALSE /\ tosend' = 0 /\ UNCHANGED <<sent, wire>>
    BY <1>2, <2>2 DEF OnTxData
  <2> QED
    BY <1>2, <2>1, <2>2 DEF OnTxData
<1>3. CASE Compose
  BY <1>3 DEF Compose, LocalType
<1>4. CASE Send
  <2>1. <<>> \in Seq(Message) /\ Len(<<>>) = 0
    OBVIOUS
  <2>2. CASE UNCHANGED <<txIrq, tosend, sent, wire>>
    BY <1>4, <2>2 DEF Send
  <2>3. CASE tosend' = MsgLen /\ sent' = 0 /\ txIrq' = TRUE /\ wire' = <<>>
    <3>1. wire' \in Seq(Message) /\ Len(wire') = 0
      BY <2>1, <2>3, Zenon
    <3> QED
      BY <1>1, <1>4, <2>3, <3>1 DEF Send
  <2> QED
    BY <1>4, <2>2, <2>3 DEF Send, SendFrame
<1>5. CASE UNCHANGED transmitter
  BY <1>5 DEF transmitter
<1> QED
  BY <1>2, <1>3, <1>4, <1>5
     DEF Next, Terminal, Task, SubscriptionCb, RxByte, OnRxTimeout, Start, Wait, Drop, Recv, Publish,
         Call, Free, vars

LEMMA LocalTypeStep == RxType /\ LocalType /\ [Next]_vars => LocalType'
<1> SUFFICES ASSUME RxType, LocalType, [Next]_vars PROVE LocalType'
  OBVIOUS
<1> USE DEF LocalType
<1>1. CASE Start \/ Wait \/ Drop \/ Recv
  BY <1>1 DEF Start, Wait, Drop, Recv, RxType, caller
<1>2. CASE Publish
  <2>1. \A f, front : Topic(f, front) \subseteq {"whole", "cut"}
    BY DEF Topic
  <2>2. published' \subseteq {"whole", "cut"} \X Frame
    BY <1>2, <2>1 DEF Publish
  <2> QED
    BY <1>2, <2>2 DEF Publish, caller
<1>3. CASE Call
  BY <1>3, SerialAssumption DEF Call, Message, bridge
<1>4. CASE SubscriptionCb
  BY <1>4 DEF SubscriptionCb, Free, Compose, Send, bridge
<1>5. CASE UNCHANGED <<bridge, caller>>
  BY <1>5 DEF bridge, caller
<1> QED
  BY <1>1, <1>2, <1>3, <1>4, <1>5 DEF Next, Terminal, Task, vars

\* Types, buffers and frames stay within their bounds.
THEOREM Typing == Spec => []TypeOK
<1>1. Init => Types
  <2> SUFFICES ASSUME Init PROVE RxType /\ WireType /\ LocalType
    BY SplitTypes
  <2>1. FrameLen \in Seq(Nat) /\ Len(FrameLen) \in Nat /\ Len(FrameLen) >= 1
    BY SerialAssumption
  <2>2. <<1, 0>> \in Byte
    BY <2>1 DEF Byte, Frame
  <2>3. /\ <<>> \in Seq(Byte) /\ <<>> \in Seq(Message) /\ Len(<<>>) = 0
        /\ 0 \in Message /\ MsgLen \in Nat /\ BufSize \in Nat
    BY SerialAssumption DEF Message
  <2>4. 0 \in Message /\ MsgLen \in Nat
    BY SerialAssumption DEF Message
  <2>7. RxType
    <3>1. databuf = <<>>
      BY DEF Init, TerminalInit
    <3>2. databuf \in Seq(Byte) /\ Len(databuf) = 0
      BY <2>3, <3>1, Zenon
    <3>3. signals = {} /\ peer \in Byte /\ 0 <= BufSize
      BY <2>2, SerialAssumption DEF Init, TerminalInit
    <3>4. rxIrq \in BOOLEAN /\ overrun \in BOOLEAN /\ whole \in BOOLEAN
      BY Zenon DEF Init, TerminalInit
    <3>6. rxTmr = "off" /\ held = <<>>
      BY DEF Init, TerminalInit
    <3>7. held \in Seq(Byte) /\ Len(held) = 0
      BY <2>3, <3>6, Zenon
    <3>5. databuf \in Seq(Byte) /\ Len(databuf) <= BufSize
      BY <3>2, <3>3
    <3> QED
      BY <3>3, <3>4, <3>5, <3>6, <3>7 DEF RxType
  <2>5. WireType
    <3>1. wire = <<>>
      BY DEF Init, TerminalInit
    <3>2. wire \in Seq(Message) /\ Len(wire) = 0
      BY <2>3, <3>1, Zenon
    <3>3. /\ txIrq = FALSE /\ tosend = 0 /\ sent = 0
          /\ tbuf = [i \in 1 .. MsgLen |-> 0]
      BY DEF Init, TerminalInit
    <3>4. /\ tosend \in {0, MsgLen} /\ sent \in 0 .. MsgLen
          /\ tbuf \in [1 .. MsgLen -> Message]
      BY <2>4, <3>3
    <3> QED
      BY <3>2, <3>3, <3>4 DEF WireType
  <2>6. LocalType
    BY <2>3 DEF Init, LocalType
  <2> QED
    BY <2>5, <2>6, <2>7
<1>2. Types /\ [Next]_vars => Types'
  <2> SUFFICES ASSUME Types, [Next]_vars PROVE RxType' /\ WireType' /\ LocalType'
    BY SerialAssumption DEF Types, TypeOK, TerminalTypeOK, RxType, WireType, LocalType
  <2> QED
    BY SplitTypes, RxTypeStep, WireTypeStep, LocalTypeStep
<1>3. Types => TypeOK
  BY DEF Types
<1> QED
  BY <1>1, <1>2, <1>3, PTL DEF Spec
=============================================================================
