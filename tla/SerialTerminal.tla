---------------------------- MODULE SerialTerminal ----------------------------
(***************************************************************************)
(* BspDrivers/SerialTerminal in the mode ReceiveAfterBreakTime, in which   *)
(* the bridge uses it: a silence ends a frame.  The interrupts are one     *)
(* step each; send and recv run in threads.  The line is fed by a peer     *)
(* that sends frames byte by byte and may hesitate within one.  attach(0,  *)
(* RxIrq) only masks the interrupt: the UART then keeps one byte, which is *)
(* received as soon as the interrupt is on again.                          *)
(***************************************************************************)
EXTENDS Naturals, Sequences

CONSTANTS
  FrameLen,  \* the frames of the peer: how many bytes each has
  BufSize,   \* _bufsize, and _rbufsize
  MsgLen,    \* bytes of a frame that is sent
  MaxSend    \* bound: frames that are sent

ASSUME SerialAssumption ==
  /\ FrameLen \in Seq(Nat \ {0}) /\ FrameLen # <<>>
  /\ BufSize \in Nat \ {0} /\ MsgLen \in Nat \ {0}
  /\ MaxSend \in Nat

VARIABLES
  rxIrq,    \* the receive interrupt calls onRxData
  rxTmr,    \* _tmr: off, or attached at the last byte as it came or as it was held
  held,     \* the byte that the UART holds while the receive interrupt is off
  overrun,  \* a byte came when one was held
  databuf,  \* _databuf up to _recv
  signals,  \* what the callbacks of the bridge set on its thread
  peer,     \* the last byte the peer has sent
  whole,    \* history: the peer's frame has been received from its first byte on,
            \* and nothing in front of it
  txIrq,    \* the transmit interrupt calls onTxData
  tosend,   \* _tosend
  sent,     \* _sent
  tbuf,     \* what _tbuf points to: of which message each byte is
  wire      \* history: the bytes of the frame on the wire

receiver == <<rxIrq, rxTmr, held, overrun, databuf, signals, peer, whole>>
transmitter == <<txIrq, tosend, sent, tbuf, wire>>

Frame == 1 .. Len(FrameLen)
Byte == Frame \X Nat
Message == 0 .. MaxSend

TerminalTypeOK ==
  /\ rxIrq \in BOOLEAN /\ rxTmr \in {"off", "came", "held"} /\ whole \in BOOLEAN
  /\ held \in Seq(Byte) /\ Len(held) <= 1 /\ overrun \in BOOLEAN
  /\ databuf \in Seq(Byte) /\ Len(databuf) <= BufSize
  /\ signals \subseteq {"ReceivedData", "OverflowOnRecv"}
  /\ txIrq \in BOOLEAN
  /\ tosend \in {0, MsgLen} /\ sent \in 0 .. MsgLen
  /\ tbuf \in [1 .. MsgLen -> Message]
  /\ wire \in Seq(Message) /\ Len(wire) <= MsgLen

TerminalInit ==
  /\ rxIrq = FALSE /\ rxTmr = "off" /\ databuf = <<>> /\ signals = {}
  /\ held = <<>> /\ overrun = FALSE
  /\ peer = <<1, 0>> /\ whole = FALSE
  /\ txIrq = FALSE /\ tosend = 0 /\ sent = 0
  /\ tbuf = [i \in 1 .. MsgLen |-> 0] /\ wire = <<>>
-----------------------------------------------------------------------------
(* Interrupts.                                                             *)

\* mutant of OnRxData: one byte too many
OnRxDataOver(b) ==
  \/ /\ Len(databuf) > BufSize
     /\ rxTmr' = "off" /\ rxIrq' = FALSE
     /\ signals' = signals \cup {"OverflowOnRecv"}
     /\ UNCHANGED databuf
  \/ /\ Len(databuf) <= BufSize
     /\ databuf' = Append(databuf, b)
     /\ rxTmr' = "came"
     /\ UNCHANGED <<rxIrq, signals>>
\* onRxData: with a full buffer the receiver stops.
OnRxData(b) ==
  \/ /\ Len(databuf) >= BufSize
     /\ rxTmr' = "off" /\ rxIrq' = FALSE
     /\ signals' = signals \cup {"OverflowOnRecv"}
     /\ UNCHANGED databuf
  \/ /\ Len(databuf) < BufSize
     /\ databuf' = Append(databuf, b)
     /\ rxTmr' = "came"
     /\ UNCHANGED <<rxIrq, signals>>

\* The next byte of the peer, which leaves a silence before a new frame; a byte
\* that was held may have come as long ago.
NextByte ==
  \/ peer[2] < FrameLen[peer[1]] /\ peer' = <<peer[1], peer[2] + 1>>
  \/ /\ peer[2] = FrameLen[peer[1]] /\ peer[1] < Len(FrameLen) /\ rxTmr # "came"
     /\ peer' = <<peer[1] + 1, 1>>

RxByte ==
  /\ NextByte
  /\ \/ rxIrq /\ OnRxData(peer') /\ UNCHANGED <<held, overrun>>
     \/ /\ ~rxIrq /\ held = <<>> /\ held' = <<peer'>>
        /\ UNCHANGED <<rxIrq, rxTmr, databuf, signals, overrun>>
     \/ /\ ~rxIrq /\ held # <<>> /\ overrun' = TRUE
        /\ UNCHANGED <<rxIrq, rxTmr, databuf, signals, held>>
  /\ whole' = /\ rxIrq /\ Len(databuf) < BufSize
              /\ IF peer'[2] = 1 THEN databuf = <<>> ELSE whole
  /\ UNCHANGED transmitter

\* onRxTimeout: a silence, after the frame or within it.
OnRxTimeout ==
  /\ rxTmr # "off"
  /\ rxTmr' = "off" /\ rxIrq' = FALSE
  /\ signals' = signals \cup {"ReceivedData"}
  /\ whole' = (whole /\ peer[2] = FrameLen[peer[1]])
  /\ UNCHANGED <<held, overrun, databuf, peer, transmitter>>

\* The handler of the interrupts of the UART reads away what an overrun has left.
ClearOverrun ==
  /\ held' = IF overrun THEN <<>> ELSE held
  /\ overrun' = FALSE
  /\ UNCHANGED <<rxIrq, rxTmr, databuf, signals, peer, whole>>

\* mutant of OnTxData: the transmitter stays busy
OnTxDataBusy ==
  /\ txIrq
  /\ \/ /\ sent < tosend
        /\ sent' = sent + 1
        /\ wire' = Append(wire, tbuf[sent + 1])
        /\ UNCHANGED <<txIrq, tosend>>
     \/ /\ sent >= tosend /\ sent > 0
        /\ txIrq' = FALSE /\ UNCHANGED <<tosend, sent, wire>>
  /\ ClearOverrun
  /\ UNCHANGED tbuf
\* onTxData: the next byte, or the end.
OnTxData ==
  /\ txIrq
  /\ \/ /\ sent < tosend
        /\ sent' = sent + 1
        /\ wire' = Append(wire, tbuf[sent + 1])
        /\ UNCHANGED <<txIrq, tosend>>
     \/ /\ sent >= tosend /\ sent > 0
        /\ txIrq' = FALSE /\ tosend' = 0
        /\ UNCHANGED <<sent, wire>>
  /\ ClearOverrun
  /\ UNCHANGED tbuf
-----------------------------------------------------------------------------
(* The part of send and recv that the caller's thread does.                *)

\* attach, and the interrupt that follows if a byte is held
AttachRx ==
  /\ rxIrq' = TRUE
  /\ held' = <<>> /\ overrun' = FALSE
  /\ rxTmr' = IF held = <<>> THEN rxTmr ELSE "held"
  /\ whole' = IF held = <<>> THEN whole ELSE held = <<peer>> /\ peer[2] = 1

\* mutant of StartReceiver: the last frame stays in the buffer
StartReceiverKeeps == AttachRx /\ databuf' = databuf \o held
StartReceiver == AttachRx /\ databuf' = held

\* send takes the frame only if the last one has gone.
SendFrame ==
  \/ tosend # 0 /\ UNCHANGED <<txIrq, tosend, sent, wire>>
  \/ tosend = 0 /\ tosend' = MsgLen /\ sent' = 0 /\ txIrq' = TRUE /\ wire' = <<>>
=============================================================================
