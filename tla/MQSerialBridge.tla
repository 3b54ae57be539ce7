---------------------------- MODULE MQSerialBridge ----------------------------
(***************************************************************************)
(* Middleware/MQSerialBridge in MixMode.  Its thread publishes the frames  *)
(* that a peer sends over the serial line; publications of others come to  *)
(* subscriptionCb, one at a time under the lock of the broker, and are     *)
(* sent to the peer.  The first byte of a frame stands for the beginning   *)
(* of its topic, the second for the rest of it with size and CRC.          *)
(***************************************************************************)
EXTENDS SerialTerminal

VARIABLES
  pc,        \* where task is
  rbuf,      \* _rbuf up to the size received
  published, \* history: what task has published
  spc,       \* where subscriptionCb is
  msg,       \* the message it was called with
  accepted   \* history: the message of the frame on the wire

bridge == <<pc, rbuf, published>>
caller == <<spc, msg, accepted>>
vars == <<receiver, transmitter, bridge, caller>>

\* A frame from its second byte on.
Rest(f) == << <<f, 2>> >> \o [i \in 1 .. FrameLen[f] - 2 |-> <<f, i + 2>>]

TypeOK ==
  /\ TerminalTypeOK
  /\ pc \in {"start", "wait", "drop", "recv", "publish"}
  /\ rbuf \in Seq(Byte)
  /\ published \subseteq {"whole", "cut"} \X Frame
  /\ spc \in {"idle", "busy", "head", "data", "send"}
  /\ msg \in Message /\ accepted \in Message

Init ==
  /\ TerminalInit
  /\ pc = "start" /\ rbuf = <<>> /\ published = {}
  /\ spc = "idle" /\ msg = 0 /\ accepted = 0
-----------------------------------------------------------------------------
(* task.                                                                   *)

Start ==
  /\ pc = "start" /\ pc' = "wait"
  /\ StartReceiver
  /\ UNCHANGED <<signals, peer, transmitter, rbuf, published, caller>>

\* The receiver has stopped for one reason or the other, never both.
Wait ==
  /\ pc = "wait" /\ signals # {}
  /\ pc' = IF "OverflowOnRecv" \in signals THEN "drop" ELSE "recv"
  /\ signals' = {}
  /\ UNCHANGED <<rxIrq, rxTmr, held, overrun, databuf, peer, whole, transmitter, rbuf, published, caller>>

Drop ==
  /\ pc = "drop" /\ pc' = "wait"
  /\ StartReceiver
  /\ UNCHANGED <<signals, peer, transmitter, rbuf, published, caller>>

\* mutant of Recv: the receiver is not started again
RecvOnly ==
  /\ pc = "recv" /\ pc' = "publish"
  /\ rbuf' = databuf
  /\ UNCHANGED <<receiver, transmitter, published, caller>>
\* recv: the frame is copied and the receiver started again.
Recv ==
  /\ pc = "recv" /\ pc' = "publish"
  /\ rbuf' = databuf
  /\ StartReceiver
  /\ UNCHANGED <<signals, peer, transmitter, published, caller>>

\* A topic, a size and a CRC were found, and the data agree with them: the buffer
\* ends with frame f, in front of which is what it has of its beginning.
Coherent(f, front) == rbuf = front \o Rest(f)

\* What comes in front of the topic becomes part of it, or is skipped.
Topic(f, front) ==
  CASE front = << <<f, 1>> >> -> {"whole"}
    [] front = <<>> -> {"cut"}
    [] OTHER -> {"whole", "cut"}

\* publish waits for the broker.
Publish ==
  /\ pc = "publish" /\ pc' = "wait"
  /\ spc = "idle"
  /\ LET fronts == {SubSeq(rbuf, 1, n) : n \in 0 .. Len(rbuf)}
     IN \/ \E f \in Frame, front \in fronts :
             /\ Coherent(f, front)
             /\ \E t \in Topic(f, front) : published' = published \cup {<<t, f>>}
        \/ /\ \A f \in Frame : ~Coherent(f, <<>>) /\ ~Coherent(f, << <<f, 1>> >>)
           /\ UNCHANGED published
  /\ UNCHANGED <<receiver, transmitter, rbuf, caller>>

Task == Start \/ Wait \/ Drop \/ Recv \/ Publish
-----------------------------------------------------------------------------
(* subscriptionCb.                                                         *)

Call ==
  /\ spc = "idle" /\ spc' = "busy"
  /\ msg < MaxSend /\ msg' = msg + 1
  /\ UNCHANGED <<receiver, transmitter, bridge, accepted>>

\* mutant of Free: it does not wait
FreeAtOnce ==
  /\ spc = "busy" /\ spc' = "head"
  /\ UNCHANGED <<receiver, transmitter, bridge, msg, accepted>>
\* It polls busy until the last frame has gone.
Free ==
  /\ spc = "busy" /\ tosend = 0 /\ spc' = "head"
  /\ UNCHANGED <<receiver, transmitter, bridge, msg, accepted>>

\* The frame is put together in _tbuf: its header, then the data.
Compose ==
  /\ \/ spc = "head" /\ spc' = "data" /\ tbuf' = [tbuf EXCEPT ![1] = msg]
     \/ spc = "data" /\ spc' = "send"
        /\ tbuf' = [i \in 1 .. MsgLen |-> IF i = 1 THEN tbuf[1] ELSE msg]
  /\ UNCHANGED <<receiver, txIrq, tosend, sent, wire, bridge, msg, accepted>>

Send ==
  /\ spc = "send" /\ spc' = "idle"
  /\ SendFrame
  /\ accepted' = IF tosend = 0 THEN msg ELSE accepted
  /\ UNCHANGED <<receiver, tbuf, bridge, msg>>

SubscriptionCb == Free \/ Compose \/ Send

Terminal == (RxByte \/ OnRxTimeout \/ OnTxData) /\ UNCHANGED <<bridge, caller>>

Next == Terminal \/ Task \/ Call \/ SubscriptionCb

Spec == Init /\ [][Next]_vars

\* Silences end, the transmitter interrupts, and threads run.
Fairness ==
  /\ WF_vars(OnRxTimeout /\ UNCHANGED <<bridge, caller>>)
  /\ WF_vars(OnTxData /\ UNCHANGED <<bridge, caller>>)
  /\ WF_vars(Task) /\ WF_vars(SubscriptionCb)

FairSpec == Spec /\ Fairness
-----------------------------------------------------------------------------
\* The bridge never goes deaf, nor receives into a buffer that is being read:
\* the receiver is off exactly while its signal waits or is being handled, and
\* there is one signal at most.
Listening ==
  /\ ~rxIrq <=> pc \in {"start", "drop", "recv"} \/ signals # {}
  /\ signals # {} => pc \notin {"start", "drop", "recv"}
  /\ signals # {"ReceivedData", "OverflowOnRecv"}

\* What is on the wire is the frame that send took, from its beginning and
\* whole, though the buffer is filled by one thread and emptied by interrupts.
WireWhole == \A i \in 1 .. Len(wire) : wire[i] = accepted

\* No message is dropped: send always finds the last frame gone.
NoneRefused == spc = "idle" => accepted = msg

\* A frame received from its first byte to its last, with no byte of before in
\* front of it, is published as it was sent, although the next may arrive before
\* it is and be held, lost or cut.
Delivered ==
  \A f \in Frame :
    whole /\ peer = <<f, FrameLen[f]>> /\ FrameLen[f] >= 2
      ~> <<"whole", f>> \in published

\* subscriptionCb, which the broker calls under its lock, always returns.
Returns == spc = "busy" ~> spc = "idle"
=============================================================================
