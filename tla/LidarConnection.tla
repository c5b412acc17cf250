---------------------------- MODULE LidarConnection ----------------------------
(***************************************************************************)
(* The connection to the lidar: connect, disconnect and the sending of a     *)
(* request in the driver (sl_lidar_driver.cpp), the threads of               *)
(* AsyncTransceiver that receive and decode (sl_async_transceiver.cpp), and  *)
(* the serial port channel as they use it (sl_serial_channel.cpp).           *)
(*                                                                           *)
(* Every access to what another thread also touches is a step; a section     *)
(* under _rxLocker is one step, and so is the decoding of one buffer.  A     *)
(* buffer keeps the connection it came over and a number; what a message     *)
(* says is in LidarCommand.                                                  *)
(***************************************************************************)
EXTENDS Naturals, Sequences

CONSTANTS Channels, NoChannel,  \* the IChannel objects of the application
          Callers, NoCaller,    \* threads that call the driver
          MaxSession,           \* bound: channels opened
          MaxArrived            \* bound: buffers under way

ASSUME ChannelsAssumption == NoChannel \notin Channels
ASSUME CallersAssumption == NoCaller \notin Callers
ASSUME BoundsAssumption == {MaxSession, MaxArrived} \subseteq Nat \ {0}

VARIABLES _op_locker,                   \* the driver's: who is in a call
          op, channel,                  \* where each caller is, argument of connect
          _isConnected,                 \* of the driver
          _isWorking, _bindedChannel,   \* of the transceiver
          _dataEvt, _rxQueue,
          rx, rxBuffer,                 \* the receiving thread
          decoder, decoding, partial,   \* the decoding thread; the session of the
                                        \* bytes of an unfinished message, or 0
          opened, arrived,              \* the channels that are open, what they hold
          session                       \* which opening of a channel this is

driverVars == << _op_locker, op, channel, _isConnected >>
boundVars == << _isWorking, _bindedChannel, _dataEvt, _rxQueue >>
threadVars == << rx, rxBuffer, decoder, decoding, partial >>
channelVars == << opened, arrived, session >>
vars == << driverVars, boundVars, threadVars, channelVars >>

Buffer == [session : 0 .. MaxSession, number : {0, 1}]
UnderOpLocker == {"signal", "join_decoder", "join_rx", "close", "forget", "open", "flush", "bind"}

TypeOK ==
  /\ _op_locker \in Callers \cup {NoCaller}
  /\ op \in [Callers -> {"idle", "unbind", "opened", "send", "write"} \cup UnderOpLocker]
  /\ channel \in [Callers -> Channels \cup {NoChannel}]
  /\ {_isConnected, _isWorking, _dataEvt} \subseteq BOOLEAN
  /\ _bindedChannel \in Channels \cup {NoChannel}
  /\ {_rxQueue, rxBuffer, decoding} \subseteq Seq(Buffer)
  /\ Len(rxBuffer) <= 1 /\ Len(decoding) <= 1
  /\ rx \in {"off", "test", "wait", "read", "push"}
  /\ decoder \in {"off", "reset", "test", "look", "unlocked", "wait", "decode"}
  /\ opened \subseteq Channels /\ arrived \in [Channels -> Seq(Buffer)]
  /\ {partial, session} \subseteq 0 .. MaxSession

Init ==
  /\ _op_locker = NoCaller /\ op = [a \in Callers |-> "idle"]
  /\ channel = [a \in Callers |-> NoChannel]
  /\ _isConnected = FALSE /\ _isWorking = FALSE /\ _bindedChannel = NoChannel
  /\ _dataEvt = FALSE /\ _rxQueue = << >>
  /\ rx = "off" /\ rxBuffer = << >> /\ decoder = "off" /\ decoding = << >> /\ partial = 0
  /\ opened = {} /\ arrived = [c \in Channels |-> << >>] /\ session = 0

Goto(a, from, to) == op[a] = from /\ op' = [op EXCEPT ![a] = to]
Enters(a, to) == _op_locker = NoCaller /\ _op_locker' = a /\ Goto(a, "idle", to)
Leaves(a, from) == _op_locker' = NoCaller /\ Goto(a, from, "idle")
OpLockerFree == \A a \in Callers : op[a] \notin UnderOpLocker

--------------------------------------------------------------------------------
(* A connect of a driver that is connected is answered with ALREADY_DONE,    *)
(* which is OK; any other call of one that is not does nothing.              *)
CallRefused == _op_locker = NoCaller /\ UNCHANGED vars

Connect(a, c) ==
  /\ Enters(a, "unbind") /\ ~_isConnected /\ session < MaxSession
  /\ channel' = [channel EXCEPT ![a] = c]
  /\ UNCHANGED << _isConnected, boundVars, threadVars, channelVars >>

(* Mutant: the driver's lock is not taken.                                   *)
Disconnect_unlocked(a) ==
  /\ Goto(a, "idle", "unbind") /\ _isConnected
  /\ partial' = 0
  /\ UNCHANGED << _op_locker, channel, _isConnected, boundVars, rx, rxBuffer, decoder,
                  decoding, channelVars >>

(* _disableDataGrabbing resets the decoder. *)
Disconnect(a) ==
  /\ Enters(a, "unbind") /\ _isConnected
  /\ partial' = 0
  /\ UNCHANGED << channel, _isConnected, boundVars, rx, rxBuffer, decoder, decoding,
                  channelVars >>

--------------------------------------------------------------------------------
(* unbindAndClose, at the start of openChannelAndBind and from disconnect.   *)
Unbound(a, from) ==
  IF channel[a] # NoChannel
  THEN Goto(a, from, "open") /\ UNCHANGED << _op_locker, channel, _isConnected >>
  ELSE Leaves(a, from) /\ _isConnected' = FALSE /\ UNCHANGED channel

UnbindNothing(a) ==
  /\ ~_isWorking /\ OpLockerFree
  /\ Unbound(a, "unbind")
  /\ UNCHANGED << boundVars, threadVars, channelVars >>

UnbindStops(a) ==
  /\ _isWorking /\ OpLockerFree
  /\ Goto(a, "unbind", "signal")
  /\ _isWorking' = FALSE
  /\ UNCHANGED << _op_locker, channel, _isConnected, _bindedChannel, _dataEvt, _rxQueue,
                  threadVars, channelVars >>

(* Mutant: the event that wakes the decoder is forgotten.                    *)
UnbindSignals_not(a) ==
  /\ Goto(a, "signal", "join_decoder")
  /\ UNCHANGED << _op_locker, channel, _isConnected, boundVars, threadVars, channelVars >>

UnbindSignals(a) ==
  /\ Goto(a, "signal", "join_decoder")
  /\ _dataEvt' = TRUE
  /\ UNCHANGED << _op_locker, channel, _isConnected, _isWorking, _bindedChannel, _rxQueue,
                  threadVars, channelVars >>

JoinDecoder(a) ==
  /\ decoder = "off" /\ Goto(a, "join_decoder", "join_rx")
  /\ UNCHANGED << _op_locker, channel, _isConnected, boundVars, threadVars, channelVars >>

JoinRx(a) ==
  /\ rx = "off" /\ Goto(a, "join_rx", "close")
  /\ UNCHANGED << _op_locker, channel, _isConnected, boundVars, threadVars, channelVars >>

CloseChannel(a) ==
  /\ Goto(a, "close", "forget")
  /\ opened' = opened \ {_bindedChannel}
  /\ UNCHANGED << _op_locker, channel, _isConnected, boundVars, threadVars, arrived, session >>

(* Mutant: what was received and not decoded stays.                          *)
Forget_keeps_queue(a) ==
  /\ Unbound(a, "forget")
  /\ _bindedChannel' = NoChannel
  /\ UNCHANGED << _isWorking, _dataEvt, _rxQueue, threadVars, channelVars >>

Forget(a) ==
  /\ Unbound(a, "forget")
  /\ _bindedChannel' = NoChannel /\ _rxQueue' = << >>
  /\ UNCHANGED << _isWorking, _dataEvt, threadVars, channelVars >>

--------------------------------------------------------------------------------
(* The rest of openChannelAndBind.  "ans" is declared twice there: what it   *)
(* returns is OK although the channel did not open, and connect goes on.     *)
Linked == _isConnected' = TRUE /\ UNCHANGED << _op_locker, channel >>

OpenFails(a) ==
  /\ Goto(a, "open", "opened") /\ Linked
  /\ UNCHANGED << boundVars, threadVars, channelVars >>

OpenSucceeds(a) ==
  /\ Goto(a, "open", "flush")
  /\ opened' = opened \cup {channel[a]}
  /\ UNCHANGED << _op_locker, channel, _isConnected, boundVars, threadVars, arrived, session >>

Flush(a) ==
  /\ Goto(a, "flush", "bind")
  /\ arrived' = [arrived EXCEPT ![channel[a]] = << >>]
  /\ session' = session + 1
  /\ UNCHANGED << _op_locker, channel, _isConnected, boundVars, threadVars, opened >>

Bind(a) ==
  /\ Goto(a, "bind", "opened") /\ Linked
  /\ _dataEvt' = FALSE /\ _isWorking' = TRUE /\ _bindedChannel' = channel[a]
  /\ decoder' = "reset" /\ rx' = "test"
  /\ UNCHANGED << _rxQueue, rxBuffer, decoding, partial, channelVars >>

(* The request for the device information that ends connect. *)
AsksDevice(a) ==
  /\ Goto(a, "opened", "send")
  /\ channel' = [channel EXCEPT ![a] = NoChannel]
  /\ partial' = 0
  /\ UNCHANGED << _op_locker, _isConnected, boundVars, rx, rxBuffer, decoder, decoding,
                  channelVars >>

(* Any other request; most of them reset the decoder first.                  *)
Request(a) ==
  /\ Enters(a, "send") /\ _isConnected
  /\ partial' \in {partial, 0}
  /\ UNCHANGED << channel, _isConnected, boundVars, rx, rxBuffer, decoder, decoding,
                  channelVars >>

(* sendMessage looks at _isWorking before it takes _opLocker. *)
SendRefused(a) ==
  /\ ~_isWorking /\ Leaves(a, "send")
  /\ UNCHANGED << channel, _isConnected, boundVars, threadVars, channelVars >>

SendAccepted(a) ==
  /\ _isWorking /\ Goto(a, "send", "write")
  /\ UNCHANGED << _op_locker, channel, _isConnected, boundVars, threadVars, channelVars >>

Write(a) ==
  /\ OpLockerFree /\ Leaves(a, "write")
  /\ UNCHANGED << channel, _isConnected, boundVars, threadVars, channelVars >>

Call(a) ==
  \/ \E c \in Channels : Connect(a, c)
  \/ Disconnect(a) \/ Request(a)

Continues(a) ==
  \/ UnbindNothing(a) \/ UnbindStops(a) \/ UnbindSignals(a) \/ JoinDecoder(a) \/ JoinRx(a)
  \/ CloseChannel(a) \/ Forget(a)
  \/ OpenFails(a) \/ OpenSucceeds(a) \/ Flush(a) \/ Bind(a) \/ AsksDevice(a)
  \/ SendRefused(a) \/ SendAccepted(a) \/ Write(a)

--------------------------------------------------------------------------------
(* _proc_rxThread. *)
RxGoto(from, to) == rx = from /\ rx' = to
RxRest == << driverVars, _isWorking, _bindedChannel, decoder, decoding, partial, opened, session >>

RxTest ==
  /\ RxGoto("test", IF _isWorking THEN "wait" ELSE "off")
  /\ UNCHANGED << RxRest, _dataEvt, _rxQueue, rxBuffer, arrived >>

RxSeesData ==
  /\ RxGoto("wait", "read") /\ arrived[_bindedChannel] # << >>
  /\ UNCHANGED << RxRest, _dataEvt, _rxQueue, rxBuffer, arrived >>

RxTimesOut ==
  /\ RxGoto("wait", "test")
  /\ UNCHANGED << RxRest, _dataEvt, _rxQueue, rxBuffer, arrived >>

(* A device error while waiting, or no byte where there were some: the       *)
(* thread ends, and nothing tells the driver (onChannelError is empty).      *)
RxFails ==
  /\ \/ RxGoto("wait", IF _isWorking THEN "off" ELSE "test")
     \/ RxGoto("read", "off")
  /\ UNCHANGED << RxRest, _dataEvt, _rxQueue, rxBuffer, arrived >>

RxReads ==
  /\ RxGoto("read", "push")
  /\ rxBuffer' = << Head(arrived[_bindedChannel]) >>
  /\ arrived' = [arrived EXCEPT ![_bindedChannel] = Tail(@)]
  /\ UNCHANGED << RxRest, _dataEvt, _rxQueue >>

(* Mutant: the event does not remember a signal nobody waited for.           *)
RxPushes_signal_lost ==
  /\ RxGoto("push", "test")
  /\ _rxQueue' = _rxQueue \o rxBuffer /\ rxBuffer' = << >>
  /\ _dataEvt' = (_dataEvt \/ decoder = "wait")
  /\ UNCHANGED << RxRest, arrived >>

(* Mutant: the newest buffer goes to the front.                              *)
RxPushes_front ==
  /\ RxGoto("push", "test")
  /\ _rxQueue' = rxBuffer \o _rxQueue /\ rxBuffer' = << >>
  /\ _dataEvt' = TRUE
  /\ UNCHANGED << RxRest, arrived >>

RxPushes ==
  /\ RxGoto("push", "test")
  /\ _rxQueue' = _rxQueue \o rxBuffer /\ rxBuffer' = << >>
  /\ _dataEvt' = TRUE
  /\ UNCHANGED << RxRest, arrived >>

rxThread == RxTest \/ RxSeesData \/ RxTimesOut \/ RxFails \/ RxReads \/ RxPushes

--------------------------------------------------------------------------------
(* _proc_decoderThread. *)
DecGoto(from, to) == decoder = from /\ decoder' = to
DecRest == << driverVars, _isWorking, _bindedChannel, rx, rxBuffer, channelVars >>

DecReset ==
  /\ DecGoto("reset", "test")
  /\ partial' = 0
  /\ UNCHANGED << DecRest, _dataEvt, _rxQueue, decoding >>

DecTest ==
  /\ DecGoto("test", IF _isWorking THEN "look" ELSE "off")
  /\ UNCHANGED << DecRest, _dataEvt, _rxQueue, decoding, partial >>

DecFindsNothing ==
  /\ _rxQueue = << >> /\ DecGoto("look", "unlocked")
  /\ UNCHANGED << DecRest, _dataEvt, _rxQueue, decoding, partial >>

(* Event::wait takes the event's own lock, with _rxLocker released.          *)
DecWaits ==
  /\ DecGoto("unlocked", "wait")
  /\ UNCHANGED << DecRest, _dataEvt, _rxQueue, decoding, partial >>

(* Mutant: the whole queue is taken and one buffer is removed.               *)
DecTakes_all ==
  /\ _rxQueue # << >> /\ DecGoto("look", "decode")
  /\ decoding' = _rxQueue /\ _rxQueue' = Tail(_rxQueue)
  /\ UNCHANGED << DecRest, _dataEvt, partial >>

DecTakes ==
  /\ _rxQueue # << >> /\ DecGoto("look", "decode")
  /\ decoding' = << Head(_rxQueue) >> /\ _rxQueue' = Tail(_rxQueue)
  /\ UNCHANGED << DecRest, _dataEvt, partial >>

DecWakes ==
  /\ _dataEvt /\ DecGoto("wait", "test")
  /\ _dataEvt' = FALSE
  /\ UNCHANGED << DecRest, _rxQueue, decoding, partial >>

DecTimesOut ==
  /\ DecGoto("wait", "test")
  /\ UNCHANGED << DecRest, _dataEvt, _rxQueue, decoding, partial >>

(* A buffer may end within a message. *)
DecDecodes ==
  /\ DecGoto("decode", "test")
  /\ partial' \in {0, decoding[1].session}
  /\ decoding' = << >>
  /\ UNCHANGED << DecRest, _dataEvt, _rxQueue >>

decoderThread ==
  DecReset \/ DecTest \/ DecFindsNothing \/ DecWaits \/ DecTakes \/ DecWakes \/ DecDecodes

--------------------------------------------------------------------------------
UnderWay(c) == arrived[c] \o rxBuffer \o _rxQueue \o decoding

(* The lidar sends whatever it likes to a channel that is open. *)
LidarSends(c) ==
  /\ c \in opened /\ Len(UnderWay(c)) < MaxArrived
  /\ \E n \in {0, 1} : arrived' = [arrived EXCEPT ![c] = Append(@, [session |-> session, number |-> n])]
  /\ UNCHANGED << driverVars, boundVars, threadVars, opened, session >>

Next ==
  \/ \E a \in Callers : Call(a) \/ Continues(a)
  \/ \E c \in Channels : LidarSends(c)
  \/ CallRefused \/ rxThread \/ decoderThread \/ DecTimesOut

Spec == Init /\ [][Next]_vars

(* The threads run and a wait for data of the channel ends in time; that the *)
(* decoder's wait times out is not assumed.                                  *)
FairSpec ==
  /\ Spec
  /\ \A a \in Callers : WF_vars(Continues(a))
  /\ WF_vars(rxThread) /\ WF_vars(decoderThread)

--------------------------------------------------------------------------------
(* What is decoded came over the connection that is open now, and so did the *)
(* bytes it continues: after a disconnect and a connect nothing of the old   *)
(* connection is left in the queue or in the codec.                          *)
OnlyThisConnection ==
  /\ TypeOK
  /\ decoder = "decode" => decoding[1].session = session /\ partial \in {0, session}

(* The channel the receiving thread waits on or reads, and the one a request *)
(* is written to, is bound and open: closing joins the thread first, and the *)
(* driver's lock keeps it away from a request that saw _isWorking.           *)
ChannelUsedWhileOpen ==
  rx \in {"wait", "read"} \/ (OpLockerFree /\ \E a \in Callers : op[a] = "write")
    => _bindedChannel \in opened

(* The threads and the queue between them keep the promise of ByteStream.    *)
Stream == INSTANCE ByteStream WITH
            open <- _bindedChannel # NoChannel,
            stream <- IF _bindedChannel = NoChannel THEN << >>
                      ELSE _rxQueue \o rxBuffer \o arrived[_bindedChannel]

KeepsStreamPromise == Stream!Spec

(* What is in the queue is decoded without the decoder's timeout, unless the *)
(* connection is closed: no wakeup is lost between the two threads.          *)
ReceivedIsDecoded == _rxQueue # << >> ~> (decoder = "decode" \/ ~_isWorking)

(* A disconnect returns, also when the receiving thread had ended on an      *)
(* error and the decoder waits for what will not come.                       *)
DisconnectReturns == \A a \in Callers : op[a] = "unbind" ~> op[a] = "idle"
================================================================================
