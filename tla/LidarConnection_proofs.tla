------------------------ MODULE LidarConnection_proofs -------------------------
(***************************************************************************)
(* No thread uses a channel that is not open, for any number of channels,    *)
(* callers and connections.                                                  *)
(***************************************************************************)
EXTENDS LidarConnection, SequenceTheorems, TLAPS

Busy == _isWorking \/ rx # "off" \/ decoder # "off"

(* Where a caller is in unbindAndClose and openChannelAndBind. *)
Unbinding == {"signal", "join_decoder", "join_rx"}
Alone == {"close", "forget", "open", "flush", "bind"}

Places == {"idle", "unbind", "opened", "send", "write"} \cup UnderOpLocker

FunctionTypes ==
  /\ op \in [Callers -> Places]
  /\ channel \in [Callers -> Channels \cup {NoChannel}]

(* A caller in a call holds the driver's lock, but for none. *)
OneCaller == \A a \in Callers : op[a] # "idle" => _op_locker = a

(* The channel stays open while a thread runs or is about to. *)
BoundIsOpen == Busy => _bindedChannel \in opened

(* What each place in the calls is sure of: the threads end after _isWorking *)
(* was cleared and before the channel is closed, and start when the new one  *)
(* is open.                                                                  *)
SureOf(a) ==
  /\ op[a] \in Unbinding => ~_isWorking
  /\ op[a] = "join_rx" => decoder = "off"
  /\ op[a] \in Alone => ~Busy
  /\ op[a] \in {"flush", "bind"} => channel[a] \in opened
  /\ op[a] = "write" => _isWorking

(* Threads run only while the transceiver works, but for those that a caller *)
(* waits for.                                                                *)
RunsWhileWorking(a) == op[a] \notin Unbinding /\ Busy => _isWorking

StoppedInOrder ==
  /\ \A a \in Callers : SureOf(a)
  /\ (\A a \in Callers : op[a] \notin Unbinding) /\ Busy => _isWorking

IInv == FunctionTypes /\ OneCaller /\ BoundIsOpen /\ StoppedInOrder

--------------------------------------------------------------------------------
callVars == << _op_locker, op, channel, _isWorking, _bindedChannel, opened >>

(* The threads and the lidar change nothing of the connection, and a thread  *)
(* that has ended stays so until one is started.                             *)
ThreadsOnlyEnd ==
  /\ UNCHANGED callVars
  /\ rx' # "off" => rx # "off"
  /\ decoder' # "off" => decoder # "off"

LEMMA RxOnlyEnds == rxThread => ThreadsOnlyEnd
BY DEF rxThread, RxTest, RxSeesData, RxTimesOut, RxFails, RxReads, RxPushes, RxGoto, RxRest,
       ThreadsOnlyEnd, callVars, driverVars

LEMMA DecoderOnlyEnds == decoderThread \/ DecTimesOut => ThreadsOnlyEnd
BY DEF decoderThread, DecReset, DecTest, DecFindsNothing, DecWaits, DecTakes, DecWakes, DecDecodes,
       DecTimesOut, DecGoto, DecRest, ThreadsOnlyEnd, callVars, driverVars, channelVars

LEMMA OthersRest ==
  ASSUME CallRefused \/ (\E c \in Channels : LidarSends(c)) \/ UNCHANGED vars
  PROVE  ThreadsOnlyEnd
BY DEF CallRefused, LidarSends, ThreadsOnlyEnd, callVars, vars, driverVars, boundVars, threadVars, channelVars

LEMMA ThreadStep == IInv /\ ThreadsOnlyEnd => IInv'
BY DEF IInv, ThreadsOnlyEnd, callVars, FunctionTypes, OneCaller, BoundIsOpen, StoppedInOrder, Busy, SureOf

--------------------------------------------------------------------------------
(* Whoever is in a call is alone: all others are idle. *)
LEMMA OthersAreIdle ==
  ASSUME IInv, NEW a \in Callers, op[a] # "idle", NEW b \in Callers, b # a
  PROVE  op[b] = "idle"
BY DEF IInv, OneCaller

LEMMA EntersAlone ==
  ASSUME IInv, _op_locker = NoCaller, NEW b \in Callers
  PROVE  op[b] = "idle"
BY CallersAssumption DEF IInv, OneCaller

(* When all others are idle, what is to be shown of a step is about one      *)
(* caller.                                                                   *)
LEMMA AloneSuffices ==
  ASSUME NEW a \in Callers, FunctionTypes', \A b \in Callers : b # a => op'[b] = "idle",
         op'[a] # "idle" => _op_locker' = a, BoundIsOpen', SureOf(a)',
         RunsWhileWorking(a)'
  PROVE  IInv'
BY DEF IInv, OneCaller, StoppedInOrder, SureOf, RunsWhileWorking, Unbinding, Alone

LEMMA CallStep == ASSUME IInv, NEW a \in Callers, Call(a) PROVE IInv'
<1> USE DEF boundVars, threadVars, channelVars, Busy, Unbinding, Alone, Places, UnderOpLocker
<1>0. \A b \in Callers : op[b] = "idle"
  BY EntersAlone DEF Call, Connect, Disconnect, Request, Enters
<1>1. FunctionTypes /\ BoundIsOpen /\ (Busy => _isWorking)
  BY <1>0 DEF IInv, StoppedInOrder
<1>2. CASE \E c \in Channels : Connect(a, c)
  <2>1. op'[a] = "unbind" /\ _op_locker' = a /\ FunctionTypes'
        /\ \A b \in Callers : b # a => op'[b] = "idle"
    BY <1>0, <1>1, <1>2 DEF Connect, Enters, Goto, FunctionTypes
  <2>2. BoundIsOpen' /\ SureOf(a)' /\ RunsWhileWorking(a)'
    BY <1>1, <1>2, <2>1 DEF Connect, BoundIsOpen, SureOf, RunsWhileWorking
  <2> QED
    BY <2>1, <2>2, AloneSuffices
<1>3. CASE Disconnect(a)
  <2>1. op'[a] = "unbind" /\ _op_locker' = a /\ FunctionTypes'
        /\ \A b \in Callers : b # a => op'[b] = "idle"
    BY <1>0, <1>1, <1>3 DEF Disconnect, Enters, Goto, FunctionTypes
  <2>2. BoundIsOpen' /\ SureOf(a)' /\ RunsWhileWorking(a)'
    BY <1>1, <1>3, <2>1 DEF Disconnect, BoundIsOpen, SureOf, RunsWhileWorking
  <2> QED
    BY <2>1, <2>2, AloneSuffices
<1>4. CASE Request(a)
  <2>1. op'[a] = "send" /\ _op_locker' = a /\ FunctionTypes'
        /\ \A b \in Callers : b # a => op'[b] = "idle"
    BY <1>0, <1>1, <1>4 DEF Request, Enters, Goto, FunctionTypes
  <2>2. BoundIsOpen' /\ SureOf(a)' /\ RunsWhileWorking(a)'
    BY <1>1, <1>4, <2>1 DEF Request, BoundIsOpen, SureOf, RunsWhileWorking
  <2> QED
    BY <2>1, <2>2, AloneSuffices
<1> QED
  BY <1>2, <1>3, <1>4 DEF Call

LEMMA ContinuesStep == ASSUME IInv, NEW a \in Callers, Continues(a) PROVE IInv'
<1> USE DEF boundVars, threadVars, channelVars, Busy, Unbinding, Alone, Places, UnderOpLocker
<1>0. op[a] # "idle"
  BY DEF Continues, UnbindNothing, UnbindStops, UnbindSignals, JoinDecoder, JoinRx, CloseChannel, Forget,
         Unbound, OpenFails, OpenSucceeds, Flush, Bind, AsksDevice, SendRefused, SendAccepted, Write, Goto, Leaves
<1>a. \A b \in Callers : b # a => op[b] = "idle"
  BY <1>0, OthersAreIdle
<1>b. FunctionTypes /\ BoundIsOpen /\ SureOf(a) /\ RunsWhileWorking(a) /\ _op_locker = a
  BY <1>0, <1>a DEF IInv, OneCaller, StoppedInOrder, RunsWhileWorking
<1>1. CASE UnbindNothing(a)
  <2>1. op[a] = "unbind" /\ op'[a] \in {"open", "idle"} /\ (op'[a] # "idle" => _op_locker' = a) /\ FunctionTypes'
        /\ \A b \in Callers : b # a => op'[b] = "idle"
    BY <1>a, <1>b, <1>1 DEF UnbindNothing, Unbound, Goto, Leaves, FunctionTypes
  <2>2. BoundIsOpen' /\ SureOf(a)' /\ RunsWhileWorking(a)'
    BY <1>b, <1>1, <2>1 DEF UnbindNothing, Unbound, BoundIsOpen, SureOf, RunsWhileWorking
  <2> QED
    BY <2>1, <2>2, AloneSuffices
<1>2. CASE UnbindStops(a)
  <2>1. op[a] = "unbind" /\ op'[a] = "signal" /\ (op'[a] # "idle" => _op_locker' = a) /\ FunctionTypes'
        /\ \A b \in Callers : b # a => op'[b] = "idle"
    BY <1>a, <1>b, <1>2 DEF UnbindStops, Goto, Leaves, FunctionTypes
  <2>2. BoundIsOpen' /\ SureOf(a)' /\ RunsWhileWorking(a)'
    BY <1>b, <1>2, <2>1 DEF UnbindStops, BoundIsOpen, SureOf, RunsWhileWorking
  <2> QED
    BY <2>1, <2>2, AloneSuffices
<1>3. CASE UnbindSignals(a)
  <2>1. op[a] = "signal" /\ op'[a] = "join_decoder" /\ (op'[a] # "idle" => _op_locker' = a) /\ FunctionTypes'
        /\ \A b \in Callers : b # a => op'[b] = "idle"
    BY <1>a, <1>b, <1>3 DEF UnbindSignals, Goto, Leaves, FunctionTypes
  <2>2. BoundIsOpen' /\ SureOf(a)' /\ RunsWhileWorking(a)'
    BY <1>b, <1>3, <2>1 DEF UnbindSignals, BoundIsOpen, SureOf, RunsWhileWorking
  <2> QED
    BY <2>1, <2>2, AloneSuffices
<1>4. CASE JoinDecoder(a)
  <2>1. op[a] = "join_decoder" /\ op'[a] = "join_rx" /\ (op'[a] # "idle" => _op_locker' = a) /\ FunctionTypes'
        /\ \A b \in Callers : b # a => op'[b] = "idle"
    BY <1>a, <1>b, <1>4 DEF JoinDecoder, Goto, Leaves, FunctionTypes
  <2>2. BoundIsOpen' /\ SureOf(a)' /\ RunsWhileWorking(a)'
    BY <1>b, <1>4, <2>1 DEF JoinDecoder, BoundIsOpen, SureOf, RunsWhileWorking
  <2> QED
    BY <2>1, <2>2, AloneSuffices
<1>5. CASE JoinRx(a)
  <2>1. op[a] = "join_rx" /\ op'[a] = "close" /\ (op'[a] # "idle" => _op_locker' = a) /\ FunctionTypes'
        /\ \A b \in Callers : b # a => op'[b] = "idle"
    BY <1>a, <1>b, <1>5 DEF JoinRx, Goto, Leaves, FunctionTypes
  <2>2. BoundIsOpen' /\ SureOf(a)' /\ RunsWhileWorking(a)'
    BY <1>b, <1>5, <2>1 DEF JoinRx, BoundIsOpen, SureOf, RunsWhileWorking
  <2> QED
    BY <2>1, <2>2, AloneSuffices
<1>6. CASE CloseChannel(a)
  <2>1. op[a] = "close" /\ op'[a] = "forget" /\ (op'[a] # "idle" => _op_locker' = a) /\ FunctionTypes'
        /\ \A b \in Callers : b # a => op'[b] = "idle"
    BY <1>a, <1>b, <1>6 DEF CloseChannel, Goto, Leaves, FunctionTypes
  <2>2. BoundIsOpen' /\ SureOf(a)' /\ RunsWhileWorking(a)'
    BY <1>b, <1>6, <2>1 DEF CloseChannel, BoundIsOpen, SureOf, RunsWhileWorking
  <2> QED
    BY <2>1, <2>2, AloneSuffices
<1>7. CASE Forget(a)
  <2>1. op[a] = "forget" /\ op'[a] \in {"open", "idle"} /\ (op'[a] # "idle" => _op_locker' = a) /\ FunctionTypes'
        /\ \A b \in Callers : b # a => op'[b] = "idle"
    BY <1>a, <1>b, <1>7 DEF Forget, Unbound, Goto, Leaves, FunctionTypes
  <2>2. BoundIsOpen' /\ SureOf(a)' /\ RunsWhileWorking(a)'
    BY <1>b, <1>7, <2>1 DEF Forget, Unbound, BoundIsOpen, SureOf, RunsWhileWorking
  <2> QED
    BY <2>1, <2>2, AloneSuffices
<1>8. CASE OpenFails(a)
  <2>1. op[a] = "open" /\ op'[a] = "opened" /\ (op'[a] # "idle" => _op_locker' = a) /\ FunctionTypes'
        /\ \A b \in Callers : b # a => op'[b] = "idle"
    BY <1>a, <1>b, <1>8 DEF OpenFails, Linked, Goto, Leaves, FunctionTypes
  <2>2. BoundIsOpen' /\ SureOf(a)' /\ RunsWhileWorking(a)'
    BY <1>b, <1>8, <2>1 DEF OpenFails, Linked, BoundIsOpen, SureOf, RunsWhileWorking
  <2> QED
    BY <2>1, <2>2, AloneSuffices
<1>9. CASE OpenSucceeds(a)
  <2>1. op[a] = "open" /\ op'[a] = "flush" /\ (op'[a] # "idle" => _op_locker' = a) /\ FunctionTypes'
        /\ \A b \in Callers : b # a => op'[b] = "idle"
    BY <1>a, <1>b, <1>9 DEF OpenSucceeds, Goto, Leaves, FunctionTypes
  <2>2. BoundIsOpen' /\ SureOf(a)' /\ RunsWhileWorking(a)'
    BY <1>b, <1>9, <2>1 DEF OpenSucceeds, BoundIsOpen, SureOf, RunsWhileWorking
  <2> QED
    BY <2>1, <2>2, AloneSuffices
<1>10. CASE Flush(a)
  <2>1. op[a] = "flush" /\ op'[a] = "bind" /\ (op'[a] # "idle" => _op_locker' = a) /\ FunctionTypes'
        /\ \A b \in Callers : b # a => op'[b] = "idle"
    BY <1>a, <1>b, <1>10 DEF Flush, Goto, Leaves, FunctionTypes
  <2>2. BoundIsOpen' /\ SureOf(a)' /\ RunsWhileWorking(a)'
    BY <1>b, <1>10, <2>1 DEF Flush, BoundIsOpen, SureOf, RunsWhileWorking
  <2> QED
    BY <2>1, <2>2, AloneSuffices
<1>11. CASE Bind(a)
  <2>1. op[a] = "bind" /\ op'[a] = "opened" /\ (op'[a] # "idle" => _op_locker' = a) /\ FunctionTypes'
        /\ \A b \in Callers : b # a => op'[b] = "idle"
    BY <1>a, <1>b, <1>11 DEF Bind, Linked, Goto, Leaves, FunctionTypes
  <2>2. BoundIsOpen' /\ SureOf(a)' /\ RunsWhileWorking(a)'
    BY <1>b, <1>11, <2>1 DEF Bind, Linked, BoundIsOpen, SureOf, RunsWhileWorking
  <2> QED
    BY <2>1, <2>2, AloneSuffices
<1>12. CASE AsksDevice(a)
  <2>1. op[a] = "opened" /\ op'[a] = "send" /\ (op'[a] # "idle" => _op_locker' = a) /\ FunctionTypes'
        /\ \A b \in Callers : b # a => op'[b] = "idle"
    BY <1>a, <1>b, <1>12 DEF AsksDevice, Goto, Leaves, FunctionTypes
  <2>2. BoundIsOpen' /\ SureOf(a)' /\ RunsWhileWorking(a)'
    BY <1>b, <1>12, <2>1 DEF AsksDevice, BoundIsOpen, SureOf, RunsWhileWorking
  <2> QED
    BY <2>1, <2>2, AloneSuffices
<1>13. CASE SendRefused(a)
  <2>1. op[a] = "send" /\ op'[a] = "idle" /\ (op'[a] # "idle" => _op_locker' = a) /\ FunctionTypes'
        /\ \A b \in Callers : b # a => op'[b] = "idle"
    BY <1>a, <1>b, <1>13 DEF SendRefused, Goto, Leaves, FunctionTypes
  <2>2. BoundIsOpen' /\ SureOf(a)' /\ RunsWhileWorking(a)'
    BY <1>b, <1>13, <2>1 DEF SendRefused, BoundIsOpen, SureOf, RunsWhileWorking
  <2> QED
    BY <2>1, <2>2, AloneSuffices
<1>14. CASE SendAccepted(a)
  <2>1. op[a] = "send" /\ op'[a] = "write" /\ (op'[a] # "idle" => _op_locker' = a) /\ FunctionTypes'
        /\ \A b \in Callers : b # a => op'[b] = "idle"
    BY <1>a, <1>b, <1>14 DEF SendAccepted, Goto, Leaves, FunctionTypes
  <2>2. BoundIsOpen' /\ SureOf(a)' /\ RunsWhileWorking(a)'
    BY <1>b, <1>14, <2>1 DEF SendAccepted, BoundIsOpen, SureOf, RunsWhileWorking
  <2> QED
    BY <2>1, <2>2, AloneSuffices
<1>15. CASE Write(a)
  <2>1. op[a] = "write" /\ op'[a] = "idle" /\ (op'[a] # "idle" => _op_locker' = a) /\ FunctionTypes'
        /\ \A b \in Callers : b # a => op'[b] = "idle"
    BY <1>a, <1>b, <1>15 DEF Write, Goto, Leaves, FunctionTypes
  <2>2. BoundIsOpen' /\ SureOf(a)' /\ RunsWhileWorking(a)'
    BY <1>b, <1>15, <2>1 DEF Write, BoundIsOpen, SureOf, RunsWhileWorking
  <2> QED
    BY <2>1, <2>2, AloneSuffices
<1> QED
  BY <1>1, <1>2, <1>3, <1>4, <1>5, <1>6, <1>7, <1>8,
     <1>9, <1>10, <1>11, <1>12, <1>13, <1>14, <1>15 DEF Continues

LEMMA InvInit == Init => IInv
BY DEF Init, IInv, FunctionTypes, OneCaller, BoundIsOpen, StoppedInOrder, SureOf, Busy, Unbinding, Alone, Places

LEMMA InvStep == IInv /\ [Next]_vars => IInv'
<1> SUFFICES ASSUME IInv, [Next]_vars PROVE IInv'
  OBVIOUS
<1>1. CASE \E a \in Callers : Call(a) \/ Continues(a)
  BY <1>1, CallStep, ContinuesStep
<1>2. CASE rxThread \/ decoderThread \/ DecTimesOut
  BY <1>2, RxOnlyEnds, DecoderOnlyEnds, ThreadStep
<1>3. CASE CallRefused \/ (\E c \in Channels : LidarSends(c)) \/ UNCHANGED vars
  BY <1>3, OthersRest, ThreadStep
<1> QED
  BY <1>1, <1>2, <1>3 DEF Next

(* The channel the receiving thread reads and a request is written to is     *)
(* open, for any number of callers and connections.                          *)
THEOREM ChannelIsOpen == Spec => []ChannelUsedWhileOpen
<1>1. IInv => ChannelUsedWhileOpen
  BY DEF IInv, BoundIsOpen, StoppedInOrder, SureOf, Busy, ChannelUsedWhileOpen
<1> QED
  BY <1>1, InvInit, InvStep, PTL DEF Spec
--------------------------------------------------------------------------------
(* What is under way. *)
Releasing == Unbinding \cup {"close", "forget"}
OnlyOf(buffers) == \A k \in 1 .. Len(buffers) : buffers[k].session = session

DataTypes ==
  /\ {_isConnected, _isWorking, _dataEvt} \subseteq BOOLEAN
  /\ _op_locker \in Callers \cup {NoCaller}
  /\ _bindedChannel \in Channels \cup {NoChannel} /\ opened \subseteq Channels
  /\ _rxQueue \in Seq(Buffer) /\ rxBuffer \in Seq(Buffer) /\ decoding \in Seq(Buffer)
  /\ arrived \in [Channels -> Seq(Buffer)]
  /\ rx \in {"off", "test", "wait", "read", "push"}
  /\ decoder \in {"off", "reset", "test", "look", "unlocked", "wait", "decode"}
  /\ session \in 0 .. MaxSession /\ partial \in 0 .. MaxSession

(* A thread has a buffer in its hand where it pushes or decodes it, and      *)
(* finds one where it saw there was one.                                     *)
InHand ==
  /\ Len(rxBuffer) = IF rx = "push" THEN 1 ELSE 0
  /\ Len(decoding) = IF decoder = "decode" THEN 1 ELSE 0
  /\ rx = "read" => arrived[_bindedChannel] # << >>

(* A transceiver that does not work, and is not being stopped, is empty.     *)
Emptied ==
  ~_isWorking /\ (\A a \in Callers : op[a] \notin Releasing)
    => _bindedChannel = NoChannel /\ _rxQueue = << >>

(* A caller has a channel while it connects, until it asks for the device.   *)
Connecting ==
  \A a \in Callers :
    /\ op[a] \in {"idle", "send", "write"} => channel[a] = NoChannel
    /\ op[a] \in {"open", "flush", "bind"} => channel[a] \in Channels
    /\ op[a] \notin {"bind", "opened"} /\ channel[a] # NoChannel => session < MaxSession

(* From the flush on everything under way is of this connection.             *)
OfThisConnection ==
  /\ OnlyOf(_rxQueue) /\ OnlyOf(rxBuffer) /\ OnlyOf(decoding)
  /\ Busy => OnlyOf(arrived[_bindedChannel])
  /\ \A a \in Callers : op[a] = "bind" => OnlyOf(arrived[channel[a]])
  /\ decoder \notin {"off", "reset"} => partial \in {0, session}

DataInv == DataTypes /\ InHand /\ Emptied /\ Connecting /\ OfThisConnection

LEMMA SessionsCount == MaxSession \in Nat /\ 0 \in 0 .. MaxSession
BY BoundsAssumption

LEMMA DataInit == Init => DataInv
<1> SUFFICES ASSUME Init PROVE DataInv
  OBVIOUS
<1>b. << >> \in Seq(Buffer)
  OBVIOUS
<1>1. DataTypes
  BY <1>b, SessionsCount, Zenon DEF Init, DataTypes
<1>2. InHand /\ Emptied
  BY DEF Init, InHand, Emptied
<1>3. Connecting
  BY DEF Init, Connecting
<1>4. OfThisConnection
  BY DEF Init, OfThisConnection, OnlyOf, Busy
<1> QED
  BY <1>1, <1>2, <1>3, <1>4 DEF DataInv

LEMMA RxKeepsData == IInv /\ DataInv /\ rxThread => DataInv'
<1> SUFFICES ASSUME IInv, DataInv, rxThread PROVE DataInv'
  OBVIOUS
<1> USE DEF DataInv, Releasing, Unbinding, RxGoto, RxRest, driverVars
<1>a. _bindedChannel \in Channels
  BY DEF IInv, BoundIsOpen, Busy, DataTypes, rxThread, RxTest, RxSeesData, RxTimesOut, RxFails, RxReads, RxPushes
<1>1. CASE RxTest \/ RxSeesData \/ RxTimesOut \/ RxFails
  <2>1. DataTypes'
    BY <1>a, <1>1 DEF RxTest, RxSeesData, RxTimesOut, RxFails, DataTypes, InHand
  <2>2. InHand'
    BY <1>a, <1>1 DEF RxTest, RxSeesData, RxTimesOut, RxFails, InHand, DataTypes
  <2>3. Emptied'
    BY <1>a, <1>1 DEF RxTest, RxSeesData, RxTimesOut, RxFails, Emptied
  <2>4. Connecting'
    BY <1>a, <1>1 DEF RxTest, RxSeesData, RxTimesOut, RxFails, Connecting
  <2>5. OfThisConnection'
    BY <1>a, <1>1 DEF RxTest, RxSeesData, RxTimesOut, RxFails, OfThisConnection, OnlyOf, InHand, DataTypes, Busy
  <2> QED
    BY <2>1, <2>2, <2>3, <2>4, <2>5
<1>2. CASE RxReads
  <2>1. DataTypes'
    BY <1>a, <1>2 DEF RxReads, DataTypes, InHand
  <2>2. InHand'
    BY <1>a, <1>2 DEF RxReads, InHand, DataTypes
  <2>3. Emptied'
    BY <1>a, <1>2 DEF RxReads, Emptied
  <2>4. Connecting'
    BY <1>a, <1>2 DEF RxReads, Connecting
  <2>5. OfThisConnection'
    BY <1>a, <1>2 DEF RxReads, OfThisConnection, OnlyOf, InHand, DataTypes, Busy
  <2> QED
    BY <2>1, <2>2, <2>3, <2>4, <2>5
<1>3. CASE RxPushes
  <2>1. DataTypes'
    BY <1>a, <1>3 DEF RxPushes, DataTypes, InHand
  <2>2. InHand'
    BY <1>a, <1>3 DEF RxPushes, InHand, DataTypes
  <2>3. Emptied'
    BY <1>a, <1>3 DEF RxPushes, Emptied, IInv, StoppedInOrder, SureOf, Busy
  <2>4. Connecting'
    BY <1>a, <1>3 DEF RxPushes, Connecting
  <2>a. OnlyOf(_rxQueue)'
    BY <1>3, ConcatProperties DEF RxPushes, OfThisConnection, OnlyOf, DataTypes
  <2>5. OfThisConnection'
    BY <1>a, <1>3, <2>a DEF RxPushes, OfThisConnection, OnlyOf, InHand, DataTypes, Busy
  <2> QED
    BY <2>1, <2>2, <2>3, <2>4, <2>5
<1> QED
  BY <1>1, <1>2, <1>3 DEF rxThread
LEMMA DecoderKeepsData == IInv /\ DataInv /\ (decoderThread \/ DecTimesOut) => DataInv'
<1> SUFFICES ASSUME IInv, DataInv, decoderThread \/ DecTimesOut PROVE DataInv'
  OBVIOUS
<1> USE DEF DataInv, Releasing, Unbinding, DecGoto, DecRest, driverVars, channelVars
<1>1. CASE DecReset \/ DecTest \/ DecFindsNothing \/ DecWaits \/ DecWakes \/ DecTimesOut
  <2>1. DataTypes'
    BY <1>1, SessionsCount DEF DecReset, DecTest, DecFindsNothing, DecWaits, DecWakes, DecTimesOut, DataTypes, InHand, OfThisConnection
  <2>2. InHand'
    BY <1>1 DEF DecReset, DecTest, DecFindsNothing, DecWaits, DecWakes, DecTimesOut, InHand, DataTypes
  <2>3. Emptied'
    BY <1>1 DEF DecReset, DecTest, DecFindsNothing, DecWaits, DecWakes, DecTimesOut, Emptied, IInv, StoppedInOrder, SureOf, Busy
  <2>4. Connecting'
    BY <1>1 DEF DecReset, DecTest, DecFindsNothing, DecWaits, DecWakes, DecTimesOut, Connecting
  <2>5. OfThisConnection'
    BY <1>1 DEF DecReset, DecTest, DecFindsNothing, DecWaits, DecWakes, DecTimesOut, OfThisConnection, OnlyOf, InHand, DataTypes, Busy
  <2> QED
    BY <2>1, <2>2, <2>3, <2>4, <2>5
<1>2. CASE DecTakes
  <2>1. DataTypes'
    BY <1>2 DEF DecTakes, DataTypes, InHand, OfThisConnection
  <2>2. InHand'
    BY <1>2 DEF DecTakes, InHand, DataTypes
  <2>3. Emptied'
    BY <1>2 DEF DecTakes, Emptied, IInv, StoppedInOrder, SureOf, Busy
  <2>4. Connecting'
    BY <1>2 DEF DecTakes, Connecting
  <2>5. OfThisConnection'
    BY <1>2 DEF DecTakes, OfThisConnection, OnlyOf, InHand, DataTypes, Busy
  <2> QED
    BY <2>1, <2>2, <2>3, <2>4, <2>5
<1>3. CASE DecDecodes
  <2>b. decoding \in Seq(Buffer) /\ Len(decoding) = 1
    BY <1>3 DEF DecDecodes, DataTypes, InHand
  <2>a. decoding[1] \in Buffer
    BY <2>b, ElementOfSeq
  <2>c. decoding[1].session = session /\ session \in Nat
    BY <2>b, SessionsCount DEF OfThisConnection, OnlyOf, DataTypes
  <2>1. DataTypes'
    BY <1>3, <2>a, SessionsCount, EmptySeq DEF DecDecodes, DataTypes, Buffer
  <2>2. InHand'
    BY <1>3 DEF DecDecodes, InHand, DataTypes
  <2>3. Emptied'
    BY <1>3 DEF DecDecodes, Emptied, IInv, StoppedInOrder, SureOf, Busy
  <2>4. Connecting'
    BY <1>3 DEF DecDecodes, Connecting
  <2>5. OfThisConnection'
    BY <1>3, <2>c DEF DecDecodes, OfThisConnection, OnlyOf, Busy
  <2> QED
    BY <2>1, <2>2, <2>3, <2>4, <2>5
<1> QED
  BY <1>1, <1>2, <1>3 DEF decoderThread

LEMMA LidarKeepsData == ASSUME IInv, DataInv, NEW c \in Channels, LidarSends(c) PROVE DataInv'
<1> USE DEF DataInv, LidarSends, driverVars, boundVars, threadVars
<1>1. PICK n \in {0, 1} : arrived' = [arrived EXCEPT ![c] = Append(@, [session |-> session, number |-> n])]
  OBVIOUS
<1>2. [session |-> session, number |-> n] \in Buffer
  BY DEF DataTypes, Buffer
<1>a. /\ \A d \in Channels \ {c} : arrived'[d] = arrived[d]
      /\ arrived'[c] = Append(arrived[c], [session |-> session, number |-> n])
      /\ \A d \in Channels : arrived[d] \in Seq(Buffer)
  BY <1>1 DEF DataTypes
<1>b. /\ Len(arrived'[c]) = Len(arrived[c]) + 1 /\ arrived'[c] # << >> /\ Len(arrived[c]) \in Nat
      /\ arrived'[c][Len(arrived[c]) + 1] = [session |-> session, number |-> n]
      /\ \A k \in 1 .. Len(arrived[c]) : arrived'[c][k] = arrived[c][k]
  BY <1>2, <1>a, AppendProperties
<1>3. DataTypes'
  BY <1>1, <1>2 DEF DataTypes
<1>4. InHand'
  <2>1. \A d \in Channels : arrived[d] # << >> => arrived'[d] # << >>
    BY <1>a, <1>b
  <2>2. rx = "read" => _bindedChannel \in Channels
    BY DEF IInv, BoundIsOpen, Busy, DataTypes
  <2> QED
    BY <2>1, <2>2 DEF InHand
<1>5. Emptied' /\ Connecting'
  BY DEF Emptied, Connecting
<1>6. \A d \in Channels : OnlyOf(arrived[d]) => OnlyOf(arrived[d])'
  <2>1. ASSUME OnlyOf(arrived[c]) PROVE OnlyOf(arrived[c])'
    BY <1>b, <2>1 DEF OnlyOf
  <2>2. ASSUME NEW d \in Channels \ {c}, OnlyOf(arrived[d]) PROVE OnlyOf(arrived[d])'
    BY <1>a, <2>2 DEF OnlyOf
  <2> QED
    BY <2>1, <2>2
<1>7. OfThisConnection'
  <2>1. OnlyOf(_rxQueue)' /\ OnlyOf(rxBuffer)' /\ OnlyOf(decoding)'
    BY DEF OfThisConnection, OnlyOf
  <2>2. Busy' => OnlyOf(arrived[_bindedChannel])'
    BY <1>6 DEF IInv, BoundIsOpen, OfThisConnection, DataTypes, Busy
  <2>3. ASSUME NEW a \in Callers, op'[a] = "bind" PROVE OnlyOf(arrived[channel[a]])'
    <3>1. channel[a] \in Channels
      BY <2>3 DEF IInv, StoppedInOrder, SureOf, DataTypes
    <3> QED
      BY <1>6, <2>3, <3>1 DEF OfThisConnection
  <2> QED
    BY <2>1, <2>2, <2>3 DEF OfThisConnection
<1> QED
  BY <1>3, <1>4, <1>5, <1>7
LEMMA CallKeepsData == ASSUME IInv, DataInv, NEW a \in Callers, Call(a) PROVE DataInv'
<1> USE DEF DataInv, Releasing, Unbinding, Enters, Goto, boundVars, channelVars, threadVars
<1>0. (\A b \in Callers : op[b] = "idle") /\ FunctionTypes
  BY EntersAlone DEF Call, Connect, Disconnect, Request, IInv
<1>1. CASE \E c \in Channels : Connect(a, c)
  <2>1. DataTypes'
    BY <1>0, <1>1, SessionsCount DEF Connect, DataTypes, FunctionTypes
  <2>2. InHand'
    BY <1>0, <1>1, SessionsCount DEF Connect, InHand, DataTypes, SureOf, Busy
  <2>3. Emptied'
    BY <1>0, <1>1, SessionsCount DEF Connect, Emptied, FunctionTypes, RunsWhileWorking, Busy
  <2>4. Connecting'
    BY <1>0, <1>1, SessionsCount DEF Connect, Connecting, FunctionTypes, DataTypes
  <2>5. OfThisConnection'
    BY <1>0, <1>1, SessionsCount DEF Connect, OfThisConnection, OnlyOf, Busy, FunctionTypes
  <2> QED
    BY <2>1, <2>2, <2>3, <2>4, <2>5
<1>2. CASE Disconnect(a)
  <2>1. DataTypes'
    BY <1>0, <1>2, SessionsCount DEF Disconnect, DataTypes, FunctionTypes
  <2>2. InHand'
    BY <1>0, <1>2, SessionsCount DEF Disconnect, InHand, DataTypes, SureOf, Busy
  <2>3. Emptied'
    BY <1>0, <1>2, SessionsCount DEF Disconnect, Emptied, FunctionTypes, RunsWhileWorking, Busy
  <2>4. Connecting'
    BY <1>0, <1>2, SessionsCount DEF Disconnect, Connecting, FunctionTypes, DataTypes
  <2>5. OfThisConnection'
    BY <1>0, <1>2, SessionsCount DEF Disconnect, OfThisConnection, OnlyOf, Busy, FunctionTypes
  <2> QED
    BY <2>1, <2>2, <2>3, <2>4, <2>5
<1>3. CASE Request(a)
  <2>1. DataTypes'
    BY <1>0, <1>3, SessionsCount DEF Request, DataTypes, FunctionTypes
  <2>2. InHand'
    BY <1>0, <1>3, SessionsCount DEF Request, InHand, DataTypes, SureOf, Busy
  <2>3. Emptied'
    BY <1>0, <1>3, SessionsCount DEF Request, Emptied, FunctionTypes, RunsWhileWorking, Busy
  <2>4. Connecting'
    BY <1>0, <1>3, SessionsCount DEF Request, Connecting, FunctionTypes, DataTypes
  <2>5. OfThisConnection'
    BY <1>0, <1>3, SessionsCount DEF Request, OfThisConnection, OnlyOf, Busy, FunctionTypes
  <2> QED
    BY <2>1, <2>2, <2>3, <2>4, <2>5
<1> QED
  BY <1>1, <1>2, <1>3 DEF Call

LEMMA ContinuesKeepsData == ASSUME IInv, DataInv, NEW a \in Callers, Continues(a) PROVE DataInv'
<1> USE DEF DataInv, Releasing, Unbinding, Goto, Leaves, Linked, Unbound, boundVars, channelVars, threadVars
<1>0. op[a] # "idle"
  BY DEF Continues, UnbindNothing, UnbindStops, UnbindSignals, JoinDecoder, JoinRx, CloseChannel, Forget,
         OpenFails, OpenSucceeds, Flush, Bind, AsksDevice, SendRefused, SendAccepted, Write
<1>a. \A b \in Callers : b # a => op[b] = "idle"
  BY <1>0, OthersAreIdle
<1>b. FunctionTypes /\ BoundIsOpen /\ SureOf(a) /\ RunsWhileWorking(a) /\ _op_locker = a
  BY <1>0, <1>a DEF IInv, OneCaller, StoppedInOrder, RunsWhileWorking
<1> USE <1>a, <1>b, CallersAssumption
<1>1. CASE UnbindNothing(a)
  <2>1. DataTypes'
    BY <1>1, SessionsCount DEF UnbindNothing, DataTypes, FunctionTypes, SureOf, Alone
  <2>2. InHand'
    BY <1>1, SessionsCount DEF UnbindNothing, InHand, DataTypes, SureOf, Busy, SureOf, Alone
  <2>3. Emptied'
    BY <1>1, SessionsCount DEF UnbindNothing, Emptied, FunctionTypes, RunsWhileWorking, Busy, SureOf, Alone
  <2>4. Connecting'
    BY <1>1, SessionsCount DEF UnbindNothing, Connecting, FunctionTypes, DataTypes, SureOf, Alone
  <2>5. OfThisConnection'
    BY <1>1, SessionsCount DEF UnbindNothing, OfThisConnection, OnlyOf, Busy, FunctionTypes, SureOf, Alone
  <2> QED
    BY <2>1, <2>2, <2>3, <2>4, <2>5
<1>2. CASE UnbindStops(a)
  <2>1. DataTypes'
    BY <1>2, SessionsCount DEF UnbindStops, DataTypes, FunctionTypes, SureOf, Alone
  <2>2. InHand'
    BY <1>2, SessionsCount DEF UnbindStops, InHand, DataTypes, SureOf, Busy, SureOf, Alone
  <2>3. Emptied'
    BY <1>2, SessionsCount DEF UnbindStops, Emptied, FunctionTypes, RunsWhileWorking, Busy, SureOf, Alone
  <2>4. Connecting'
    BY <1>2, SessionsCount DEF UnbindStops, Connecting, FunctionTypes, DataTypes, SureOf, Alone
  <2>5. OfThisConnection'
    BY <1>2, SessionsCount DEF UnbindStops, OfThisConnection, OnlyOf, Busy, FunctionTypes, SureOf, Alone
  <2> QED
    BY <2>1, <2>2, <2>3, <2>4, <2>5
<1>3. CASE UnbindSignals(a)
  <2>1. DataTypes'
    BY <1>3, SessionsCount DEF UnbindSignals, DataTypes, FunctionTypes, SureOf, Alone
  <2>2. InHand'
    BY <1>3, SessionsCount DEF UnbindSignals, InHand, DataTypes, SureOf, Busy, SureOf, Alone
  <2>3. Emptied'
    BY <1>3, SessionsCount DEF UnbindSignals, Emptied, FunctionTypes, RunsWhileWorking, Busy, SureOf, Alone
  <2>4. Connecting'
    BY <1>3, SessionsCount DEF UnbindSignals, Connecting, FunctionTypes, DataTypes, SureOf, Alone
  <2>5. OfThisConnection'
    BY <1>3, SessionsCount DEF UnbindSignals, OfThisConnection, OnlyOf, Busy, FunctionTypes, SureOf, Alone
  <2> QED
    BY <2>1, <2>2, <2>3, <2>4, <2>5
<1>4. CASE JoinDecoder(a)
  <2>1. DataTypes'
    BY <1>4, SessionsCount DEF JoinDecoder, DataTypes, FunctionTypes, SureOf, Alone
  <2>2. InHand'
    BY <1>4, SessionsCount DEF JoinDecoder, InHand, DataTypes, SureOf, Busy, SureOf, Alone
  <2>3. Emptied'
    BY <1>4, SessionsCount DEF JoinDecoder, Emptied, FunctionTypes, RunsWhileWorking, Busy, SureOf, Alone
  <2>4. Connecting'
    BY <1>4, SessionsCount DEF JoinDecoder, Connecting, FunctionTypes, DataTypes, SureOf, Alone
  <2>5. OfThisConnection'
    BY <1>4, SessionsCount DEF JoinDecoder, OfThisConnection, OnlyOf, Busy, FunctionTypes, SureOf, Alone
  <2> QED
    BY <2>1, <2>2, <2>3, <2>4, <2>5
<1>5. CASE JoinRx(a)
  <2>1. DataTypes'
    BY <1>5, SessionsCount DEF JoinRx, DataTypes, FunctionTypes, SureOf, Alone
  <2>2. InHand'
    BY <1>5, SessionsCount DEF JoinRx, InHand, DataTypes, SureOf, Busy, SureOf, Alone
  <2>3. Emptied'
    BY <1>5, SessionsCount DEF JoinRx, Emptied, FunctionTypes, RunsWhileWorking, Busy, SureOf, Alone
  <2>4. Connecting'
    BY <1>5, SessionsCount DEF JoinRx, Connecting, FunctionTypes, DataTypes, SureOf, Alone
  <2>5. OfThisConnection'
    BY <1>5, SessionsCount DEF JoinRx, OfThisConnection, OnlyOf, Busy, FunctionTypes, SureOf, Alone
  <2> QED
    BY <2>1, <2>2, <2>3, <2>4, <2>5
<1>6. CASE CloseChannel(a)
  <2>1. DataTypes'
    BY <1>6, SessionsCount DEF CloseChannel, DataTypes, FunctionTypes, SureOf, Alone
  <2>2. InHand'
    BY <1>6, SessionsCount DEF CloseChannel, InHand, DataTypes, SureOf, Busy, SureOf, Alone
  <2>3. Emptied'
    BY <1>6, SessionsCount DEF CloseChannel, Emptied, FunctionTypes, RunsWhileWorking, Busy, SureOf, Alone
  <2>4. Connecting'
    BY <1>6, SessionsCount DEF CloseChannel, Connecting, FunctionTypes, DataTypes, SureOf, Alone
  <2>5. OfThisConnection'
    BY <1>6, SessionsCount DEF CloseChannel, OfThisConnection, OnlyOf, Busy, FunctionTypes, SureOf, Alone
  <2> QED
    BY <2>1, <2>2, <2>3, <2>4, <2>5
<1>7. CASE Forget(a)
  <2>1. DataTypes'
    BY <1>7, EmptySeq DEF Forget, DataTypes, FunctionTypes, SureOf, Alone
  <2>2. InHand'
    BY <1>7, SessionsCount DEF Forget, InHand, DataTypes, SureOf, Busy, SureOf, Alone
  <2>3. Emptied'
    BY <1>7, SessionsCount DEF Forget, Emptied, FunctionTypes, RunsWhileWorking, Busy, SureOf, Alone
  <2>4. Connecting'
    BY <1>7, SessionsCount DEF Forget, Connecting, FunctionTypes, DataTypes, SureOf, Alone
  <2>5. OfThisConnection'
    BY <1>7, SessionsCount DEF Forget, OfThisConnection, OnlyOf, Busy, FunctionTypes, SureOf, Alone
  <2> QED
    BY <2>1, <2>2, <2>3, <2>4, <2>5
<1>8. CASE OpenFails(a)
  <2>1. DataTypes'
    BY <1>8, SessionsCount DEF OpenFails, DataTypes, FunctionTypes, SureOf, Alone
  <2>2. InHand'
    BY <1>8, SessionsCount DEF OpenFails, InHand, DataTypes, SureOf, Busy, SureOf, Alone
  <2>3. Emptied'
    BY <1>8, SessionsCount DEF OpenFails, Emptied, FunctionTypes, RunsWhileWorking, Busy, SureOf, Alone
  <2>4. Connecting'
    BY <1>8, SessionsCount DEF OpenFails, Connecting, FunctionTypes, DataTypes, SureOf, Alone
  <2>5. OfThisConnection'
    BY <1>8, SessionsCount DEF OpenFails, OfThisConnection, OnlyOf, Busy, FunctionTypes, SureOf, Alone
  <2> QED
    BY <2>1, <2>2, <2>3, <2>4, <2>5
<1>9. CASE OpenSucceeds(a)
  <2>1. DataTypes'
    BY <1>9, SessionsCount DEF OpenSucceeds, Connecting, DataTypes, FunctionTypes, SureOf, Alone
  <2>2. InHand'
    BY <1>9, SessionsCount DEF OpenSucceeds, InHand, DataTypes, SureOf, Busy, SureOf, Alone
  <2>3. Emptied'
    BY <1>9, SessionsCount DEF OpenSucceeds, Emptied, FunctionTypes, RunsWhileWorking, Busy, SureOf, Alone
  <2>4. Connecting'
    BY <1>9, SessionsCount DEF OpenSucceeds, Connecting, FunctionTypes, DataTypes, SureOf, Alone
  <2>5. OfThisConnection'
    BY <1>9, SessionsCount DEF OpenSucceeds, OfThisConnection, OnlyOf, Busy, FunctionTypes, SureOf, Alone
  <2> QED
    BY <2>1, <2>2, <2>3, <2>4, <2>5
<1>10. CASE Flush(a)
  <2>a. channel[a] \in Channels /\ session < MaxSession /\ ~Busy
    BY <1>10, ChannelsAssumption DEF Flush, Connecting, SureOf, Alone
  <2>b. session \in 0 .. MaxSession /\ session + 1 \in 0 .. MaxSession
    BY <2>a, SessionsCount DEF DataTypes
  <2>c. _rxQueue = << >> /\ Len(rxBuffer) = 0 /\ Len(decoding) = 0
    BY <1>10, <2>a DEF Flush, Emptied, InHand, Busy
  <2>1. DataTypes'
    BY <1>10, <2>a, <2>b, EmptySeq DEF Flush, DataTypes
  <2>2. InHand'
    BY <1>10, SessionsCount DEF Flush, InHand, DataTypes, SureOf, Busy, SureOf, Alone
  <2>3. Emptied'
    BY <1>10, SessionsCount DEF Flush, Emptied, FunctionTypes, RunsWhileWorking, Busy, SureOf, Alone
  <2>4. Connecting'
    BY <1>10, SessionsCount DEF Flush, Connecting, FunctionTypes, DataTypes, SureOf, Alone
  <2>5. OfThisConnection'
    BY <1>10, <2>a, <2>c DEF Flush, DataTypes, OfThisConnection, OnlyOf, Busy, FunctionTypes
  <2> QED
    BY <2>1, <2>2, <2>3, <2>4, <2>5
<1>11. CASE Bind(a)
  <2>1. DataTypes'
    BY <1>11, SessionsCount DEF Bind, DataTypes, FunctionTypes, SureOf, Alone
  <2>2. InHand'
    BY <1>11, SessionsCount DEF Bind, InHand, DataTypes, SureOf, Busy, SureOf, Alone
  <2>3. Emptied'
    BY <1>11, SessionsCount DEF Bind, Emptied, FunctionTypes, RunsWhileWorking, Busy, SureOf, Alone
  <2>4. Connecting'
    BY <1>11, SessionsCount DEF Bind, Connecting, FunctionTypes, DataTypes, SureOf, Alone
  <2>5. OfThisConnection'
    BY <1>11, SessionsCount DEF Bind, OfThisConnection, OnlyOf, Busy, FunctionTypes, SureOf, Alone
  <2> QED
    BY <2>1, <2>2, <2>3, <2>4, <2>5
<1>12. CASE AsksDevice(a)
  <2>1. DataTypes'
    BY <1>12, SessionsCount DEF AsksDevice, DataTypes, FunctionTypes, SureOf, Alone
  <2>2. InHand'
    BY <1>12, SessionsCount DEF AsksDevice, InHand, DataTypes, SureOf, Busy, SureOf, Alone
  <2>3. Emptied'
    BY <1>12, SessionsCount DEF AsksDevice, Emptied, FunctionTypes, RunsWhileWorking, Busy, SureOf, Alone
  <2>4. Connecting'
    BY <1>12, SessionsCount DEF AsksDevice, Connecting, FunctionTypes, DataTypes, SureOf, Alone
  <2>5. OfThisConnection'
    BY <1>12, SessionsCount DEF AsksDevice, OfThisConnection, OnlyOf, Busy, FunctionTypes, SureOf, Alone
  <2> QED
    BY <2>1, <2>2, <2>3, <2>4, <2>5
<1>13. CASE SendRefused(a)
  <2>1. DataTypes'
    BY <1>13, SessionsCount DEF SendRefused, DataTypes, FunctionTypes, SureOf, Alone
  <2>2. InHand'
    BY <1>13, SessionsCount DEF SendRefused, InHand, DataTypes, SureOf, Busy, SureOf, Alone
  <2>3. Emptied'
    BY <1>13, SessionsCount DEF SendRefused, Emptied, FunctionTypes, RunsWhileWorking, Busy, SureOf, Alone
  <2>4. Connecting'
    BY <1>13, SessionsCount DEF SendRefused, Connecting, FunctionTypes, DataTypes, SureOf, Alone
  <2>5. OfThisConnection'
    BY <1>13, SessionsCount DEF SendRefused, OfThisConnection, OnlyOf, Busy, FunctionTypes, SureOf, Alone
  <2> QED
    BY <2>1, <2>2, <2>3, <2>4, <2>5
<1>14. CASE SendAccepted(a)
  <2>1. DataTypes'
    BY <1>14, SessionsCount DEF SendAccepted, DataTypes, FunctionTypes, SureOf, Alone
  <2>2. InHand'
    BY <1>14, SessionsCount DEF SendAccepted, InHand, DataTypes, SureOf, Busy, SureOf, Alone
  <2>3. Emptied'
    BY <1>14, SessionsCount DEF SendAccepted, Emptied, FunctionTypes, RunsWhileWorking, Busy, SureOf, Alone
  <2>4. Connecting'
    BY <1>14, SessionsCount DEF SendAccepted, Connecting, FunctionTypes, DataTypes, SureOf, Alone
  <2>5. OfThisConnection'
    BY <1>14, SessionsCount DEF SendAccepted, OfThisConnection, OnlyOf, Busy, FunctionTypes, SureOf, Alone
  <2> QED
    BY <2>1, <2>2, <2>3, <2>4, <2>5
<1>15. CASE Write(a)
  <2>1. DataTypes'
    BY <1>15, SessionsCount DEF Write, DataTypes, FunctionTypes, SureOf, Alone
  <2>2. InHand'
    BY <1>15, SessionsCount DEF Write, InHand, DataTypes, SureOf, Busy, SureOf, Alone
  <2>3. Emptied'
    BY <1>15, SessionsCount DEF Write, Emptied, FunctionTypes, RunsWhileWorking, Busy, SureOf, Alone
  <2>4. Connecting'
    BY <1>15, SessionsCount DEF Write, Connecting, FunctionTypes, DataTypes, SureOf, Alone
  <2>5. OfThisConnection'
    BY <1>15, SessionsCount DEF Write, OfThisConnection, OnlyOf, Busy, FunctionTypes, SureOf, Alone
  <2> QED
    BY <2>1, <2>2, <2>3, <2>4, <2>5
<1> QED
  BY <1>1, <1>2, <1>3, <1>4, <1>5, <1>6, <1>7, <1>8, <1>9, <1>10, <1>11, <1>12, <1>13, <1>14, <1>15 DEF Continues
LEMMA DataStep == IInv /\ DataInv /\ [Next]_vars => DataInv'
<1> SUFFICES ASSUME IInv, DataInv, [Next]_vars PROVE DataInv'
  OBVIOUS
<1>1. CASE \E a \in Callers : Call(a) \/ Continues(a)
  BY <1>1, CallKeepsData, ContinuesKeepsData
<1>2. CASE rxThread \/ decoderThread \/ DecTimesOut
  BY <1>2, RxKeepsData, DecoderKeepsData
<1>3. CASE \E c \in Channels : LidarSends(c)
  BY <1>3, LidarKeepsData
<1>4. CASE CallRefused \/ UNCHANGED vars
  BY <1>4 DEF CallRefused, vars, driverVars, boundVars, threadVars, channelVars, DataInv, DataTypes, InHand,
              Emptied, Connecting, OfThisConnection, OnlyOf, Busy
<1> QED
  BY <1>1, <1>2, <1>3, <1>4 DEF Next

LEMMA Invariants == Spec => [](IInv /\ DataInv)
BY InvInit, InvStep, DataInit, DataStep, PTL DEF Spec

(* What is decoded, and the bytes it continues, came over the connection     *)
(* that is open now (sl_async_transceiver.cpp, sl_lidar_driver.cpp).         *)
THEOREM DecodesThisConnection == Spec => []OnlyThisConnection
<1>1. IInv /\ DataInv => TypeOK
  BY DEF IInv, FunctionTypes, Places, DataInv, DataTypes, InHand, TypeOK
<1>2. DataInv /\ decoder = "decode" => decoding[1].session = session /\ partial \in {0, session}
  BY DEF DataInv, InHand, OfThisConnection, OnlyOf
<1> QED
  BY <1>1, <1>2, Invariants, PTL DEF OnlyThisConnection

--------------------------------------------------------------------------------
(* The refinement of ByteStream. *)
Bytes == IF _bindedChannel = NoChannel THEN << >> ELSE _rxQueue \o rxBuffer \o arrived[_bindedChannel]

(* A buffer on its way from one sequence to the next leaves the whole as it  *)
(* is; one given away is the first, one received the last.                   *)
LEMMA MovesOn ==
  ASSUME NEW S, NEW q \in Seq(S), NEW r \in Seq(S), r # << >>
  PROVE  q \o << Head(r) >> \o Tail(r) = q \o << >> \o r
<1>1. Tail(r) \in Seq(S) /\ << Head(r) >> \in Seq(S)
  BY HeadTailProperties
<1>2. r = << Head(r) >> \o Tail(r)
  <2>1. Len(r) \in Nat \ {0} /\ Head(r) = r[1]
    BY EmptySeq
  <2>2. SubSeq(r, 1, Len(r)) = << r[1] >> \o SubSeq(r, 2, Len(r))
    BY <2>1, SubSeqRecursiveFirst
  <2> QED
    BY <2>1, <2>2, SubSeqFull, TailIsSubSeq
<1>3. q \o << Head(r) >> \o Tail(r) = q \o (<< Head(r) >> \o Tail(r))
  BY <1>1, ConcatAssociative
<1>4. q \o << >> = q
  BY ConcatEmptySeq
<1> QED
  BY <1>2, <1>3, <1>4

LEMMA GivesFirst ==
  ASSUME NEW S, NEW q \in Seq(S), NEW r \in Seq(S), q # << >>
  PROVE  q \o r # << >> /\ Tail(q \o r) = Tail(q) \o r
<1>1. q \o r \in Seq(S) /\ Len(q \o r) = Len(q) + Len(r) /\ Len(q) > 0
      /\ \A k \in 1 .. Len(q) + Len(r) : (q \o r)[k] = IF k <= Len(q) THEN q[k] ELSE r[k - Len(q)]
  BY ConcatProperties, EmptySeq
<1>2. q \o r # << >>
  BY <1>1
<1>3. Tail(q) \in Seq(S) /\ Len(Tail(q)) = Len(q) - 1 /\ \A k \in 1 .. Len(Tail(q)) : Tail(q)[k] = q[k + 1]
  BY HeadTailProperties
<1>4. Tail(q) \o r \in Seq(S) /\ Len(Tail(q) \o r) = Len(Tail(q)) + Len(r)
      /\ \A k \in 1 .. Len(Tail(q)) + Len(r) : (Tail(q) \o r)[k] = IF k <= Len(Tail(q)) THEN Tail(q)[k] ELSE r[k - Len(Tail(q))]
  BY <1>3, ConcatProperties
<1>5. Tail(q \o r) \in Seq(S) /\ Len(Tail(q \o r)) = Len(q \o r) - 1
      /\ \A k \in 1 .. Len(q \o r) - 1 : Tail(q \o r)[k] = (q \o r)[k + 1]
  BY <1>1, <1>2, HeadTailProperties
<1>6. \A k \in 1 .. Len(q \o r) - 1 : Tail(q \o r)[k] = (Tail(q) \o r)[k]
  BY <1>1, <1>3, <1>4, <1>5
<1> QED
  BY <1>1, <1>2, <1>3, <1>4, <1>5, <1>6, SeqEqual

LEMMA ReceivesLast ==
  ASSUME NEW S, NEW q \in Seq(S), NEW r \in Seq(S), NEW e \in S
  PROVE  /\ q \o Append(r, e) # << >>
         /\ SubSeq(q \o Append(r, e), 1, Len(q \o Append(r, e)) - 1) = q \o r
<1>1. Append(r, e) = r \o << e >> /\ << e >> \in Seq(S) /\ q \o r \in Seq(S)
  BY AppendIsConcat, ConcatProperties
<1>2. q \o Append(r, e) = (q \o r) \o << e >>
  BY <1>1, ConcatAssociative
<1>3. (q \o r) \o << e >> = Append(q \o r, e)
  BY <1>1, AppendIsConcat
<1> DEFINE w == q \o r
<1>4. w \in Seq(S)
  BY <1>1
<1> HIDE DEF w
<1>5. Append(w, e) # << >> /\ Len(Append(w, e)) = Len(w) + 1 /\ \A k \in 1 .. Len(w) : Append(w, e)[k] = w[k]
  BY <1>4, AppendProperties
<1>6. SubSeq(Append(w, e), 1, Len(w)) \in Seq(S) /\ Len(SubSeq(Append(w, e), 1, Len(w))) = Len(w)
      /\ \A k \in 1 .. Len(w) : SubSeq(Append(w, e), 1, Len(w))[k] = w[k]
  BY <1>4, <1>5, SubSeqProperties, ElementOfSeq
<1>7. SubSeq(Append(w, e), 1, Len(w)) = w
  BY <1>4, <1>6, SeqEqual
<1> QED
  BY <1>2, <1>3, <1>4, <1>5, <1>7 DEF w

StreamStep == Stream!Next \/ UNCHANGED << _bindedChannel, Bytes >>

LEMMA RxImplements == IInv /\ DataInv /\ rxThread => StreamStep
<1> SUFFICES ASSUME IInv, DataInv, rxThread PROVE UNCHANGED << _bindedChannel, Bytes >>
  BY DEF StreamStep
<1> USE DEF Bytes, RxGoto, RxRest
<1>1. CASE RxTest \/ RxSeesData \/ RxTimesOut \/ RxFails
  BY <1>1 DEF RxTest, RxSeesData, RxTimesOut, RxFails
<1>2. CASE RxReads
  <2>1. _bindedChannel \in Channels /\ arrived[_bindedChannel] # << >> /\ rxBuffer = << >>
        /\ _rxQueue \in Seq(Buffer) /\ arrived[_bindedChannel] \in Seq(Buffer)
    BY <1>2 DEF RxReads, IInv, BoundIsOpen, Busy, DataInv, DataTypes, InHand
  <2>2. _rxQueue \o rxBuffer' \o arrived'[_bindedChannel] = _rxQueue \o rxBuffer \o arrived[_bindedChannel]
    BY <1>2, <2>1, MovesOn DEF RxReads, DataInv, DataTypes
  <2> QED
    BY <1>2, <2>2 DEF RxReads
<1>3. CASE RxPushes
  <2>1. _rxQueue \o rxBuffer \in Seq(Buffer)
    BY ConcatProperties DEF DataInv, DataTypes
  <2>2. _rxQueue' \o rxBuffer' = _rxQueue \o rxBuffer
    BY <1>3, <2>1, ConcatEmptySeq DEF RxPushes
  <2> QED
    BY <1>3, <2>2 DEF RxPushes
<1> QED
  BY <1>1, <1>2, <1>3 DEF rxThread
LEMMA DecoderImplements == IInv /\ DataInv /\ (decoderThread \/ DecTimesOut) => StreamStep
<1> SUFFICES ASSUME IInv, DataInv, decoderThread \/ DecTimesOut PROVE StreamStep
  OBVIOUS
<1> USE DEF StreamStep, Bytes, DecGoto, DecRest, channelVars
<1>1. CASE DecReset \/ DecTest \/ DecFindsNothing \/ DecWaits \/ DecWakes \/ DecTimesOut \/ DecDecodes
  BY <1>1 DEF DecReset, DecTest, DecFindsNothing, DecWaits, DecWakes, DecTimesOut, DecDecodes
<1>2. CASE DecTakes
  <2>1. _bindedChannel \in Channels /\ _bindedChannel # NoChannel
    BY <1>2, ChannelsAssumption DEF DecTakes, IInv, BoundIsOpen, Busy, DataInv, DataTypes
  <2> DEFINE later == rxBuffer \o arrived[_bindedChannel]
  <2>2. later \in Seq(Buffer) /\ _rxQueue \in Seq(Buffer) /\ Tail(_rxQueue) \in Seq(Buffer)
    BY <1>2, <2>1, ConcatProperties, HeadTailProperties DEF DecTakes, DataInv, DataTypes
  <2>3. _rxQueue \o rxBuffer \o arrived[_bindedChannel] = _rxQueue \o later
    BY <2>1, <2>2, ConcatAssociative DEF DataInv, DataTypes
  <2>4. Tail(_rxQueue) \o rxBuffer \o arrived[_bindedChannel] = Tail(_rxQueue) \o later
    BY <2>1, <2>2, ConcatAssociative DEF DataInv, DataTypes
  <2> HIDE DEF later
  <2>5. Bytes = _rxQueue \o later /\ Bytes' = Tail(_rxQueue) \o later
    BY <1>2, <2>1, <2>3, <2>4 DEF DecTakes
  <2>6. _rxQueue \o later # << >> /\ Tail(_rxQueue \o later) = Tail(_rxQueue) \o later
    BY <1>2, <2>2, GivesFirst DEF DecTakes
  <2>7. Stream!Give
    BY <1>2, <2>1, <2>5, <2>6 DEF DecTakes, Stream!Give
  <2> QED
    BY <2>7 DEF Stream!Next
<1> QED
  BY <1>1, <1>2 DEF decoderThread

LEMMA LidarImplements == ASSUME DataInv, NEW c \in Channels, LidarSends(c) PROVE StreamStep
<1> USE DEF StreamStep, Bytes, LidarSends, boundVars, threadVars
<1>1. CASE c # _bindedChannel
  BY <1>1 DEF DataInv, DataTypes
<1>2. CASE c = _bindedChannel
  <2>1. PICK n \in {0, 1} : arrived' = [arrived EXCEPT ![c] = Append(@, [session |-> session, number |-> n])]
    OBVIOUS
  <2> DEFINE new == [session |-> session, number |-> n]
             before == _rxQueue \o rxBuffer
  <2>2. new \in Buffer /\ arrived[c] \in Seq(Buffer) /\ arrived'[c] = Append(arrived[c], new)
    BY <2>1 DEF DataInv, DataTypes, Buffer
  <2>3. before \in Seq(Buffer)
    BY ConcatProperties DEF DataInv, DataTypes
  <2>4. c # NoChannel
    BY ChannelsAssumption
  <2>5. Bytes = before \o arrived[c] /\ Bytes' = before \o arrived'[c] /\ UNCHANGED _bindedChannel
    BY <1>2, <2>4
  <2> HIDE DEF new, before
  <2>6. LET all == before \o arrived'[c]
        IN all # << >> /\ SubSeq(all, 1, Len(all) - 1) = before \o arrived[c]
    <3>1. LET all == before \o Append(arrived[c], new)
          IN all # << >> /\ SubSeq(all, 1, Len(all) - 1) = before \o arrived[c]
      <4>1. \A q, r \in Seq(Buffer), e \in Buffer :
              LET all == q \o Append(r, e)
              IN all # << >> /\ SubSeq(all, 1, Len(all) - 1) = q \o r
        BY ReceivesLast
      <4> QED
        BY <2>2, <2>3, <4>1, Zenon
    <3> QED
      BY <2>2, <3>1, Zenon
  <2>7. Stream!Receive
    BY <1>2, <2>4, <2>5, <2>6 DEF Stream!Receive, Stream!Front
  <2> QED
    BY <2>7 DEF Stream!Next
<1> QED
  BY <1>1, <1>2

LEMMA CallImplements == ASSUME NEW a \in Callers, Call(a) PROVE StreamStep
BY DEF Call, Connect, Disconnect, Request, StreamStep, Bytes, boundVars, threadVars, channelVars

LEMMA ContinuesImplements == ASSUME IInv, DataInv, NEW a \in Callers, Continues(a) PROVE StreamStep
<1> USE DEF StreamStep, Bytes, Goto, boundVars, threadVars, channelVars
<1>1. CASE UnbindNothing(a) \/ UnbindStops(a) \/ UnbindSignals(a) \/ JoinDecoder(a) \/ JoinRx(a)
             \/ CloseChannel(a) \/ OpenFails(a) \/ OpenSucceeds(a) \/ AsksDevice(a)
             \/ SendRefused(a) \/ SendAccepted(a) \/ Write(a)
  BY <1>1 DEF UnbindNothing, UnbindStops, UnbindSignals, JoinDecoder, JoinRx, CloseChannel, OpenFails,
              OpenSucceeds, AsksDevice, SendRefused, SendAccepted, Write
<1>2. CASE Forget(a)
  BY <1>2 DEF Forget, Stream!Next, Stream!Close
<1>3. CASE Flush(a) \/ Bind(a)
  <2>1. \A b \in Callers : b # a => op[b] = "idle"
    BY <1>3, OthersAreIdle DEF Flush, Bind
  <2>2. _bindedChannel = NoChannel /\ channel[a] \in Channels
    BY <1>3, <2>1 DEF Flush, Bind, IInv, StoppedInOrder, SureOf, Alone, Busy, DataInv, Emptied, Releasing,
                      Unbinding, Connecting
  <2>3. CASE Flush(a)
    BY <2>2, <2>3 DEF Flush
  <2>4. CASE Bind(a)
    BY <2>2, <2>4, ChannelsAssumption DEF Bind, Stream!Next, Stream!Open
  <2> QED
    BY <1>3, <2>3, <2>4
<1> QED
  BY <1>1, <1>2, <1>3 DEF Continues

LEMMA StepImplements == IInv /\ DataInv /\ [Next]_vars => [Stream!Next]_Stream!streamVars
<1> SUFFICES ASSUME IInv, DataInv, [Next]_vars PROVE StreamStep
  BY DEF StreamStep, Bytes, Stream!streamVars
<1>1. CASE CallRefused \/ UNCHANGED vars
  BY <1>1 DEF CallRefused, vars, boundVars, threadVars, channelVars, StreamStep, Bytes
<1> QED
  BY <1>1, RxImplements, DecoderImplements, LidarImplements, CallImplements, ContinuesImplements DEF Next

(* The two threads and the queue between them give the codec what came over  *)
(* the channel, all of it and in order, and nothing after the connection was *)
(* closed: the transceiver implements ByteStream.                            *)
THEOREM StreamPromiseKept == Spec => KeepsStreamPromise
<1>1. Init => Stream!Init
  BY DEF Init, Stream!Init
<1> QED
  BY <1>1, StepImplements, Invariants, PTL DEF Spec, Stream!Spec, KeepsStreamPromise
================================================================================
