------------------------------ MODULE LidarCommand ------------------------------
(***************************************************************************)
(* Requests to the lidar and their answers: the driver's calls               *)
(* (sl_lidar_driver.cpp), the codec that finds messages in the bytes         *)
(* (sl_lidarprotocol_codec.cpp), and what the decoder thread does with a     *)
(* message: the unpacker takes samples while it is enabled                   *)
(* (dataunpacker.cpp), an answer of the type that is waited for wakes the    *)
(* caller.                                                                   *)
(*                                                                           *)
(* The driver's lock admits one caller.  A call is known by its number and   *)
(* its key: "scan", or what is asked for.  A byte is known by its place in   *)
(* the lidar's frame; where the codec takes a byte for what it is not, every *)
(* value it may have is a choice.                                            *)
(***************************************************************************)
EXTENDS Naturals, Sequences

CONSTANTS Keys,        \* what requests ask for
          ConfKeys,    \* those asked with GET_LIDAR_CONF, whose answers tell the key
          ScanAsks,    \* what startScan asks for before it sends SCAN
          MaxCalls,    \* bound: requests and scans
          MaxRequests, \* bound: calls before the last request of its own
          MaxHeard     \* bound: commands the lidar has not looked at

(* startScan asks something in every mode: checkSupportConfigCommands does.  *)
ASSUME KeysAssumption == ConfKeys \subseteq Keys /\ {"scan", "unknown"} \cap Keys = {}
ASSUME ScanAsksAssumption == ScanAsks \in Seq(Keys) \ {<< >>}
ASSUME BoundsAssumption ==
  {MaxCalls, MaxRequests, MaxHeard} \subseteq Nat \ {0} /\ MaxRequests <= MaxCalls

VARIABLES calls, timedOut,                 \* history: keys of the calls; a request timed out
          app, plan,                       \* where the caller is; what its call has left to ask
          _waiting_packet_type, _response_waiter, _lastAnsPkt, ansPkt,
          _enabled, scan, inHand,          \* the unpacker; history: the call it is enabled for,
                                           \* the decoder had a message at that time
          codec,                           \* the decoder of bytes
          decoder, message,                \* the decoder thread, the message in its hand
          heard, scanning, line, place     \* the lidar: commands, the scan it makes, frames
                                           \* it sends and the byte of the first that is next

appVars == << calls, timedOut, app, plan, ansPkt >>
sharedVars == << _waiting_packet_type, _response_waiter, _lastAnsPkt, _enabled, scan, inHand >>
decoderVars == << codec, decoder, message >>
lidarVars == << heard, scanning, line, place >>
vars == << appVars, sharedVars, decoderVars, lidarVars >>

Call == 1 .. MaxCalls
Last == Len(calls)
TypeOf(key) == IF key \in ConfKeys THEN "conf" ELSE key
Types == {TypeOf(key) : key \in Keys} \cup {"scan"}

HeaderSize == 4                      \* sync, sync, size with its flag, type
Size(key) == IF key = "scan" THEN 2 ELSE 1

(* What the codec makes: from is the call all its bytes answer, or 0.        *)
Message == [cmd : Types \cup {"unknown"}, size : 0 .. 2, from : 0 .. MaxCalls, during : 0 .. MaxCalls]
NoMessage == [cmd |-> "unknown", size |-> 0, from |-> 0, during |-> 0]

Codec == [state : {"sync1", "sync2", "size", "type", "payload"}, _rx_pos : 0 .. 2,
          cmd : Types \cup {"unknown"}, size : 0 .. 2, loop : BOOLEAN, from : 0 .. MaxCalls]
CodecReset == [state |-> "sync1", _rx_pos |-> 0, cmd |-> "unknown", size |-> 0, loop |-> FALSE, from |-> 0]

TypeOK ==
  /\ calls \in Seq(Keys \cup {"scan"}) /\ Len(calls) <= MaxCalls
  /\ {timedOut, _response_waiter, _enabled, inHand} \subseteq BOOLEAN
  /\ app \in {"idle", "disable", "reset", "stop", "again", "next", "arm", "send", "wait", "take",
              "check", "enable", "scan"}
  /\ plan \in Seq(Keys \cup {"scan"})
  /\ _waiting_packet_type \in Types \cup {"unknown"}
  /\ {_lastAnsPkt, ansPkt, message} \subseteq Message
  /\ codec \in Codec /\ (codec.state = "payload" => codec._rx_pos < codec.size)
  /\ decoder \in {"idle", "listener", "unpacker", "handler", "compare", "deliver"}
  /\ heard \in Seq(Call \cup {0}) /\ line \in Seq(Call)
  /\ {scan, scanning} \subseteq 0 .. MaxCalls /\ place \in 1 .. HeaderSize + 2

Init ==
  /\ calls = << >> /\ timedOut = FALSE
  /\ app = "idle" /\ plan = << >> /\ ansPkt = NoMessage
  /\ _waiting_packet_type = "unknown" /\ _response_waiter = FALSE /\ _lastAnsPkt = NoMessage
  /\ _enabled = FALSE /\ scan = 0 /\ inHand = FALSE
  /\ codec = CodecReset /\ decoder = "idle" /\ message = NoMessage
  /\ heard = << >> /\ scanning = 0 /\ line = << >> /\ place = 1

AppGoto(from, to) == app = from /\ app' = to
DecGoto(from, to) == decoder = from /\ decoder' = to

(* Mutant: the callback is made with the codec's lock held.                  *)
UnderCodecLock_callback == {"listener", "unpacker", "handler", "compare", "deliver"}

(* Where the decoder thread holds _op_locker of the codec between two steps: *)
(* it takes it to decode bytes and has released it when it calls back.       *)
UnderCodecLock == {}

(* Where the caller holds _data_locker. *)
UnderDataLock == {"arm"}

(* A message that was decoded and not copied yet loses its data.             *)
onDecodeReset ==
  /\ decoder \notin UnderCodecLock
  /\ codec' = CodecReset
  /\ message' = IF decoder = "listener" THEN [message EXCEPT !.size = 0, !.from = 0] ELSE message

Send(command) == heard' = Append(heard, command)

--------------------------------------------------------------------------------
(* The caller: a request, a stop or the start of a scan. *)
Request(key) ==
  /\ Last < MaxRequests /\ AppGoto("idle", "next")
  /\ plan' = << key >>
  /\ UNCHANGED << calls, timedOut, ansPkt, sharedVars, decoderVars, lidarVars >>

Stop ==
  /\ AppGoto("idle", "disable")
  /\ plan' = << >>
  /\ UNCHANGED << calls, timedOut, ansPkt, sharedVars, decoderVars, lidarVars >>

(* Mutant: nothing is asked before the scan is started.                      *)
startScan_asks_nothing ==
  /\ Last + Len(ScanAsks) < MaxCalls /\ AppGoto("idle", "disable")
  /\ plan' = << "scan" >>
  /\ UNCHANGED << calls, timedOut, ansPkt, sharedVars, decoderVars, lidarVars >>

startScan ==
  /\ Last + Len(ScanAsks) < MaxCalls /\ AppGoto("idle", "disable")
  /\ plan' = Append(ScanAsks, "scan")
  /\ UNCHANGED << calls, timedOut, ansPkt, sharedVars, decoderVars, lidarVars >>

(* stop: _sendCommandWithoutResponse(STOP), then _disableDataGrabbing again. *)
StopDisables ==
  /\ AppGoto("disable", "reset")
  /\ _enabled' = FALSE
  /\ UNCHANGED << calls, timedOut, plan, ansPkt, _waiting_packet_type, _response_waiter, _lastAnsPkt,
                  scan, inHand, decoderVars, lidarVars >>

StopResets ==
  /\ AppGoto("reset", "stop")
  /\ onDecodeReset /\ _response_waiter' = FALSE
  /\ UNCHANGED << calls, timedOut, plan, ansPkt, _waiting_packet_type, _lastAnsPkt, _enabled, scan,
                  inHand, decoder, lidarVars >>

(* startScan does not look at whether the lidar got the STOP. *)
StopSends ==
  /\ AppGoto("stop", "again") /\ Len(heard) < MaxHeard
  /\ Send(0) \/ UNCHANGED heard
  /\ UNCHANGED << calls, timedOut, plan, ansPkt, sharedVars, decoderVars, scanning, line, place >>

StopDisablesAgain ==
  /\ AppGoto("again", IF plan = << >> THEN "idle" ELSE "next")
  /\ onDecodeReset
  /\ UNCHANGED << calls, timedOut, plan, ansPkt, sharedVars, decoder, lidarVars >>

(* _sendCommandWithResponse. *)
LocksData ==
  /\ plan # << >> /\ Head(plan) # "scan" /\ AppGoto("next", "arm")
  /\ calls' = Append(calls, Head(plan))
  /\ _enabled' = FALSE
  /\ UNCHANGED << timedOut, plan, ansPkt, _waiting_packet_type, _response_waiter, _lastAnsPkt, scan,
                  inHand, decoderVars, lidarVars >>

(* Mutant: the waiter keeps the event of an earlier answer.                  *)
Arms_event_left_set ==
  /\ AppGoto("arm", "send")
  /\ onDecodeReset
  /\ _waiting_packet_type' = TypeOf(calls[Last])
  /\ UNCHANGED << calls, timedOut, plan, ansPkt, _response_waiter, _lastAnsPkt, _enabled, scan, inHand,
                  decoder, lidarVars >>

Arms ==
  /\ AppGoto("arm", "send")
  /\ onDecodeReset
  /\ _waiting_packet_type' = TypeOf(calls[Last]) /\ _response_waiter' = FALSE
  /\ UNCHANGED << calls, timedOut, plan, ansPkt, _lastAnsPkt, _enabled, scan, inHand, decoder, lidarVars >>

Sends ==
  /\ AppGoto("send", "wait") /\ Len(heard) < MaxHeard
  /\ Send(Last)
  /\ UNCHANGED << calls, timedOut, plan, ansPkt, sharedVars, decoderVars, scanning, line, place >>

(* A request that cannot be sent or is not answered ends the call. *)
SendFails ==
  /\ AppGoto("send", "idle")
  /\ plan' = << >>
  /\ UNCHANGED << calls, timedOut, ansPkt, sharedVars, decoderVars, lidarVars >>

TimesOut ==
  /\ AppGoto("wait", "idle")
  /\ timedOut' = TRUE /\ plan' = << >>
  /\ UNCHANGED << calls, ansPkt, sharedVars, decoderVars, lidarVars >>

Wakes ==
  /\ _response_waiter /\ AppGoto("wait", "take")
  /\ _response_waiter' = FALSE
  /\ UNCHANGED << calls, timedOut, plan, ansPkt, _waiting_packet_type, _lastAnsPkt, _enabled, scan,
                  inHand, decoderVars, lidarVars >>

Takes ==
  /\ AppGoto("take", "check")
  /\ ansPkt' = _lastAnsPkt
  /\ UNCHANGED << calls, timedOut, plan, sharedVars, decoderVars, lidarVars >>

(* Mutant: the key of a GET_LIDAR_CONF answer is not compared.               *)
Accepts_any_key == ansPkt.size > 0

(* The checks of getDeviceInfo, getHealth and getLidarConf: the size; and    *)
(* for getLidarConf the key the answer tells, which is of the answer's call. *)
(* An answer of another type may have the size, but no such key.             *)
Accepts ==
  /\ ansPkt.size > 0
  /\ calls[Last] \in ConfKeys => ansPkt.from > 0 /\ calls[ansPkt.from] = calls[Last]

Checks ==
  /\ AppGoto("check", IF Accepts /\ Len(plan) > 1 THEN "next" ELSE "idle")
  /\ plan' = IF Accepts THEN Tail(plan) ELSE << >>
  /\ ansPkt' = NoMessage
  /\ UNCHANGED << calls, timedOut, sharedVars, decoderVars, lidarVars >>

(* enable and SCAN, sent with noForceStop. *)
Enables ==
  /\ plan = << "scan" >> /\ AppGoto("next", "scan")
  /\ calls' = Append(calls, "scan")
  /\ _enabled' = TRUE /\ scan' = Last + 1 /\ inHand' = (decoder # "idle")
  /\ UNCHANGED << timedOut, plan, ansPkt, _waiting_packet_type, _response_waiter, _lastAnsPkt,
                  decoderVars, lidarVars >>

SendsScan ==
  /\ AppGoto("scan", "idle") /\ Len(heard) < MaxHeard
  /\ Send(Last) /\ _response_waiter' = FALSE
  /\ UNCHANGED << calls, timedOut, plan, ansPkt, _waiting_packet_type, _lastAnsPkt, _enabled, scan,
                  inHand, decoderVars, scanning, line, place >>

Calls == (\E key \in Keys : Request(key)) \/ Stop \/ startScan

Caller ==
  \/ StopDisables \/ StopResets \/ StopSends \/ StopDisablesAgain
  \/ LocksData \/ Arms \/ Sends \/ SendFails \/ TimesOut \/ Wakes \/ Takes \/ Checks
  \/ Enables \/ SendsScan

--------------------------------------------------------------------------------
(* onDecodeData, byte by byte.  Part is what the lidar sent, or "any" where  *)
(* the codec does not know the byte's meaning.                               *)
Part == IF place <= HeaderSize THEN << "sync1", "sync2", "size", "type" >>[place] ELSE "payload"
MayBe(sync) == Part = sync \/ Part \notin {"sync1", "sync2"}
MayDiffer(sync) == Part # sync

WaitsSync1 ==
  /\ codec.state = "sync1" /\ decoder' = "idle" /\ UNCHANGED message
  /\ \/ MayBe("sync1") /\ codec' = [codec EXCEPT !.state = "sync2"]
     \/ MayDiffer("sync1") /\ UNCHANGED codec

WaitsSync2 ==
  /\ codec.state = "sync2" /\ decoder' = "idle" /\ UNCHANGED message
  /\ \/ MayBe("sync2") /\ codec' = [codec EXCEPT !.state = "size", !._rx_pos = 0]
     \/ MayDiffer("sync2") /\ codec' = [codec EXCEPT !.state = "sync1"]

WaitsSize ==
  /\ codec.state = "size" /\ decoder' = "idle" /\ UNCHANGED message
  /\ \E size \in 0 .. 2, loop \in BOOLEAN :
       /\ Part = "size" => size = Size(calls[line[1]]) /\ loop = (calls[line[1]] = "scan")
       /\ codec' = [codec EXCEPT !.state = "type", !.size = size, !.loop = loop, !._rx_pos = 0]

(* Mutant: a message without payload is waited for.                          *)
WaitsType_empty_payload ==
  /\ codec.state = "type" /\ decoder' = "idle" /\ UNCHANGED message
  /\ codec' = [codec EXCEPT !.cmd = IF Part = "type" THEN TypeOf(calls[line[1]]) ELSE "unknown",
                            !.state = "payload"]

(* A type that was not sent as one is taken to be one nobody waits for.      *)
WaitsType ==
  /\ codec.state = "type" /\ decoder' = "idle" /\ UNCHANGED message
  /\ codec' = [codec EXCEPT !.cmd = IF Part = "type" THEN TypeOf(calls[line[1]]) ELSE "unknown",
                            !.state = IF codec.size = 0 THEN "sync1" ELSE "payload"]

FromNow ==
  LET byte == IF Part = "payload" THEN line[1] ELSE 0
  IN IF codec._rx_pos = 0 \/ codec.from = byte THEN byte ELSE 0

ReceivesPayload ==
  /\ codec.state = "payload" /\ codec._rx_pos + 1 < codec.size
  /\ decoder' = "idle" /\ UNCHANGED message
  /\ codec' = [codec EXCEPT !._rx_pos = @ + 1, !.from = FromNow]

(* A loop goes on with the next payload; the listener is called unlocked.    *)
CompletesMessage ==
  /\ codec.state = "payload" /\ codec._rx_pos + 1 = codec.size
  /\ decoder' = "listener"
  /\ message' = [cmd |-> codec.cmd, size |-> codec.size, from |-> FromNow, during |-> 0]
  /\ codec' = [codec EXCEPT !._rx_pos = 0, !.from = FromNow,
                            !.state = IF codec.loop THEN "payload" ELSE "sync1"]

(* The byte the lidar sends next: a scan goes on with its payload until it   *)
(* is stopped or something else is to be sent.                               *)
Emitted ==
  LET key == calls[line[1]]
      again == key = "scan" /\ scanning = line[1] /\ Len(line) = 1
  IN IF place < HeaderSize + Size(key) THEN place' = place + 1 /\ UNCHANGED line
     ELSE IF again THEN place' = HeaderSize + 1 /\ UNCHANGED line
     ELSE place' = 1 /\ line' = Tail(line)

onDecodeData ==
  /\ decoder = "idle" /\ line # << >>
  /\ WaitsSync1 \/ WaitsSync2 \/ WaitsSize \/ WaitsType \/ ReceivesPayload \/ CompletesMessage
  /\ Emitted
  /\ UNCHANGED << appVars, sharedVars, heard, scanning >>

--------------------------------------------------------------------------------
(* onProtocolMessageDecoded: the message is copied, then offered to the      *)
(* unpacker, then compared with what is waited for.                          *)
DecRest == << appVars, _waiting_packet_type, codec, lidarVars >>

Copies ==
  /\ DecGoto("listener", "unpacker")
  /\ UNCHANGED << DecRest, _response_waiter, _lastAnsPkt, _enabled, scan, inHand, message >>

onSampleData ==
  /\ DecGoto("unpacker", IF _enabled /\ message.cmd = "scan" THEN "handler" ELSE "compare")
  /\ UNCHANGED << DecRest, _response_waiter, _lastAnsPkt, _enabled, scan, inHand, message >>

(* The handler of the type unpacks the samples, whatever happened to the     *)
(* unpacker since it looked at _enabled.                                     *)
onData ==
  /\ DecGoto("handler", "idle")
  /\ message' = NoMessage /\ inHand' = FALSE
  /\ UNCHANGED << DecRest, _response_waiter, _lastAnsPkt, _enabled, scan >>

(* Mutant: the type is not compared.                                         *)
ComparesType_not ==
  /\ DecGoto("compare", "deliver")
  /\ UNCHANGED << DecRest, _response_waiter, _lastAnsPkt, _enabled, scan, inHand, message >>

(* The type is compared without _data_locker. *)
ComparesType ==
  /\ \/ message.cmd = _waiting_packet_type /\ DecGoto("compare", "deliver") /\ UNCHANGED << inHand, message >>
     \/ message.cmd # _waiting_packet_type /\ DecGoto("compare", "idle")
          /\ message' = NoMessage /\ inHand' = FALSE
  /\ UNCHANGED << DecRest, _response_waiter, _lastAnsPkt, _enabled, scan >>

Delivers ==
  /\ DecGoto("deliver", "idle") /\ app \notin UnderDataLock
  /\ _lastAnsPkt' = [message EXCEPT !.during = Last] /\ _response_waiter' = TRUE
  /\ message' = NoMessage /\ inHand' = FALSE
  /\ UNCHANGED << DecRest, _enabled, scan >>

decoderThread == onDecodeData \/ Copies \/ onSampleData \/ onData \/ ComparesType \/ Delivers

--------------------------------------------------------------------------------
(* The lidar takes commands in order.  It answers a request, which ends the  *)
(* scan it makes, or ignores it.                                             *)
LidarRest == << appVars, sharedVars, decoderVars, place >>

LidarAnswers ==
  /\ heard # << >> /\ Head(heard) # 0 /\ calls[Head(heard)] # "scan"
  /\ heard' = Tail(heard) /\ line' = Append(line, Head(heard)) /\ scanning' = 0
  /\ UNCHANGED LidarRest

LidarIgnores ==
  /\ heard # << >> /\ Head(heard) # 0 /\ heard' = Tail(heard)
  /\ UNCHANGED << LidarRest, scanning, line >>

LidarStops ==
  /\ heard # << >> /\ Head(heard) = 0
  /\ heard' = Tail(heard) /\ scanning' = 0
  /\ UNCHANGED << LidarRest, line >>

LidarScans ==
  /\ heard # << >> /\ Head(heard) # 0 /\ calls[Head(heard)] = "scan"
  /\ heard' = Tail(heard) /\ line' = Append(line, Head(heard)) /\ scanning' = Head(heard)
  /\ UNCHANGED LidarRest

Lidar == LidarAnswers \/ LidarIgnores \/ LidarStops \/ LidarScans

Next == Calls \/ Caller \/ decoderThread \/ Lidar

Spec == Init /\ [][Next]_vars

(* Both threads run, and the lidar takes what it is sent. *)
FairSpec == Spec /\ WF_vars(Caller) /\ WF_vars(decoderThread) /\ WF_vars(Lidar)

--------------------------------------------------------------------------------
(* An answer is taken by the request during which it was decoded, once: no   *)
(* request wakes for what an earlier one left behind.  One that is accepted  *)
(* is that of this request, as long as no request timed out; and after a     *)
(* timeout it still answers what was asked, if that was asked with           *)
(* GET_LIDAR_CONF.                                                           *)
AnswerIsOwn ==
  /\ TypeOK
  /\ app = "check" =>
       /\ ansPkt.during = Last
       /\ Accepts => /\ ansPkt.from = Last \/ timedOut
                     /\ calls[Last] \in ConfKeys => ansPkt.cmd = "conf" /\ calls[ansPkt.from] = calls[Last]

(* Samples are unpacked for the scan they belong to: after a restart the     *)
(* only one that may be of the scan before is that which the decoder had in  *)
(* its hand when the unpacker was enabled; a scan is not started after a     *)
(* request timed out unless a later one was answered.                        *)
SamplesAreOfThisScan ==
  decoder = "handler" /\ _enabled /\ ~inHand /\ ~timedOut => message.from \in {0, scan}

(* Every call of the driver returns: the caller and the decoder never wait   *)
(* for each other's locks.                                                   *)
CallReturns == app # "idle" ~> app = "idle"
================================================================================
