--------------------------- MODULE LidarCommand_proofs ---------------------------
(***************************************************************************)
(* What the caller of a request is answered, and what the unpacker is given, *)
(* for any keys and any number of calls and commands.                        *)
(***************************************************************************)
EXTENDS LidarCommand, SequenceTheorems, TLAPS

Requesting == {"arm", "send", "wait", "take", "check"}
Stopping == {"disable", "reset", "stop", "again"}

(* Calls fit within their bound, the plan begins with the call that is made, *)
(* and what the lidar was told or answers was called.                       *)
PlanFits ==
  /\ app \in Stopping \cup {"next"} => Len(calls) + Len(plan) <= MaxCalls
  /\ app \in Requesting => /\ plan # << >> /\ Len(calls) + Len(plan) <= MaxCalls + 1
                           /\ calls # << >> /\ calls[Last] \in Keys
  /\ app \in Stopping => plan # << "scan" >>
  /\ app = "scan" => calls # << >> /\ calls[Last] = "scan"

FlowIsKnown ==
  /\ \A k \in 1 .. Len(heard) : heard[k] <= Last
  /\ \A k \in 1 .. Len(line) : line[k] <= Last
  /\ line = << >> => place = 1
  /\ codec.state = "type" => codec._rx_pos = 0

WellFormed == TypeOK /\ PlanFits /\ FlowIsKnown

(* Where the codec has found the type of an answer it is in step with the   *)
(* lidar.                                                                   *)
NotAnswer == {"unknown", "scan"}

CodecInStep ==
  /\ codec.state = "type" /\ place = HeaderSize =>
       codec.size = Size(calls[line[1]]) /\ codec.loop = (calls[line[1]] = "scan")
  /\ codec.state = "payload" /\ codec.cmd \notin NotAnswer =>
       /\ line # << >> /\ place = HeaderSize + 1
       /\ calls[line[1]] # "scan" /\ codec.cmd = TypeOf(calls[line[1]])
       /\ codec.size = 1 /\ ~codec.loop /\ codec._rx_pos = 0

(* A message of a type that is waited for is the answer to a request of that *)
(* type, or has lost its data.                                              *)
AnswersOne(m, called) ==
  /\ m.cmd \notin NotAnswer
  /\ m.size > 0 => /\ m.from \in 1 .. Len(called)
                   /\ called[m.from] # "scan" /\ m.cmd = TypeOf(called[m.from])

Answers(m) == AnswersOne(m, calls)

MessagesAnswer ==
  /\ decoder # "idle" => message.cmd \in NotAnswer \/ Answers(message)
  /\ decoder = "deliver" => Answers(message)
  /\ _response_waiter \/ app = "take" => Answers(_lastAnsPkt)
  /\ app = "check" => Answers(ansPkt)

(* Nothing comes before the first request.                                  *)
NothingBeforeRequest ==
  /\ _waiting_packet_type # "scan"
  /\ _waiting_packet_type = "unknown" =>
       /\ line = << >> /\ decoder = "idle" /\ \A k \in 1 .. Len(heard) : heard[k] = 0
       /\ app \in Stopping \cup {"idle", "next", "arm"} /\ (app = "next" => plan # << "scan" >>)

(* An answer that wakes the caller was decoded during its call.             *)
AnswerIsRecent ==
  /\ (app \in {"send", "wait"} /\ _response_waiter) \/ app = "take" => _lastAnsPkt.during = Last
  /\ app = "check" => ansPkt.during = Last

(* The answer to a request: nowhere, or in one place, before which there are *)
(* only scans and stops, while its caller waits for it.                     *)
Asks(call) == call # 0 /\ calls[call] # "scan"

NotAsked(flow, n) == \A k \in 1 .. n : ~ Asks(flow[k])
AskedLast(flow) == flow # << >> /\ flow[Len(flow)] = Last /\ NotAsked(flow, Len(flow) - 1)
NotHeld == decoder = "idle" \/ message.cmd \in NotAnswer

Nowhere == NotAsked(heard, Len(heard)) /\ NotAsked(line, Len(line)) /\ NotHeld
InHeard == AskedLast(heard) /\ NotAsked(line, Len(line)) /\ NotHeld
InLine == heard = << >> /\ AskedLast(line) /\ NotHeld
AllTaken == heard = << >> /\ line = << >> /\ codec.state = "sync1"
InMessage == AllTaken /\ decoder # "idle" /\ message.cmd \notin NotAnswer /\ message.from = Last

NoneIsLate ==
  ~timedOut =>
    /\ Nowhere \/ (app = "wait" /\ ~_response_waiter /\ (InHeard \/ InLine \/ InMessage))
    /\ app = "send" => ~_response_waiter
    /\ app = "wait" /\ _response_waiter => AllTaken /\ _lastAnsPkt.from = Last
    /\ app = "take" => AllTaken /\ _lastAnsPkt.from = Last
    /\ app = "check" => AllTaken /\ ansPkt.from = Last
    /\ app = "next" /\ plan = << "scan" >> => AllTaken

(* While the unpacker is enabled all that comes is of its scan.             *)
OfScan(call) == call \in {0, scan}

EnabledForScan ==
  /\ _enabled => app \in {"idle", "disable", "next", "scan"} /\ (app = "next" => plan # << "scan" >>)
  /\ app = "scan" => scan = Last
  /\ _enabled /\ ~timedOut =>
       /\ \A k \in 1 .. Len(heard) : heard[k] = scan
       /\ \A k \in 1 .. Len(line) : line[k] = scan
       /\ codec.state = "payload" /\ codec._rx_pos > 0 => OfScan(codec.from)
       /\ decoder # "idle" /\ ~inHand => OfScan(message.from)

IInv == /\ WellFormed /\ CodecInStep /\ MessagesAnswer /\ NothingBeforeRequest
        /\ AnswerIsRecent /\ NoneIsLate /\ EnabledForScan
--------------------------------------------------------------------------------
(* Types of requests, and what well-formed means for the frame that is sent. *)

LEMMA TypeOfKey ==
  ASSUME NEW key \in Keys \cup {"scan"}
  PROVE  /\ TypeOf(key) \in Types /\ TypeOf(key) # "unknown"
         /\ (TypeOf(key) = "scan") = (key = "scan")
         /\ Size(key) \in {1, 2} /\ (key # "scan" => Size(key) = 1)
<1>1. TypeOf(key) = IF key \in ConfKeys THEN "conf" ELSE key
  BY DEF TypeOf
<1>2. "scan" \notin ConfKeys /\ "scan" \notin Keys /\ "unknown" \notin Keys /\ ConfKeys \subseteq Keys
  BY KeysAssumption
<1>3. CASE key = "scan"
  BY <1>1, <1>2, <1>3 DEF Types, Size
<1>4. CASE key # "scan"
  <2>1. key \in Keys
    BY <1>4
  <2>2. TypeOf(key) \in Types
    BY <2>1 DEF Types
  <2>3. TypeOf(key) # "unknown" /\ TypeOf(key) # "scan"
    BY <1>1, <1>2, <2>1
  <2> QED
    BY <1>4, <2>2, <2>3 DEF Size
<1> QED
  BY <1>3, <1>4

LEMMA WellFormedFacts ==
  ASSUME WellFormed
  PROVE  /\ calls \in Seq(Keys \cup {"scan"}) /\ Last \in Nat /\ Last <= MaxCalls /\ MaxCalls \in Nat
         /\ \A i \in 1 .. Last : calls[i] \in Keys \cup {"scan"}
         /\ plan \in Seq(Keys \cup {"scan"}) /\ Len(plan) \in Nat
         /\ heard \in Seq(Call \cup {0}) /\ line \in Seq(Call) /\ Len(heard) \in Nat /\ Len(line) \in Nat
         /\ place \in 1 .. 6 /\ HeaderSize = 4
         /\ codec \in Codec /\ message \in Message /\ _lastAnsPkt \in Message /\ ansPkt \in Message
<1>1. /\ calls \in Seq(Keys \cup {"scan"}) /\ Last <= MaxCalls /\ plan \in Seq(Keys \cup {"scan"})
      /\ heard \in Seq(Call \cup {0}) /\ line \in Seq(Call) /\ place \in 1 .. HeaderSize + 2
      /\ codec \in Codec /\ {_lastAnsPkt, ansPkt, message} \subseteq Message
  BY DEF WellFormed, TypeOK, Last
<1>2. MaxCalls \in Nat
  BY BoundsAssumption
<1>3. Last \in Nat /\ Len(plan) \in Nat /\ Len(heard) \in Nat /\ Len(line) \in Nat
  BY <1>1, LenProperties DEF Last
<1>4. \A i \in 1 .. Last : calls[i] \in Keys \cup {"scan"}
  BY <1>1, ElementOfSeq DEF Last
<1> QED
  BY <1>1, <1>2, <1>3, <1>4 DEF HeaderSize

LEMMA FrameSent ==
  ASSUME WellFormed, line # << >>
  PROVE  /\ line[1] \in 1 .. Last /\ line[1] \in Call /\ calls[line[1]] \in Keys \cup {"scan"}
         /\ Len(line) \in Nat /\ Len(line) > 0
         /\ Tail(line) \in Seq(Call) /\ Len(Tail(line)) = Len(line) - 1
         /\ \A k \in 1 .. Len(line) - 1 : Tail(line)[k] = line[k + 1]
<1>1. line \in Seq(Call) /\ Len(line) \in Nat
  BY WellFormedFacts
<1>2. Len(line) > 0
  BY <1>1, EmptySeq
<1>3. line[1] \in Call /\ line[1] <= Last
  BY <1>1, <1>2, ElementOfSeq DEF WellFormed, FlowIsKnown
<1>4. line[1] \in 1 .. Last
  BY <1>3, WellFormedFacts DEF Call
<1>5. /\ Tail(line) \in Seq(Call) /\ Len(Tail(line)) = Len(line) - 1
      /\ \A k \in 1 .. Len(line) - 1 : Tail(line)[k] = line[k + 1]
  BY <1>1, HeadTailProperties
<1> QED
  BY <1>1, <1>2, <1>3, <1>4, <1>5, WellFormedFacts

LEMMA ResetTypes ==
  ASSUME WellFormed, onDecodeReset
  PROVE  /\ codec' = CodecReset /\ codec' \in Codec /\ codec'.state = "sync1"
         /\ message' \in Message /\ message'.cmd = message.cmd /\ decoder \in {"idle", "listener", "unpacker", "handler", "compare", "deliver"}
<1>1. message \in Message /\ decoder \in {"idle", "listener", "unpacker", "handler", "compare", "deliver"}
  BY WellFormedFacts DEF WellFormed, TypeOK
<1>2. codec' = CodecReset
  BY DEF onDecodeReset
<1>3. CodecReset \in Codec /\ CodecReset.state = "sync1"
  BY BoundsAssumption DEF CodecReset, Codec
<1>4. message' = IF decoder = "listener" THEN [message EXCEPT !.size = 0, !.from = 0] ELSE message
  BY DEF onDecodeReset
<1>5. message' \in Message /\ message'.cmd = message.cmd
  <2>1. message = [cmd |-> message.cmd, size |-> message.size, from |-> message.from, during |-> message.during]
        /\ message.cmd \in Types \cup {"unknown"} /\ message.during \in 0 .. MaxCalls
    BY <1>1 DEF Message
  <2>2. CASE decoder = "listener"
    <3>1. message' = [cmd |-> message.cmd, size |-> 0, from |-> 0, during |-> message.during]
      BY <1>4, <2>1, <2>2
    <3> QED
      BY <2>1, <3>1, BoundsAssumption DEF Message
  <2>3. CASE decoder # "listener"
    BY <1>1, <1>4, <2>3
  <2> QED
    BY <2>2, <2>3
<1> QED
  BY <1>1, <1>2, <1>3, <1>5

--------------------------------------------------------------------------------
(* What a byte does to the codec.                                           *)

(* A byte of the payload is of one call, or of none.                        *)
LEMMA FromNowType ==
  ASSUME WellFormed, line # << >>
  PROVE  /\ FromNow \in 0 .. MaxCalls /\ FromNow \in {0, line[1]}
         /\ codec._rx_pos = 0 /\ place > HeaderSize => FromNow = line[1]
<1>1. line[1] \in 0 .. MaxCalls
  BY FrameSent DEF Call
<1>2. Part = "payload" \/ Part # "payload"
  OBVIOUS
<1>3. place > HeaderSize => Part = "payload"
  BY WellFormedFacts DEF Part
<1>4. FromNow = LET byte == IF Part = "payload" THEN line[1] ELSE 0
                IN IF codec._rx_pos = 0 \/ codec.from = byte THEN byte ELSE 0
  BY DEF FromNow
<1>5. 0 \in 0 .. MaxCalls
  BY BoundsAssumption
<1> QED
  BY <1>1, <1>3, <1>4, <1>5

(* The byte's place in the frame is known.                                  *)
LEMMA Parts ==
  ASSUME WellFormed
  PROVE  /\ Part = "size" <=> place = 3
         /\ Part = "type" <=> place = 4
         /\ Part = "payload" <=> place > 4
<1>1. place \in 1 .. 6 /\ HeaderSize = 4
  BY WellFormedFacts
<1>2. << "sync1", "sync2", "size", "type" >>[1] = "sync1" /\ << "sync1", "sync2", "size", "type" >>[2] = "sync2"
      /\ << "sync1", "sync2", "size", "type" >>[3] = "size" /\ << "sync1", "sync2", "size", "type" >>[4] = "type"
  OBVIOUS
<1>3. place \in {1, 2, 3, 4, 5, 6}
  BY <1>1
<1> QED
  BY <1>1, <1>2, <1>3 DEF Part

LEMMA FrameGoesOn ==
  ASSUME WellFormed, line # << >>, Emitted
  PROVE  \/ /\ place < HeaderSize + Size(calls[line[1]]) /\ place' = place + 1 /\ line' = line
         \/ calls[line[1]] = "scan" /\ place' = HeaderSize + 1 /\ line' = line /\ scanning = line[1]
         \/ place' = 1 /\ line' = Tail(line) /\ ~ (place < HeaderSize + Size(calls[line[1]]))
  BY DEF Emitted

(* The codec after it has been changed in some fields.                       *)
With(state, pos, cmd, size, loop, from) ==
  [state |-> state, _rx_pos |-> pos, cmd |-> cmd, size |-> size, loop |-> loop, from |-> from]

LEMMA CodecFields ==
  ASSUME NEW c \in Codec
  PROVE  /\ c = With(c.state, c._rx_pos, c.cmd, c.size, c.loop, c.from)
         /\ c.state \in {"sync1", "sync2", "size", "type", "payload"} /\ c._rx_pos \in 0 .. 2
         /\ c.cmd \in Types \cup {"unknown"} /\ c.size \in 0 .. 2 /\ c.loop \in BOOLEAN /\ c.from \in 0 .. MaxCalls
  BY DEF Codec, With

LEMMA CodecOf ==
  ASSUME NEW state \in {"sync1", "sync2", "size", "type", "payload"}, NEW pos \in 0 .. 2,
         NEW cmd \in Types \cup {"unknown"}, NEW size \in 0 .. 2, NEW loop \in BOOLEAN, NEW from \in 0 .. MaxCalls
  PROVE  /\ With(state, pos, cmd, size, loop, from) \in Codec
         /\ With(state, pos, cmd, size, loop, from).state = state
         /\ With(state, pos, cmd, size, loop, from)._rx_pos = pos
         /\ With(state, pos, cmd, size, loop, from).cmd = cmd
         /\ With(state, pos, cmd, size, loop, from).size = size
         /\ With(state, pos, cmd, size, loop, from).loop = loop
         /\ With(state, pos, cmd, size, loop, from).from = from
  BY DEF Codec, With

(* The codec in the five ways a byte changes it.                            *)
TypeRead == IF Part = "type" THEN TypeOf(calls[line[1]]) ELSE "unknown"

Syncs == \E state \in {"sync1", "sync2", "size"}, pos \in 0 .. 2 :
  /\ codec' = With(state, pos, codec.cmd, codec.size, codec.loop, codec.from)
  /\ decoder' = "idle" /\ message' = message
ReadsSize == \E size \in 0 .. 2, loop \in BOOLEAN :
  /\ Part = "size" => size = Size(calls[line[1]]) /\ loop = (calls[line[1]] = "scan")
  /\ codec' = With("type", 0, codec.cmd, size, loop, codec.from)
  /\ decoder' = "idle" /\ message' = message
ReadsType ==
  /\ codec.state = "type"
  /\ codec' = With(IF codec.size = 0 THEN "sync1" ELSE "payload", codec._rx_pos, TypeRead, codec.size,
                   codec.loop, codec.from)
  /\ decoder' = "idle" /\ message' = message
ReadsByte ==
  /\ codec.state = "payload" /\ codec._rx_pos + 1 < codec.size
  /\ codec' = With("payload", codec._rx_pos + 1, codec.cmd, codec.size, codec.loop, FromNow)
  /\ decoder' = "idle" /\ message' = message
ReadsMessage ==
  /\ codec.state = "payload" /\ codec._rx_pos + 1 = codec.size
  /\ codec' = With(IF codec.loop THEN "payload" ELSE "sync1", 0, codec.cmd, codec.size, codec.loop, FromNow)
  /\ message' = [cmd |-> codec.cmd, size |-> codec.size, from |-> FromNow, during |-> 0]
  /\ decoder' = "listener"

LEMMA Decoding ==
  ASSUME WellFormed, onDecodeData
  PROVE  /\ line # << >> /\ decoder = "idle" /\ Emitted
         /\ UNCHANGED << appVars, sharedVars, heard, scanning >>
         /\ Syncs \/ ReadsSize \/ ReadsType \/ ReadsByte \/ ReadsMessage
<1>1. /\ line # << >> /\ decoder = "idle" /\ Emitted
      /\ UNCHANGED << appVars, sharedVars, heard, scanning >>
  BY DEF onDecodeData
<1>2. /\ codec = With(codec.state, codec._rx_pos, codec.cmd, codec.size, codec.loop, codec.from)
      /\ codec._rx_pos \in 0 .. 2
  BY WellFormedFacts, CodecFields
<1>3. CASE WaitsSync1
  <2>1. decoder' = "idle" /\ message' = message /\ (codec' = [codec EXCEPT !.state = "sync2"] \/ codec' = codec)
    BY <1>3 DEF WaitsSync1
  <2>2. codec.state = "sync1"
    BY <1>3 DEF WaitsSync1
  <2>3. [codec EXCEPT !.state = "sync2"] = With("sync2", codec._rx_pos, codec.cmd, codec.size, codec.loop, codec.from)
    BY <1>2 DEF With
  <2>4. Syncs
    BY <1>2, <2>1, <2>2, <2>3 DEF Syncs
  <2> QED
    BY <1>1, <2>4
<1>4. CASE WaitsSync2
  <2>1. /\ decoder' = "idle" /\ message' = message
        /\ codec' = [codec EXCEPT !.state = "size", !._rx_pos = 0] \/ codec' = [codec EXCEPT !.state = "sync1"]
    BY <1>4 DEF WaitsSync2
  <2>2. ASSUME codec' = [codec EXCEPT !.state = "size", !._rx_pos = 0] PROVE Syncs
    <3>1. codec' = With("size", 0, codec.cmd, codec.size, codec.loop, codec.from)
      BY <1>2, <2>2 DEF With
    <3> QED
      BY <2>1, <3>1 DEF Syncs
  <2>3. ASSUME codec' = [codec EXCEPT !.state = "sync1"] PROVE Syncs
    <3>1. codec' = With("sync1", codec._rx_pos, codec.cmd, codec.size, codec.loop, codec.from)
      BY <1>2, <2>3 DEF With
    <3> QED
      BY <1>2, <2>1, <3>1 DEF Syncs
  <2>4. Syncs
    BY <2>1, <2>2, <2>3
  <2> QED
    BY <1>1, <2>4
<1>5. CASE WaitsSize
  <2>1. PICK size \in 0 .. 2, loop \in BOOLEAN :
          /\ Part = "size" => size = Size(calls[line[1]]) /\ loop = (calls[line[1]] = "scan")
          /\ codec' = [codec EXCEPT !.state = "type", !.size = size, !.loop = loop, !._rx_pos = 0]
    BY <1>5 DEF WaitsSize
  <2>2. codec' = With("type", 0, codec.cmd, size, loop, codec.from)
    BY <1>2, <2>1 DEF With
  <2>3. decoder' = "idle" /\ message' = message
    BY <1>5 DEF WaitsSize
  <2>4. ReadsSize
    BY <2>1, <2>2, <2>3, Zenon DEF ReadsSize
  <2> QED
    BY <1>1, <2>4
<1>6. CASE WaitsType
  <2>1. /\ codec.state = "type" /\ decoder' = "idle" /\ message' = message
        /\ codec' = [codec EXCEPT !.cmd = TypeRead, !.state = IF codec.size = 0 THEN "sync1" ELSE "payload"]
    BY <1>6 DEF WaitsType, TypeRead
  <2>2. codec' = With(IF codec.size = 0 THEN "sync1" ELSE "payload", codec._rx_pos, TypeRead, codec.size,
                      codec.loop, codec.from)
    BY <1>2, <2>1 DEF With
  <2> QED
    BY <1>1, <2>1, <2>2 DEF ReadsType
<1>7. CASE ReceivesPayload
  <2>1. /\ codec.state = "payload" /\ codec._rx_pos + 1 < codec.size /\ decoder' = "idle" /\ message' = message
        /\ codec' = [codec EXCEPT !._rx_pos = codec._rx_pos + 1, !.from = FromNow]
    BY <1>7 DEF ReceivesPayload
  <2>2. codec' = With("payload", codec._rx_pos + 1, codec.cmd, codec.size, codec.loop, FromNow)
    BY <1>2, <2>1 DEF With
  <2> QED
    BY <1>1, <2>1, <2>2 DEF ReadsByte
<1>8. CASE CompletesMessage
  <2>1. /\ codec.state = "payload" /\ codec._rx_pos + 1 = codec.size /\ decoder' = "listener"
        /\ message' = [cmd |-> codec.cmd, size |-> codec.size, from |-> FromNow, during |-> 0]
        /\ codec' = [codec EXCEPT !._rx_pos = 0, !.from = FromNow,
                                  !.state = IF codec.loop THEN "payload" ELSE "sync1"]
    BY <1>8 DEF CompletesMessage
  <2>2. codec' = With(IF codec.loop THEN "payload" ELSE "sync1", 0, codec.cmd, codec.size, codec.loop, FromNow)
    BY <1>2, <2>1 DEF With
  <2> QED
    BY <1>1, <2>1, <2>2 DEF ReadsMessage
<1> QED
  BY <1>3, <1>4, <1>5, <1>6, <1>7, <1>8 DEF onDecodeData

LEMMA DecodingTypes ==
  ASSUME WellFormed, onDecodeData
  PROVE  /\ codec' \in Codec /\ (codec'.state = "payload" => codec'._rx_pos < codec'.size)
         /\ message' \in Message /\ decoder' \in {"idle", "listener"}
         /\ (codec'.state = "type" => codec'._rx_pos = 0)
         /\ place' \in 1 .. 6 /\ line' \in Seq(Call) /\ (line' = << >> => place' = 1)
         /\ \A k \in 1 .. Len(line') : line'[k] <= Last
<1>1. line # << >> /\ decoder = "idle" /\ Emitted
  BY Decoding
<1>2. /\ codec \in Codec /\ message \in Message /\ place \in 1 .. 6 /\ HeaderSize = 4
      /\ (codec.state = "payload" => codec._rx_pos < codec.size)
      /\ (codec.state = "type" => codec._rx_pos = 0)
  BY WellFormedFacts DEF WellFormed, TypeOK, FlowIsKnown
<1>3. line[1] \in Call /\ calls[line[1]] \in Keys \cup {"scan"} /\ FromNow \in 0 .. MaxCalls
  BY <1>1, FrameSent, FromNowType
<1>4. TypeRead \in Types \cup {"unknown"} /\ Size(calls[line[1]]) \in {1, 2}
  BY <1>3, TypeOfKey DEF TypeRead
<1>5. place' \in 1 .. 6 /\ line' \in {line, Tail(line)} /\ (line' = << >> => place' = 1)
  BY <1>1, <1>2, <1>4, FrameGoesOn
<1>6. line' \in Seq(Call) /\ \A k \in 1 .. Len(line') : line'[k] <= Last
  <2>1. line \in Seq(Call) /\ \A k \in 1 .. Len(line) : line[k] <= Last
    BY WellFormedFacts DEF WellFormed, FlowIsKnown
  <2>2. Tail(line) \in Seq(Call) /\ \A k \in 1 .. Len(Tail(line)) : Tail(line)[k] <= Last
    BY <1>1, <2>1, FrameSent
  <2> QED
    BY <1>5, <2>1, <2>2
<1>7. /\ codec.state \in {"sync1", "sync2", "size", "type", "payload"} /\ codec._rx_pos \in 0 .. 2
      /\ codec.cmd \in Types \cup {"unknown"} /\ codec.size \in 0 .. 2 /\ codec.loop \in BOOLEAN
      /\ codec.from \in 0 .. MaxCalls
  BY <1>2, CodecFields
<1>8. CASE Syncs
  <2>1. PICK state \in {"sync1", "sync2", "size"}, pos \in 0 .. 2 :
          /\ codec' = With(state, pos, codec.cmd, codec.size, codec.loop, codec.from)
          /\ decoder' = "idle" /\ message' = message
    BY <1>8 DEF Syncs
  <2>2. codec' \in Codec /\ codec'.state \notin {"payload", "type"}
    BY <1>7, <2>1, CodecOf
  <2> QED
    BY <1>2, <1>5, <1>6, <2>1, <2>2
<1>9. CASE ReadsSize
  <2>1. PICK size \in 0 .. 2, loop \in BOOLEAN :
          /\ codec' = With("type", 0, codec.cmd, size, loop, codec.from)
          /\ decoder' = "idle" /\ message' = message
    BY <1>9 DEF ReadsSize
  <2>2. codec' \in Codec /\ codec'.state # "payload" /\ codec'._rx_pos = 0
    BY <1>7, <2>1, CodecOf
  <2> QED
    BY <1>2, <1>5, <1>6, <2>1, <2>2
<1>10. CASE ReadsType
  <2> DEFINE state == IF codec.size = 0 THEN "sync1" ELSE "payload"
  <2>1. /\ codec' = With(state, codec._rx_pos, TypeRead, codec.size, codec.loop, codec.from)
        /\ decoder' = "idle" /\ message' = message /\ codec.state = "type"
    BY <1>10 DEF ReadsType
  <2>2. state \in {"sync1", "payload"} /\ (state = "payload" => codec.size # 0)
    OBVIOUS
  <2> HIDE DEF state
  <2>3. codec' \in Codec /\ codec'.state = state /\ codec'._rx_pos = codec._rx_pos /\ codec'.size = codec.size
    BY <1>4, <1>7, <2>1, <2>2 DEF With, Codec
  <2> QED
    BY <1>2, <1>5, <1>6, <1>7, <2>1, <2>2, <2>3
<1>11. CASE ReadsByte
  <2>1. /\ codec' = With("payload", codec._rx_pos + 1, codec.cmd, codec.size, codec.loop, FromNow)
        /\ decoder' = "idle" /\ message' = message /\ codec._rx_pos + 1 < codec.size
    BY <1>11 DEF ReadsByte
  <2>2. codec._rx_pos + 1 \in 0 .. 2
    BY <1>7, <2>1
  <2>3. codec' \in Codec /\ codec'.state = "payload" /\ codec'._rx_pos = codec._rx_pos + 1 /\ codec'.size = codec.size
    BY <1>3, <1>7, <2>1, <2>2 DEF With, Codec
  <2> QED
    BY <1>2, <1>5, <1>6, <2>1, <2>3
<1>12. CASE ReadsMessage
  <2> DEFINE state == IF codec.loop THEN "payload" ELSE "sync1"
  <2>1. /\ codec' = With(state, 0, codec.cmd, codec.size, codec.loop, FromNow)
        /\ message' = [cmd |-> codec.cmd, size |-> codec.size, from |-> FromNow, during |-> 0]
        /\ decoder' = "listener" /\ codec._rx_pos + 1 = codec.size
    BY <1>12 DEF ReadsMessage
  <2>2. state \in {"sync1", "payload"}
    OBVIOUS
  <2> HIDE DEF state
  <2>3. codec' \in Codec /\ codec'.state = state /\ codec'._rx_pos = 0 /\ codec'.size = codec.size
    BY <1>3, <1>7, <2>1, <2>2 DEF With, Codec
  <2>4. message' \in Message
    BY <1>3, <1>7, <2>1, BoundsAssumption DEF Message
  <2> QED
    BY <1>5, <1>6, <1>7, <2>1, <2>2, <2>3, <2>4
<1> QED
  BY <1>8, <1>9, <1>10, <1>11, <1>12, Decoding

--------------------------------------------------------------------------------
(* The types, one part of the state after the other.                        *)
Places == {"idle", "disable", "reset", "stop", "again", "next", "arm", "send", "wait", "take",
           "check", "enable", "scan"}

CallerTypes ==
  /\ calls \in Seq(Keys \cup {"scan"}) /\ Len(calls) <= MaxCalls
  /\ timedOut \in BOOLEAN /\ app \in Places /\ plan \in Seq(Keys \cup {"scan"})

SharedTypes ==
  /\ _response_waiter \in BOOLEAN /\ _enabled \in BOOLEAN /\ inHand \in BOOLEAN
  /\ _waiting_packet_type \in Types \cup {"unknown"} /\ scan \in 0 .. MaxCalls
  /\ _lastAnsPkt \in Message /\ ansPkt \in Message

DecoderTypes ==
  /\ codec \in Codec /\ (codec.state = "payload" => codec._rx_pos < codec.size)
  /\ (codec.state = "type" => codec._rx_pos = 0)
  /\ message \in Message /\ decoder \in {"idle", "listener", "unpacker", "handler", "compare", "deliver"}

LidarTypes ==
  /\ heard \in Seq(Call \cup {0}) /\ \A k \in 1 .. Len(heard) : heard[k] <= Last
  /\ line \in Seq(Call) /\ \A k \in 1 .. Len(line) : line[k] <= Last
  /\ scanning \in 0 .. MaxCalls /\ place \in 1 .. HeaderSize + 2 /\ (line = << >> => place = 1)

LEMMA WellFormedParts ==
  WellFormed <=> CallerTypes /\ PlanFits /\ SharedTypes /\ DecoderTypes /\ LidarTypes
BY DEF WellFormed, TypeOK, FlowIsKnown, CallerTypes, SharedTypes, DecoderTypes, LidarTypes, Places

LEMMA InitWellFormed == Init => WellFormed
<1> SUFFICES ASSUME Init PROVE WellFormed
  OBVIOUS
<1>1. \A S : << >> \in Seq(S) /\ Len(<< >>) = 0
  BY EmptySeq
<1>2. MaxCalls \in Nat /\ 0 \in 0 .. MaxCalls
  BY BoundsAssumption
<1>3. NoMessage \in Message /\ CodecReset \in Codec /\ CodecReset.state = "sync1"
  BY <1>2 DEF NoMessage, Message, CodecReset, Codec
<1>4. CallerTypes
  <2>1. << >> \in Seq(Keys \cup {"scan"}) /\ Len(<< >>) = 0
    BY <1>1
  <2>2. calls = << >> /\ plan = << >> /\ app = "idle" /\ timedOut = FALSE
    BY DEF Init
  <2>3. timedOut \in BOOLEAN
    BY <2>2
  <2>4. Len(calls) <= MaxCalls
    BY <1>2, <2>1, <2>2
  <2>5. calls \in Seq(Keys \cup {"scan"}) /\ plan \in Seq(Keys \cup {"scan"}) /\ app \in Places
    BY <2>1, <2>2 DEF Places
  <2> QED
    BY <2>3, <2>4, <2>5 DEF CallerTypes
<1>5. PlanFits
  BY DEF Init, PlanFits, Stopping, Requesting
<1>6. SharedTypes
  BY <1>2, <1>3 DEF Init, SharedTypes
<1>7. DecoderTypes
  BY <1>3 DEF Init, DecoderTypes
<1>8. LidarTypes
  BY <1>1, <1>2 DEF Init, LidarTypes, HeaderSize
<1> QED
  BY <1>4, <1>5, <1>6, <1>7, <1>8, WellFormedParts

LEMMA CallerStep ==
  ASSUME WellFormed, [Next]_vars
  PROVE  (CallerTypes /\ PlanFits)'
<1>0. CallerTypes /\ PlanFits
  BY WellFormedParts
<1>1. /\ Len(calls) \in Nat /\ Len(plan) \in Nat /\ MaxCalls \in Nat /\ MaxRequests \in Nat /\ MaxRequests <= MaxCalls
      /\ Last = Len(calls) /\ calls \in Seq(Keys \cup {"scan"}) /\ plan \in Seq(Keys \cup {"scan"})
  BY WellFormedFacts, BoundsAssumption DEF Last
<1>2. << >> \in Seq(Keys \cup {"scan"}) /\ Len(<< >>) = 0 /\ "scan" \notin Keys
  BY EmptySeq, KeysAssumption
<1>3. plan # << >> => /\ Tail(plan) \in Seq(Keys \cup {"scan"}) /\ Len(Tail(plan)) = Len(plan) - 1
                      /\ Head(plan) \in Keys \cup {"scan"} /\ Len(plan) > 0
  BY <1>1, HeadTailProperties, EmptySeq
<1>4. \A key \in Keys \cup {"scan"} :
        /\ Append(calls, key) \in Seq(Keys \cup {"scan"}) /\ Len(Append(calls, key)) = Len(calls) + 1
        /\ Append(calls, key)[Len(calls) + 1] = key /\ Append(calls, key) # << >>
  BY <1>1, AppendProperties
<1> USE DEF AppGoto, PlanFits, Stopping, Requesting, CallerTypes, Places
<1>5. ASSUME NEW key \in Keys, Request(key) PROVE (CallerTypes /\ PlanFits)'
  <2>1. << key >> \in Seq(Keys \cup {"scan"}) /\ Len(<< key >>) = 1
    OBVIOUS
  <2> QED
    BY <1>0, <1>1, <1>5, <2>1 DEF Request, Last
<1>6. CASE Stop
  <2>1. << >> # << "scan" >>
    OBVIOUS
  <2> QED
    BY <1>0, <1>1, <1>2, <1>6, <2>1 DEF Stop, Last
<1>7. CASE startScan
  <2>1. ScanAsks \in Seq(Keys) /\ ScanAsks # << >>
    BY ScanAsksAssumption
  <2>2. ScanAsks \in Seq(Keys \cup {"scan"}) /\ Len(ScanAsks) \in Nat /\ Len(ScanAsks) > 0
    BY <2>1, EmptySeq
  <2>3. /\ Append(ScanAsks, "scan") \in Seq(Keys \cup {"scan"})
        /\ Len(Append(ScanAsks, "scan")) = Len(ScanAsks) + 1
    BY <2>2, AppendProperties
  <2>4. Len(<< "scan" >>) = 1
    OBVIOUS
  <2>5. Append(ScanAsks, "scan") # << "scan" >>
    <3> SUFFICES ASSUME Append(ScanAsks, "scan") = << "scan" >> PROVE FALSE
      OBVIOUS
    <3>1. Len(ScanAsks) + 1 = 1
      BY <2>3, <2>4
    <3> QED
      BY <2>2, <3>1
  <2> QED
    BY <1>0, <1>1, <1>7, <2>2, <2>3, <2>5 DEF startScan, Last
<1>8. CASE StopDisables
  BY <1>0, <1>8 DEF StopDisables
<1>9. CASE StopResets
  BY <1>0, <1>9 DEF StopResets
<1>10. CASE StopSends
  BY <1>0, <1>10 DEF StopSends
<1>11. CASE StopDisablesAgain
  BY <1>0, <1>11 DEF StopDisablesAgain
<1>12. CASE LocksData
  <2>1. /\ plan # << >> /\ Head(plan) # "scan" /\ app = "next" /\ app' = "arm"
        /\ calls' = Append(calls, Head(plan)) /\ UNCHANGED << timedOut, plan >>
    BY <1>12 DEF LocksData
  <2>2. Head(plan) \in Keys
    BY <1>3, <2>1
  <2> QED
    BY <1>0, <1>1, <1>3, <1>4, <2>1, <2>2 DEF Last
<1>13. CASE Arms \/ Sends
  BY <1>0, <1>13 DEF Arms, Sends, Last
<1>14. CASE SendFails \/ TimesOut
  BY <1>0, <1>2, <1>14 DEF SendFails, TimesOut
<1>15. CASE Wakes \/ Takes
  BY <1>0, <1>15 DEF Wakes, Takes, sharedVars, Last
<1>16. CASE Checks
  <2>1. app = "check" /\ app' \in {"next", "idle"} /\ plan' \in {<< >>, Tail(plan)} /\ UNCHANGED << calls, timedOut >>
    BY <1>16 DEF Checks
  <2>2. app' = "next" => plan' = Tail(plan)
    BY <1>16 DEF Checks
  <2> QED
    <3>1. plan # << >> /\ Len(calls) + Len(plan) <= MaxCalls + 1
      BY <1>0, <2>1
    <3>2. plan' \in Seq(Keys \cup {"scan"})
      BY <1>2, <1>3, <2>1, <3>1
    <3>3. Len(calls) + Len(Tail(plan)) <= MaxCalls
      BY <1>1, <1>3, <3>1
    <3> QED
      BY <1>0, <2>1, <2>2, <3>2, <3>3
<1>17. CASE Enables
  <2>1. /\ plan = << "scan" >> /\ app = "next" /\ app' = "scan" /\ calls' = Append(calls, "scan")
        /\ UNCHANGED << timedOut, plan >>
    BY <1>17 DEF Enables
  <2>2. Len(plan) = 1
    BY <2>1
  <2> QED
    BY <1>0, <1>1, <1>4, <2>1, <2>2 DEF Last
<1>18. CASE SendsScan
  BY <1>0, <1>18 DEF SendsScan
<1>19. CASE UNCHANGED appVars
  BY <1>0, <1>19 DEF appVars, Last
<1> QED
  BY <1>5, <1>6, <1>7, <1>8, <1>9, <1>10, <1>11, <1>12, <1>13, <1>14, <1>15, <1>16, <1>17, <1>18, <1>19
  DEF Next, Calls, Caller, decoderThread, onDecodeData, Copies, onSampleData, onData, ComparesType, Delivers,
    DecRest, Lidar, LidarAnswers, LidarIgnores, LidarStops, LidarScans, LidarRest, vars

(* Calls are only added.                                                    *)
LEMMA CallsGrow ==
  ASSUME WellFormed, [Next]_vars
  PROVE  /\ Last \in Nat /\ Last' \in Nat /\ Last <= Last' /\ Last' <= MaxCalls
         /\ \A i \in 1 .. Last : calls'[i] = calls[i]
         /\ calls' = calls => Last' = Last
<1>1. calls \in Seq(Keys \cup {"scan"}) /\ Last = Len(calls) /\ Last' = Len(calls') /\ Last \in Nat
  BY WellFormedFacts DEF Last
<1>2. calls' \in Seq(Keys \cup {"scan"}) /\ Last' <= MaxCalls
  BY <1>1, CallerStep DEF CallerTypes
<1>3. Last' \in Nat
  BY <1>1, <1>2, LenProperties
<1>4. CASE LocksData \/ Enables
  <2>1. PICK key \in Keys \cup {"scan"} : calls' = Append(calls, key)
    <3>1. CASE LocksData
      <4>1. plan # << >> /\ plan \in Seq(Keys \cup {"scan"}) /\ calls' = Append(calls, Head(plan))
        BY <3>1, WellFormedFacts DEF LocksData
      <4> QED
        BY <4>1, HeadTailProperties
    <3>2. CASE Enables
      BY <3>2 DEF Enables
    <3> QED
      BY <1>4, <3>1, <3>2
  <2>2. Len(calls') = Len(calls) + 1 /\ \A i \in 1 .. Len(calls) : calls'[i] = calls[i]
    BY <1>1, <2>1, AppendProperties
  <2> QED
    BY <1>1, <1>2, <1>3, <2>2
<1>5. CASE UNCHANGED calls
  BY <1>1, <1>2, <1>3, <1>5
<1> QED
  BY <1>4, <1>5
  DEF Next, Calls, Request, Stop, startScan, Caller, StopDisables, StopResets, StopSends, StopDisablesAgain,
    Arms, Sends, SendFails, TimesOut, Wakes, Takes, Checks, SendsScan, decoderThread, onDecodeData, Copies,
    onSampleData, onData, ComparesType, Delivers, DecRest, Lidar, LidarAnswers, LidarIgnores, LidarStops,
    LidarScans, LidarRest, vars, appVars

LEMMA SharedStep ==
  ASSUME WellFormed, [Next]_vars
  PROVE  SharedTypes'
<1>0. SharedTypes /\ PlanFits /\ DecoderTypes
  BY WellFormedParts
<1>1. MaxCalls \in Nat /\ Last \in Nat /\ Last <= MaxCalls /\ Last' <= MaxCalls /\ Last' \in Nat
  BY WellFormedFacts, CallsGrow
<1>2. NoMessage \in Message
  BY <1>1 DEF NoMessage, Message
<1> USE DEF SharedTypes
<1>3. CASE UNCHANGED << sharedVars, ansPkt >>
  BY <1>0, <1>3 DEF sharedVars
<1>4. CASE StopDisables \/ StopResets \/ LocksData
  BY <1>0, <1>4 DEF StopDisables, StopResets, LocksData
<1>5. CASE Arms
  <2>1. calls[Last] \in Keys
    BY <1>0, <1>5 DEF Arms, AppGoto, PlanFits, Requesting
  <2>2. _waiting_packet_type' \in Types
    BY <1>5, <2>1, TypeOfKey DEF Arms
  <2> QED
    BY <1>0, <1>5, <2>2 DEF Arms
<1>6. CASE Wakes \/ SendsScan
  BY <1>0, <1>6 DEF Wakes, SendsScan
<1>7. CASE Takes \/ Checks
  BY <1>0, <1>2, <1>7 DEF Takes, Checks, sharedVars
<1>8. CASE Enables
  <2>1. calls' = Append(calls, "scan") /\ scan' = Last + 1
    BY <1>8 DEF Enables
  <2>2. Last' = Last + 1
    BY <2>1, WellFormedFacts, AppendProperties DEF Last
  <2>3. scan' \in 0 .. MaxCalls
    BY <1>1, <2>1, <2>2
  <2>4. /\ _enabled' = TRUE /\ inHand' = (decoder # "idle")
        /\ UNCHANGED << ansPkt, _waiting_packet_type, _response_waiter, _lastAnsPkt >>
    BY <1>8 DEF Enables
  <2>5. _enabled' \in BOOLEAN /\ inHand' \in BOOLEAN
    BY <2>4
  <2> QED
    BY <1>0, <2>3, <2>4, <2>5
<1>9. CASE onData \/ ComparesType
  BY <1>0, <1>9 DEF onData, ComparesType, DecRest, appVars
<1>10. CASE Delivers
  <2>1. [message EXCEPT !.during = Last] \in Message
    BY <1>0, <1>1 DEF DecoderTypes, Message
  <2> QED
    BY <1>0, <1>10, <2>1 DEF Delivers, DecRest, appVars
<1> QED
  BY <1>3, <1>4, <1>5, <1>6, <1>7, <1>8, <1>9, <1>10
  DEF Next, Calls, Request, Stop, startScan, Caller, StopSends, StopDisablesAgain,
    Sends, SendFails, TimesOut, decoderThread, onDecodeData, Copies,
    onSampleData, DecRest, Lidar, LidarAnswers, LidarIgnores, LidarStops,
    LidarScans, LidarRest, vars, appVars, sharedVars

LEMMA DecoderStep ==
  ASSUME WellFormed, [Next]_vars
  PROVE  DecoderTypes'
<1>0. DecoderTypes
  BY WellFormedParts
<1>1. NoMessage \in Message
  BY BoundsAssumption DEF NoMessage, Message
<1>2. CASE UNCHANGED decoderVars
  BY <1>0, <1>2 DEF decoderVars, DecoderTypes
<1>3. CASE StopResets \/ StopDisablesAgain \/ Arms
  <2>1. onDecodeReset /\ UNCHANGED decoder
    BY <1>3 DEF StopResets, StopDisablesAgain, Arms
  <2> QED
    BY <1>0, <2>1, ResetTypes DEF DecoderTypes
<1>4. CASE onDecodeData
  BY <1>4, DecodingTypes DEF DecoderTypes
<1>5. CASE Copies \/ onSampleData
  BY <1>0, <1>5 DEF Copies, onSampleData, DecGoto, DecRest, DecoderTypes
<1>6. CASE onData \/ Delivers \/ ComparesType
  BY <1>0, <1>1, <1>6 DEF onData, Delivers, ComparesType, DecGoto, DecRest, DecoderTypes
<1> QED
  BY <1>2, <1>3, <1>4, <1>5, <1>6
  DEF Next, Calls, Request, Stop, startScan, Caller, StopDisables, StopSends, LocksData,
    Sends, SendFails, TimesOut, Wakes, Takes, Checks, Enables, SendsScan, decoderThread, Lidar, LidarAnswers,
    LidarIgnores, LidarStops, LidarScans, LidarRest, vars

(* A command is put behind those the lidar has not looked at.                *)
LEMMA Sending ==
  ASSUME WellFormed, NEW command \in 0 .. Last, Send(command)
  PROVE  /\ heard' \in Seq(Call \cup {0}) /\ Len(heard') = Len(heard) + 1 /\ heard' # << >>
         /\ heard'[Len(heard) + 1] = command /\ \A k \in 1 .. Len(heard) : heard'[k] = heard[k]
<1>1. command \in Call \cup {0} /\ heard \in Seq(Call \cup {0}) /\ heard' = Append(heard, command)
  BY WellFormedFacts DEF Call, Send
<1> QED
  BY <1>1, AppendProperties

(* The lidar looks at the first of them, and may have something to send.     *)
LEMMA Hearing ==
  ASSUME WellFormed, Lidar
  PROVE  /\ heard # << >> /\ heard[1] \in Call \cup {0} /\ heard[1] <= Last /\ Len(heard) > 0
         /\ heard' \in Seq(Call \cup {0}) /\ Len(heard') = Len(heard) - 1
         /\ \A k \in 1 .. Len(heard) - 1 : heard'[k] = heard[k + 1]
         /\ \/ line' = line
            \/ /\ heard[1] # 0 /\ line' \in Seq(Call) /\ Len(line') = Len(line) + 1 /\ line' # << >>
               /\ line'[Len(line) + 1] = heard[1] /\ \A k \in 1 .. Len(line) : line'[k] = line[k]
         /\ scanning' \in {0, scanning, heard[1]}
         /\ UNCHANGED << appVars, sharedVars, decoderVars, place >>
<1>1. heard # << >> /\ heard' = Tail(heard) /\ UNCHANGED << appVars, sharedVars, decoderVars, place >>
  BY DEF Lidar, LidarAnswers, LidarIgnores, LidarStops, LidarScans, LidarRest
<1>2. heard \in Seq(Call \cup {0}) /\ line \in Seq(Call) /\ Len(heard) \in Nat /\ \A k \in 1 .. Len(heard) : heard[k] <= Last
  BY WellFormedFacts DEF WellFormed, FlowIsKnown
<1>3. /\ Head(heard) = heard[1] /\ Len(heard) > 0 /\ heard[1] \in Call \cup {0} /\ heard[1] <= Last
  BY <1>1, <1>2, EmptySeq, HeadTailProperties
<1>4. /\ heard' \in Seq(Call \cup {0}) /\ Len(heard') = Len(heard) - 1
      /\ \A k \in 1 .. Len(heard) - 1 : heard'[k] = heard[k + 1]
  BY <1>1, <1>2, HeadTailProperties
<1>5. line' = line \/ (heard[1] # 0 /\ line' = Append(line, heard[1]))
  BY <1>3 DEF Lidar, LidarAnswers, LidarIgnores, LidarStops, LidarScans
<1>6. scanning' \in {0, scanning, heard[1]}
  BY <1>3 DEF Lidar, LidarAnswers, LidarIgnores, LidarStops, LidarScans
<1>7. ASSUME heard[1] # 0, line' = Append(line, heard[1])
      PROVE  /\ line' \in Seq(Call) /\ Len(line') = Len(line) + 1 /\ line' # << >>
             /\ line'[Len(line) + 1] = heard[1] /\ \A k \in 1 .. Len(line) : line'[k] = line[k]
  <2>1. heard[1] \in Call
    BY <1>3, <1>7
  <2> QED
    BY <1>2, <1>7, <2>1, AppendProperties
<1> QED
  BY <1>1, <1>3, <1>4, <1>5, <1>6, <1>7

LEMMA LidarStep ==
  ASSUME WellFormed, [Next]_vars
  PROVE  LidarTypes'
<1>0. LidarTypes
  BY WellFormedParts
<1>1. Last \in Nat /\ Last' \in Nat /\ Last <= Last' /\ Last <= MaxCalls /\ MaxCalls \in Nat
  BY WellFormedFacts, CallsGrow
<1>2. Len(heard) \in Nat /\ Len(line) \in Nat /\ (\A k \in 1 .. Len(heard) : heard[k] \in Nat)
      /\ \A k \in 1 .. Len(line) : line[k] \in Nat
  BY WellFormedFacts, ElementOfSeq DEF Call
<1>3. CASE UNCHANGED lidarVars
  BY <1>0, <1>1, <1>2, <1>3 DEF lidarVars, LidarTypes
<1>4. CASE StopSends \/ Sends \/ SendsScan
  <2>1. /\ UNCHANGED << line, scanning, place >> /\ Last' = Last
        /\ heard' = heard \/ \E command \in 0 .. Last : Send(command)
    BY <1>1, <1>4 DEF StopSends, Sends, SendsScan, Last
  <2>2. heard' \in Seq(Call \cup {0}) /\ \A k \in 1 .. Len(heard') : heard'[k] <= Last
    <3>1. CASE heard' = heard
      BY <1>0, <3>1 DEF LidarTypes
    <3>2. CASE \E command \in 0 .. Last : Send(command)
      <4>1. PICK command \in 0 .. Last : Send(command)
        BY <3>2
      <4>2. /\ heard' \in Seq(Call \cup {0}) /\ Len(heard') = Len(heard) + 1
            /\ heard'[Len(heard) + 1] = command /\ \A k \in 1 .. Len(heard) : heard'[k] = heard[k]
        BY <4>1, Sending
      <4> QED
        BY <1>0, <1>1, <1>2, <4>2 DEF LidarTypes
    <3> QED
      BY <2>1, <3>1, <3>2
  <2> QED
    BY <1>0, <2>1, <2>2 DEF LidarTypes
<1>5. CASE onDecodeData
  <2>1. UNCHANGED << calls, heard, scanning >> /\ Last' = Last
    BY <1>5 DEF onDecodeData, appVars, Last
  <2> QED
    BY <1>0, <1>5, <2>1, DecodingTypes DEF LidarTypes, HeaderSize
<1>6. CASE Lidar
  <2>1. UNCHANGED << calls, place >> /\ Last' = Last
    BY <1>6, Hearing DEF appVars, Last
  <2>2. heard' \in Seq(Call \cup {0}) /\ \A k \in 1 .. Len(heard') : heard'[k] <= Last
    BY <1>0, <1>2, <1>6, Hearing DEF LidarTypes
  <2>3. line' \in Seq(Call) /\ \A k \in 1 .. Len(line') : line'[k] <= Last
    BY <1>0, <1>2, <1>6, Hearing DEF LidarTypes
  <2>4. scanning' \in 0 .. MaxCalls
    BY <1>0, <1>1, <1>6, Hearing DEF LidarTypes, Call
  <2>5. line' = << >> => place' = 1
    BY <1>0, <1>6, <2>1, Hearing DEF LidarTypes
  <2> QED
    BY <1>0, <2>1, <2>2, <2>3, <2>4, <2>5 DEF LidarTypes
<1> QED
  BY <1>3, <1>4, <1>5, <1>6
  DEF Next, Calls, Request, Stop, startScan, Caller, StopDisables, StopResets, StopDisablesAgain, LocksData,
    Arms, SendFails, TimesOut, Wakes, Takes, Checks, Enables, decoderThread, Copies, onSampleData, onData,
    ComparesType, Delivers, DecRest, vars

LEMMA WellFormedStep ==
  ASSUME WellFormed, [Next]_vars
  PROVE  WellFormed'
<1>1. CallerTypes' /\ PlanFits' /\ SharedTypes' /\ DecoderTypes' /\ LidarTypes'
  BY CallerStep, SharedStep, DecoderStep, LidarStep
<1> QED
  BY <1>1 DEF WellFormed, TypeOK, FlowIsKnown, CallerTypes, SharedTypes, DecoderTypes, LidarTypes, Places

--------------------------------------------------------------------------------
(* The codec and its messages.                                              *)

LEMMA InStepStep == IInv /\ [Next]_vars => CodecInStep'
<1> SUFFICES ASSUME IInv, [Next]_vars PROVE CodecInStep'
  OBVIOUS
<1>0. WellFormed /\ CodecInStep
  BY DEF IInv
<1>1. /\ \A i \in 1 .. Last : calls'[i] = calls[i]
      /\ line # << >> => line[1] \in 1 .. Last
      /\ place = HeaderSize => line # << >>
  BY <1>0, CallsGrow, FrameSent DEF WellFormed, FlowIsKnown, HeaderSize
<1>2. CASE UNCHANGED << codec, line, place >>
  BY <1>0, <1>1, <1>2 DEF CodecInStep
<1>3. CASE StopResets \/ StopDisablesAgain \/ Arms
  <2>1. codec'.state = "sync1"
    BY <1>0, <1>3, ResetTypes DEF StopResets, StopDisablesAgain, Arms
  <2> QED
    BY <2>1 DEF CodecInStep
<1>4. CASE Lidar
  <2>1. UNCHANGED << calls, codec, place >>
    BY <1>0, <1>4, Hearing DEF appVars, decoderVars
  <2>2. line # << >> => line' # << >> /\ line'[1] = line[1]
    <3>1. Len(line) \in Nat /\ (line # << >> => Len(line) > 0)
      BY <1>0, FrameSent, WellFormedFacts
    <3> QED
      BY <1>0, <1>4, <3>1, Hearing
  <2> QED
    BY <1>0, <1>1, <2>1, <2>2 DEF CodecInStep
<1>5. CASE onDecodeData
  <2>1. /\ line # << >> /\ Emitted /\ UNCHANGED calls
        /\ Syncs \/ ReadsSize \/ ReadsType \/ ReadsByte \/ ReadsMessage
    BY <1>0, <1>5, Decoding DEF appVars
  <2>2. /\ \/ place < HeaderSize + Size(calls[line[1]]) /\ place' = place + 1 /\ line' = line
           \/ place' = HeaderSize + 1
           \/ place' = 1
        /\ place \in 1 .. 6 /\ HeaderSize = 4
    BY <1>0, <2>1, FrameGoesOn, WellFormedFacts
  <2>3. /\ codec._rx_pos \in 0 .. 2 /\ codec.cmd \in Types \cup {"unknown"} /\ codec.size \in 0 .. 2
        /\ codec.loop \in BOOLEAN /\ codec.from \in 0 .. MaxCalls /\ FromNow \in 0 .. MaxCalls
    BY <1>0, <2>1, WellFormedFacts, CodecFields, FromNowType
  <2>4. CASE Syncs
    <3>1. codec'.state \in {"sync1", "sync2", "size"}
      BY <2>4 DEF Syncs, With
    <3> QED
      BY <3>1 DEF CodecInStep
  <2>5. CASE ReadsSize
    <3>1. PICK size \in 0 .. 2, loop \in BOOLEAN :
            /\ Part = "size" => size = Size(calls[line[1]]) /\ loop = (calls[line[1]] = "scan")
            /\ codec' = With("type", 0, codec.cmd, size, loop, codec.from)
      BY <2>5 DEF ReadsSize
    <3>2. codec'.state = "type" /\ codec'.size = size /\ codec'.loop = loop
      BY <3>1 DEF With
    <3>3. place' = HeaderSize => place = 3 /\ line' = line
      BY <2>2
    <3>4. place = 3 => Part = "size"
      BY <1>0, Parts
    <3> QED
      BY <2>1, <3>1, <3>2, <3>3, <3>4 DEF CodecInStep
  <2>6. CASE ReadsType
    <3> DEFINE state == IF codec.size = 0 THEN "sync1" ELSE "payload"
    <3>1. codec' = With(state, codec._rx_pos, TypeRead, codec.size, codec.loop, codec.from) /\ codec.state = "type"
      BY <2>6 DEF ReadsType
    <3>2. state \in {"sync1", "payload"}
      OBVIOUS
    <3> HIDE DEF state
    <3>3. /\ codec'.state = state /\ codec'._rx_pos = codec._rx_pos /\ codec'.cmd = TypeRead
          /\ codec'.size = codec.size /\ codec'.loop = codec.loop
      BY <3>1 DEF With
    <3>4. codec._rx_pos = 0
      BY <1>0, <3>1 DEF WellFormed, FlowIsKnown
    <3>5. ASSUME TypeRead \notin NotAnswer
          PROVE  /\ line' # << >> /\ place' = HeaderSize + 1 /\ line' = line
                 /\ calls[line[1]] # "scan" /\ TypeRead = TypeOf(calls[line[1]])
                 /\ codec.size = 1 /\ ~codec.loop
      <4>1. Part = "type" /\ TypeRead = TypeOf(calls[line[1]])
        BY <3>5 DEF TypeRead, NotAnswer
      <4>2. place = 4
        BY <1>0, <4>1, Parts
      <4>3. calls[line[1]] \in Keys \cup {"scan"}
        BY <1>0, <2>1, FrameSent
      <4>4. calls[line[1]] # "scan" /\ Size(calls[line[1]]) = 1
        BY <3>5, <4>1, <4>3, TypeOfKey DEF NotAnswer
      <4>5. codec.size = 1 /\ ~codec.loop
        BY <1>0, <2>2, <3>1, <4>2, <4>4 DEF CodecInStep
      <4>6. place' = HeaderSize + 1 /\ line' = line
        BY <1>0, <2>1, <2>2, <4>2, <4>4, FrameGoesOn
      <4> QED
        BY <2>1, <4>1, <4>4, <4>5, <4>6
    <3> QED
      BY <2>1, <3>2, <3>3, <3>4, <3>5 DEF CodecInStep
  <2>7. CASE ReadsByte
    <3>1. /\ codec' = With("payload", codec._rx_pos + 1, codec.cmd, codec.size, codec.loop, FromNow)
          /\ codec.state = "payload" /\ codec._rx_pos + 1 < codec.size
      BY <2>7 DEF ReadsByte
    <3>2. codec'.state = "payload" /\ codec'.cmd = codec.cmd
      BY <3>1 DEF With
    <3>3. codec.cmd \in NotAnswer
      BY <1>0, <2>3, <3>1 DEF CodecInStep
    <3> QED
      BY <3>2, <3>3 DEF CodecInStep
  <2>8. CASE ReadsMessage
    <3> DEFINE state == IF codec.loop THEN "payload" ELSE "sync1"
    <3>1. codec' = With(state, 0, codec.cmd, codec.size, codec.loop, FromNow) /\ codec.state = "payload"
      BY <2>8 DEF ReadsMessage
    <3>2. codec'.state = state /\ codec'.cmd = codec.cmd
      BY <3>1 DEF With
    <3>3. codec.cmd \notin NotAnswer => state = "sync1"
      BY <1>0, <3>1 DEF CodecInStep
    <3>4. state \in {"sync1", "payload"}
      OBVIOUS
    <3> HIDE DEF state
    <3> QED
      BY <3>2, <3>3, <3>4 DEF CodecInStep
  <2> QED
    BY <2>1, <2>4, <2>5, <2>6, <2>7, <2>8
<1> QED
  BY <1>2, <1>3, <1>4, <1>5
  DEF Next, Calls, Request, Stop, startScan, Caller, StopDisables, StopSends, LocksData,
    Sends, SendFails, TimesOut, Wakes, Takes, Checks, Enables, SendsScan, decoderThread, Copies, onSampleData,
    onData, ComparesType, Delivers, DecRest, decoderVars, lidarVars, vars

(* A message that answers a call goes on answering it.                      *)
LEMMA AnswersKept ==
  ASSUME WellFormed, [Next]_vars
  PROVE  \A m : AnswersOne(m, calls) => AnswersOne(m, calls')
<1>1. /\ Len(calls) \in Nat /\ Len(calls') \in Nat /\ Len(calls) <= Len(calls')
      /\ \A i \in 1 .. Len(calls) : calls'[i] = calls[i]
  BY CallsGrow DEF Last
<1> QED
  BY <1>1 DEF AnswersOne

(* What the codec has made of an answer is of the call the lidar answers.    *)
LEMMA MadeAnswer ==
  ASSUME IInv, ReadsMessage, line # << >>, message'.cmd \notin NotAnswer
  PROVE  /\ AnswersOne(message', calls) /\ message'.from = line[1] /\ message'.size = 1
         /\ calls[line[1]] # "scan" /\ place = HeaderSize + 1 /\ codec'.state = "sync1"
<1>0. WellFormed /\ CodecInStep
  BY DEF IInv
<1>1. /\ message' = [cmd |-> codec.cmd, size |-> codec.size, from |-> FromNow, during |-> 0]
      /\ codec.state = "payload"
  BY DEF ReadsMessage
<1>2. message'.cmd = codec.cmd /\ message'.size = codec.size /\ message'.from = FromNow
  BY <1>1
<1>3. /\ place = HeaderSize + 1 /\ calls[line[1]] # "scan" /\ codec.cmd = TypeOf(calls[line[1]])
      /\ codec.size = 1 /\ ~codec.loop /\ codec._rx_pos = 0
  BY <1>0, <1>1, <1>2 DEF CodecInStep
<1>4. FromNow = line[1]
  BY <1>0, <1>3, FromNowType, WellFormedFacts
<1>5. line[1] \in 1 .. Len(calls)
  BY <1>0, FrameSent DEF Last
<1>6. codec'.state = "sync1"
  BY <1>3 DEF ReadsMessage, With
<1> QED
  BY <1>2, <1>3, <1>4, <1>5, <1>6 DEF AnswersOne

LEMMA AnswerStep == IInv /\ [Next]_vars => MessagesAnswer'
<1> SUFFICES ASSUME IInv, [Next]_vars PROVE MessagesAnswer'
  OBVIOUS
<1>0. WellFormed /\ MessagesAnswer /\ NothingBeforeRequest
  BY DEF IInv
<1>1. \A m : AnswersOne(m, calls) => AnswersOne(m, calls')
  BY <1>0, AnswersKept
<1>2. message \in Message /\ _lastAnsPkt \in Message
  BY <1>0, WellFormedFacts
<1> USE DEF Answers
<1>3. CASE UNCHANGED << decoder, message, _response_waiter, _lastAnsPkt >> /\ app' \notin {"take", "check"}
  BY <1>0, <1>1, <1>3 DEF MessagesAnswer
<1>4. CASE UNCHANGED << app, _response_waiter, _lastAnsPkt, ansPkt >> /\ decoder' = "idle"
  BY <1>0, <1>1, <1>4 DEF MessagesAnswer
<1>5. CASE Wakes \/ Takes
  BY <1>0, <1>1, <1>5 DEF Wakes, Takes, AppGoto, sharedVars, decoderVars, MessagesAnswer
<1>6. CASE StopResets \/ StopDisablesAgain \/ Arms
  <2>1. /\ onDecodeReset /\ UNCHANGED << decoder, _lastAnsPkt >> /\ app' \notin {"take", "check"}
        /\ _response_waiter' = FALSE \/ _response_waiter' = _response_waiter
    BY <1>6 DEF StopResets, StopDisablesAgain, Arms, AppGoto, sharedVars
  <2>2. /\ message'.cmd = message.cmd
        /\ message' = IF decoder = "listener" THEN [message EXCEPT !.size = 0, !.from = 0] ELSE message
    BY <1>0, <2>1, ResetTypes DEF onDecodeReset
  <2>3. decoder = "listener" => message'.size = 0
    BY <1>2, <2>2 DEF Message
  <2>4. AnswersOne(message, calls) => AnswersOne(message', calls')
    <3>1. CASE decoder = "listener"
      BY <2>2, <2>3, <3>1 DEF AnswersOne
    <3>2. CASE decoder # "listener"
      BY <1>1, <2>2, <3>2
    <3> QED
      BY <3>1, <3>2
  <2>5. (decoder # "idle" => message'.cmd \in NotAnswer \/ AnswersOne(message', calls'))
        /\ (decoder = "deliver" => AnswersOne(message', calls'))
    BY <1>0, <2>2, <2>4 DEF MessagesAnswer
  <2>6. _response_waiter' => AnswersOne(_lastAnsPkt, calls')
    BY <1>0, <1>1, <2>1 DEF MessagesAnswer
  <2> QED
    BY <2>1, <2>5, <2>6 DEF MessagesAnswer
<1>7. CASE onDecodeData
  <2>1. /\ line # << >> /\ UNCHANGED << calls, app, _response_waiter, _lastAnsPkt, ansPkt >>
        /\ Syncs \/ ReadsSize \/ ReadsType \/ ReadsByte \/ ReadsMessage
    BY <1>0, <1>7, Decoding DEF appVars, sharedVars
  <2>2. CASE ReadsMessage
    <3>1. decoder' = "listener" /\ (message'.cmd \in NotAnswer \/ AnswersOne(message', calls'))
      BY <2>1, <2>2, MadeAnswer DEF ReadsMessage
    <3> QED
      BY <1>0, <2>1, <3>1 DEF MessagesAnswer
  <2>3. CASE ~ ReadsMessage
    <3>1. decoder' = "idle"
      BY <2>1, <2>3 DEF Syncs, ReadsSize, ReadsType, ReadsByte
    <3> QED
      BY <1>0, <2>1, <3>1 DEF MessagesAnswer
  <2> QED
    BY <2>2, <2>3
<1>8. CASE Copies \/ onSampleData
  BY <1>0, <1>1, <1>8 DEF Copies, onSampleData, DecGoto, DecRest, appVars, MessagesAnswer
<1>9. CASE ComparesType /\ decoder' = "deliver"
  <2>1. /\ message.cmd = _waiting_packet_type /\ decoder = "compare" /\ UNCHANGED << message, appVars >>
        /\ UNCHANGED << _response_waiter, _lastAnsPkt >>
    BY <1>9 DEF ComparesType, DecGoto, DecRest
  <2>2. message.cmd \notin NotAnswer
    BY <1>0, <2>1 DEF NothingBeforeRequest, NotAnswer
  <2>3. AnswersOne(message, calls)
    BY <1>0, <2>1, <2>2 DEF MessagesAnswer
  <2> QED
    BY <1>0, <1>1, <1>9, <2>1, <2>3 DEF MessagesAnswer, appVars
<1>10. CASE Delivers
  <2>1. /\ decoder = "deliver" /\ decoder' = "idle" /\ UNCHANGED << calls, app, ansPkt >>
        /\ _lastAnsPkt' = [message EXCEPT !.during = Last]
    BY <1>10 DEF Delivers, DecGoto, DecRest, appVars
  <2>2. AnswersOne(message, calls)
    BY <1>0, <2>1 DEF MessagesAnswer
  <2>3. _lastAnsPkt'.cmd = message.cmd /\ _lastAnsPkt'.size = message.size /\ _lastAnsPkt'.from = message.from
    BY <1>2, <2>1 DEF Message
  <2>4. AnswersOne(_lastAnsPkt', calls')
    BY <2>1, <2>2, <2>3 DEF AnswersOne
  <2> QED
    BY <1>0, <2>1, <2>4 DEF MessagesAnswer
<1>11. CASE Lidar
  BY <1>0, <1>1, <1>11, Hearing DEF appVars, sharedVars, decoderVars, MessagesAnswer
<1>12. CASE SendsScan
  BY <1>0, <1>1, <1>12 DEF SendsScan, AppGoto, decoderVars, MessagesAnswer
<1>13. CASE UNCHANGED vars
  BY <1>0, <1>1, <1>13 DEF vars, appVars, sharedVars, decoderVars, MessagesAnswer
<1>14. CASE (\E key \in Keys : Request(key)) \/ Stop \/ startScan \/ StopDisables \/ StopSends \/ LocksData \/ Sends
              \/ SendFails \/ TimesOut \/ Checks \/ Enables
  BY <1>0, <1>3, <1>14 DEF Request, Stop, startScan, StopDisables, StopSends, LocksData, Sends, SendFails,
    TimesOut, Checks, Enables, AppGoto, sharedVars, decoderVars
<1>15. CASE onData \/ (ComparesType /\ decoder' # "deliver")
  BY <1>4, <1>15 DEF onData, ComparesType, DecGoto, DecRest, appVars
<1> QED
  BY <1>5, <1>6, <1>7, <1>8, <1>9, <1>10, <1>11, <1>12, <1>13, <1>14, <1>15
  DEF Next, Calls, Caller, decoderThread

--------------------------------------------------------------------------------
(* Nothing is sent, and no message is made, before the first request.        *)
LEMMA NothingBeforeStep == IInv /\ [Next]_vars => NothingBeforeRequest'
<1> SUFFICES ASSUME IInv, [Next]_vars PROVE NothingBeforeRequest'
  OBVIOUS
<1>0. WellFormed /\ PlanFits /\ NothingBeforeRequest
  BY DEF IInv, WellFormed
<1> USE DEF Stopping, Requesting, AppGoto
<1>1. CASE UNCHANGED << _waiting_packet_type, line, decoder, heard, app, plan >>
  BY <1>0, <1>1 DEF NothingBeforeRequest
<1>2. ASSUME NEW key \in Keys, Request(key) PROVE NothingBeforeRequest'
  <2>1. << key >> # << "scan" >>
    BY KeysAssumption
  <2> QED
    BY <1>0, <1>2, <2>1 DEF Request, NothingBeforeRequest, sharedVars, decoderVars, lidarVars
<1>3. CASE Stop \/ startScan \/ StopDisables \/ StopResets
  BY <1>0, <1>3 DEF Stop, startScan, StopDisables, StopResets, NothingBeforeRequest, sharedVars, decoderVars, lidarVars
<1>4. CASE StopSends
  <2>1. heard' = heard \/ Send(0)
    BY <1>4 DEF StopSends
  <2>2. 0 \in 0 .. Last /\ Len(heard) \in Nat
    BY <1>0, WellFormedFacts
  <2>3. ASSUME \A k \in 1 .. Len(heard) : heard[k] = 0 PROVE \A k \in 1 .. Len(heard') : heard'[k] = 0
    BY <1>0, <2>1, <2>2, <2>3, Sending
  <2>4. _waiting_packet_type = "unknown" => line = << >> /\ decoder = "idle" /\ \A k \in 1 .. Len(heard) : heard[k] = 0
    BY <1>0 DEF NothingBeforeRequest
  <2>5. app' = "again" /\ UNCHANGED << _waiting_packet_type, line, decoder >> /\ _waiting_packet_type # "scan"
    BY <1>0, <1>4 DEF StopSends, sharedVars, decoderVars, NothingBeforeRequest
  <2> QED
    BY <2>3, <2>4, <2>5 DEF NothingBeforeRequest
<1>5. CASE StopDisablesAgain
  <2>1. /\ app = "again" /\ app' \in {"idle", "next"} /\ UNCHANGED << _waiting_packet_type, line, decoder, heard, plan >>
    BY <1>5 DEF StopDisablesAgain, sharedVars, lidarVars
  <2> QED
    BY <1>0, <2>1 DEF NothingBeforeRequest, PlanFits
<1>6. CASE Arms
  <2>1. calls[Last] \in Keys /\ _waiting_packet_type' = TypeOf(calls[Last])
    BY <1>0, <1>6 DEF Arms, PlanFits
  <2>2. _waiting_packet_type' \notin {"unknown", "scan"}
    BY <2>1, TypeOfKey, KeysAssumption
  <2> QED
    BY <2>2 DEF NothingBeforeRequest
<1>7. CASE LocksData
  BY <1>0, <1>7 DEF LocksData, NothingBeforeRequest, decoderVars, lidarVars
<1>8. CASE Sends \/ SendFails \/ TimesOut \/ Wakes \/ Takes \/ Checks \/ Enables \/ SendsScan
  <2>1. _waiting_packet_type # "unknown"
    BY <1>0, <1>8 DEF Sends, SendFails, TimesOut, Wakes, Takes, Checks, Enables, SendsScan, NothingBeforeRequest
  <2>2. UNCHANGED _waiting_packet_type
    BY <1>8 DEF Sends, SendFails, TimesOut, Wakes, Takes, Checks, Enables, SendsScan, sharedVars
  <2> QED
    BY <1>0, <2>1, <2>2 DEF NothingBeforeRequest
<1>9. CASE decoderThread
  <2>1. UNCHANGED _waiting_packet_type
    BY <1>9 DEF decoderThread, onDecodeData, Copies, onSampleData, onData, ComparesType, Delivers, DecRest, sharedVars
  <2>2. _waiting_packet_type # "unknown"
    BY <1>0, <1>9 DEF decoderThread, onDecodeData, Copies, onSampleData, onData, ComparesType, Delivers, DecGoto,
      NothingBeforeRequest
  <2> QED
    BY <1>0, <2>1, <2>2 DEF NothingBeforeRequest
<1>10. CASE Lidar
  <2>1. UNCHANGED << _waiting_packet_type, decoder, app, plan >>
    BY <1>0, <1>10, Hearing DEF appVars, sharedVars, decoderVars
  <2>2. Len(heard) \in Nat /\ Len(heard) > 0
    BY <1>0, <1>10, WellFormedFacts, Hearing
  <2>3. ASSUME \A k \in 1 .. Len(heard) : heard[k] = 0
        PROVE  line' = line /\ \A k \in 1 .. Len(heard') : heard'[k] = 0
    BY <1>0, <1>10, <2>2, <2>3, Hearing
  <2> QED
    BY <1>0, <2>1, <2>3 DEF NothingBeforeRequest
<1> QED
  BY <1>1, <1>2, <1>3, <1>4, <1>5, <1>6, <1>7, <1>8, <1>9, <1>10
  DEF Next, Calls, Caller, vars, appVars, sharedVars, decoderVars, lidarVars

(* An answer is taken during the call in which it was decoded.               *)
LEMMA RecentStep == IInv /\ [Next]_vars => AnswerIsRecent'
<1> SUFFICES ASSUME IInv, [Next]_vars PROVE AnswerIsRecent'
  OBVIOUS
<1>0. WellFormed /\ AnswerIsRecent /\ message \in Message
  BY WellFormedFacts DEF IInv
<1>1. CASE app' \notin {"send", "wait", "take", "check"}
  BY <1>1 DEF AnswerIsRecent
<1>2. CASE UNCHANGED << app, calls, _response_waiter, _lastAnsPkt, ansPkt >>
  BY <1>0, <1>2 DEF AnswerIsRecent, Last
<1>3. CASE Arms
  BY <1>3 DEF Arms, AppGoto, AnswerIsRecent
<1>4. CASE Sends \/ Wakes \/ Takes
  BY <1>0, <1>4 DEF Sends, Wakes, Takes, AppGoto, AnswerIsRecent, Last, sharedVars
<1>5. CASE Delivers
  <2>1. UNCHANGED << app, calls, ansPkt >> /\ _lastAnsPkt' = [message EXCEPT !.during = Last]
    BY <1>5 DEF Delivers, DecRest, appVars
  <2>2. _lastAnsPkt'.during = Last' /\ Last' = Last
    BY <1>0, <2>1 DEF Message, Last
  <2>3. app = "check" => ansPkt.during = Last
    BY <1>0 DEF AnswerIsRecent
  <2> QED
    BY <2>1, <2>2, <2>3 DEF AnswerIsRecent
<1> QED
  BY <1>1, <1>2, <1>3, <1>4, <1>5
  DEF Next, Calls, Request, Stop, startScan, Caller, StopDisables, StopResets, StopSends, StopDisablesAgain, LocksData,
    SendFails, TimesOut, Checks, Enables, SendsScan, decoderThread, onDecodeData, Copies, onSampleData, onData,
    ComparesType, DecRest, Lidar, LidarAnswers, LidarIgnores, LidarStops, LidarScans, LidarRest, AppGoto,
    vars, appVars, sharedVars

--------------------------------------------------------------------------------
(* The answer's way.                                                        *)

LEMMA FlowCalls ==
  ASSUME WellFormed
  PROVE  /\ Len(heard) \in Nat /\ Len(line) \in Nat /\ Last \in Nat
         /\ \A k \in 1 .. Len(heard) : heard[k] \in 0 .. Last
         /\ \A k \in 1 .. Len(line) : line[k] \in 1 .. Last
<1>1. Len(heard) \in Nat /\ Len(line) \in Nat /\ Last \in Nat /\ heard \in Seq(Call \cup {0}) /\ line \in Seq(Call)
  BY WellFormedFacts
<1>2. /\ \A k \in 1 .. Len(heard) : heard[k] \in Call \cup {0} /\ heard[k] <= Last
      /\ \A k \in 1 .. Len(line) : line[k] \in Call /\ line[k] <= Last
  BY <1>1, ElementOfSeq DEF WellFormed, FlowIsKnown
<1> QED
  BY <1>1, <1>2 DEF Call

(* What a call asks does not change.                                        *)
LEMMA AsksKept ==
  ASSUME WellFormed, [Next]_vars
  PROVE  \A call \in 0 .. Last : Asks(call)' <=> Asks(call)
<1>1. Last \in Nat /\ \A i \in 1 .. Last : calls'[i] = calls[i]
  BY CallsGrow
<1> QED
  BY <1>1 DEF Asks

LEMMA NowhereKept ==
  ASSUME WellFormed, [Next]_vars, Nowhere, UNCHANGED << heard, line >>, NotHeld'
  PROVE  Nowhere'
<1>1. /\ NotAsked(heard, Len(heard)) /\ NotAsked(line, Len(line))
  BY DEF Nowhere
<1>2. NotAsked(heard, Len(heard))' /\ NotAsked(line, Len(line))'
  BY <1>1, FlowCalls, AsksKept DEF NotAsked
<1> QED
  BY <1>2 DEF Nowhere

(* Bytes of scans do not make an answer.                                    *)
LEMMA DecodesNothing ==
  ASSUME IInv, onDecodeData, NotAsked(line, Len(line))
  PROVE  NotHeld' /\ NotAsked(line, Len(line))'
<1>0. WellFormed
  BY DEF IInv
<1>1. /\ line # << >> /\ Emitted /\ UNCHANGED calls
      /\ Syncs \/ ReadsSize \/ ReadsType \/ ReadsByte \/ ReadsMessage
  BY <1>0, Decoding DEF appVars
<1>2. \A k \in 1 .. Len(line) : line[k] # 0 /\ ~ Asks(line[k])
  BY <1>0, FlowCalls DEF NotAsked
<1>3. Len(line) > 0 /\ Len(line) \in Nat /\ line[1] \in 1 .. Last
  BY <1>0, <1>1, FrameSent
<1>4. calls[line[1]] = "scan"
  BY <1>2, <1>3 DEF Asks
<1>5. NotAsked(line, Len(line))'
  <2>1. CASE line' = line
    BY <1>1, <1>2, <2>1 DEF NotAsked, Asks
  <2>2. CASE line' = Tail(line)
    <3>1. /\ Len(line') = Len(line) - 1
          /\ \A k \in 1 .. Len(line) - 1 : line'[k] = line[k + 1]
      BY <1>0, <1>1, <2>2, FrameSent
    <3> QED
      BY <1>1, <1>2, <1>3, <3>1 DEF NotAsked, Asks
  <2> QED
    BY <1>0, <1>1, <2>1, <2>2, FrameGoesOn
<1>6. CASE ReadsMessage
  <2>1. message'.cmd \in NotAnswer
    BY <1>1, <1>4, <1>6, MadeAnswer
  <2> QED
    BY <1>5, <2>1 DEF NotHeld
<1>7. CASE ~ ReadsMessage
  <2>1. decoder' = "idle"
    BY <1>1, <1>7 DEF Syncs, ReadsSize, ReadsType, ReadsByte
  <2> QED
    BY <1>5, <2>1 DEF NotHeld
<1> QED
  BY <1>6, <1>7

(* Of the answer's bytes the codec makes the message, or nothing.            *)
LEMMA DecodesAnswer ==
  ASSUME IInv, onDecodeData, InLine
  PROVE  (InLine \/ InMessage \/ Nowhere)'
<1>0. WellFormed
  BY DEF IInv
<1>1. /\ line # << >> /\ Emitted /\ UNCHANGED << calls, heard >>
      /\ Syncs \/ ReadsSize \/ ReadsType \/ ReadsByte \/ ReadsMessage
  BY <1>0, Decoding DEF appVars
<1>2. /\ heard = << >> /\ heard' = << >> /\ Len(heard) = 0 /\ Last' = Last
      /\ line[Len(line)] = Last /\ \A k \in 1 .. Len(line) - 1 : ~ Asks(line[k])
  BY <1>1 DEF InLine, AskedLast, NotAsked, Last
<1>3. /\ Len(line) > 0 /\ Len(line) \in Nat /\ line[1] \in 1 .. Last
      /\ Tail(line) \in Seq(Call) /\ Len(Tail(line)) = Len(line) - 1
      /\ \A k \in 1 .. Len(line) - 1 : Tail(line)[k] = line[k + 1]
  BY <1>0, <1>1, FrameSent
<1>4. NotAsked(heard, Len(heard))'
  BY <1>2 DEF NotAsked
<1>5. ASSUME line' = Tail(line), Len(line) > 1 PROVE AskedLast(line)'
  <2>1. Len(line') = Len(line) - 1 /\ line' # << >>
    <3>1. Len(line') = Len(line) - 1 /\ Len(line') # 0
      BY <1>3, <1>5
    <3>2. Len(<< >>) = 0
      OBVIOUS
    <3> QED
      BY <3>1, <3>2
  <2>2. line'[Len(line')] = Last'
    BY <1>2, <1>3, <1>5, <2>1
  <2>3. \A k \in 1 .. Len(line') - 1 : ~ Asks(line[k + 1]) /\ line'[k] = line[k + 1]
    BY <1>2, <1>3, <1>5, <2>1
  <2>4. NotAsked(line, Len(line) - 1)'
    BY <1>1, <2>3 DEF NotAsked, Asks
  <2> QED
    BY <2>1, <2>2, <2>4 DEF AskedLast
<1>6. ASSUME line' = Tail(line), Len(line) = 1 PROVE line' = << >> /\ NotAsked(line, Len(line))'
  BY <1>3, <1>6, EmptySeq DEF NotAsked
<1>7. CASE NotHeld'
  <2>1. CASE line' = line
    BY <1>1, <1>2, <1>7, <2>1 DEF InLine, AskedLast, NotAsked, Asks
  <2>2. CASE line' = Tail(line)
    <3>1. CASE Len(line) = 1
      BY <1>4, <1>6, <1>7, <2>2, <3>1 DEF Nowhere
    <3>2. CASE Len(line) > 1
      BY <1>2, <1>5, <1>7, <2>2, <3>2 DEF InLine
    <3> QED
      BY <1>3, <3>1, <3>2
  <2> QED
    BY <1>0, <1>1, <2>1, <2>2, FrameGoesOn
<1>8. CASE ~ NotHeld'
  <2>1. decoder' # "idle" /\ message'.cmd \notin NotAnswer
    BY <1>8 DEF NotHeld
  <2>2. ReadsMessage
    BY <1>1, <2>1 DEF Syncs, ReadsSize, ReadsType, ReadsByte
  <2>3. /\ message'.from = line[1] /\ calls[line[1]] # "scan" /\ place = HeaderSize + 1 /\ codec'.state = "sync1"
    BY <1>1, <2>1, <2>2, MadeAnswer
  <2>4. Len(line) = 1
    BY <1>2, <1>3, <2>3 DEF Asks
  <2>5. Size(calls[line[1]]) = 1 /\ place \in Nat /\ HeaderSize \in Nat
    BY <2>3 DEF Size, HeaderSize
  <2>6. line' = Tail(line)
    BY <1>0, <1>1, <2>3, <2>5, FrameGoesOn
  <2>7. line' = << >>
    BY <1>6, <2>4, <2>6
  <2> QED
    BY <1>2, <2>1, <2>3, <2>4, <2>7 DEF InMessage, AllTaken
<1> QED
  BY <1>7, <1>8

(* A lidar that was told only of scans and stops sends no answer.            *)
LEMMA LidarTellsNothing ==
  ASSUME WellFormed, Lidar, Nowhere
  PROVE  Nowhere'
<1>1. /\ Len(heard) \in Nat /\ Len(line) \in Nat /\ \A k \in 1 .. Len(heard) : ~ Asks(heard[k])
      /\ \A k \in 1 .. Len(line) : ~ Asks(line[k])
  BY FlowCalls DEF Nowhere, NotAsked
<1>2. /\ Len(heard) > 0 /\ UNCHANGED << calls, decoder, message >>
  BY Hearing DEF appVars, decoderVars
<1>3. NotAsked(heard, Len(heard))'
  BY <1>1, <1>2, Hearing DEF NotAsked, Asks
<1>4. NotAsked(line, Len(line))'
  <2>1. CASE line' = line
    BY <1>1, <1>2, <2>1 DEF NotAsked, Asks
  <2>2. CASE line' # line
    BY <1>1, <1>2, <2>2, Hearing DEF NotAsked, Asks
  <2> QED
    BY <2>1, <2>2
<1> QED
  BY <1>2, <1>3, <1>4 DEF Nowhere, NotHeld

(* The lidar answers the request, or ignores it.                            *)
LEMMA LidarTells ==
  ASSUME WellFormed, Lidar, InHeard
  PROVE  (InHeard \/ InLine \/ Nowhere)'
<1>1. /\ Len(heard) \in Nat /\ Len(line) \in Nat /\ \A k \in 1 .. Len(heard) - 1 : ~ Asks(heard[k])
      /\ heard[Len(heard)] = Last /\ \A k \in 1 .. Len(line) : ~ Asks(line[k])
  BY FlowCalls DEF InHeard, AskedLast, NotAsked
<1>2. /\ Len(heard) > 0 /\ UNCHANGED << calls, decoder, message >> /\ Last' = Last
      /\ heard' \in Seq(Call \cup {0}) /\ Len(heard') = Len(heard) - 1
      /\ \A k \in 1 .. Len(heard) - 1 : heard'[k] = heard[k + 1]
  BY Hearing DEF appVars, decoderVars, Last
<1>3. NotHeld'
  BY <1>2 DEF InHeard, NotHeld
<1>4. ASSUME line' # line
      PROVE  /\ Len(line') = Len(line) + 1 /\ line' # << >>
             /\ line'[Len(line) + 1] = heard[1] /\ \A k \in 1 .. Len(line) : line'[k] = line[k]
  BY <1>4, Hearing
<1>5. CASE Len(heard) = 1
  <2>1. heard' = << >> /\ NotAsked(heard, Len(heard))'
    BY <1>2, <1>5, EmptySeq DEF NotAsked
  <2>2. CASE line' = line
    <3>1. NotAsked(line, Len(line))'
      BY <1>1, <1>2, <2>2 DEF NotAsked, Asks
    <3> QED
      BY <1>3, <2>1, <3>1 DEF Nowhere
  <2>3. CASE line' # line
    <3>1. AskedLast(line)'
      BY <1>1, <1>2, <1>4, <1>5, <2>3 DEF AskedLast, NotAsked, Asks
    <3> QED
      BY <1>3, <2>1, <3>1 DEF InLine
  <2> QED
    BY <2>2, <2>3
<1>6. CASE Len(heard) > 1
  <2>1. AskedLast(heard)'
    BY <1>1, <1>2, <1>6 DEF AskedLast, NotAsked, Asks
  <2>2. NotAsked(line, Len(line))'
    <3>1. ~ Asks(heard[1])
      BY <1>1, <1>6
    <3> QED
      BY <1>1, <1>2, <1>4, <3>1 DEF NotAsked, Asks
  <2> QED
    BY <1>3, <2>1, <2>2 DEF InHeard
<1> QED
  BY <1>1, <1>2, <1>5, <1>6

(* What the decoder and the lidar do leaves the caller where it was.         *)
LEMMA LateKept ==
  ASSUME IInv, ~timedOut, UNCHANGED << app, plan, calls, _response_waiter, _lastAnsPkt, ansPkt >>,
         AllTaken => AllTaken', Nowhere => Nowhere',
         InHeard \/ InLine \/ InMessage => (Nowhere \/ InHeard \/ InLine \/ InMessage)'
  PROVE  NoneIsLate'
<1>1. NoneIsLate /\ Last' = Last
  BY DEF IInv, Last
<1> QED
  BY <1>1 DEF NoneIsLate

LEMMA LateLidar ==
  ASSUME IInv, ~timedOut, Lidar
  PROVE  NoneIsLate'
<1>1. WellFormed
  BY DEF IInv
<1>2. heard # << >> /\ UNCHANGED << app, plan, calls, _response_waiter, _lastAnsPkt, ansPkt >>
  BY <1>1, Hearing DEF appVars, sharedVars
<1>3. ~AllTaken /\ ~InLine /\ ~InMessage
  BY <1>2 DEF AllTaken, InLine, InMessage
<1>4. Nowhere => Nowhere'
  BY <1>1, LidarTellsNothing
<1>5. InHeard => (Nowhere \/ InHeard \/ InLine \/ InMessage)'
  BY <1>1, LidarTells
<1> QED
  BY <1>2, <1>3, <1>4, <1>5, LateKept

LEMMA LateDecoder ==
  ASSUME IInv, ~timedOut, decoderThread
  PROVE  NoneIsLate'
<1>0. WellFormed /\ MessagesAnswer /\ NoneIsLate /\ message \in Message
  BY WellFormedFacts DEF IInv
<1>1. CASE onDecodeData
  <2>1. /\ line # << >> /\ decoder = "idle" /\ UNCHANGED << calls, heard >>
        /\ UNCHANGED << app, plan, calls, _response_waiter, _lastAnsPkt, ansPkt >> /\ Last' = Last
    BY <1>0, <1>1, Decoding DEF appVars, sharedVars, Last
  <2>2. ~AllTaken /\ ~InMessage
    BY <2>1 DEF AllTaken, InMessage
  <2>3. Nowhere => Nowhere'
    <3> SUFFICES ASSUME Nowhere PROVE Nowhere'
      OBVIOUS
    <3>1. NotAsked(heard, Len(heard)) /\ NotAsked(line, Len(line))
      BY DEF Nowhere
    <3>2. NotHeld' /\ NotAsked(line, Len(line))'
      BY <1>1, <3>1, DecodesNothing
    <3>3. NotAsked(heard, Len(heard))'
      BY <2>1, <3>1 DEF NotAsked, Asks
    <3> QED
      BY <3>2, <3>3 DEF Nowhere
  <2>4. InHeard => InHeard'
    <3> SUFFICES ASSUME InHeard PROVE InHeard'
      OBVIOUS
    <3>1. AskedLast(heard) /\ NotAsked(line, Len(line))
      BY DEF InHeard
    <3>2. NotHeld' /\ NotAsked(line, Len(line))'
      BY <1>1, <3>1, DecodesNothing
    <3>3. AskedLast(heard)'
      BY <2>1, <3>1 DEF AskedLast, NotAsked, Asks
    <3> QED
      BY <3>2, <3>3 DEF InHeard
  <2>5. InLine => (InLine \/ InMessage \/ Nowhere)'
    BY <1>1, DecodesAnswer
  <2> QED
    BY <2>1, <2>2, <2>3, <2>4, <2>5, LateKept
<1>2. CASE Copies \/ onSampleData \/ (ComparesType /\ decoder' # "idle")
  <2>1. /\ decoder # "idle" /\ decoder' # "idle" /\ UNCHANGED << calls, heard, line, message, codec >> /\ Last' = Last
        /\ UNCHANGED << app, plan, calls, _response_waiter, _lastAnsPkt, ansPkt >>
    BY <1>2 DEF Copies, onSampleData, ComparesType, DecGoto, DecRest, appVars, lidarVars, Last
  <2>2. AllTaken' = AllTaken /\ NotHeld' = NotHeld
    BY <2>1 DEF AllTaken, NotHeld
  <2>3. Nowhere => Nowhere'
    BY <2>1, <2>2 DEF Nowhere, NotAsked, Asks
  <2>4. InHeard => InHeard'
    BY <2>1, <2>2 DEF InHeard, AskedLast, NotAsked, Asks
  <2>5. InLine => InLine'
    BY <2>1, <2>2 DEF InLine, AskedLast, NotAsked, Asks
  <2>6. InMessage => InMessage'
    BY <2>1, <2>2 DEF InMessage
  <2> QED
    BY <2>1, <2>2, <2>3, <2>4, <2>5, <2>6, LateKept
<1>3. CASE onData \/ (ComparesType /\ decoder' = "idle")
  <2>1. /\ decoder' = "idle" /\ UNCHANGED << calls, heard, line, codec >> /\ Last' = Last
        /\ UNCHANGED << app, plan, calls, _response_waiter, _lastAnsPkt, ansPkt >>
    BY <1>3 DEF onData, ComparesType, DecGoto, DecRest, appVars, lidarVars, Last
  <2>2. NotHeld' /\ AllTaken' = AllTaken
    BY <2>1 DEF AllTaken, NotHeld
  <2>3. Nowhere => Nowhere'
    BY <2>1, <2>2 DEF Nowhere, NotAsked, Asks
  <2>4. InHeard => InHeard'
    BY <2>1, <2>2 DEF InHeard, AskedLast, NotAsked, Asks
  <2>5. InLine => InLine'
    BY <2>1, <2>2 DEF InLine, AskedLast, NotAsked, Asks
  <2>6. InMessage => Nowhere'
    BY <2>1, <2>2 DEF InMessage, AllTaken, Nowhere, NotAsked
  <2> QED
    BY <2>1, <2>2, <2>3, <2>4, <2>5, <2>6, LateKept
<1>4. CASE Delivers
  <2>1. /\ decoder = "deliver" /\ decoder' = "idle" /\ UNCHANGED << app, plan, calls, ansPkt, heard, line, codec >>
        /\ _lastAnsPkt' = [message EXCEPT !.during = Last] /\ Last' = Last
    BY <1>4 DEF Delivers, DecGoto, DecRest, appVars, lidarVars, Last
  <2>2. ~ NotHeld
    BY <1>0, <2>1 DEF MessagesAnswer, Answers, AnswersOne, NotHeld
  <2>3. app = "wait" /\ InMessage
    BY <1>0, <2>2 DEF NoneIsLate, Nowhere, InHeard, InLine
  <2>4. AllTaken' /\ Nowhere' /\ message.from = Last
    BY <2>1, <2>3 DEF InMessage, AllTaken, Nowhere, NotAsked, NotHeld
  <2>5. _lastAnsPkt'.from = Last'
    BY <1>0, <2>1, <2>4 DEF Message
  <2> QED
    BY <2>1, <2>3, <2>4, <2>5 DEF NoneIsLate
<1> QED
  BY <1>1, <1>2, <1>3, <1>4 DEF decoderThread

(* No answer is on its way but to the caller that waits for it.              *)
LEMMA LateStep == IInv /\ [Next]_vars => NoneIsLate'
<1> SUFFICES ASSUME IInv, [Next]_vars, ~timedOut' PROVE NoneIsLate'
  BY DEF NoneIsLate
<1>0. /\ WellFormed /\ PlanFits /\ MessagesAnswer /\ NoneIsLate /\ message \in Message
      /\ Len(heard) \in Nat /\ Last \in Nat /\ timedOut \in BOOLEAN
  BY WellFormedFacts DEF IInv, WellFormed, TypeOK
<1>1. ~timedOut
  BY <1>0 DEF Next, Calls, Request, Stop, startScan, Caller, StopDisables, StopResets, StopSends, StopDisablesAgain,
    LocksData, Arms, Sends, SendFails, TimesOut, Wakes, Takes, Checks, Enables, SendsScan, decoderThread, onDecodeData,
    Copies, onSampleData, onData, ComparesType, Delivers, DecRest, Lidar, LidarAnswers, LidarIgnores, LidarStops,
    LidarScans, LidarRest, vars, appVars
<1>2. /\ Nowhere \/ (app = "wait" /\ ~_response_waiter /\ (InHeard \/ InLine \/ InMessage))
      /\ app = "send" => ~_response_waiter
      /\ app = "wait" /\ _response_waiter => AllTaken /\ _lastAnsPkt.from = Last
      /\ app = "take" => AllTaken /\ _lastAnsPkt.from = Last
      /\ app = "check" => AllTaken /\ ansPkt.from = Last
      /\ app = "next" /\ plan = << "scan" >> => AllTaken
  BY <1>0, <1>1 DEF NoneIsLate
<1> USE DEF AppGoto
<1>3. ASSUME Nowhere', app' \notin {"send", "wait", "take", "check"}, app' = "next" => plan' # << "scan" >>
      PROVE  NoneIsLate'
  BY <1>3 DEF NoneIsLate
<1>4. ASSUME NEW key \in Keys, Request(key) PROVE NoneIsLate'
  <2>1. Nowhere'
    BY <1>0, <1>2, <1>4, NowhereKept DEF Request, NotHeld, Nowhere, decoderVars, lidarVars
  <2>2. << key >> # << "scan" >>
    BY KeysAssumption
  <2> QED
    BY <1>3, <1>4, <2>1, <2>2 DEF Request
<1>5. CASE Stop \/ startScan \/ StopDisables \/ SendFails \/ LocksData \/ Enables
  <2>1. /\ app # "wait" /\ UNCHANGED << heard, line, decoder, message >>
        /\ app' \in {"disable", "reset", "idle", "arm", "scan"}
    BY <1>5 DEF Stop, startScan, StopDisables, SendFails, LocksData, Enables, decoderVars, lidarVars
  <2>2. Nowhere'
    BY <1>0, <1>2, <2>1, NowhereKept DEF NotHeld, Nowhere
  <2> QED
    BY <1>3, <2>1, <2>2
<1>6. CASE StopResets \/ StopDisablesAgain \/ Arms
  <2>1. onDecodeReset /\ app # "wait" /\ UNCHANGED << heard, line, decoder >>
    BY <1>6 DEF StopResets, StopDisablesAgain, Arms, lidarVars
  <2>2. message'.cmd = message.cmd
    BY <1>0, <2>1, ResetTypes
  <2>3. Nowhere'
    BY <1>0, <1>2, <2>1, <2>2, NowhereKept DEF NotHeld, Nowhere
  <2>4. CASE Arms
    <3>1. app' = "send" /\ _response_waiter' = FALSE
      BY <2>4 DEF Arms
    <3> QED
      BY <2>3, <3>1 DEF NoneIsLate
  <2>5. CASE StopResets
    BY <1>3, <2>3, <2>5 DEF StopResets
  <2>6. CASE StopDisablesAgain
    <3>1. app' \in {"idle", "next"} /\ plan' # << "scan" >>
      BY <1>0, <2>6 DEF StopDisablesAgain, PlanFits, Stopping
    <3> QED
      BY <1>3, <2>3, <3>1
  <2> QED
    BY <1>6, <2>4, <2>5, <2>6
<1>7. CASE StopSends \/ SendsScan
  <2>1. /\ app \in {"stop", "scan"} /\ app' \in {"again", "idle"}
        /\ UNCHANGED << line, decoder, message, calls >>
    BY <1>7 DEF StopSends, SendsScan, decoderVars
  <2>2. Nowhere
    BY <1>2, <2>1
  <2>3. NotAsked(heard, Len(heard))'
    <3>1. CASE heard' = heard
      BY <2>1, <2>2, <3>1 DEF Nowhere, NotAsked, Asks
    <3>2. CASE heard' # heard
      <4>1. \E command \in 0 .. Last : Send(command) /\ ~ Asks(command)
        <5>1. CASE StopSends
          BY <1>0, <3>2, <5>1 DEF StopSends, Asks
        <5>2. CASE SendsScan
          BY <1>0, <5>2 DEF SendsScan, Asks, PlanFits
        <5> QED
          BY <1>7, <5>1, <5>2
      <4>2. PICK command \in 0 .. Last : Send(command) /\ ~ Asks(command)
        BY <4>1
      <4>3. /\ Len(heard') = Len(heard) + 1 /\ heard'[Len(heard) + 1] = command
            /\ \A k \in 1 .. Len(heard) : heard'[k] = heard[k]
        BY <1>0, <4>2, Sending
      <4> QED
        BY <1>0, <2>1, <2>2, <4>2, <4>3 DEF Nowhere, NotAsked, Asks
    <3> QED
      BY <3>1, <3>2
  <2>4. NotAsked(line, Len(line))' /\ NotHeld'
    BY <2>1, <2>2 DEF Nowhere, NotAsked, Asks, NotHeld
  <2> QED
    BY <1>3, <2>1, <2>3, <2>4 DEF Nowhere
<1>8. CASE Sends
  <2>1. /\ app = "send" /\ app' = "wait" /\ Send(Last) /\ Last' = Last
        /\ UNCHANGED << line, decoder, message, calls, _response_waiter >>
    BY <1>8 DEF Sends, decoderVars, sharedVars, Last
  <2>2. Nowhere /\ ~_response_waiter
    BY <1>2, <2>1
  <2>3. Last \in 0 .. Last
    BY <1>0
  <2>4. /\ Len(heard') = Len(heard) + 1 /\ heard'[Len(heard) + 1] = Last /\ heard' # << >>
        /\ \A k \in 1 .. Len(heard) : heard'[k] = heard[k]
    BY <1>0, <2>1, <2>3, Sending
  <2>5. AskedLast(heard)'
    BY <1>0, <2>1, <2>2, <2>4 DEF Nowhere, AskedLast, NotAsked, Asks
  <2>6. NotAsked(line, Len(line))' /\ NotHeld'
    BY <2>1, <2>2 DEF Nowhere, NotAsked, Asks, NotHeld
  <2> QED
    BY <2>1, <2>2, <2>5, <2>6 DEF NoneIsLate, InHeard
<1>9. CASE TimesOut
  BY <1>9 DEF TimesOut
<1>10. CASE Wakes \/ Takes \/ Checks
  <2>1. /\ AllTaken /\ AllTaken' /\ Nowhere /\ Last' = Last /\ calls' = calls
        /\ UNCHANGED << heard, line, decoder, message >>
    BY <1>2, <1>10 DEF Wakes, Takes, Checks, decoderVars, lidarVars, AllTaken, Last
  <2>2. Nowhere'
    BY <2>1 DEF Nowhere, NotAsked, Asks, NotHeld
  <2>3. CASE Wakes
    BY <1>2, <2>1, <2>2, <2>3 DEF Wakes, NoneIsLate
  <2>4. CASE Takes
    BY <1>2, <2>1, <2>2, <2>4 DEF Takes, NoneIsLate, sharedVars
  <2>5. CASE Checks
    <3>1. app' \in {"next", "idle"}
      BY <2>5 DEF Checks
    <3> QED
      BY <2>1, <2>2, <3>1 DEF NoneIsLate
  <2> QED
    BY <1>10, <2>3, <2>4, <2>5
<1>11. CASE UNCHANGED vars
  <2>1. Nowhere' = Nowhere /\ InHeard' = InHeard /\ InLine' = InLine /\ InMessage' = InMessage /\ AllTaken' = AllTaken
    BY <1>11 DEF vars, appVars, sharedVars, decoderVars, lidarVars, Nowhere, InHeard, InLine, InMessage, AllTaken,
      AskedLast, NotAsked, Asks, NotHeld, Last
  <2>2. UNCHANGED << app, plan, _response_waiter, _lastAnsPkt, ansPkt, Last >>
    BY <1>11 DEF vars, appVars, sharedVars, Last
  <2> QED
    BY <1>2, <2>1, <2>2 DEF NoneIsLate
<1> QED
  BY <1>1, <1>4, <1>5, <1>6, <1>7, <1>8, <1>9, <1>10, <1>11, LateDecoder, LateLidar DEF Next, Calls, Caller

--------------------------------------------------------------------------------
(* What comes while the unpacker is enabled.                                *)

(* The codec and its message are of the scan whose bytes are sent.           *)
LEMMA ScanDecoded ==
  ASSUME IInv, onDecodeData, _enabled, ~timedOut
  PROVE  /\ \A k \in 1 .. Len(line') : line'[k] = scan
         /\ codec'.state = "payload" /\ codec'._rx_pos > 0 => OfScan(codec'.from)
         /\ decoder' # "idle" => OfScan(message'.from)
<1>0. WellFormed /\ EnabledForScan
  BY DEF IInv
<1>1. /\ line # << >> /\ Emitted
      /\ Syncs \/ ReadsSize \/ ReadsType \/ ReadsByte \/ ReadsMessage
  BY <1>0, Decoding
<1>2. /\ Len(line) > 0 /\ Len(line) \in Nat /\ Len(Tail(line)) = Len(line) - 1
      /\ \A k \in 1 .. Len(line) - 1 : Tail(line)[k] = line[k + 1]
      /\ \A k \in 1 .. Len(line) : line[k] = scan
  BY <1>0, <1>1, FrameSent DEF EnabledForScan
<1>3. \A k \in 1 .. Len(line') : line'[k] = scan
  BY <1>0, <1>1, <1>2, FrameGoesOn
<1>4. OfScan(FromNow)
  BY <1>0, <1>1, <1>2, FromNowType DEF OfScan
<1>5. CASE Syncs \/ ReadsSize
  BY <1>3, <1>5 DEF Syncs, ReadsSize, With
<1>6. CASE ReadsType
  <2>1. codec._rx_pos = 0 /\ codec'._rx_pos = codec._rx_pos /\ decoder' = "idle"
    BY <1>0, <1>6 DEF ReadsType, With, WellFormed, FlowIsKnown
  <2> QED
    BY <1>3, <2>1
<1>7. CASE ReadsByte
  BY <1>3, <1>4, <1>7 DEF ReadsByte, With
<1>8. CASE ReadsMessage
  <2>1. codec'._rx_pos = 0
    BY <1>8 DEF ReadsMessage, With
  <2>2. message'.from = FromNow
    BY <1>8 DEF ReadsMessage
  <2> QED
    BY <1>3, <1>4, <2>1, <2>2
<1> QED
  BY <1>1, <1>5, <1>6, <1>7, <1>8

LEMMA EnabledStep == IInv /\ [Next]_vars => EnabledForScan'
<1> SUFFICES ASSUME IInv, [Next]_vars PROVE EnabledForScan'
  OBVIOUS
<1>0. /\ WellFormed /\ PlanFits /\ EnabledForScan /\ NoneIsLate
      /\ Len(heard) \in Nat /\ Last \in Nat /\ Last' \in Nat
      /\ _enabled \in BOOLEAN /\ timedOut \in BOOLEAN
  BY WellFormedFacts, CallsGrow DEF IInv, WellFormed, TypeOK
<1>1. /\ _enabled => app \in {"idle", "disable", "next", "scan"} /\ (app = "next" => plan # << "scan" >>)
      /\ app = "scan" => scan = Last
      /\ _enabled /\ ~timedOut =>
           /\ \A k \in 1 .. Len(heard) : heard[k] = scan
           /\ \A k \in 1 .. Len(line) : line[k] = scan
           /\ codec.state = "payload" /\ codec._rx_pos > 0 => OfScan(codec.from)
           /\ decoder # "idle" /\ ~inHand => OfScan(message.from)
  BY <1>0 DEF EnabledForScan
<1> USE DEF AppGoto
<1>2. ASSUME ~_enabled', app' # "scan" PROVE EnabledForScan'
  BY <1>2 DEF EnabledForScan
<1>3. CASE StopResets \/ StopSends \/ StopDisablesAgain \/ Arms \/ Sends \/ SendFails \/ TimesOut \/ Wakes \/ Takes
           \/ Checks
  <2>1. ~_enabled /\ _enabled' = _enabled
    BY <1>1, <1>3 DEF StopResets, StopSends, StopDisablesAgain, Arms, Sends, SendFails, TimesOut, Wakes, Takes, Checks,
      sharedVars
  <2>2. app' # "scan"
    BY <1>3 DEF StopResets, StopSends, StopDisablesAgain, Arms, Sends, SendFails, TimesOut, Wakes, Takes, Checks
  <2> QED
    BY <1>2, <2>1, <2>2
<1>4. CASE StopDisables \/ LocksData
  BY <1>2, <1>4 DEF StopDisables, LocksData
<1>5. ASSUME NEW key \in Keys, Request(key) PROVE EnabledForScan'
  <2>1. << key >> # << "scan" >>
    BY KeysAssumption
  <2>2. /\ app' = "next" /\ plan' # << "scan" >>
        /\ UNCHANGED << timedOut, _enabled, scan, inHand, heard, line, codec, decoder, message >>
    BY <1>5, <2>1 DEF Request, sharedVars, decoderVars, lidarVars
  <2> QED
    BY <1>1, <2>2 DEF EnabledForScan, OfScan
<1>6. CASE Stop \/ startScan
  <2>1. app' = "disable" /\ UNCHANGED << timedOut, _enabled, scan, inHand, heard, line, codec, decoder, message >>
    BY <1>6 DEF Stop, startScan, sharedVars, decoderVars, lidarVars
  <2> QED
    BY <1>1, <2>1 DEF EnabledForScan, OfScan
<1>7. CASE Enables
  <2>1. /\ app = "next" /\ plan = << "scan" >> /\ app' = "scan" /\ calls' = Append(calls, "scan") /\ scan' = Last + 1
        /\ inHand' = (decoder # "idle") /\ UNCHANGED << timedOut, heard, line, codec, decoder >>
    BY <1>7 DEF Enables, decoderVars, lidarVars
  <2>2. Last' = Last + 1
    BY <1>0, <2>1, WellFormedFacts, AppendProperties DEF Last
  <2>3. ~timedOut => heard' = << >> /\ line' = << >> /\ codec'.state = "sync1"
    BY <1>0, <2>1 DEF NoneIsLate, AllTaken
  <2>4. ~timedOut => Len(heard') = 0 /\ Len(line') = 0
    BY <2>3
  <2>5. decoder' # "idle" => inHand'
    BY <2>1
  <2>6. app' = "scan" /\ scan' = Last' /\ timedOut' = timedOut
    BY <2>1, <2>2
  <2> QED
    BY <2>3, <2>4, <2>5, <2>6 DEF EnabledForScan
<1>8. CASE SendsScan
  <2>1. /\ app = "scan" /\ app' = "idle" /\ Send(Last)
        /\ UNCHANGED << timedOut, _enabled, scan, inHand, line, codec, decoder, message >>
    BY <1>8 DEF SendsScan, decoderVars
  <2>2. Last \in 0 .. Last
    BY <1>0
  <2>3. /\ Len(heard') = Len(heard) + 1 /\ heard'[Len(heard) + 1] = Last
        /\ \A k \in 1 .. Len(heard) : heard'[k] = heard[k]
    BY <1>0, <2>1, <2>2, Sending
  <2>4. _enabled /\ ~timedOut => \A k \in 1 .. Len(heard') : heard'[k] = scan
    BY <1>0, <1>1, <2>1, <2>3
  <2> QED
    BY <1>1, <2>1, <2>4 DEF EnabledForScan, OfScan
<1>9. CASE onDecodeData
  <2>1. UNCHANGED << app, plan, calls, timedOut, _enabled, scan, inHand, heard >> /\ Last' = Last
    BY <1>0, <1>9, Decoding DEF appVars, sharedVars, Last
  <2> QED
    BY <1>1, <1>9, <2>1, ScanDecoded DEF EnabledForScan, OfScan
<1>10. CASE Copies \/ onSampleData
  <2>1. /\ UNCHANGED << app, plan, calls, timedOut, _enabled, scan, inHand, heard, line, codec, message >> /\ Last' = Last
        /\ decoder # "idle"
    BY <1>10 DEF Copies, onSampleData, DecGoto, DecRest, appVars, lidarVars, Last
  <2> QED
    BY <1>1, <2>1 DEF EnabledForScan, OfScan
<1>11. CASE onData \/ ComparesType \/ Delivers
  <2>1. UNCHANGED << app, plan, calls, timedOut, _enabled, scan, heard, line, codec >> /\ Last' = Last
    BY <1>11 DEF onData, ComparesType, Delivers, DecRest, appVars, lidarVars, Last
  <2>2. decoder' = "idle" \/ (decoder # "idle" /\ UNCHANGED << message, inHand >>)
    BY <1>11 DEF onData, ComparesType, Delivers, DecGoto
  <2> QED
    BY <1>1, <2>1, <2>2 DEF EnabledForScan, OfScan
<1>12. CASE Lidar
  <2>1. UNCHANGED << app, plan, calls, timedOut, _enabled, scan, inHand, codec, decoder, message >> /\ Last' = Last
    BY <1>0, <1>12, Hearing DEF appVars, sharedVars, decoderVars, Last
  <2>2. ASSUME _enabled, ~timedOut
        PROVE  (\A k \in 1 .. Len(heard') : heard'[k] = scan) /\ (\A k \in 1 .. Len(line') : line'[k] = scan)
    <3>1. /\ Len(heard) > 0 /\ Len(heard) \in Nat /\ Len(line) \in Nat
          /\ \A k \in 1 .. Len(heard) : heard[k] = scan
          /\ \A k \in 1 .. Len(line) : line[k] = scan
      BY <1>0, <1>1, <1>12, <2>2, Hearing, WellFormedFacts
    <3>2. \A k \in 1 .. Len(heard') : heard'[k] = scan
      BY <1>0, <1>12, <3>1, Hearing
    <3>3. \A k \in 1 .. Len(line') : line'[k] = scan
      BY <1>0, <1>12, <3>1, Hearing
    <3> QED
      BY <3>2, <3>3
  <2> QED
    BY <1>1, <2>1, <2>2 DEF EnabledForScan, OfScan
<1>13. CASE UNCHANGED vars
  BY <1>1, <1>13 DEF vars, appVars, sharedVars, decoderVars, lidarVars, EnabledForScan, OfScan, Last
<1> QED
  BY <1>3, <1>4, <1>5, <1>6, <1>7, <1>8, <1>9, <1>10, <1>11, <1>12, <1>13 DEF Next, Calls, Caller, decoderThread

--------------------------------------------------------------------------------
LEMMA InitHolds == Init => IInv
<1> SUFFICES ASSUME Init PROVE IInv
  OBVIOUS
<1>1. WellFormed
  BY InitWellFormed
<1>2. Len(<< >>) = 0
  OBVIOUS
<1>3. CodecInStep /\ MessagesAnswer /\ AnswerIsRecent
  BY DEF Init, CodecReset, CodecInStep, MessagesAnswer, AnswerIsRecent
<1>4. NothingBeforeRequest
  BY <1>2 DEF Init, NothingBeforeRequest, Stopping
<1>5. Nowhere
  BY <1>2 DEF Init, Nowhere, NotAsked, NotHeld
<1>6. NoneIsLate /\ EnabledForScan
  BY <1>5 DEF Init, NoneIsLate, EnabledForScan
<1> QED
  BY <1>1, <1>3, <1>4, <1>6 DEF IInv

LEMMA Invariant == Spec => []IInv
<1>1. Init => IInv
  BY InitHolds
<1>2. IInv /\ [Next]_vars => IInv'
  <2> SUFFICES ASSUME IInv, [Next]_vars PROVE IInv'
    OBVIOUS
  <2>1. WellFormed'
    BY WellFormedStep DEF IInv
  <2> QED
    BY <2>1, InStepStep, AnswerStep, NothingBeforeStep, RecentStep, LateStep, EnabledStep DEF IInv
<1> QED
  BY <1>1, <1>2, PTL DEF Spec

(* An answer is taken by the request during which it was decoded, and one    *)
(* that is accepted is that request's own as long as none timed out, or with *)
(* GET_LIDAR_CONF one to the same key (_sendCommandWithResponse and          *)
(* onProtocolMessageDecoded, sl_lidar_driver.cpp:1613-1670; getLidarConf).   *)
THEOREM OwnAnswer == Spec => []AnswerIsOwn
<1>1. IInv => AnswerIsOwn
  <2> SUFFICES ASSUME IInv PROVE AnswerIsOwn
    OBVIOUS
  <2>1. TypeOK
    BY DEF IInv, WellFormed
  <2>2. ASSUME app = "check" PROVE ansPkt.during = Last /\ Answers(ansPkt) /\ (ansPkt.from = Last \/ timedOut)
    BY <2>2 DEF IInv, AnswerIsRecent, MessagesAnswer, NoneIsLate
  <2>3. ASSUME app = "check", Accepts, calls[Last] \in ConfKeys
        PROVE  ansPkt.cmd = "conf" /\ calls[ansPkt.from] = calls[Last]
    <3>1. calls[ansPkt.from] = calls[Last] /\ ansPkt.size > 0
      BY <2>3 DEF Accepts
    <3>2. ansPkt.cmd = TypeOf(calls[ansPkt.from])
      BY <2>2, <2>3, <3>1 DEF Answers, AnswersOne
    <3> QED
      BY <2>3, <3>1, <3>2 DEF TypeOf
  <2> QED
    BY <2>1, <2>2, <2>3 DEF AnswerIsOwn
<1> QED
  BY <1>1, Invariant, PTL

(* The samples that are unpacked after a scan was started are of that scan,  *)
(* but for those the decoder had in its hand, and unless a request timed out *)
(* (startScan, sl_lidar_driver.cpp; onSampleData, dataunpacker.cpp:123-147). *)
THEOREM SamplesOfThisScan == Spec => []SamplesAreOfThisScan
<1>1. IInv => SamplesAreOfThisScan
  BY DEF IInv, EnabledForScan, OfScan, SamplesAreOfThisScan
<1> QED
  BY <1>1, Invariant, PTL
================================================================================
