-------------------------- MODULE BrakeController_proofs --------------------------
(***************************************************************************)
(* Proofs about BrakeThread, BleService and the firmware as a whole, for     *)
(* queues of every depth and for every set of texts, percentages, samples.  *)
(***************************************************************************)
EXTENDS BrakeController, SequenceTheorems, TLAPS

--------------------------------------------------------------------------------
(* The brake thread. *)

(* millivolts_to_percentage returns a percentage for every int32 argument.  *)
THEOREM PercentageRange ==
  \A mv \in Int : millivolts_to_percentage(mv) \in 0 .. 100
BY DEF millivolts_to_percentage, MILLIVOLTS_TO_PERCENTAGE_MIN,
       MILLIVOLTS_TO_PERCENTAGE_MAX

(* Between its bounds the conversion never decreases with the voltage.      *)
THEOREM PercentageMonotone ==
  \A m, n \in Nat : m <= n => millivolts_to_percentage(m) <= millivolts_to_percentage(n)
BY DEF millivolts_to_percentage, MILLIVOLTS_TO_PERCENTAGE_MIN,
       MILLIVOLTS_TO_PERCENTAGE_MAX
--------------------------------------------------------------------------------
(* What the ADC path stores is a percentage, also when the conversion to    *)
(* millivolts fails and the raw value stands in for it.                     *)
LEMMA ReadingsArePercentages == Readings \subseteq 0 .. 100
<1> SUFFICES ASSUME NEW s \in Samples, NEW r \in Reported(s) PROVE r \in 0 .. 100
  BY DEF Readings
<1>1. RawValue(s, Differential) \in Int
  BY SamplesAssumption, DifferentialAssumption DEF RawValue, UInt16
<1>2. Millivolts(RawValue(s, Differential)) \in Int
  BY MillivoltsAssumption
<1>3. PICK mv \in {RawValue(s, Differential), Millivolts(RawValue(s, Differential))} :
        r = millivolts_to_percentage(mv)
  BY DEF Reported
<1> QED
  BY <1>1, <1>2, <1>3, PercentageRange

LEMMA BrakeTypeInit == BrakeInit => BrakeTypeOK
<1>1. 0 \in Percentages /\ percentage_to_pulse(0) = 0
  BY PercentagesAssumption DEF percentage_to_pulse
<1>2. 0 \in Pulses
  BY <1>1 DEF Pulses
<1> SUFFICES ASSUME BrakeInit PROVE BrakeTypeOK
  OBVIOUS
<1>3. brake_tid \in BOOLEAN /\ threadPc \in ThreadPcs
  BY DEF BrakeInit, ThreadPcs
<1>4. actual_percentage \in 0 .. 100
  BY DEF BrakeInit
<1>5. desired_percentage \in Percentages /\ brake_pct \in Percentages /\ pulse \in Pulses
  BY <1>1, <1>2 DEF BrakeInit
<1> QED
  BY <1>3, <1>4, <1>5 DEF BrakeTypeOK

LEMMA BrakeTypeStep == BrakeTypeOK /\ [BrakeNext]_brakeVars => BrakeTypeOK'
<1> SUFFICES ASSUME BrakeTypeOK, [BrakeNext]_brakeVars PROVE BrakeTypeOK'
  OBVIOUS
<1> USE DEF BrakeTypeOK, ThreadPcs
<1>1. CASE brake_init_ok
  BY <1>1 DEF brake_init_ok
<1>2. CASE brake_stop
  BY <1>2 DEF brake_stop
<1>3. CASE \E percentage \in Percentages : brake_set(percentage)
  BY <1>3 DEF brake_set
<1>4. CASE ReadDesired
  BY <1>4 DEF ReadDesired
<1>5. CASE AdcFails
  BY <1>5 DEF AdcFails
<1>6. CASE AdcReads
  BY <1>6, ReadingsArePercentages DEF AdcReads
<1>7. CASE PwmSet
  BY <1>7 DEF PwmSet, Pulses
<1>8. CASE PwmFails
  BY <1>8 DEF PwmFails
<1>9. CASE WakeUp
  BY <1>9 DEF WakeUp
<1>10. CASE UNCHANGED brakeVars
  BY <1>10 DEF brakeVars
<1> QED
  BY <1>1, <1>2, <1>3, <1>4, <1>5, <1>6, <1>7, <1>8, <1>9, <1>10 DEF BrakeNext, brake_thread

(* The variables of the brake thread keep their types. *)
THEOREM BrakeTypeCorrect == BrakeSpec => []BrakeTypeOK
BY BrakeTypeInit, BrakeTypeStep, PTL DEF BrakeSpec

(* Once the servo has followed a request nothing but another request moves  *)
(* the brake: not a failing device, not a stop or restart of the thread.    *)
THEOREM SettledStays == BrakeSpec => SettledIsStable
<1>1. [BrakeNext]_brakeVars =>
        [Settled => Settled' \/ desired_percentage' # desired_percentage]_brakeVars
  <2> SUFFICES ASSUME [BrakeNext]_brakeVars, Settled,
                      desired_percentage' = desired_percentage
               PROVE  Settled'
    OBVIOUS
  <2> USE DEF Settled
  <2>1. CASE brake_init_ok
    BY <2>1 DEF brake_init_ok
  <2>2. CASE brake_stop
    BY <2>2 DEF brake_stop
  <2>3. CASE \E percentage \in Percentages : brake_set(percentage)
    BY <2>3 DEF brake_set
  <2>4. CASE ReadDesired
    BY <2>4 DEF ReadDesired
  <2>5. CASE AdcFails
    BY <2>5 DEF AdcFails
  <2>6. CASE AdcReads
    BY <2>6 DEF AdcReads
  <2>7. CASE PwmSet
    BY <2>7 DEF PwmSet
  <2>8. CASE PwmFails
    BY <2>8 DEF PwmFails
  <2>9. CASE WakeUp
    BY <2>9 DEF WakeUp
  <2>10. CASE UNCHANGED brakeVars
    BY <2>10 DEF brakeVars
  <2> QED
    BY <2>1, <2>2, <2>3, <2>4, <2>5, <2>6, <2>7, <2>8, <2>9, <2>10 DEF BrakeNext, brake_thread
<1> QED
  BY <1>1, PTL DEF BrakeSpec, SettledIsStable

--------------------------------------------------------------------------------
(* The Bluetooth service. *)
BleInv ==
  /\ BleTypeOK
  /\ FlagsTrackLink
  /\ rxPc = "adv_start" => link = "idle"   \* no advertising before its restart

LEMMA BleInvReset ==
  ASSUME NEW l \in {"idle", "adv"}
  PROVE  BleReset(l) => BleInv
<1> SUFFICES ASSUME BleReset(l) PROVE BleInv
  OBVIOUS
<1>1. link \in Links /\ link \notin {"conn", "lost"}
  BY DEF BleReset, Links
<1> QED
  BY <1>1 DEF BleReset, BleInv, BleTypeOK, FlagsTrackLink

LEMMA BleInvStep == BleInv /\ [BleNext]_bleVars => BleInv'
<1> SUFFICES ASSUME BleInv, [BleNext]_bleVars PROVE BleInv'
  OBVIOUS
<1> USE DEF BleInv, BleTypeOK, FlagsTrackLink, Links
<1>1. CASE on_connected
  BY <1>1 DEF on_connected
<1>2. CASE on_disconnected
  BY <1>2 DEF on_disconnected
<1>3. CASE \E ok \in BOOLEAN : RestartAdvertising(ok)
  BY <1>3 DEF RestartAdvertising
<1>4. CASE LinkUp
  BY <1>4 DEF LinkUp
<1>5. CASE LinkLost
  BY <1>5 DEF LinkLost
<1>6. CASE on_connected_error
  BY <1>6 DEF on_connected_error
<1>7. CASE \E enabled \in BOOLEAN : on_nus_notif_enabled(enabled)
  BY <1>7 DEF on_nus_notif_enabled
<1>8. CASE ble_service_notify_state
  BY <1>8 DEF ble_service_notify_state, connVars
<1>9. CASE \E state \in BrakeStates : do_notify(state)
  <2>1. UNCHANGED connVars /\ notify_work' = FALSE
    BY <1>9 DEF do_notify, do_notify_sends, do_notify_does_not_send
  <2>2. central' \in BrakeStates \cup {NoState}
    BY <1>9 DEF do_notify, do_notify_sends, do_notify_does_not_send
  <2> QED
    BY <2>1, <2>2 DEF connVars
<1>10. CASE UNCHANGED bleVars
  BY <1>10 DEF bleVars, connVars
<1> QED
  BY <1>1, <1>2, <1>3, <1>4, <1>5, <1>6, <1>7, <1>8, <1>9, <1>10
     DEF BleNext, BleCallbacks, BleEvents

(* ble_connected, the reference to the connection and the subscription      *)
(* agree with the link whatever the order of events and callbacks.          *)
THEOREM BleFlagsCorrect == BleSpec => []FlagsTrackLink
<1>1. BleReset("adv") => BleInv
  BY BleInvReset
<1>2. BleInv => FlagsTrackLink
  BY DEF BleInv
<1> QED
  BY <1>1, <1>2, BleInvStep, PTL DEF BleSpec

--------------------------------------------------------------------------------
(* The firmware.  NothingPendingMeansNewest is not inductive: whether the   *)
(* last request applied was the newest accepted is decided by what waits    *)
(* behind it.  The invariant says so for the end of the queue, and that     *)
(* nothing happens before the Bluetooth service is up.                      *)
Booting == mainPc \in {"brake_init", "brake_set", "uart_init", "ble_init"}

NothingYet ==
  /\ link = "idle" /\ rxPc = "idle"
  /\ requests = << >> /\ newest = 0 /\ desired_percentage = 0

NewestIsLast ==
  IF Pending = << >> THEN desired_percentage = newest
                     ELSE Pending[Len(Pending)] = newest

MainInv == MainTypeOK /\ (mainPc = "handle" => line \in UartTexts)

IInv ==
  /\ MainInv /\ RequestTypeOK /\ BrakeTypeOK /\ BleInv
  /\ actual_percentage \in {0} \cup Readings
  /\ Booting => NothingYet
  /\ NewestIsLast

LEMMA InitIInv == Init => IInv
<1> SUFFICES ASSUME Init PROVE IInv
  OBVIOUS
<1>1. MainInv
  <2>1. uart_msgq \in Seq(UartTexts) /\ Len(uart_msgq) <= UartDepth
    BY UartDepthAssumption DEF Init
  <2>2. uart_rx \in BOOLEAN /\ mainPc \in MainPcs /\ line \in UartTexts \cup {NoText}
    BY DEF Init, MainPcs
  <2>3. request \in Percentages
    BY PercentagesAssumption DEF Init
  <2> QED
    BY <2>1, <2>2, <2>3 DEF Init, MainTypeOK, MainInv
<1>2. RequestTypeOK
  BY PercentagesAssumption, RequestDepthAssumption DEF Init, RequestInit, RequestTypeOK
<1>3. BrakeTypeOK /\ BleInv
  BY BrakeTypeInit, BleInvReset DEF Init, BleInit
<1>4. actual_percentage \in {0} \cup Readings
  BY DEF Init, BrakeInit
<1>5. NothingYet
  BY DEF Init, RequestInit, BrakeInit, BleInit, BleReset, NothingYet
<1>6. NewestIsLast
  BY DEF Init, RequestInit, BrakeInit, NewestIsLast, Pending
<1> QED
  BY <1>1, <1>2, <1>3, <1>4, <1>5, <1>6 DEF IInv

(* What handle_request does to the queue, for every text. *)
LEMMA HandleRequest ==
  ASSUME RequestTypeOK, NEW text \in Text, handle_request(text)
  PROVE  \/ UNCHANGED requestVars
         \/ \E p \in Percentages :
              /\ Len(requests) < RequestDepth
              /\ requests' = Append(requests, p)
              /\ newest' = p
<1>1. CASE RefuseRequest(text)
  BY <1>1 DEF RefuseRequest
<1>2. CASE QueueRequest(text)
  <2>1. Percentage(text) \in Percentages
    BY PercentagesAssumption DEF Percentage, Text
  <2> QED
    BY <1>2, <2>1 DEF QueueRequest
<1> QED
  BY <1>1, <1>2 DEF handle_request

(* Of the brake thread's component the firmware takes only steps it has.    *)
LEMMA BrakePart == IInv /\ [Next]_vars => [BrakeNext]_brakeVars
<1> SUFFICES ASSUME IInv, [Next]_vars PROVE [BrakeNext]_brakeVars
  OBVIOUS
<1>1. CASE MainBrakeInit
  BY <1>1 DEF MainBrakeInit, BrakeNext
<1>2. CASE MainBrakeSet
  BY <1>2, PercentagesAssumption DEF MainBrakeSet, BrakeNext
<1>3. CASE MainApply
  BY <1>3 DEF MainApply, BrakeNext, IInv, MainInv, MainTypeOK
<1>4. CASE BrakeLoop
  BY <1>4 DEF BrakeLoop, BrakeNext
<1>5. CASE UNCHANGED brakeVars
  BY <1>5
<1> QED
  BY <1>1, <1>2, <1>3, <1>4, <1>5
     DEF Next, main, vars, MainUartInit, MainBleInit, MainTakeLine, MainNoLine,
         MainHandleLine, MainCheckConnected, MainSleep, MainGetRequest, MainGetTimeout,
         MainNotify, serial_cb, on_nus_received, BleCallback, BleEvent, NotifyWork

(* Nor of the Bluetooth service, but for its start. *)
LEMMA BlePart == IInv /\ [Next]_vars => BleInv'
<1> SUFFICES ASSUME IInv, [Next]_vars PROVE BleInv'
  OBVIOUS
<1>1. CASE [BleNext]_bleVars
  BY <1>1, BleInvStep DEF IInv
<1>2. CASE MainBleInit
  <2>1. CASE UNCHANGED bleVars
    BY <1>1, <2>1
  <2>2. CASE ble_service_init_ok
    <3>1. mainPc = "ble_init"
      BY <1>2 DEF MainBleInit, Goto
    <3>2. link = "idle" /\ rxPc = "idle" /\ BleInv
      BY <3>1 DEF IInv, Booting, NothingYet
    <3> QED
      BY <2>2, <3>2 DEF ble_service_init_ok, BleInv, BleTypeOK, FlagsTrackLink, Links
  <2> QED
    BY <1>2, <2>1, <2>2 DEF MainBleInit
<1>3. CASE MainNotify
  BY <1>1, <1>3 DEF MainNotify, BleNext
<1>4. CASE BleCallback
  BY <1>1, <1>4 DEF BleCallback, BleNext
<1>5. CASE BleEvent
  BY <1>1, <1>5, SubscriptionsAssumption DEF BleEvent, BleNext
<1>6. CASE NotifyWork
  <2>1. brake_get \in BrakeStates
    BY BrakeStatesAssumption DEF brake_get, IInv
  <2> QED
    BY <1>1, <1>6, <2>1 DEF NotifyWork, BleNext
<1>7. CASE UNCHANGED bleVars
  BY <1>1, <1>7
<1> QED
  BY <1>2, <1>3, <1>4, <1>5, <1>6, <1>7
     DEF Next, main, vars, MainBrakeInit, MainBrakeSet, MainUartInit, MainTakeLine,
         MainNoLine, MainHandleLine, MainCheckConnected, MainSleep, MainGetRequest,
         MainGetTimeout, MainApply, serial_cb, on_nus_received, BrakeLoop

LEMMA MainStep == IInv /\ [Next]_vars => MainInv'
<1> SUFFICES ASSUME IInv, [Next]_vars PROVE MainInv'
  OBVIOUS
<1> USE DEF MainPcs, Goto
<1>0. MainInv /\ RequestTypeOK
  BY DEF IInv
<1>1. CASE MainBrakeInit
  BY <1>0, <1>1 DEF MainBrakeInit, MainTypeOK, MainInv
<1>2. CASE MainBrakeSet
  BY <1>0, <1>2 DEF MainBrakeSet, MainTypeOK, MainInv
<1>3. CASE MainUartInit
  BY <1>0, <1>3 DEF MainUartInit, MainTypeOK, MainInv
<1>4. CASE MainBleInit
  BY <1>0, <1>4 DEF MainBleInit, MainTypeOK, MainInv
<1>5. CASE MainTakeLine
  BY <1>0, <1>5, UartDepthAssumption DEF MainTakeLine, MainTypeOK, MainInv
<1>6. CASE MainNoLine \/ MainHandleLine \/ MainCheckConnected \/ MainSleep
  BY <1>0, <1>6 DEF MainNoLine, MainHandleLine, MainCheckConnected, MainSleep, MainTypeOK, MainInv
<1>7. CASE MainGetRequest
  BY <1>0, <1>7 DEF MainGetRequest, MainTypeOK, MainInv, RequestTypeOK
<1>8. CASE MainGetTimeout \/ MainApply \/ MainNotify
  BY <1>0, <1>8 DEF MainGetTimeout, MainApply, MainNotify, MainTypeOK, MainInv
<1>9. CASE serial_cb
  <2>1. PICK text \in UartTexts :
          uart_msgq' = IF Len(uart_msgq) < UartDepth THEN Append(uart_msgq, text)
                                                     ELSE uart_msgq
    BY <1>9 DEF serial_cb
  <2>2. uart_msgq' \in Seq(UartTexts) /\ Len(uart_msgq') <= UartDepth
    BY <1>0, <2>1, UartDepthAssumption DEF MainTypeOK, MainInv
  <2> QED
    BY <1>0, <1>9, <2>2 DEF serial_cb, MainTypeOK, MainInv
<1>10. CASE UNCHANGED mainVars
  BY <1>0, <1>10 DEF mainVars, MainTypeOK, MainInv
<1> QED
  BY <1>1, <1>2, <1>3, <1>4, <1>5, <1>6, <1>7, <1>8, <1>9, <1>10
     DEF Next, main, vars, on_nus_received, BleCallback, BleEvent, NotifyWork, BrakeLoop

LEMMA RequestTypeStep == IInv /\ [Next]_vars => RequestTypeOK'
<1> SUFFICES ASSUME IInv, [Next]_vars PROVE RequestTypeOK'
  OBVIOUS
<1>0. MainInv /\ RequestTypeOK
  BY DEF IInv
<1>1. ASSUME NEW text \in Text, handle_request(text) PROVE RequestTypeOK'
  <2>1. CASE UNCHANGED requestVars
    BY <1>0, <2>1 DEF requestVars, RequestTypeOK
  <2>2. CASE \E p \in Percentages :
               /\ Len(requests) < RequestDepth
               /\ requests' = Append(requests, p)
               /\ newest' = p
    BY <1>0, <2>2, RequestDepthAssumption DEF RequestTypeOK
  <2> QED
    BY <1>0, <1>1, <2>1, <2>2, HandleRequest
<1>2. CASE MainHandleLine
  <2>1. line \in Text
    BY <1>0, <1>2, TextsAssumption DEF MainInv, MainHandleLine, Goto
  <2> QED
    BY <1>1, <1>2, <2>1 DEF MainHandleLine
<1>3. CASE on_nus_received
  BY <1>1, <1>3, TextsAssumption DEF on_nus_received
<1>4. CASE MainGetRequest
  BY <1>0, <1>4, RequestDepthAssumption DEF MainGetRequest, RequestTypeOK
<1>5. CASE UNCHANGED requestVars
  BY <1>0, <1>5 DEF requestVars, RequestTypeOK
<1> QED
  BY <1>2, <1>3, <1>4, <1>5
     DEF Next, main, vars, MainBrakeInit, MainBrakeSet, MainUartInit, MainBleInit,
         MainTakeLine, MainNoLine, MainCheckConnected, MainSleep, MainGetTimeout,
         MainApply, MainNotify, serial_cb, BleCallback, BleEvent, NotifyWork, BrakeLoop

--------------------------------------------------------------------------------
(* The request in the hand of the main thread stands before the queue. *)
LEMMA InHand ==
  ASSUME NEW r \in Percentages, NEW q \in Seq(Percentages)
  PROVE  /\ << r >> \o q \in Seq(Percentages)
         /\ << r >> \o q # << >>
         /\ Len(<< r >> \o q) = 1 + Len(q)
         /\ Head(<< r >> \o q) = r
         /\ Tail(<< r >> \o q) = q
         /\ \A p \in Percentages : Append(<< r >> \o q, p) = << r >> \o Append(q, p)
<1>1. /\ << r >> \in Seq(Percentages) /\ Len(<< r >>) = 1 /\ << r >>[1] = r
  OBVIOUS
<1>2. /\ << r >> \o q \in Seq(Percentages)
      /\ Len(<< r >> \o q) = 1 + Len(q)
      /\ \A i \in 1 .. 1 + Len(q) : (<< r >> \o q)[i] = IF i <= 1 THEN r ELSE q[i - 1]
  BY <1>1, ConcatProperties
<1>3. Len(q) \in Nat
  BY LenProperties
<1>4. << r >> \o q # << >> /\ Head(<< r >> \o q) = r
  BY <1>2, <1>3
<1>5. Tail(<< r >> \o q) = q
  <2> DEFINE t == Tail(<< r >> \o q)
  <2>1. /\ t \in Seq(Percentages) /\ Len(t) = Len(q)
        /\ \A i \in 1 .. Len(t) : t[i] = (<< r >> \o q)[i + 1]
    BY <1>2, <1>3, <1>4, HeadTailProperties
  <2>2. \A i \in 1 .. Len(t) : t[i] = q[i]
    BY <1>2, <1>3, <2>1
  <2> QED
    BY <2>1, <2>2, SeqEqual
<1>6. ASSUME NEW p \in Percentages
      PROVE  Append(<< r >> \o q, p) = << r >> \o Append(q, p)
  <2>1. /\ Append(q, p) = q \o << p >>
        /\ Append(<< r >> \o q, p) = (<< r >> \o q) \o << p >>
    BY <1>2, AppendIsConcat
  <2>2. << p >> \in Seq(Percentages)
    OBVIOUS
  <2> QED
    BY <1>1, <2>1, <2>2, ConcatAssociative
<1> QED
  BY <1>2, <1>4, <1>5, <1>6

LEMMA HeadAndTail ==
  ASSUME NEW q \in Seq(Percentages), q # << >>
  PROVE  /\ Head(q) \in Percentages
         /\ Tail(q) \in Seq(Percentages)
         /\ << Head(q) >> \o Tail(q) = q
<1>1. Head(q) \in Percentages /\ Tail(q) \in Seq(Percentages)
  BY HeadTailProperties
<1> DEFINE t == << Head(q) >> \o Tail(q)
<1>2. Len(q) \in Nat \ {0} /\ Len(Tail(q)) = Len(q) - 1
  BY EmptySeq, HeadTailProperties
<1>3. t \in Seq(Percentages) /\ Len(t) = Len(q)
  BY <1>1, <1>2, InHand
<1>4. ASSUME NEW i \in 1 .. Len(t) PROVE t[i] = q[i]
  <2>1. t[i] = IF i <= 1 THEN Head(q) ELSE Tail(q)[i - 1]
    BY <1>1, <1>2, <1>3, ConcatProperties, Len(<< Head(q) >>) = 1
  <2>2. i > 1 => Tail(q)[i - 1] = q[i]
    BY <1>2, <1>3, HeadTailProperties
  <2>3. Head(q) = q[1]
    OBVIOUS
  <2> QED
    BY <1>2, <1>3, <2>1, <2>2, <2>3
<1> QED
  BY <1>1, <1>3, <1>4, SeqEqual

(* What a step of the firmware does to the requests that wait and to what   *)
(* the brake was told: one is accepted, the oldest is applied, or nothing.  *)
PermitHeld == mainPc \in {"get", "apply"}

AcceptsOne ==
  /\ \E p \in Percentages : Len(Pending) <= RequestDepth
                              /\ Pending' = Append(Pending, p) /\ newest' = p
  /\ UNCHANGED << desired_percentage, ble_connected, PermitHeld >>

AppliesOldest ==
  /\ PermitHeld /\ Pending # << >>
  /\ desired_percentage' = Head(Pending) /\ Pending' = Tail(Pending)
  /\ ~PermitHeld'
  /\ UNCHANGED << newest, ble_connected >>

Rests == UNCHANGED << Pending, newest, desired_percentage >>

LEMMA PendingStep == IInv /\ [Next]_vars => AcceptsOne \/ AppliesOldest \/ Rests
<1> SUFFICES ASSUME IInv, [Next]_vars PROVE AcceptsOne \/ AppliesOldest \/ Rests
  OBVIOUS
<1>0. /\ MainInv /\ RequestTypeOK
      /\ request \in Percentages
      /\ requests \in Seq(Percentages)
  BY DEF IInv, MainInv, MainTypeOK, RequestTypeOK
<1>1. ASSUME NEW text \in Text, handle_request(text),
             UNCHANGED << desired_percentage, ble_connected, request, PermitHeld >>,
             mainPc' = "apply" <=> mainPc = "apply"
      PROVE  AcceptsOne \/ Rests
  <2>1. CASE UNCHANGED requestVars
    BY <1>1, <2>1 DEF Rests, Pending, requestVars
  <2>2. CASE \E p \in Percentages :
               /\ Len(requests) < RequestDepth
               /\ requests' = Append(requests, p)
               /\ newest' = p
    <3>1. PICK p \in Percentages :
            /\ Len(requests) < RequestDepth
            /\ requests' = Append(requests, p)
            /\ newest' = p
      BY <2>2
    <3>2. Pending' = Append(Pending, p)
      BY <1>0, <1>1, <3>1, InHand DEF Pending
    <3>3. Len(Pending) <= RequestDepth
      BY <1>0, <3>1, InHand, LenProperties, RequestDepthAssumption DEF Pending
    <3> QED
      BY <1>1, <3>1, <3>2, <3>3 DEF AcceptsOne
  <2> QED
    BY <1>0, <1>1, <2>1, <2>2, HandleRequest
<1>2. CASE MainHandleLine
  <2>1. line \in Text
    BY <1>0, <1>2, TextsAssumption DEF MainInv, MainHandleLine, Goto
  <2>2. UNCHANGED << desired_percentage, ble_connected, request, PermitHeld >>
    BY <1>2 DEF MainHandleLine, Goto, brakeVars, bleVars, connVars, PermitHeld
  <2> QED
    BY <1>1, <1>2, <2>1, <2>2 DEF MainHandleLine, Goto
<1>3. CASE on_nus_received
  <2>1. UNCHANGED << desired_percentage, ble_connected, request, PermitHeld, mainPc >>
    BY <1>3 DEF on_nus_received, mainVars, brakeVars, bleVars, connVars, PermitHeld
  <2> QED
    BY <1>1, <1>3, <2>1, TextsAssumption DEF on_nus_received
<1>4. CASE MainGetRequest
  BY <1>0, <1>4, HeadAndTail DEF MainGetRequest, Goto, Rests, Pending, brakeVars
<1>5. CASE MainApply
  <2>1. /\ mainPc = "apply" /\ mainPc' = "notify"
        /\ desired_percentage' = request
        /\ UNCHANGED << requests, newest, ble_connected >>
    BY <1>5 DEF MainApply, Goto, brake_set, requestVars, bleVars, connVars
  <2>2. Pending = << request >> \o requests /\ Pending' = requests
    BY <2>1 DEF Pending
  <2>3. Pending # << >> /\ Head(Pending) = request /\ Tail(Pending) = requests
    BY <1>0, <2>2, InHand
  <2> QED
    BY <2>1, <2>2, <2>3 DEF AppliesOldest, PermitHeld
<1>6. CASE MainBrakeSet
  <2>1. desired_percentage = 0
    BY <1>6 DEF IInv, Booting, NothingYet, MainBrakeSet, Goto
  <2> QED
    BY <1>6, <2>1 DEF MainBrakeSet, Goto, brake_set, Rests, Pending, requestVars
<1>7. CASE MainBrakeInit
  BY <1>7 DEF MainBrakeInit, Goto, brake_init_ok, brakeVars, Rests, Pending, requestVars
<1>8. CASE MainUartInit \/ MainBleInit
  BY <1>8 DEF MainUartInit, MainBleInit, Goto, brakeVars, Rests, Pending, requestVars
<1>9. CASE MainTakeLine \/ MainNoLine \/ MainCheckConnected \/ MainSleep
  BY <1>9 DEF MainTakeLine, MainNoLine, MainCheckConnected, MainSleep, Goto, brakeVars,
              Rests, Pending, requestVars
<1>10. CASE MainGetTimeout \/ MainNotify
  BY <1>10 DEF MainGetTimeout, MainNotify, Goto, brakeVars, Rests, Pending, requestVars
<1>11. CASE serial_cb
  BY <1>11 DEF serial_cb, brakeVars, Rests, Pending, requestVars
<1>12. CASE BleCallback \/ BleEvent \/ NotifyWork
  BY <1>12 DEF BleCallback, BleEvent, NotifyWork, mainVars, brakeVars, Rests, Pending,
               requestVars
<1>13. CASE BrakeLoop
  <2>1. UNCHANGED desired_percentage
    BY <1>13 DEF BrakeLoop, brake_thread, ReadDesired, AdcFails, AdcReads, PwmSet,
                 PwmFails, WakeUp
  <2> QED
    BY <1>13, <2>1 DEF BrakeLoop, mainVars, requestVars, Rests, Pending
<1>14. CASE UNCHANGED vars
  BY <1>14 DEF vars, mainVars, requestVars, brakeVars, Rests, Pending
<1> QED
  BY <1>2, <1>3, <1>4, <1>5, <1>6, <1>7, <1>8, <1>9, <1>10, <1>11, <1>12, <1>13, <1>14
     DEF Next, main

LEMMA PendingType == IInv => Pending \in Seq(Percentages)
BY InHand DEF IInv, MainInv, MainTypeOK, RequestTypeOK, Pending

LEMMA NewestStep == IInv /\ [Next]_vars => NewestIsLast'
<1> SUFFICES ASSUME IInv, [Next]_vars PROVE NewestIsLast'
  OBVIOUS
<1>0. Pending \in Seq(Percentages) /\ NewestIsLast
  BY PendingType DEF IInv
<1>1. CASE AcceptsOne
  <2>1. PICK p \in Percentages : Pending' = Append(Pending, p) /\ newest' = p
    BY <1>1 DEF AcceptsOne
  <2>2. /\ Append(Pending, p) # << >>
        /\ Append(Pending, p)[Len(Append(Pending, p))] = p
    BY <1>0, <2>1, AppendProperties
  <2> QED
    BY <2>1, <2>2 DEF NewestIsLast
<1>2. CASE AppliesOldest
  <2>1. /\ Pending # << >> /\ newest' = newest
        /\ desired_percentage' = Head(Pending) /\ Pending' = Tail(Pending)
    BY <1>2 DEF AppliesOldest
  <2>2. Pending[Len(Pending)] = newest
    BY <1>0, <2>1 DEF NewestIsLast
  <2>3. Len(Pending) \in Nat \ {0} /\ Len(Tail(Pending)) = Len(Pending) - 1
    BY <1>0, <2>1, EmptySeq, HeadTailProperties
  <2>4. CASE Len(Pending) = 1
    <3>1. Tail(Pending) = << >>
      BY <1>0, <2>1, <2>3, <2>4, HeadTailProperties, EmptySeq
    <3>2. Head(Pending) = newest
      BY <2>2, <2>4
    <3> QED
      BY <2>1, <3>1, <3>2 DEF NewestIsLast
  <2>5. CASE Len(Pending) > 1
    <3>1. Tail(Pending)[Len(Tail(Pending))] = Pending[Len(Pending)]
      BY <1>0, <2>1, <2>3, <2>5, HeadTailProperties
    <3>2. Tail(Pending) # << >>
      BY <1>0, <2>1, <2>3, <2>5, HeadTailProperties, Len(<< >>) = 0
    <3> QED
      BY <2>1, <2>2, <3>1, <3>2 DEF NewestIsLast
  <2> QED
    BY <2>3, <2>4, <2>5
<1>3. CASE Rests
  BY <1>0, <1>3 DEF Rests, NewestIsLast
<1> QED
  BY <1>1, <1>2, <1>3, PendingStep

LEMMA BootStep == IInv /\ [Next]_vars => (Booting => NothingYet)'
<1> SUFFICES ASSUME IInv, [Next]_vars, Booting' PROVE NothingYet'
  OBVIOUS
<1> USE DEF Booting, NothingYet, Goto
<1>1. Booting /\ NothingYet
  <2>1. Booting
    BY DEF Next, main, vars, mainVars, MainBrakeInit, MainBrakeSet, MainUartInit, MainBleInit,
           MainTakeLine, MainNoLine, MainHandleLine, MainCheckConnected, MainSleep,
           MainGetRequest, MainGetTimeout, MainApply, MainNotify, serial_cb,
           on_nus_received, BleCallback, BleEvent, NotifyWork, BrakeLoop
  <2> QED
    BY <2>1 DEF IInv
<1>2. CASE MainBrakeInit
  BY <1>1, <1>2 DEF MainBrakeInit, brake_init_ok, brakeVars, bleVars, connVars, requestVars
<1>3. CASE MainBrakeSet
  BY <1>1, <1>3 DEF MainBrakeSet, brake_set, bleVars, connVars, requestVars
<1>4. CASE MainUartInit
  BY <1>1, <1>4 DEF MainUartInit, brakeVars, bleVars, connVars, requestVars
<1>5. CASE serial_cb
  BY <1>1, <1>5 DEF serial_cb, brakeVars, bleVars, connVars, requestVars
<1>6. CASE NotifyWork
  BY <1>1, <1>6 DEF NotifyWork, do_notify, do_notify_sends, do_notify_does_not_send,
                    brakeVars, connVars, requestVars
<1>7. CASE BrakeLoop
  BY <1>1, <1>7 DEF BrakeLoop, brake_thread, ReadDesired, AdcFails, AdcReads, PwmSet,
                    PwmFails, WakeUp, bleVars, connVars, requestVars
<1>8. CASE UNCHANGED vars
  BY <1>1, <1>8 DEF vars, mainVars, requestVars, brakeVars, bleVars, connVars
<1>9. ~(on_nus_received \/ BleCallback \/ BleEvent)
  BY <1>1 DEF on_nus_received, BleCallback, BleCallbacks, BleEvent, BleEvents, on_connected,
              on_disconnected, RestartAdvertising, LinkUp, LinkLost, on_connected_error,
              on_nus_notif_enabled
<1>10. ~(MainBleInit \/ MainTakeLine \/ MainNoLine \/ MainHandleLine \/ MainCheckConnected
           \/ MainSleep \/ MainGetRequest \/ MainGetTimeout \/ MainApply \/ MainNotify)
  BY <1>1 DEF MainBleInit, MainTakeLine, MainNoLine, MainHandleLine, MainCheckConnected,
              MainSleep, MainGetRequest, MainGetTimeout, MainApply, MainNotify
<1> QED
  BY <1>2, <1>3, <1>4, <1>5, <1>6, <1>7, <1>8, <1>9, <1>10 DEF Next, main

LEMMA ReportStep == IInv /\ [Next]_vars => actual_percentage' \in {0} \cup Readings
<1> SUFFICES ASSUME IInv, [BrakeNext]_brakeVars
             PROVE  actual_percentage' \in {0} \cup Readings
  BY BrakePart
<1> QED
  BY DEF IInv, BrakeNext, brake_init_ok, brake_stop, brake_set, brake_thread, ReadDesired,
         AdcFails, AdcReads, PwmSet, PwmFails, WakeUp, brakeVars

LEMMA IInvStep == IInv /\ [Next]_vars => IInv'
<1> SUFFICES ASSUME IInv, [Next]_vars PROVE IInv'
  OBVIOUS
<1>1. BrakeTypeOK'
  BY BrakePart, BrakeTypeStep DEF IInv
<1> QED
  BY <1>1, MainStep, RequestTypeStep, BlePart, ReportStep, BootStep, NewestStep DEF IInv

LEMMA InvariantHolds == Spec => []IInv
BY InitIInv, IInvStep, PTL DEF Spec

(* The same of the whole firmware: whatever the other threads do, the flags *)
(* main polls and the subscription agree with the link.                     *)
THEOREM FirmwareFlagsCorrect == Spec => []FlagsTrackLink
<1>1. IInv => FlagsTrackLink
  BY DEF IInv, BleInv
<1> QED
  BY <1>1, InvariantHolds, PTL

(* Every variable of the firmware keeps its type; in particular neither     *)
(* queue ever holds more than it has room for.                              *)
THEOREM TypeCorrect == Spec => []TypeOK
<1>1. IInv => TypeOK
  BY DEF IInv, MainInv, BleInv, TypeOK
<1> QED
  BY <1>1, InvariantHolds, PTL

(* When no accepted request waits, the brake was last told what the newest  *)
(* accepted request said.                                                   *)
THEOREM NewestIsApplied == Spec => []NothingPendingMeansNewest
<1>1. IInv => NothingPendingMeansNewest
  BY DEF IInv, NewestIsLast, NothingPendingMeansNewest
<1> QED
  BY <1>1, InvariantHolds, PTL

--------------------------------------------------------------------------------
(* The firmware implements BrakeCommand. *)
LEMMA CommandInit == Init => Command!Init
BY DEF Init, RequestInit, BrakeInit, BleInit, BleReset, Pending, Command!Init

LEMMA ConnectionStep ==
  IInv /\ [Next]_vars /\ ble_connected' # ble_connected
    => /\ ble_connected' = ~ble_connected
       /\ UNCHANGED << Pending, desired_percentage, PermitHeld >>
<1> SUFFICES ASSUME IInv, [Next]_vars, ble_connected' # ble_connected
             PROVE  /\ ble_connected' = ~ble_connected
                    /\ UNCHANGED << Pending, desired_percentage, PermitHeld >>
  OBVIOUS
<1>1. BleCallback
  BY DEF Next, main, vars, mainVars, MainBrakeInit, MainBrakeSet, MainUartInit, MainBleInit,
         ble_service_init_ok, MainTakeLine, MainNoLine, MainHandleLine, MainCheckConnected,
         MainSleep, MainGetRequest, MainGetTimeout, MainApply, MainNotify,
         ble_service_notify_state, serial_cb, on_nus_received, BleEvent, BleEvents, LinkUp,
         LinkLost, on_connected_error, on_nus_notif_enabled, NotifyWork, do_notify,
         do_notify_sends, do_notify_does_not_send, BrakeLoop, bleVars, connVars
<1>2. UNCHANGED << Pending, desired_percentage, PermitHeld >>
  BY <1>1 DEF BleCallback, Pending, PermitHeld, mainVars, requestVars, brakeVars
<1>3. ble_connected \in BOOLEAN /\ ble_connected' \in BOOLEAN
  BY BlePart DEF IInv, BleInv, BleTypeOK
<1> QED
  BY <1>2, <1>3

LEMMA PermitStep ==
  IInv /\ [Next]_vars /\ PermitHeld' # PermitHeld
    => \/ ble_connected /\ PermitHeld' /\ UNCHANGED << Pending, desired_percentage, ble_connected >>
       \/ PermitHeld /\ ~PermitHeld' /\ Pending = << >>
            /\ UNCHANGED << Pending, desired_percentage, ble_connected >>
       \/ AppliesOldest
<1> SUFFICES ASSUME IInv, [Next]_vars, PermitHeld' # PermitHeld
             PROVE \/ ble_connected /\ PermitHeld'
                        /\ UNCHANGED << Pending, desired_percentage, ble_connected >>
                   \/ PermitHeld /\ ~PermitHeld' /\ Pending = << >>
                        /\ UNCHANGED << Pending, desired_percentage, ble_connected >>
                   \/ AppliesOldest
  OBVIOUS
<1>1. MainCheckConnected \/ MainGetTimeout \/ MainApply
  BY DEF PermitHeld, Goto, Next, main, vars, mainVars, MainBrakeInit, MainBrakeSet,
         MainUartInit, MainBleInit, MainTakeLine, MainNoLine, MainHandleLine, MainSleep,
         MainGetRequest, MainNotify, serial_cb, on_nus_received, BleCallback, BleEvent,
         NotifyWork, BrakeLoop
<1>2. CASE MainCheckConnected
  BY <1>2 DEF MainCheckConnected, Goto, PermitHeld, Pending, brakeVars, requestVars, bleVars,
              connVars
<1>3. CASE MainGetTimeout
  BY <1>3 DEF MainGetTimeout, Goto, PermitHeld, Pending, brakeVars, requestVars, bleVars,
              connVars
<1>4. CASE MainApply
  <2>1. mainPc = "apply" /\ Pending # << >>
    BY <1>4, InHand DEF MainApply, Goto, Pending, IInv, MainInv, MainTypeOK, RequestTypeOK
  <2>2. PermitHeld /\ ~PermitHeld'
    BY <1>4 DEF MainApply, Goto, PermitHeld
  <2>3. ~AcceptsOne
    BY <2>2 DEF AcceptsOne
  <2>4. ~Rests
    <3>1. Pending' = requests /\ Pending = << request >> \o requests
      BY <1>4, <2>1 DEF MainApply, Goto, Pending, requestVars
    <3>2. Len(Pending) = 1 + Len(requests) /\ Len(requests) \in Nat
      BY <3>1, InHand, LenProperties DEF IInv, MainInv, MainTypeOK, RequestTypeOK
    <3> QED
      BY <3>1, <3>2 DEF Rests
  <2> QED
    BY <2>3, <2>4, PendingStep
<1> QED
  BY <1>1, <1>2, <1>3, <1>4

LEMMA CommandStep == IInv /\ [Next]_vars => [Command!Next]_Command!vars
<1> SUFFICES ASSUME IInv, [Next]_vars PROVE [Command!Next]_Command!vars
  OBVIOUS
<1> USE DEF PermitHeld
<1>1. CASE ble_connected' # ble_connected
  BY <1>1, ConnectionStep DEF Command!Next, Command!Connection
<1>2. CASE AppliesOldest
  BY <1>2 DEF AppliesOldest, Command!Next, Command!Apply
<1>3. CASE PermitHeld' # PermitHeld /\ ~AppliesOldest
  BY <1>3, PermitStep DEF Command!Next, Command!Grant, Command!Lapse
<1>4. CASE ble_connected' = ble_connected /\ PermitHeld' = PermitHeld /\ AcceptsOne
  BY <1>4 DEF AcceptsOne, Command!Next, Command!Accept
<1>5. CASE ble_connected' = ble_connected /\ PermitHeld' = PermitHeld /\ Rests
  BY <1>5 DEF Rests, Command!vars
<1> QED
  BY <1>1, <1>2, <1>3, <1>4, <1>5, PendingStep

(* The threads of the firmware, whatever their interleaving, keep the       *)
(* promise of BrakeCommand: requests are applied once, in order, and at     *)
(* most one after the connection is lost.                                   *)
THEOREM CommandPromiseKept == Spec => KeepsCommandPromise
<1>1. Init /\ []IInv /\ [][Next]_vars => Command!Spec
  BY CommandInit, CommandStep, PTL DEF Command!Spec
<1> QED
  BY <1>1, InvariantHolds, PTL DEF Spec, KeepsCommandPromise
==================================================================================
