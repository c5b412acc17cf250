---------------------------- MODULE BrakeController ----------------------------
(***************************************************************************)
(* The firmware of the brake controller (brake-controller/src/main.c with   *)
(* the parts it starts): the UART interrupt that queues lines, the main     *)
(* thread that turns lines into requests and applies requests to the brake  *)
(* while a central is connected, the Bluetooth receive thread that queues   *)
(* requests of the central and reports connections, the work queue that     *)
(* notifies the central, and the brake thread.                              *)
(*                                                                          *)
(* Every access to state that another thread or the interrupt also touches  *)
(* is a step of its own; the message queues and the atomics of Zephyr are   *)
(* atomic.                                                                  *)
(***************************************************************************)
EXTENDS RequestHandler, BrakeThread, BleService

CONSTANTS UartDepth,    \* K_MSGQ_DEFINE(uart_msgq, MSG_SIZE, 10, 1)
          UartTexts,    \* lines the Jetson may send
          BleTexts,     \* writes the central may send
          Subscriptions,  \* what the central may write to the notification switch
          NoText        \* tx_buf of main before the first line

ASSUME UartDepthAssumption == UartDepth \in Nat \ {0}
ASSUME TextsAssumption == UartTexts \subseteq Text /\ BleTexts \subseteq Text
ASSUME NoTextAssumption == NoText \notin Text
ASSUME SubscriptionsAssumption == Subscriptions \subseteq BOOLEAN
ASSUME BrakeStatesAssumption == {0} \cup Readings \subseteq BrakeStates

VARIABLES uart_msgq,    \* lines the interrupt queued
          uart_rx,      \* the receive interrupt is enabled
          mainPc,       \* where the main thread is
          line,         \* tx_buf of main: the line taken from uart_msgq
          request       \* the request taken from the queue

mainVars == << uart_msgq, uart_rx, mainPc, line, request >>
vars == << mainVars, requestVars, brakeVars, bleVars >>

MainPcs == {"brake_init", "brake_set", "uart_init", "ble_init", "uart", "handle",
            "check", "sleep", "get", "apply", "notify", "returned"}

MainTypeOK ==
  /\ uart_msgq \in Seq(UartTexts)
  /\ Len(uart_msgq) <= UartDepth
  /\ uart_rx \in BOOLEAN
  /\ mainPc \in MainPcs
  /\ line \in UartTexts \cup {NoText}
  /\ request \in Percentages

TypeOK == MainTypeOK /\ RequestTypeOK /\ BrakeTypeOK /\ BleTypeOK

Init ==
  /\ uart_msgq = << >>
  /\ uart_rx = FALSE
  /\ mainPc = "brake_init"
  /\ line = NoText
  /\ request = 0
  /\ RequestInit
  /\ BrakeInit
  /\ BleInit

Goto(from, to) == mainPc = from /\ mainPc' = to

--------------------------------------------------------------------------------
(* The start of main.  Each initialisation that fails makes main return;     *)
(* what was started before it keeps running.                                 *)
MainBrakeInit ==
  /\ \/ Goto("brake_init", "brake_set") /\ brake_init_ok
     \/ Goto("brake_init", "returned") /\ UNCHANGED brakeVars
  /\ UNCHANGED << uart_msgq, uart_rx, line, request, requestVars, bleVars >>

MainBrakeSet ==
  /\ Goto("brake_set", "uart_init")
  /\ brake_set(0)
  /\ UNCHANGED << uart_msgq, uart_rx, line, request, requestVars, bleVars >>

MainUartInit ==
  /\ \/ Goto("uart_init", "ble_init") /\ uart_rx' = TRUE
     \/ Goto("uart_init", "returned") /\ UNCHANGED uart_rx
  /\ UNCHANGED << uart_msgq, line, request, requestVars, brakeVars, bleVars >>

MainBleInit ==
  /\ \/ Goto("ble_init", "uart") /\ ble_service_init_ok
     \/ Goto("ble_init", "returned") /\ UNCHANGED bleVars
  /\ UNCHANGED << uart_msgq, uart_rx, line, request, requestVars, brakeVars >>

--------------------------------------------------------------------------------
(* The loop of main. *)
MainTakeLine ==
  /\ uart_msgq # << >>
  /\ Goto("uart", "handle")
  /\ line' = Head(uart_msgq)
  /\ uart_msgq' = Tail(uart_msgq)
  /\ UNCHANGED << uart_rx, request, requestVars, brakeVars, bleVars >>

MainNoLine ==
  /\ uart_msgq = << >>
  /\ Goto("uart", "check")
  /\ UNCHANGED << uart_msgq, uart_rx, line, request, requestVars, brakeVars, bleVars >>

MainHandleLine ==
  /\ Goto("handle", "check")
  /\ handle_request(line)
  /\ UNCHANGED << uart_msgq, uart_rx, line, request, brakeVars, bleVars >>

(* Mutant: the connection is not checked. *)
MainCheckConnected_no_check ==
  /\ Goto("check", "get")
  /\ UNCHANGED << uart_msgq, uart_rx, line, request, requestVars, brakeVars, bleVars >>

(* Mutant: the check is the wrong way round. *)
MainCheckConnected_negated ==
  /\ \/ Goto("check", "sleep") /\ ble_connected
     \/ Goto("check", "get") /\ ~ble_connected
  /\ UNCHANGED << uart_msgq, uart_rx, line, request, requestVars, brakeVars, bleVars >>

MainCheckConnected ==
  /\ \/ Goto("check", "get") /\ ble_connected
     \/ Goto("check", "sleep") /\ ~ble_connected
  /\ UNCHANGED << uart_msgq, uart_rx, line, request, requestVars, brakeVars, bleVars >>

MainSleep ==
  /\ Goto("sleep", "uart")
  /\ UNCHANGED << uart_msgq, uart_rx, line, request, requestVars, brakeVars, bleVars >>

MainGetRequest ==
  /\ requests # << >>
  /\ Goto("get", "apply")
  /\ request' = Head(requests)
  /\ requests' = Tail(requests)
  /\ UNCHANGED << uart_msgq, uart_rx, line, newest, brakeVars, bleVars >>

(* Mutant: a timeout does not notify. *)
MainGetTimeout_silent ==
  /\ requests = << >>
  /\ Goto("get", "uart")
  /\ UNCHANGED << uart_msgq, uart_rx, line, request, requestVars, brakeVars, bleVars >>

(* 600 ms without a request: only notify. *)
MainGetTimeout ==
  /\ requests = << >>
  /\ Goto("get", "notify")
  /\ UNCHANGED << uart_msgq, uart_rx, line, request, requestVars, brakeVars, bleVars >>

(* Mutant: the connection is checked once the request is off the queue.      *)
MainApply_when_connected ==
  /\ Goto("apply", "notify")
  /\ IF ble_connected THEN brake_set(request) ELSE UNCHANGED brakeVars
  /\ UNCHANGED << uart_msgq, uart_rx, line, request, requestVars, bleVars >>

MainApply ==
  /\ Goto("apply", "notify")
  /\ brake_set(request)
  /\ UNCHANGED << uart_msgq, uart_rx, line, request, requestVars, bleVars >>

MainNotify ==
  /\ Goto("notify", "uart")
  /\ ble_service_notify_state
  /\ UNCHANGED << uart_msgq, uart_rx, line, request, requestVars, brakeVars >>

main ==
  \/ MainBrakeInit \/ MainBrakeSet \/ MainUartInit \/ MainBleInit
  \/ MainTakeLine \/ MainNoLine \/ MainHandleLine
  \/ MainCheckConnected \/ MainSleep
  \/ MainGetRequest \/ MainGetTimeout \/ MainApply \/ MainNotify

--------------------------------------------------------------------------------
(* The UART interrupt at the end of a line; a full queue drops the line. *)
serial_cb ==
  /\ uart_rx
  /\ \E text \in UartTexts :
       uart_msgq' = IF Len(uart_msgq) < UartDepth THEN Append(uart_msgq, text)
                                                  ELSE uart_msgq
  /\ UNCHANGED << uart_rx, mainPc, line, request, requestVars, brakeVars, bleVars >>

(* A write of the central, handled on the Bluetooth receive thread. *)
on_nus_received ==
  /\ rxPc = "idle" /\ link = "conn"
  /\ \E text \in BleTexts : handle_request(text)
  /\ UNCHANGED << mainVars, brakeVars, bleVars >>

(* The callbacks the receive thread owes the program. *)
BleCallback ==
  /\ BleCallbacks
  /\ UNCHANGED << mainVars, requestVars, brakeVars >>

(* What the central and the radio do. *)
BleEvent ==
  /\ \/ BleEvents
     \/ \E enabled \in Subscriptions : on_nus_notif_enabled(enabled)
  /\ UNCHANGED << mainVars, requestVars, brakeVars >>

NotifyWork ==
  /\ do_notify(brake_get)
  /\ UNCHANGED << mainVars, requestVars, brakeVars >>

BrakeLoop ==
  /\ brake_thread
  /\ UNCHANGED << mainVars, requestVars, bleVars >>

Next == main \/ serial_cb \/ on_nus_received \/ BleCallback \/ BleEvent
          \/ NotifyWork \/ BrakeLoop

Spec == Init /\ [][Next]_vars

(* Every thread keeps running: the main thread and the brake thread return  *)
(* from their sleeps, the receive thread and the work queue have the higher *)
(* priorities.  The ADC, the PWM and the radio may fail any number of times *)
(* but do not fail for ever.  Nothing is assumed of the Jetson, of the      *)
(* central or of the connection.                                            *)
Fairness ==
  /\ WF_vars(main)
  /\ WF_vars(BrakeLoop)
  /\ WF_vars(BleCallback)
  /\ WF_vars(NotifyWork)
  /\ SF_vars(AdcReads /\ UNCHANGED << mainVars, requestVars, bleVars >>)
  /\ SF_vars(PwmSet /\ UNCHANGED << mainVars, requestVars, bleVars >>)
  /\ SF_vars(do_notify_sends(brake_get) /\ UNCHANGED << mainVars, requestVars, brakeVars >>)

FairSpec == Spec /\ Fairness

--------------------------------------------------------------------------------
(* Requests accepted and not yet applied, oldest first. *)
Pending == IF mainPc = "apply" THEN << request >> \o requests ELSE requests

(* When no accepted request is waiting, what the brake was told is what the *)
(* newest accepted request said: a request is never lost, applied twice or  *)
(* overtaken between handle_request and brake_set.                          *)
NothingPendingMeansNewest == Pending = << >> => desired_percentage = newest

(* The threads of the firmware together keep the promise of BrakeCommand.   *)
Command == INSTANCE BrakeCommand WITH
             pending <- Pending,
             desired <- desired_percentage,
             connected <- ble_connected,
             permit <- mainPc \in {"get", "apply"}

KeepsCommandPromise == Command!Spec

(* While a central stays connected every accepted request is applied.       *)
ConnectedDrains == <>[]ble_connected => (Pending # << >> ~> mainPc = "notify")

(* When a central stays connected and the requests settle on one percentage *)
(* the servo ends up with the pulse of that percentage, whatever the ADC and *)
(* the PWM did in between.                                                  *)
NewestReachesServo ==
  \A p \in Percentages :
    <>[](ble_connected /\ newest = p) => <>[](pulse = percentage_to_pulse(p))

(* A subscribed central ends up with the state the brake has, although the  *)
(* notification sent after a request may carry the state from before it.    *)
SubscriberLearnsState ==
  \A a \in BrakeStates :
    <>[](notifications_enabled /\ link = "conn" /\ actual_percentage = a)
      => <>[](central = a)
================================================================================
