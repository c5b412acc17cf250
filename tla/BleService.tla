------------------------------- MODULE BleService -------------------------------
(***************************************************************************)
(* brake-controller/src/ble_service.c: the connection flags, the callbacks  *)
(* the Bluetooth stack runs on its receive thread, and the work item that   *)
(* sends the brake state on the system work queue.                          *)
(*                                                                          *)
(* The stack itself is external and modelled from its use: one connection   *)
(* (CONFIG_BT_MAX_CONN=1), advertising that ends when a central connects,   *)
(* callbacks delivered one at a time some time after the event.  A callback *)
(* is one step up to the call that may block in the stack.                  *)
(***************************************************************************)
EXTENDS Integers

CONSTANTS BrakeStates,   \* what brake_get may return
          NoState        \* the central has been told nothing yet

ASSUME NoStateAssumption == NoState \notin BrakeStates

VARIABLES ble_connected,          \* the flag the main thread polls
          current_conn,           \* current_conn # NULL: a reference is held
          notifications_enabled,  \* the central has subscribed
          link,                   \* external: state of the radio link
          rxPc,                   \* where the receive thread is
          notify_work,            \* the work item is queued
          central                 \* external: last state the central was told

connVars == << ble_connected, current_conn, notifications_enabled, link, rxPc >>
bleVars == << connVars, notify_work, central >>

(* "up" and "lost": the link changed and the callback is yet to run. *)
Links == {"idle", "adv", "up", "conn", "lost"}

BleTypeOK ==
  /\ ble_connected \in BOOLEAN
  /\ current_conn \in BOOLEAN
  /\ notifications_enabled \in BOOLEAN
  /\ link \in Links
  /\ rxPc \in {"idle", "adv_start"}
  /\ notify_work \in BOOLEAN
  /\ central \in BrakeStates \cup {NoState}

(* After reset, and with the link in a given state. *)
BleReset(l) ==
  /\ ble_connected = FALSE
  /\ current_conn = FALSE
  /\ notifications_enabled = FALSE
  /\ link = l
  /\ rxPc = "idle"
  /\ notify_work = FALSE
  /\ central = NoState

BleInit == BleReset("idle")

--------------------------------------------------------------------------------
(* ble_service_init up to advertising; every earlier failure returns to main. *)
ble_service_init_ok ==
  /\ link' = "adv"
  /\ UNCHANGED << ble_connected, current_conn, notifications_enabled, rxPc, notify_work, central >>

LinkUp ==
  /\ link = "adv"
  /\ link' = "up"
  /\ UNCHANGED << ble_connected, current_conn, notifications_enabled, rxPc, notify_work, central >>

LinkLost ==
  /\ link = "conn"
  /\ link' = "lost"
  /\ UNCHANGED << ble_connected, current_conn, notifications_enabled, rxPc, notify_work, central >>

on_connected ==
  /\ rxPc = "idle" /\ link = "up"
  /\ link' = "conn"
  /\ current_conn' = TRUE
  /\ ble_connected' = TRUE
  /\ central' = NoState
  /\ UNCHANGED << notifications_enabled, rxPc, notify_work >>

(* The callback with an error: nothing is recorded, nothing restarted. *)
on_connected_error ==
  /\ rxPc = "idle" /\ link = "up"
  /\ link' = "idle"
  /\ UNCHANGED << ble_connected, current_conn, notifications_enabled, rxPc, notify_work, central >>

on_nus_notif_enabled(enabled) ==
  /\ rxPc = "idle" /\ link = "conn"
  /\ notifications_enabled' = enabled
  /\ notify_work' = (notify_work \/ enabled)
  /\ UNCHANGED << ble_connected, current_conn, link, rxPc, central >>

(* Mutant: the subscription outlives the connection. *)
on_disconnected_keeps_subscription ==
  /\ rxPc = "idle" /\ link = "lost"
  /\ link' = "idle"
  /\ current_conn' = FALSE
  /\ ble_connected' = FALSE
  /\ rxPc' = "adv_start"
  /\ UNCHANGED << notifications_enabled, notify_work, central >>

on_disconnected ==
  /\ rxPc = "idle" /\ link = "lost"
  /\ link' = "idle"
  /\ current_conn' = FALSE
  /\ ble_connected' = FALSE
  /\ notifications_enabled' = FALSE
  /\ rxPc' = "adv_start"
  /\ UNCHANGED << notify_work, central >>

(* bt_le_adv_start at the end of on_disconnected; an error is only logged. *)
RestartAdvertising(ok) ==
  /\ rxPc = "adv_start"
  /\ rxPc' = "idle"
  /\ link' = IF ok THEN "adv" ELSE link
  /\ UNCHANGED << ble_connected, current_conn, notifications_enabled, notify_work, central >>

--------------------------------------------------------------------------------
(* k_work_submit: no effect when the item is queued already. *)
ble_service_notify_state ==
  /\ notify_work' = TRUE
  /\ UNCHANGED << connVars, central >>

(* The work queue takes the item off before it runs do_notify, which no      *)
(* callback and no thread of the program preempts: both run cooperatively.   *)
(* bt_nus_send may fail for want of a buffer or a connection; nothing is     *)
(* sent again then.                                                          *)
do_notify_sends(state) ==
  /\ notify_work
  /\ notify_work' = FALSE
  /\ notifications_enabled /\ link = "conn"
  /\ central' = state
  /\ UNCHANGED connVars

do_notify_does_not_send ==
  /\ notify_work
  /\ notify_work' = FALSE
  /\ UNCHANGED << connVars, central >>

do_notify(state) == do_notify_sends(state) \/ do_notify_does_not_send

--------------------------------------------------------------------------------
(* The component on its own, from the end of ble_service_init on: the main  *)
(* thread asks for notifications at any time and the brake is in any state. *)
BleCallbacks == on_connected \/ on_disconnected
                  \/ \E ok \in BOOLEAN : RestartAdvertising(ok)

BleEvents == LinkUp \/ LinkLost \/ on_connected_error

BleNext ==
  \/ BleCallbacks
  \/ BleEvents
  \/ \E enabled \in BOOLEAN : on_nus_notif_enabled(enabled)
  \/ ble_service_notify_state
  \/ \E state \in BrakeStates : do_notify(state)

BleSpec == BleReset("adv") /\ [][BleNext]_bleVars

(* The flags the other threads poll and the reference that is held agree    *)
(* with the link at all times, up to the callback that is due; what is held *)
(* of one connection never outlives it.                                     *)
FlagsTrackLink ==
  /\ ble_connected <=> link \in {"conn", "lost"}
  /\ current_conn <=> ble_connected
  /\ notifications_enabled => ble_connected
================================================================================
