------------------------------ MODULE BrakeThread ------------------------------
(***************************************************************************)
(* brake-controller/src/brake.c: the thread that samples the potentiometer  *)
(* and drives the brake servo every 100 ms, and the calls other threads     *)
(* make on it (brake_init, brake_stop, brake_set, brake_get).               *)
(*                                                                          *)
(* The thread's loop is split where another thread can run between two      *)
(* accesses to shared state: reading desired_percentage, storing            *)
(* actual_percentage, and driving the PWM.                                  *)
(***************************************************************************)
EXTENDS BrakeMath

CONSTANTS Samples,        \* what the ADC may put in adc_buf
          Millivolts(_),  \* adc_raw_to_millivolts_dt of a raw value, when it works
          Differential    \* pot.channel_cfg.differential

ASSUME SamplesAssumption == Samples \subseteq UInt16
ASSUME MillivoltsAssumption ==
         \A s \in Samples : Millivolts(RawValue(s, Differential)) \in Int
ASSUME DifferentialAssumption == Differential \in BOOLEAN

VARIABLES desired_percentage,  \* set by brake_set, read at the top of the loop
          actual_percentage,   \* set by the thread, read by brake_get
          brake_tid,           \* TRUE when brake_tid # NULL
          threadPc,            \* where the brake thread is
          brake_pct,           \* the loop's copy of desired_percentage
          pulse                \* the pulse the PWM peripheral puts out

brakeVars == << desired_percentage, actual_percentage, brake_tid, threadPc,
                brake_pct, pulse >>

(* What a sample is reported as; the millivolts are the raw value when the   *)
(* conversion to millivolts fails.                                           *)
Reported(s) ==
  LET val_raw == RawValue(s, Differential)
  IN {millivolts_to_percentage(val_mv) : val_mv \in {val_raw, Millivolts(val_raw)}}

Readings == UNION {Reported(s) : s \in Samples}

ThreadPcs == {"none", "top", "adc", "pwm", "sleep"}
Pulses == {percentage_to_pulse(p) : p \in Percentages}

BrakeTypeOK ==
  /\ desired_percentage \in Percentages
  /\ actual_percentage \in 0 .. 100
  /\ brake_tid \in BOOLEAN
  /\ threadPc \in ThreadPcs
  /\ brake_pct \in Percentages
  /\ pulse \in Pulses

BrakeInit ==
  /\ desired_percentage = 0
  /\ actual_percentage = 0
  /\ brake_tid = FALSE
  /\ threadPc = "none"
  /\ brake_pct = 0
  /\ pulse = 0                      \* the PWM is off after reset

--------------------------------------------------------------------------------
(* Mutant: the thread starts from a request of its own. *)
brake_init_applies ==
  /\ ~brake_tid
  /\ brake_tid' = TRUE
  /\ threadPc' = "pwm"
  /\ UNCHANGED << desired_percentage, actual_percentage, brake_pct, pulse >>

(* brake_init: a device that is not ready, a failing channel setup, a thread *)
(* that already runs or cannot be created leave everything as it was.        *)
brake_init_ok ==
  /\ ~brake_tid
  /\ brake_tid' = TRUE
  /\ threadPc' = "top"
  /\ UNCHANGED << desired_percentage, actual_percentage, brake_pct, pulse >>

(* brake_stop: abort the thread wherever it is, then join it.  When the join *)
(* fails the handle is kept, although the thread is gone.  The PWM keeps the *)
(* pulse it had.                                                             *)
brake_stop ==
  /\ brake_tid
  /\ threadPc' = "none"
  /\ brake_tid' \in BOOLEAN
  /\ UNCHANGED << desired_percentage, actual_percentage, brake_pct, pulse >>

brake_set(percentage) ==
  /\ desired_percentage' = percentage
  /\ UNCHANGED << actual_percentage, brake_tid, threadPc, brake_pct, pulse >>

brake_get == actual_percentage

--------------------------------------------------------------------------------
(* The loop of brake_thread. *)
(* Mutant: a cycle in which the request did not change is skipped. *)
ReadDesired_skips_unchanged ==
  /\ threadPc = "top"
  /\ brake_pct' = desired_percentage
  /\ threadPc' = IF desired_percentage = brake_pct THEN "sleep" ELSE "adc"
  /\ UNCHANGED << desired_percentage, actual_percentage, brake_tid, pulse >>

ReadDesired ==
  /\ threadPc = "top"
  /\ brake_pct' = desired_percentage
  /\ threadPc' = "adc"
  /\ UNCHANGED << desired_percentage, actual_percentage, brake_tid, pulse >>

(* Mutant: an ADC error is stored. *)
AdcReads_unchecked ==
  /\ threadPc = "adc"
  /\ actual_percentage' \in Readings \cup {-1}
  /\ threadPc' = "pwm"
  /\ UNCHANGED << desired_percentage, brake_tid, brake_pct, pulse >>

(* Mutant: an ADC error ends the thread. *)
AdcFails_ends_thread ==
  /\ threadPc = "adc"
  /\ threadPc' = "none"
  /\ UNCHANGED << desired_percentage, actual_percentage, brake_tid, brake_pct, pulse >>

AdcFails ==
  /\ threadPc = "adc"
  /\ threadPc' = "sleep"            \* `continue` skips the PWM as well
  /\ UNCHANGED << desired_percentage, actual_percentage, brake_tid, brake_pct, pulse >>

AdcReads ==
  /\ threadPc = "adc"
  /\ actual_percentage' \in Readings
  /\ threadPc' = "pwm"
  /\ UNCHANGED << desired_percentage, brake_tid, brake_pct, pulse >>

PwmSet ==
  /\ threadPc = "pwm"
  /\ pulse' = percentage_to_pulse(brake_pct)
  /\ threadPc' = "sleep"
  /\ UNCHANGED << desired_percentage, actual_percentage, brake_tid, brake_pct >>

PwmFails ==
  /\ threadPc = "pwm"
  /\ threadPc' = "sleep"
  /\ UNCHANGED << desired_percentage, actual_percentage, brake_tid, brake_pct, pulse >>

WakeUp ==
  /\ threadPc = "sleep"
  /\ threadPc' = "top"
  /\ UNCHANGED << desired_percentage, actual_percentage, brake_tid, brake_pct, pulse >>

brake_thread == ReadDesired \/ AdcFails \/ AdcReads \/ PwmSet \/ PwmFails \/ WakeUp

--------------------------------------------------------------------------------
(* The component on its own: any thread may call it at any time. *)
BrakeNext ==
  \/ brake_init_ok
  \/ brake_stop
  \/ \E percentage \in Percentages : brake_set(percentage)
  \/ brake_thread

BrakeSpec == BrakeInit /\ [][BrakeNext]_brakeVars

(* The thread returns from its sleeps; the devices recover. *)
BrakeFairness ==
  /\ WF_brakeVars(brake_thread)
  /\ SF_brakeVars(AdcReads)
  /\ SF_brakeVars(PwmSet)

BrakeFairSpec == BrakeSpec /\ BrakeFairness

(* The servo follows the request and the loop holds no older request.       *)
Settled ==
  /\ pulse = percentage_to_pulse(desired_percentage)
  /\ threadPc \in {"adc", "pwm"} =>
       percentage_to_pulse(brake_pct) = percentage_to_pulse(desired_percentage)

(* Once the servo has followed a request it stays there: no failure of the  *)
(* ADC or the PWM and no stop or restart of the thread moves the brake      *)
(* until another percentage is set.                                         *)
SettledIsStable ==
  [][Settled => Settled' \/ desired_percentage' # desired_percentage]_brakeVars

(* A request that stands while the thread runs reaches the servo.           *)
PulseFollowsDesired ==
  \A p \in Percentages :
    <>[](threadPc # "none" /\ desired_percentage = p)
      => <>[](pulse = percentage_to_pulse(p))
================================================================================
