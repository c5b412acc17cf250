------------------------------- MODULE BrakeMath -------------------------------
(***************************************************************************)
(* The pure conversions of brake-controller/src/brake.c and the way the     *)
(* brake thread turns an ADC sample into their argument.                    *)
(***************************************************************************)
EXTENDS Integers

CONSTANT Percentages      \* the percentages requests carry: not range checked

ASSUME PercentagesAssumption == Percentages \subseteq Int /\ 0 \in Percentages

PWM_PERIOD == 20000000                 \* PWM_MSEC(20), in nanoseconds
MILLIVOLTS_TO_PERCENTAGE_MAX == 1700
MILLIVOLTS_TO_PERCENTAGE_MIN == 950

UInt16 == 0 .. 65535

percentage_to_pulse(pct) == IF pct # 0 THEN PWM_PERIOD \div 20 ELSE 0

(* The caller passes an int32_t and the parameter is a uint32_t: a negative *)
(* value arrives as at least 2^31, beyond the maximum.                      *)
millivolts_to_percentage(millivolts) ==
  IF 0 <= millivolts /\ millivolts <= MILLIVOLTS_TO_PERCENTAGE_MIN THEN 0
  ELSE IF millivolts < 0 \/ MILLIVOLTS_TO_PERCENTAGE_MAX <= millivolts THEN 100
  ELSE ((millivolts - MILLIVOLTS_TO_PERCENTAGE_MIN) * 100)
         \div (MILLIVOLTS_TO_PERCENTAGE_MAX - MILLIVOLTS_TO_PERCENTAGE_MIN)

(* The sample of a channel that is not differential stays unsigned, that of *)
(* a differential channel is sign-extended from 16 bits.                    *)
RawValue(adc_buf, differential) ==
  IF differential /\ adc_buf > 32767 THEN adc_buf - 65536 ELSE adc_buf
================================================================================
