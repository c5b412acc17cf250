------------------------------ MODULE BrakeCommand ------------------------------
(***************************************************************************)
(* What the brake controller promises about the requests it accepts,        *)
(* without its threads: accepted percentages are kept in order, each is     *)
(* applied once, and each application uses up a permit of its own that was  *)
(* granted while a central was connected.  So requests accepted while no    *)
(* central is connected wait, and after the connection is lost at most one  *)
(* more is applied.                                                         *)
(***************************************************************************)
EXTENDS Integers, Sequences

CONSTANTS Percentages,
          RequestDepth

VARIABLES pending,     \* accepted and not yet applied, oldest first
          desired,     \* the percentage applied last
          connected,   \* a central is connected
          permit       \* one request may be applied

vars == << pending, desired, connected, permit >>

Init ==
  /\ pending = << >>
  /\ desired = 0
  /\ connected = FALSE
  /\ permit = FALSE

Accept(percentage) ==
  /\ Len(pending) <= RequestDepth
  /\ pending' = Append(pending, percentage)
  /\ UNCHANGED << desired, connected, permit >>

Connection ==
  /\ connected' = ~connected
  /\ UNCHANGED << pending, desired, permit >>

Grant ==
  /\ connected
  /\ permit' = TRUE
  /\ UNCHANGED << pending, desired, connected >>

Lapse ==
  /\ permit /\ pending = << >>
  /\ permit' = FALSE
  /\ UNCHANGED << pending, desired, connected >>

Apply ==
  /\ permit /\ pending # << >>
  /\ desired' = Head(pending)
  /\ pending' = Tail(pending)
  /\ permit' = FALSE
  /\ UNCHANGED connected

Next == (\E percentage \in Percentages : Accept(percentage))
          \/ Connection \/ Grant \/ Lapse \/ Apply

Spec == Init /\ [][Next]_vars
================================================================================
