------------------------------- MODULE ByteStream -------------------------------
(***************************************************************************)
(* What AsyncTransceiver promises of the bytes of one connection: the codec  *)
(* is given what came over the channel, all of it and in order, until the    *)
(* connection is closed, and nothing of it afterwards.                       *)
(***************************************************************************)
EXTENDS SequencesExt

VARIABLES open,    \* the transceiver is bound to a channel
          stream   \* received over it and not yet given to the codec

streamVars == << open, stream >>

Init == open = FALSE /\ stream = << >>

(* The channel may have bytes of the new connection before it is bound.     *)
Open == ~open /\ open' = TRUE

Receive == open /\ stream' # << >> /\ stream = Front(stream') /\ UNCHANGED open

Give == open /\ stream # << >> /\ stream' = Tail(stream) /\ UNCHANGED open

Close == open /\ open' = FALSE /\ stream' = << >>

Next == Open \/ Receive \/ Give \/ Close

Spec == Init /\ [][Next]_streamVars
================================================================================
