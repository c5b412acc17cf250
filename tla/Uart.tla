---------------------------------- MODULE Uart ----------------------------------
(***************************************************************************)
(* brake-controller/src/uart.c: the receive interrupt that cuts the stream  *)
(* of the Jetson into lines and queues them for the main thread.            *)
(*                                                                          *)
(* An ordinary character is << line, position >>: which line of the sender  *)
(* it belongs to (the sender numbers its lines modulo Lines) and where it   *)
(* stands in it, so that what arrives in the queue can be compared with     *)
(* what was sent.                                                           *)
(***************************************************************************)
EXTENDS Integers, Sequences

CONSTANTS MSG_SIZE,    \* 128: size of rx_buf, with the terminating NUL
          UartDepth,   \* K_MSGQ_DEFINE(uart_msgq, MSG_SIZE, 10, 1)
          LineEnd,     \* '\n' or '\r'
          Lines,       \* lines of the sender that are told apart
          MaxLine      \* bound: length of the longest line sent

ASSUME MsgSizeAssumption == MSG_SIZE \in Nat /\ MSG_SIZE > 1
ASSUME UartDepthAssumption == UartDepth \in Nat \ {0}
ASSUME SenderAssumption == Lines \in Nat \ {0} /\ MaxLine \in Nat \ {0}

Ordinary == (0 .. Lines - 1) \X (1 .. MaxLine)
ASSUME LineEndAssumption == LineEnd \notin Ordinary

VARIABLES rx_buf,      \* what the interrupt collected; rx_buf_pos is its length
          uart_msgq,   \* the lines queued
          line,        \* the line the sender is in
          position     \* how many characters of it were sent

vars == << rx_buf, uart_msgq, line, position >>

TypeOK ==
  /\ rx_buf \in Seq(Ordinary \cup {LineEnd})
  /\ Len(rx_buf) < MSG_SIZE
  /\ uart_msgq \in Seq(Seq(Ordinary \cup {LineEnd}))
  /\ Len(uart_msgq) <= UartDepth
  /\ line \in 0 .. Lines - 1
  /\ position \in 0 .. MaxLine

Init ==
  /\ rx_buf = << >>
  /\ uart_msgq = << >>
  /\ line = 0
  /\ position = 0

(* Mutant: the buffer is reset only when the line found room in the queue.  *)
EndLine_reset_on_success ==
  IF Len(uart_msgq) < UartDepth
    THEN uart_msgq' = Append(uart_msgq, rx_buf) /\ rx_buf' = << >>
    ELSE UNCHANGED << rx_buf, uart_msgq >>

(* The end of a line that is not empty queues it, or drops it when the queue *)
(* is full, and starts the next.                                             *)
EndLine ==
  /\ uart_msgq' = IF Len(uart_msgq) < UartDepth THEN Append(uart_msgq, rx_buf)
                                                ELSE uart_msgq
  /\ rx_buf' = << >>

(* Mutant: the last cell of the buffer, which is for the NUL, is filled too. *)
Collect_no_room_for_nul(c) ==
  /\ rx_buf' = IF Len(rx_buf) < MSG_SIZE THEN Append(rx_buf, c) ELSE rx_buf
  /\ UNCHANGED uart_msgq

(* Characters beyond the buffer are dropped. *)
Collect(c) ==
  /\ rx_buf' = IF Len(rx_buf) < MSG_SIZE - 1 THEN Append(rx_buf, c) ELSE rx_buf
  /\ UNCHANGED uart_msgq

(* One character of the hardware FIFO.  A line end at the start of the      *)
(* buffer is collected like any other character.                            *)
serial_cb(c) ==
  IF c = LineEnd /\ rx_buf # << >> THEN EndLine ELSE Collect(c)

SendCharacter ==
  /\ position < MaxLine
  /\ position' = position + 1
  /\ serial_cb(<< line, position' >>)
  /\ UNCHANGED line

SendLineEnd ==
  /\ serial_cb(LineEnd)
  /\ line' = (line + 1) % Lines
  /\ position' = 0

(* The main thread takes a line (main.c:51). *)
TakeLine ==
  /\ uart_msgq # << >>
  /\ uart_msgq' = Tail(uart_msgq)
  /\ UNCHANGED << rx_buf, line, position >>

Next == SendCharacter \/ SendLineEnd \/ TakeLine

Spec == Init /\ [][Next]_vars

--------------------------------------------------------------------------------
(* The line of s, after the line end that may stand at its start.           *)
Characters(s) == IF s # << >> /\ Head(s) = LineEnd THEN Tail(s) ELSE s

IsPrefixOfLine(s) ==
  \A i \in 1 .. Len(s) : s[i] = << s[1][1], i >>

(* What is queued of a line is a prefix of that line, never a mix of two:   *)
(* dropping a line for a full queue, cutting a long one and the main thread *)
(* taking one in between leave the framing of the next intact.              *)
LinesAreNotMixed ==
  \A i \in 1 .. Len(uart_msgq) : IsPrefixOfLine(Characters(uart_msgq[i]))
================================================================================
