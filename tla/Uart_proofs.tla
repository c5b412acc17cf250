------------------------------ MODULE Uart_proofs -------------------------------
(***************************************************************************)
(* Framing keeps lines apart, for every size of the buffer and of the queue  *)
(* and for lines of any length.                                              *)
(***************************************************************************)
EXTENDS Uart, SequenceTheorems, TLAPS

Character == Ordinary \cup {LineEnd}

(* A line end collected at the start of s stands before its line.           *)
Skipped(s) == IF s # << >> /\ s[1] = LineEnd THEN 1 ELSE 0

(* After that, s holds the first characters of line l.                      *)
IsOfLine(s, l) ==
  \A i \in 1 .. Len(s) : i > Skipped(s) => s[i] = << l, i - Skipped(s) >>

(* The buffer holds the line being sent, all of it that fits.               *)
BufferIsOfLine ==
  /\ IsOfLine(rx_buf, line)
  /\ Len(rx_buf) - Skipped(rx_buf) <= position
  /\ Len(rx_buf) - Skipped(rx_buf) = position \/ Len(rx_buf) = MSG_SIZE - 1

QueuedAreOfLines ==
  \A i \in 1 .. Len(uart_msgq) : \E l \in 0 .. Lines - 1 : IsOfLine(uart_msgq[i], l)

IInv == TypeOK /\ BufferIsOfLine /\ QueuedAreOfLines
--------------------------------------------------------------------------------
(* An ordinary character is not a line end.                                 *)
LEMMA OrdinaryIsNotLineEnd ==
  ASSUME NEW l \in 0 .. Lines - 1, NEW i \in 1 .. MaxLine
  PROVE  << l, i >> \in Character /\ << l, i >> # LineEnd
  BY LineEndAssumption DEF Character, Ordinary

(* What starts like a line and goes on in order is a prefix of it.          *)
LEMMA OfLineIsPrefix ==
  ASSUME NEW s \in Seq(Character), NEW l, IsOfLine(s, l)
  PROVE  IsPrefixOfLine(Characters(s))
<1>1. Len(s) \in Nat
  BY LenProperties
<1>2. CASE s # << >> /\ Head(s) = LineEnd
  <2>1. Head(s) = s[1] /\ Len(s) > 0
    BY <1>1, <1>2, EmptySeq
  <2>2. Characters(s) = Tail(s) /\ Skipped(s) = 1
    BY <1>2, <2>1 DEF Characters, Skipped
  <2>3. Len(Tail(s)) = Len(s) - 1 /\ \A i \in 1 .. Len(Tail(s)) : Tail(s)[i] = s[i + 1]
    BY <1>2, HeadTailProperties
  <2>4. \A i \in 1 .. Len(Tail(s)) : Tail(s)[i] = << l, i >>
    BY <1>1, <2>1, <2>2, <2>3 DEF IsOfLine
  <2> DEFINE t == Tail(s)
  <2>5. \A i \in 1 .. Len(t) : t[i] = << l, i >>
    BY <2>4
  <2>6. Len(t) \in Nat
    BY <1>1, <2>1, <2>3
  <2> HIDE DEF t
  <2>7. IsPrefixOfLine(t)
    BY <2>5, <2>6 DEF IsPrefixOfLine
  <2> QED
    BY <2>2, <2>7 DEF t
<1>3. CASE ~ (s # << >> /\ Head(s) = LineEnd)
  <2>1. Characters(s) = s /\ Skipped(s) = 0
    <3>1. s # << >> => Head(s) = s[1]
      BY EmptySeq
    <3> QED BY <1>3, <3>1 DEF Characters, Skipped
  <2>2. \A i \in 1 .. Len(s) : s[i] = << l, i >>
    BY <1>1, <2>1 DEF IsOfLine
  <2> QED
    BY <1>1, <2>1, <2>2 DEF IsPrefixOfLine
<1> QED
  BY <1>2, <1>3

(* What the line end leaves, and what a line end at the start leaves.       *)
LEMMA EmptyIsOfLine ==
  ASSUME NEW l
  PROVE  IsOfLine(<< >>, l) /\ Skipped(<< >>) = 0 /\ Len(<< >>) = 0
  BY EmptySeq DEF IsOfLine, Skipped

(* Collecting a character appends it, or leaves a full buffer as it is.     *)
LEMMA Collecting ==
  ASSUME TypeOK, NEW c \in Character, Collect(c)
  PROVE  /\ rx_buf' \in Seq(Character) /\ Len(rx_buf') < MSG_SIZE
         /\ \/ /\ Len(rx_buf) < MSG_SIZE - 1 /\ Len(rx_buf') = Len(rx_buf) + 1
               /\ \A i \in 1 .. Len(rx_buf) : rx_buf'[i] = rx_buf[i]
               /\ rx_buf'[Len(rx_buf) + 1] = c
               /\ Len(rx_buf) # 0 => Skipped(rx_buf') = Skipped(rx_buf)
            \/ Len(rx_buf) = MSG_SIZE - 1 /\ rx_buf' = rx_buf
<1>1. rx_buf \in Seq(Character) /\ Len(rx_buf) \in Nat /\ Len(rx_buf) < MSG_SIZE /\ MSG_SIZE \in Nat
  BY MsgSizeAssumption, LenProperties DEF TypeOK, Character
<1>2. CASE Len(rx_buf) < MSG_SIZE - 1
  <2>1. rx_buf' = Append(rx_buf, c)
    BY <1>2 DEF Collect
  <2>2. /\ rx_buf' \in Seq(Character) /\ rx_buf' # << >> /\ Len(rx_buf') = Len(rx_buf) + 1
        /\ \A i \in 1 .. Len(rx_buf) : rx_buf'[i] = rx_buf[i]
        /\ rx_buf'[Len(rx_buf) + 1] = c
    BY <1>1, <2>1, AppendProperties
  <2>3. Len(rx_buf) # 0 => Skipped(rx_buf') = Skipped(rx_buf)
    BY <1>1, <2>2, EmptySeq DEF Skipped
  <2> QED
    BY <1>1, <1>2, <2>2, <2>3
<1>3. CASE Len(rx_buf) = MSG_SIZE - 1
  BY <1>1, <1>3 DEF Collect
<1> QED
  BY <1>1, <1>2, <1>3

LEMMA InitHolds == Init => IInv
  BY MsgSizeAssumption, UartDepthAssumption, SenderAssumption, EmptySeq, EmptyIsOfLine
  DEF Init, IInv, TypeOK, BufferIsOfLine, QueuedAreOfLines

(* A character of the line is the next one the buffer expects.              *)
LEMMA CharacterKeeps == IInv /\ SendCharacter => IInv'
<1> SUFFICES ASSUME IInv, SendCharacter PROVE IInv'
  OBVIOUS
<1> DEFINE c == << line, position + 1 >>
<1>1. /\ TypeOK /\ BufferIsOfLine /\ rx_buf \in Seq(Character) /\ Len(rx_buf) \in Nat
      /\ MSG_SIZE \in Nat /\ MSG_SIZE > 1 /\ position' = position + 1 /\ line' = line
      /\ position \in Nat /\ position' \in 1 .. MaxLine /\ line \in 0 .. Lines - 1
  BY MsgSizeAssumption, SenderAssumption, LenProperties DEF IInv, TypeOK, SendCharacter, Character
<1>2. c \in Character /\ c # LineEnd
  BY <1>1, OrdinaryIsNotLineEnd
<1>3. Collect(c)
  BY <1>1, <1>2 DEF SendCharacter, serial_cb
<1> HIDE DEF c
<1>4. /\ rx_buf' \in Seq(Character) /\ Len(rx_buf') < MSG_SIZE
      /\ \/ /\ Len(rx_buf) < MSG_SIZE - 1 /\ Len(rx_buf') = Len(rx_buf) + 1
            /\ \A i \in 1 .. Len(rx_buf) : rx_buf'[i] = rx_buf[i]
            /\ rx_buf'[Len(rx_buf) + 1] = c
            /\ Len(rx_buf) # 0 => Skipped(rx_buf') = Skipped(rx_buf)
         \/ Len(rx_buf) = MSG_SIZE - 1 /\ rx_buf' = rx_buf
  BY <1>1, <1>2, <1>3, Collecting
<1>5. uart_msgq' = uart_msgq
  BY <1>3 DEF Collect
<1>6. TypeOK'
  BY <1>1, <1>4, <1>5 DEF IInv, TypeOK, Character
<1>7. Skipped(rx_buf) \in 0 .. 1 /\ (Len(rx_buf) = 0 => Skipped(rx_buf) = 0)
  BY <1>1, EmptySeq DEF Skipped
<1>8. BufferIsOfLine'
  <2>1. CASE rx_buf' = rx_buf /\ Len(rx_buf) = MSG_SIZE - 1
    BY <1>1, <1>7, <2>1 DEF BufferIsOfLine
  <2>2. CASE /\ Len(rx_buf) < MSG_SIZE - 1 /\ Len(rx_buf') = Len(rx_buf) + 1
             /\ \A i \in 1 .. Len(rx_buf) : rx_buf'[i] = rx_buf[i]
             /\ rx_buf'[Len(rx_buf) + 1] = c
             /\ Len(rx_buf) # 0 => Skipped(rx_buf') = Skipped(rx_buf)
    <3>1. Len(rx_buf) - Skipped(rx_buf) = position
      BY <1>1, <2>2 DEF BufferIsOfLine
    <3>2. Skipped(rx_buf') = Skipped(rx_buf)
      BY <1>1, <1>2, <1>7, <2>2 DEF Skipped
    <3>3. rx_buf'[Len(rx_buf) + 1] = << line, Len(rx_buf) + 1 - Skipped(rx_buf) >>
      BY <1>1, <1>7, <2>2, <3>1 DEF c
    <3>4. IsOfLine(rx_buf', line')
      BY <1>1, <1>7, <2>2, <3>2, <3>3 DEF IsOfLine, BufferIsOfLine
    <3> QED
      BY <1>1, <1>7, <2>2, <3>1, <3>2, <3>4 DEF BufferIsOfLine
  <2> QED
    BY <1>4, <2>1, <2>2
<1> QED
  BY <1>5, <1>6, <1>8 DEF IInv, QueuedAreOfLines

(* A line end queues or drops what was collected, or is itself collected.   *)
LEMMA LineEndKeeps == IInv /\ SendLineEnd => IInv'
<1> SUFFICES ASSUME IInv, SendLineEnd PROVE IInv'
  OBVIOUS
<1>1. /\ TypeOK /\ BufferIsOfLine /\ QueuedAreOfLines /\ rx_buf \in Seq(Character)
      /\ Len(rx_buf) \in Nat /\ MSG_SIZE \in Nat /\ MSG_SIZE > 1 /\ position' = 0
      /\ line \in 0 .. Lines - 1 /\ line' \in 0 .. Lines - 1
  BY MsgSizeAssumption, SenderAssumption, LenProperties DEF IInv, TypeOK, SendLineEnd, Character
<1>2. uart_msgq \in Seq(Seq(Character)) /\ Len(uart_msgq) \in Nat /\ Len(uart_msgq) <= UartDepth
      /\ UartDepth \in Nat
  BY UartDepthAssumption, LenProperties DEF IInv, TypeOK, Character
<1>3. CASE rx_buf # << >>
  <2>1. EndLine
    BY <1>3 DEF SendLineEnd, serial_cb
  <2>2. rx_buf' = << >> /\ IsOfLine(rx_buf', line') /\ Skipped(rx_buf') = 0 /\ Len(rx_buf') = 0
    BY <2>1, EmptyIsOfLine DEF EndLine
  <2>3. CASE Len(uart_msgq) < UartDepth
    <3>1. /\ uart_msgq' \in Seq(Seq(Character)) /\ Len(uart_msgq') = Len(uart_msgq) + 1
          /\ \A i \in 1 .. Len(uart_msgq) : uart_msgq'[i] = uart_msgq[i]
          /\ uart_msgq'[Len(uart_msgq) + 1] = rx_buf
      <4>1. uart_msgq' = Append(uart_msgq, rx_buf)
        BY <2>1, <2>3 DEF EndLine
      <4> QED BY <1>1, <1>2, <4>1, AppendProperties
    <3>2. QueuedAreOfLines'
      <4> SUFFICES ASSUME NEW i \in 1 .. Len(uart_msgq) + 1
                   PROVE  \E l \in 0 .. Lines - 1 : IsOfLine(uart_msgq'[i], l)
        BY <3>1 DEF QueuedAreOfLines
      <4>1. CASE i = Len(uart_msgq) + 1
        BY <1>1, <3>1, <4>1 DEF BufferIsOfLine
      <4>2. CASE i \in 1 .. Len(uart_msgq)
        BY <1>1, <3>1, <4>2 DEF QueuedAreOfLines
      <4> QED BY <1>2, <4>1, <4>2
    <3>3. TypeOK'
      BY <1>1, <1>2, <2>2, <2>3, <3>1, EmptySeq, SenderAssumption DEF TypeOK, Character
    <3> QED
      BY <1>1, <2>2, <3>2, <3>3 DEF IInv, BufferIsOfLine
  <2>4. CASE ~ (Len(uart_msgq) < UartDepth)
    <3>1. uart_msgq' = uart_msgq
      BY <2>1, <2>4 DEF EndLine
    <3>2. TypeOK'
      BY <1>1, <1>2, <2>2, <3>1, EmptySeq, SenderAssumption DEF TypeOK, Character
    <3> QED
      BY <1>1, <2>2, <3>1, <3>2 DEF IInv, BufferIsOfLine, QueuedAreOfLines
  <2> QED BY <2>3, <2>4
<1>4. CASE rx_buf = << >>
  <2>1. Collect(LineEnd) /\ LineEnd \in Character
    BY <1>4 DEF SendLineEnd, serial_cb, Character
  <2>2. /\ rx_buf' \in Seq(Character) /\ rx_buf' # << >> /\ Len(rx_buf') = 1 /\ rx_buf'[1] = LineEnd
        /\ uart_msgq' = uart_msgq
    <3>1. rx_buf' = Append(rx_buf, LineEnd) /\ Len(rx_buf) = 0 /\ uart_msgq' = uart_msgq
      BY <1>1, <1>4, <2>1, EmptySeq DEF Collect
    <3> QED BY <1>1, <2>1, <3>1, AppendProperties
  <2>3. Skipped(rx_buf') = 1 /\ IsOfLine(rx_buf', line')
    <3>1. Skipped(rx_buf') = 1
      BY <2>2 DEF Skipped
    <3> QED BY <2>2, <3>1 DEF IsOfLine
  <2>4. TypeOK'
    BY <1>1, <2>2, SenderAssumption DEF TypeOK, Character
  <2> QED
    BY <1>1, <2>2, <2>3, <2>4 DEF IInv, BufferIsOfLine, QueuedAreOfLines
<1> QED
  BY <1>3, <1>4

LEMMA TakingKeeps == IInv /\ TakeLine => IInv'
<1> SUFFICES ASSUME IInv, TakeLine PROVE IInv'
  OBVIOUS
<1>1. uart_msgq \in Seq(Seq(Character)) /\ uart_msgq # << >> /\ uart_msgq' = Tail(uart_msgq)
  BY DEF IInv, TypeOK, TakeLine, Character
<1>2. /\ uart_msgq' \in Seq(Seq(Character)) /\ Len(uart_msgq') = Len(uart_msgq) - 1
      /\ \A i \in 1 .. Len(uart_msgq') : uart_msgq'[i] = uart_msgq[i + 1]
      /\ Len(uart_msgq) \in Nat
  BY <1>1, HeadTailProperties, LenProperties
<1>3. TypeOK'
  BY <1>2, UartDepthAssumption DEF IInv, TypeOK, TakeLine, Character
<1>4. QueuedAreOfLines'
  BY <1>2 DEF IInv, QueuedAreOfLines
<1> QED
  BY <1>3, <1>4 DEF IInv, TakeLine, BufferIsOfLine

LEMMA Invariant == Spec => []IInv
<1>1. IInv /\ UNCHANGED vars => IInv'
  BY DEF IInv, TypeOK, BufferIsOfLine, QueuedAreOfLines, vars
<1>2. IInv /\ [Next]_vars => IInv'
  BY <1>1, CharacterKeeps, LineEndKeeps, TakingKeeps DEF Next
<1> QED
  BY <1>2, InitHolds, PTL DEF Spec

(* Nothing is written beyond rx_buf, whose last cell is left for the NUL,    *)
(* and the queue holds no more than its depth (uart.c:14-20, 41-58).         *)
THEOREM BufferIsNotOverrun == Spec => []TypeOK
  BY Invariant, PTL DEF IInv

(* A line that is queued is a prefix of one line that was sent, for every    *)
(* size of the buffer and of the queue (uart.c:26-60).                       *)
THEOREM LinesStayApart == Spec => []LinesAreNotMixed
<1>1. IInv => LinesAreNotMixed
  <2> SUFFICES ASSUME IInv, NEW i \in 1 .. Len(uart_msgq)
               PROVE  IsPrefixOfLine(Characters(uart_msgq[i]))
    BY DEF LinesAreNotMixed
  <2>1. uart_msgq[i] \in Seq(Character)
    BY ElementOfSeq DEF IInv, TypeOK, Character
  <2>2. \E l \in 0 .. Lines - 1 : IsOfLine(uart_msgq[i], l)
    BY DEF IInv, QueuedAreOfLines
  <2> QED
    BY <2>1, <2>2, OfLineIsPrefix
<1> QED
  BY <1>1, Invariant, PTL

================================================================================
