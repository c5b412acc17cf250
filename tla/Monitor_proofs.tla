----------------------------- MODULE Monitor_proofs -----------------------------
(***************************************************************************)
(* pc/app.py: the client that presses are given is the current one, no      *)
(* press is sent over a connection made after its own ended and none        *)
(* overtakes one that was answered, and every stream gets what was          *)
(* broadcast since it subscribed; for any number of presses, clients,       *)
(* streams and messages.                                                    *)
(***************************************************************************)
EXTENDS MonitorBle, MonitorStream, SequenceTheorems, FunctionTheorems, FiniteSetTheorems, TLAPS

PressTypes ==
  /\ post \in [Presses -> {"new"} \cup Waiting \cup Answered]
  /\ captured \in [Presses -> Clients \cup {None}]
  /\ bleRun \in {"scan", "connect", "notify", "watch", "stop", "exit", "finally", "ended"}
  /\ ready \in Seq(Presses) /\ written \in Seq(Presses) /\ received \in Seq(Presses)

(* The connection ble_run has, at each of its awaits.                       *)
LinkIsCurrent ==
  /\ bleRun \in {"notify", "watch", "stop", "exit"} =>
       ble_client = client /\ client \in Clients /\ link \in {None, client}
  /\ bleRun \in {"scan", "connect", "ended"} => ble_client = None /\ link = None
  /\ bleRun = "finally" => ble_client \in {None, client} \cap (Clients \cup {None}) /\ link = None

(* Until it is connected, no press refers to the client of a new connection. *)
NewClientIsFresh ==
  bleRun = "connect" => client \in Clients /\ \A p \in Presses : captured[p] # client

(* A press whose connection ended refers to a client that is not up, and     *)
(* only presses that began refer to one.                                    *)
OutlivedIsDown ==
  \A p \in Presses :
    /\ post[p] = "new" => captured[p] = None
    /\ p \in outlived => captured[p] # None /\ captured[p] # link

IInv == PressTypes /\ LinkIsCurrent /\ NewClientIsFresh /\ OutlivedIsDown
--------------------------------------------------------------------------------
LEMMA InitHolds == Init => IInv
BY DEF Init, IInv, PressTypes, LinkIsCurrent, NewClientIsFresh, OutlivedIsDown

LEMMA LinkLostKeeps == IInv /\ LinkLost => IInv'
<1> SUFFICES ASSUME IInv, LinkLost PROVE IInv'
  OBVIOUS
<1> USE DEF IInv, LinkLost, Ends
<1>1. PressTypes'
  BY DEF PressTypes
<1>2. LinkIsCurrent'
  BY DEF LinkIsCurrent
<1>3. NewClientIsFresh'
  BY DEF NewClientIsFresh
<1>4. OutlivedIsDown'
  BY DEF OutlivedIsDown
<1> QED
  BY <1>1, <1>2, <1>3, <1>4

--------------------------------------------------------------------------------
(* ble_run leaves the presses alone. *)
LEMMA RunKeepsPresses == PressTypes /\ ble_run => PressTypes' /\ UNCHANGED pressVars
BY DEF PressTypes, pressVars, Goes, ble_run, ScanFinds, ScanRaises, Connects, ConnectFails, StartsNotify,
       StartNotifyFails, WatchSeesLoss, StopsNotify, Disconnects, ClearsClient

LEMMA RunKeepsLink == IInv /\ ble_run => LinkIsCurrent'
<1> SUFFICES ASSUME IInv, ble_run PROVE LinkIsCurrent'
  OBVIOUS
<1> USE DEF IInv, LinkIsCurrent, Goes
<1>1. CASE ScanFinds \/ ScanRaises
  BY <1>1 DEF ScanFinds, ScanRaises
<1>2. CASE Connects \/ ConnectFails
  BY <1>2 DEF Connects, ConnectFails, NewClientIsFresh
<1>3. CASE StartsNotify \/ StartNotifyFails \/ WatchSeesLoss \/ StopsNotify
  BY <1>3 DEF StartsNotify, StartNotifyFails, WatchSeesLoss, StopsNotify
<1>4. CASE Disconnects \/ ClearsClient
  BY <1>4 DEF Disconnects, ClearsClient
<1> QED
  BY <1>1, <1>2, <1>3, <1>4 DEF ble_run

(* The client of the next connection is one nobody refers to.               *)
LEMMA RunKeepsFresh == IInv /\ ble_run => NewClientIsFresh'
<1> SUFFICES ASSUME IInv, ble_run PROVE NewClientIsFresh'
  OBVIOUS
<1>1. UNCHANGED captured
  BY RunKeepsPresses DEF IInv, pressVars
<1>2. CASE ScanFinds
  BY <1>1, <1>2 DEF ScanFinds, Unused, NewClientIsFresh
<1>3. CASE ~ScanFinds
  <2>1. bleRun' # "connect"
    BY <1>3 DEF ble_run, Goes, ScanRaises, Connects, ConnectFails, StartsNotify, StartNotifyFails,
                WatchSeesLoss, StopsNotify, Disconnects, ClearsClient
  <2> QED
    BY <2>1 DEF NewClientIsFresh
<1> QED
  BY <1>2, <1>3

LEMMA RunKeepsOutlived == IInv /\ ble_run => OutlivedIsDown'
<1> SUFFICES ASSUME IInv, ble_run PROVE OutlivedIsDown'
  OBVIOUS
<1>1. UNCHANGED << post, captured >>
  BY RunKeepsPresses DEF IInv, pressVars
<1> USE DEF IInv, OutlivedIsDown
<1>2. CASE Connects                        \* no press refers to the new client
  BY <1>1, <1>2 DEF Connects, Goes, NewClientIsFresh
<1>3. CASE Disconnects                     \* those that refer to the old one outlive it
  BY <1>1, <1>3 DEF Disconnects, Ends
<1>4. CASE ~Connects /\ ~Disconnects
  <2>1. UNCHANGED << link, outlived >>
    BY <1>4 DEF ble_run, ScanFinds, ScanRaises, ConnectFails, StartsNotify, StartNotifyFails,
                WatchSeesLoss, StopsNotify, ClearsClient
  <2> QED
    BY <1>1, <2>1
<1> QED
  BY <1>2, <1>3, <1>4

--------------------------------------------------------------------------------
(* The threads and the writes leave ble_run alone, and a press that began   *)
(* keeps the client it read.                                                *)
LEMMA TakesClientKeeps ==
  ASSUME IInv, NEW p \in Presses, TakesClient(p)
  PROVE  IInv'
<1> USE DEF IInv, TakesClient, PostGoes, loopVars
<1>1. ble_client \in Clients \cup {None} /\ (bleRun = "connect" => ble_client = None)
  BY DEF LinkIsCurrent, PressTypes
<1>2. PressTypes'
  BY <1>1 DEF PressTypes, Waiting
<1>3. LinkIsCurrent'
  BY DEF LinkIsCurrent
<1>4. NewClientIsFresh'
  BY <1>1, ClientsAssumption DEF NewClientIsFresh, PressTypes
<1>5. p \notin outlived
  BY DEF OutlivedIsDown
<1>6. OutlivedIsDown'
  BY <1>5 DEF OutlivedIsDown, PressTypes
<1> QED
  BY <1>2, <1>3, <1>4, <1>6

OnlyProgress ==
  /\ UNCHANGED << loopVars, captured >>
  /\ PressTypes'
  /\ \A p \in Presses : post'[p] = "new" => post[p] = "new"

LEMMA ProgressKeeps == IInv /\ OnlyProgress => IInv'
<1> SUFFICES ASSUME IInv, OnlyProgress PROVE IInv'
  OBVIOUS
<1> USE DEF IInv, OnlyProgress, loopVars
<1>1. LinkIsCurrent' /\ NewClientIsFresh'
  BY DEF LinkIsCurrent, NewClientIsFresh
<1>2. OutlivedIsDown'
  BY DEF OutlivedIsDown
<1> QED
  BY <1>1, <1>2

LEMMA ThreadOnlyProgresses ==
  ASSUME PressTypes, NEW p \in Presses, ble_send(p), ~TakesClient(p)
  PROVE  OnlyProgress
<1> USE DEF PressTypes, OnlyProgress, PostGoes, loopVars, Waiting, Answered
<1>1. CASE Drops(p) \/ ChecksClient(p)
  BY <1>1 DEF Drops, ChecksClient
<1>2. CASE HandsToLoop(p)
  BY <1>2 DEF HandsToLoop
<1>3. CASE TimesOut(p)
  BY <1>3 DEF TimesOut
<1> QED
  BY <1>1, <1>2, <1>3 DEF ble_send

LEMMA WriteOnlyProgresses == PressTypes /\ _write => OnlyProgress
<1> SUFFICES ASSUME PressTypes, _write PROVE OnlyProgress
  OBVIOUS
<1> USE DEF PressTypes, OnlyProgress, loopVars, Waiting, Answered, Answer
<1>1. CASE StartsWrite
  BY <1>1 DEF StartsWrite
<1>2. CASE StartWriteFails
  BY <1>2 DEF StartWriteFails
<1>3. CASE WriteIsSent
  BY <1>3 DEF WriteIsSent
<1>4. CASE WriteFails
  BY <1>4 DEF WriteFails
<1> QED
  BY <1>1, <1>2, <1>3, <1>4 DEF _write

--------------------------------------------------------------------------------
LEMMA NextKeeps == IInv /\ [Next]_vars => IInv'
<1> SUFFICES ASSUME IInv, [Next]_vars PROVE IInv'
  OBVIOUS
<1>1. CASE LinkLost
  BY <1>1, LinkLostKeeps
<1>2. CASE ble_run
  BY <1>2, RunKeepsPresses, RunKeepsLink, RunKeepsFresh, RunKeepsOutlived DEF IInv
<1>3. CASE _write
  BY <1>3, WriteOnlyProgresses, ProgressKeeps DEF IInv
<1>4. ASSUME NEW p \in Presses, ble_send(p) PROVE IInv'
  <2>1. CASE TakesClient(p)
    BY <2>1, TakesClientKeeps
  <2>2. CASE ~TakesClient(p)
    BY <1>4, <2>2, ThreadOnlyProgresses, ProgressKeeps DEF IInv
  <2> QED
    BY <2>1, <2>2
<1>5. CASE UNCHANGED vars
  BY <1>5 DEF vars, loopVars, IInv, PressTypes, LinkIsCurrent, NewClientIsFresh, OutlivedIsDown
<1> QED
  BY <1>1, <1>2, <1>3, <1>4, <1>5 DEF Next

LEMMA AlwaysIInv == Spec => []IInv
BY InitHolds, NextKeeps, PTL DEF Spec

(* The client presses are given is the one ble_run runs, and none between   *)
(* two connections (app.py:131-148).                                        *)
THEOREM ClientIsCurrent == Spec => []SharedClientIsCurrent
<1>1. IInv => SharedClientIsCurrent
  BY DEF IInv, PressTypes, LinkIsCurrent, SharedClientIsCurrent
<1> QED
  BY <1>1, AlwaysIInv, PTL

(* What the board receives comes from a press whose client is up.           *)
LEMMA SentOverOwnLink ==
  ASSUME IInv, Next, NEW p \in Presses, received' = Append(received, p)
  PROVE  captured[p] = link
<1>1. received' # received
  BY DEF IInv, PressTypes
<1>2. CASE WriteIsSent
  <2>1. received \in Seq(Presses) /\ Head(written) \in Presses
    BY <1>2 DEF WriteIsSent, IInv, PressTypes
  <2>2. Append(received, Head(written)) = Append(received, p)
    BY <1>2 DEF WriteIsSent
  <2>3. Head(written) = p
    BY <2>1, <2>2
  <2> QED
    BY <1>2, <2>3 DEF WriteIsSent
<1>3. CASE ~WriteIsSent
  <2>1. ~LinkLost /\ ~ble_run
    BY <1>1, RunKeepsPresses DEF LinkLost, IInv, pressVars
  <2>2. ~_write
    BY <1>1, <1>3 DEF _write, StartsWrite, StartWriteFails, WriteFails
  <2>3. ASSUME NEW q \in Presses PROVE ~ble_send(q)
    BY <1>1 DEF ble_send, TakesClient, Drops, ChecksClient, HandsToLoop, TimesOut
  <2> QED
    BY <2>1, <2>2, <2>3 DEF Next
<1> QED
  BY <1>2, <1>3

(* A press whose connection ended after it read the client is never sent    *)
(* over one that was made later (app.py:55-65, 131-148).                    *)
THEOREM NoLateWrite == Spec => NoWriteOverLaterLink
<1>1. IInv /\ [Next]_vars
        => [\A p \in Presses : received' = Append(received, p) => p \notin outlived]_vars
  BY SentOverOwnLink DEF IInv, OutlivedIsDown
<1> QED
  BY <1>1, AlwaysIInv, PTL DEF Spec, NoWriteOverLaterLink
--------------------------------------------------------------------------------
(* The order of the writes.                                                 *)

(* The writes handed to the loop, those that reached the board first.       *)
Line == received \o (written \o ready)

Types ==
  /\ PressTypes
  /\ {link, ble_client, client} \subseteq Clients \cup {None}
  /\ outlived \subseteq Presses
  /\ answeredBefore \in [Presses -> SUBSET Presses]

(* A press is in the line once, since it was handed over, and behind those   *)
(* that were answered before it began.                                      *)
LineIsInOrder ==
  /\ \A j, k \in 1 .. Len(Line) : Line[j] = Line[k] => j = k
  /\ \A k \in 1 .. Len(Line) : post[Line[k]] \in {"waiting", "sent", "failed"}
  /\ \A j, k \in 1 .. Len(Line) : j < k => Line[k] \notin answeredBefore[Line[j]]
  /\ \A p \in Presses : \A q \in answeredBefore[p] : post[q] \in Answered

OrderInv == Types /\ LineIsInOrder
(* Moving the head of a sequence to the end of the one before it changes     *)
(* nothing of their concatenation.                                          *)
LEMMA MovingOn ==
  ASSUME NEW S, NEW g \in Seq(S), NEW q \in Seq(S), q # << >>
  PROVE  Append(g, Head(q)) \o Tail(q) = g \o q
<1>1. Head(q) \in S /\ Tail(q) \in Seq(S) /\ << Head(q) >> \in Seq(S)
  BY HeadTailProperties
<1>2. q = << Head(q) >> \o Tail(q)
  <2>1. Len(q) \in Nat \ {0} /\ Head(q) = q[1]
    BY EmptySeq
  <2>2. SubSeq(q, 1, Len(q)) = << q[1] >> \o SubSeq(q, 2, Len(q))
    BY <2>1, SubSeqRecursiveFirst
  <2> QED
    BY <2>1, <2>2, SubSeqFull, TailIsSubSeq
<1>3. Append(g, Head(q)) = g \o << Head(q) >>
  BY <1>1, AppendIsConcat
<1>4. (g \o << Head(q) >>) \o Tail(q) = g \o (<< Head(q) >> \o Tail(q))
  BY <1>1, ConcatAssociative
<1> QED
  BY <1>2, <1>3, <1>4

(* The head of a concatenation is that of its first part.                   *)
LEMMA TakingFirst ==
  ASSUME NEW S, NEW q \in Seq(S), NEW r \in Seq(S), q # << >>
  PROVE  q \o r # << >> /\ Head(q \o r) = Head(q) /\ Tail(q \o r) = Tail(q) \o r
<1>1. q \o r \in Seq(S) /\ Len(q \o r) = Len(q) + Len(r) /\ Len(q) > 0 /\ q \o r # << >>
      /\ \A k \in 1 .. Len(q) + Len(r) : (q \o r)[k] = IF k <= Len(q) THEN q[k] ELSE r[k - Len(q)]
  BY ConcatProperties, ConcatEqualIffEmpty, EmptySeq
<1>2. Head(q \o r) = Head(q)
  BY <1>1
<1>3. Tail(q) \in Seq(S) /\ Len(Tail(q)) = Len(q) - 1 /\ \A k \in 1 .. Len(Tail(q)) : Tail(q)[k] = q[k + 1]
  BY HeadTailProperties
<1>4. Tail(q) \o r \in Seq(S) /\ Len(Tail(q) \o r) = Len(Tail(q)) + Len(r)
      /\ \A k \in 1 .. Len(Tail(q)) + Len(r) :
           (Tail(q) \o r)[k] = IF k <= Len(Tail(q)) THEN Tail(q)[k] ELSE r[k - Len(Tail(q))]
  BY <1>3, ConcatProperties
<1>5. Tail(q \o r) \in Seq(S) /\ Len(Tail(q \o r)) = Len(q \o r) - 1
      /\ \A k \in 1 .. Len(q \o r) - 1 : Tail(q \o r)[k] = (q \o r)[k + 1]
  BY <1>1, HeadTailProperties
<1>6. \A k \in 1 .. Len(q \o r) - 1 : Tail(q \o r)[k] = (Tail(q) \o r)[k]
  BY <1>1, <1>3, <1>4, <1>5
<1> QED
  BY <1>1, <1>2, <1>3, <1>4, <1>5, <1>6, SeqEqual

(* An element is dropped and those behind it move up by one.                *)
OneDropped(new, old) ==
  \E n \in 1 .. Len(old) :
    /\ Len(new) = Len(old) - 1
    /\ \A i \in 1 .. Len(old) - 1 : new[i] = old[IF i < n THEN i ELSE i + 1]

LEMMA DroppingHead ==
  ASSUME NEW S, NEW g \in Seq(S), NEW q \in Seq(S), q # << >>
  PROVE  OneDropped(g \o Tail(q), g \o q)
<1> DEFINE all == g \o q
           tail == Tail(q)
           rest == g \o tail
<1>1. Len(g) \in Nat /\ Len(q) \in Nat \ {0}
  BY LenProperties, EmptySeq
<1>2. Len(all) = Len(g) + Len(q)
      /\ \A i \in 1 .. Len(g) + Len(q) : all[i] = IF i <= Len(g) THEN g[i] ELSE q[i - Len(g)]
  BY ConcatProperties
<1>3. /\ tail \in Seq(S) /\ Len(tail) = Len(q) - 1 /\ \A i \in 1 .. Len(tail) : tail[i] = q[i + 1]
  BY HeadTailProperties
<1>4. /\ Len(rest) = Len(g) + Len(tail)
      /\ \A i \in 1 .. Len(g) + Len(tail) : rest[i] = IF i <= Len(g) THEN g[i] ELSE tail[i - Len(g)]
  <2> HIDE DEF tail
  <2> QED BY <1>3, ConcatProperties
<1> HIDE DEF all, tail, rest
<1>5. Len(g) + 1 \in 1 .. Len(all) /\ Len(rest) = Len(all) - 1
  BY <1>1, <1>2, <1>3, <1>4
<1>6. \A i \in 1 .. Len(all) - 1 : rest[i] = all[IF i < Len(g) + 1 THEN i ELSE i + 1]
  <2> TAKE i \in 1 .. Len(all) - 1
  <2>1. CASE i < Len(g) + 1
    BY <1>1, <1>2, <1>3, <1>4, <2>1
  <2>2. CASE ~ (i < Len(g) + 1)
    <3>1. i \in Nat /\ Len(g) \in Nat /\ Len(q) \in Nat /\ i > Len(g) /\ i <= Len(g) + Len(q) - 1
          /\ Len(tail) = Len(q) - 1
      BY <1>1, <1>2, <1>3, <2>2
    <3>2. rest[i] = tail[i - Len(g)]
      BY <1>4, <3>1
    <3>3. tail[i - Len(g)] = q[i - Len(g) + 1]
      BY <1>3, <3>1
    <3>4. all[i + 1] = q[i + 1 - Len(g)]
      BY <1>2, <3>1
    <3>5. i - Len(g) + 1 = i + 1 - Len(g)
      BY <3>1
    <3> QED BY <2>2, <3>2, <3>3, <3>4, <3>5
  <2> QED BY <2>1, <2>2
<1> QED
  BY <1>5, <1>6 DEF all, rest, tail, OneDropped
--------------------------------------------------------------------------------
LEMMA OrderInit == Init => OrderInv
<1> SUFFICES ASSUME Init PROVE OrderInv
  OBVIOUS
<1>1. PressTypes
  BY InitHolds DEF IInv
<1>2. Types
  BY <1>1 DEF Init, Types
<1>3. Line = << >> /\ Len(Line) = 0
  BY EmptySeq, ConcatEmptySeq DEF Init, Line
<1> QED
  BY <1>2, <1>3 DEF Init, OrderInv, LineIsInOrder

LEMMA TypesStep == IInv /\ Types /\ [Next]_vars => Types'
<1> SUFFICES ASSUME IInv, Types, [Next]_vars PROVE Types'
  OBVIOUS
<1>0. PressTypes'
  BY NextKeeps DEF IInv
<1> USE DEF Types
<1>1. CASE LinkLost
  BY <1>0, <1>1 DEF LinkLost, Ends
<1>2. CASE ble_run
  <2>1. UNCHANGED answeredBefore
    BY <1>2, RunKeepsPresses DEF pressVars
  <2>2. {link', ble_client', client'} \subseteq Clients \cup {None} /\ outlived' \subseteq Presses
    BY <1>2 DEF ble_run, ScanFinds, ScanRaises, Connects, ConnectFails, StartsNotify, StartNotifyFails,
      WatchSeesLoss, StopsNotify, Disconnects, ClearsClient, Ends, Unused
  <2> QED
    BY <1>0, <2>1, <2>2
<1>3. CASE _write
  BY <1>0, <1>3 DEF _write, StartsWrite, StartWriteFails, WriteIsSent, WriteFails, loopVars
<1>4. ASSUME NEW p \in Presses, ble_send(p) PROVE Types'
  BY <1>0, <1>4 DEF ble_send, TakesClient, Drops, ChecksClient, HandsToLoop, TimesOut, loopVars
<1>5. CASE UNCHANGED vars
  BY <1>0, <1>5 DEF vars, loopVars
<1> QED
  BY <1>1, <1>2, <1>3, <1>4, <1>5 DEF Next

(* What a step does to the line: nothing, while presses only go on; a press  *)
(* begins; it is handed to the loop; or one is dropped from the line.       *)
PressGoesOn(p) ==
  \/ post'[p] = post[p]
  \/ post[p] # "new" /\ post[p] \notin Answered /\ post'[p] \notin Waiting \cup {"new"}
       /\ (post[p] = "waiting" => post'[p] \in {"sent", "failed"})
  \/ post[p] = "taken" /\ post'[p] = "checked"

NothingHandedOver ==
  /\ UNCHANGED answeredBefore
  /\ \A p \in Presses : PressGoesOn(p)
  /\ Line' = Line \/ OneDropped(Line', Line)

LEMMA LineType ==
  ASSUME PressTypes
  PROVE  Line \in Seq(Presses) /\ Len(Line) \in Nat /\ Len(Line) = Len(received) + (Len(written) + Len(ready))
<1>1. written \o ready \in Seq(Presses) /\ Len(written \o ready) = Len(written) + Len(ready)
  BY ConcatProperties DEF PressTypes
<1> QED
  BY <1>1, ConcatProperties, LenProperties DEF PressTypes, Line

(* What goes on keeps the order, and so does what leaves the line.          *)
LEMMA GoingOnKeepsOrder ==
  ASSUME Types, LineIsInOrder, NothingHandedOver
  PROVE  LineIsInOrder'
<1>1. /\ Line \in Seq(Presses) /\ Len(Line) \in Nat /\ \A k \in 1 .. Len(Line) : Line[k] \in Presses
  BY LineType, ElementOfSeq DEF Types
<1>2. \A p \in Presses : post[p] \in {"waiting", "sent", "failed"} => post'[p] \in {"waiting", "sent", "failed"}
  BY DEF NothingHandedOver, PressGoesOn, Answered, Waiting
<1>3. \A p \in Presses : post[p] \in Answered => post'[p] \in Answered
  BY DEF NothingHandedOver, PressGoesOn, Answered, Waiting
<1>4. \A p \in Presses : \A q \in answeredBefore'[p] : post'[q] \in Answered
  BY <1>3 DEF Types, LineIsInOrder, NothingHandedOver
<1>5. CASE Line' = Line
  BY <1>1, <1>2, <1>4, <1>5 DEF LineIsInOrder, NothingHandedOver
<1>6. ASSUME NEW n \in 1 .. Len(Line), Len(Line') = Len(Line) - 1,
             \A i \in 1 .. Len(Line) - 1 : Line'[i] = Line[IF i < n THEN i ELSE i + 1]
      PROVE  LineIsInOrder'
  <2> DEFINE from(i) == IF i < n THEN i ELSE i + 1
  <2>1. \A i \in 1 .. Len(Line') : from(i) \in 1 .. Len(Line) /\ Line'[i] = Line[from(i)]
    BY <1>1, <1>6
  <2>2. \A i, j \in 1 .. Len(Line') : (i < j => from(i) < from(j)) /\ (from(i) = from(j) => i = j)
    BY <1>1, <1>6
  <2> HIDE DEF from
  <2>3. \A j, k \in 1 .. Len(Line') : Line'[j] = Line'[k] => j = k
    <3>1. \A j, k \in 1 .. Len(Line) : Line[j] = Line[k] => j = k
      BY DEF LineIsInOrder
    <3> QED BY <2>1, <2>2, <3>1, Zenon
  <2>4. \A k \in 1 .. Len(Line') : post'[Line'[k]] \in {"waiting", "sent", "failed"}
    BY <1>1, <1>2, <2>1 DEF LineIsInOrder
  <2>5. \A j, k \in 1 .. Len(Line') : j < k => Line'[k] \notin answeredBefore[Line'[j]]
    BY <2>1, <2>2 DEF LineIsInOrder
  <2> QED
    BY <1>4, <2>3, <2>4, <2>5 DEF LineIsInOrder, NothingHandedOver
<1> QED
  BY <1>5, <1>6 DEF NothingHandedOver, OneDropped

LEMMA WriteGoesOn == Types /\ _write => NothingHandedOver
<1> SUFFICES ASSUME Types, _write PROVE NothingHandedOver
  OBVIOUS
<1>1. /\ ready \in Seq(Presses) /\ written \in Seq(Presses) /\ received \in Seq(Presses)
      /\ post \in [Presses -> {"new"} \cup Waiting \cup Answered]
      /\ written \o ready \in Seq(Presses)
  BY ConcatProperties DEF Types, PressTypes
<1>2. UNCHANGED answeredBefore
  BY DEF _write, StartsWrite, StartWriteFails, WriteIsSent, WriteFails
<1>3. ASSUME NEW p \in Presses PROVE PressGoesOn(p)
  BY <1>1 DEF _write, StartsWrite, StartWriteFails, WriteIsSent, WriteFails, Answer, PressGoesOn, Waiting, Answered
<1>4. CASE StartsWrite
  <2>1. Line' = received \o (Append(written, Head(ready)) \o Tail(ready)) /\ ready # << >>
    BY <1>4 DEF StartsWrite, Line
  <2> QED
    BY <1>1, <1>2, <1>3, <2>1, MovingOn DEF NothingHandedOver, Line
<1>5. CASE StartWriteFails
  <2>1. Line' = received \o (written \o Tail(ready)) /\ ready # << >> /\ Tail(ready) \in Seq(Presses)
    BY <1>1, <1>5, HeadTailProperties DEF StartWriteFails, Line
  <2>2. Line' = (received \o written) \o Tail(ready) /\ Line = (received \o written) \o ready
    <3>1. \A a, b, c \in Seq(Presses) : (a \o b) \o c = a \o (b \o c)
      BY ConcatAssociative
    <3> QED BY <1>1, <2>1, <3>1, Zenon DEF Line
  <2>3. received \o written \in Seq(Presses)
    BY <1>1, ConcatProperties
  <2>4. OneDropped(Line', Line)
    BY <1>1, <2>1, <2>2, <2>3, DroppingHead
  <2> QED
    BY <1>2, <1>3, <2>4 DEF NothingHandedOver
<1>6. CASE WriteIsSent
  <2> DEFINE all == written \o ready
  <2>1. Line' = Append(received, Head(written)) \o (Tail(written) \o ready) /\ written # << >>
    BY <1>6 DEF WriteIsSent, Line
  <2>2. all # << >> /\ Head(all) = Head(written) /\ Tail(all) = Tail(written) \o ready
    BY <1>1, <2>1, TakingFirst
  <2> HIDE DEF all
  <2>3. Line' = Append(received, Head(all)) \o Tail(all)
    BY <2>1, <2>2
  <2>4. Line' = received \o all
    BY <1>1, <2>2, <2>3, MovingOn DEF all
  <2> QED
    BY <1>2, <1>3, <2>4 DEF NothingHandedOver, Line, all
<1>7. CASE WriteFails
  <2> DEFINE all == written \o ready
  <2>1. Line' = received \o (Tail(written) \o ready) /\ written # << >>
    BY <1>7 DEF WriteFails, Line
  <2>2. all # << >> /\ Tail(all) = Tail(written) \o ready
    BY <1>1, <2>1, TakingFirst
  <2>3. all \in Seq(Presses) /\ Line = received \o all
    BY <1>1 DEF Line
  <2> HIDE DEF all
  <2>4. Line' = received \o Tail(all)
    BY <2>1, <2>2
  <2>5. OneDropped(Line', Line)
    BY <1>1, <2>2, <2>3, <2>4, DroppingHead
  <2> QED
    BY <1>2, <1>3, <2>5 DEF NothingHandedOver
<1> QED
  BY <1>4, <1>5, <1>6, <1>7 DEF _write
LEMMA LineStep == IInv /\ OrderInv /\ [Next]_vars => LineIsInOrder'
<1> SUFFICES ASSUME IInv, OrderInv, [Next]_vars PROVE LineIsInOrder'
  OBVIOUS
<1>0. Types /\ Types' /\ LineIsInOrder
  BY TypesStep DEF OrderInv
<1>1. /\ Line \in Seq(Presses) /\ Len(Line) \in Nat /\ \A k \in 1 .. Len(Line) : Line[k] \in Presses
  BY <1>0, LineType, ElementOfSeq DEF Types
<1>2. CASE LinkLost \/ ble_run \/ UNCHANGED vars
  <2>1. UNCHANGED << post, answeredBefore, received, written, ready >>
    BY <1>0, <1>2, RunKeepsPresses DEF Types, LinkLost, pressVars, vars
  <2>2. NothingHandedOver
    BY <2>1 DEF NothingHandedOver, PressGoesOn, Line
  <2> QED
    BY <1>0, <2>2, GoingOnKeepsOrder
<1>3. CASE _write
  BY <1>0, <1>3, WriteGoesOn, GoingOnKeepsOrder
<1>4. ASSUME NEW p \in Presses, Drops(p) \/ ChecksClient(p) \/ TimesOut(p)
      PROVE  LineIsInOrder'
  <2>1. Line' = Line /\ answeredBefore' = answeredBefore
    BY <1>4 DEF Drops, ChecksClient, TimesOut, Line
  <2>2. \A q \in Presses : PressGoesOn(q)
    BY <1>0, <1>4 DEF Drops, ChecksClient, TimesOut, PostGoes, PressGoesOn, Types, PressTypes, Waiting, Answered
  <2> QED
    BY <1>0, <2>1, <2>2, GoingOnKeepsOrder DEF NothingHandedOver
(* A press that begins is not in the line yet, and remembers who was        *)
(* answered.                                                                *)
<1>5. ASSUME NEW p \in Presses, TakesClient(p)
      PROVE  LineIsInOrder'
  <2>1. Line' = Line /\ post[p] = "new" /\ post'[p] = "taken"
        /\ \A q \in Presses : q # p => post'[q] = post[q] /\ answeredBefore'[q] = answeredBefore[q]
    BY <1>0, <1>5 DEF TakesClient, PostGoes, Types, PressTypes, Line
  <2>2. \A q \in answeredBefore'[p] : q \in Presses /\ post[q] \in Answered
    BY <1>0, <1>5 DEF TakesClient, Types
  <2>3. \A k \in 1 .. Len(Line) : Line[k] # p
    BY <1>0, <2>1 DEF LineIsInOrder
  <2>4. \A q \in Presses : post[q] \in Answered => post'[q] \in Answered
    BY <2>1 DEF Answered
  <2>5. ASSUME NEW q \in Presses, NEW r \in answeredBefore'[q] PROVE post'[r] \in Answered
    <3>1. r \in Presses
      BY <1>0 DEF Types
    <3>2. post[r] \in Answered
      BY <1>0, <2>1, <2>2 DEF LineIsInOrder
    <3> QED BY <2>4, <3>1, <3>2
  <2>6. \A k \in 1 .. Len(Line) : post'[Line[k]] = post[Line[k]] /\ answeredBefore'[Line[k]] = answeredBefore[Line[k]]
    BY <1>1, <2>1, <2>3
  <2> QED
    BY <1>0, <2>1, <2>5, <2>6 DEF LineIsInOrder
(* A press that is handed over goes behind all others and was not answered, *)
(* so none of them began after it was.                                      *)
<1>6. ASSUME NEW p \in Presses, HandsToLoop(p)
      PROVE  LineIsInOrder'
  <2>1. /\ post[p] = "checked" /\ post'[p] = "waiting" /\ \A q \in Presses : q # p => post'[q] = post[q]
        /\ ready' = Append(ready, p) /\ UNCHANGED << written, received, answeredBefore >>
    BY <1>0, <1>6 DEF HandsToLoop, PostGoes, Types, PressTypes
  <2>2. Line' = Append(Line, p)
    <3>1. /\ << p >> \in Seq(Presses) /\ ready \in Seq(Presses) /\ written \in Seq(Presses)
          /\ received \in Seq(Presses) /\ written \o ready \in Seq(Presses)
      BY <1>0, ConcatProperties DEF Types, PressTypes
    <3>2. Append(ready, p) = ready \o << p >> /\ Append(Line, p) = Line \o << p >>
      BY <1>1, <3>1, AppendIsConcat
    <3>3. \A a, b, c \in Seq(Presses) : (a \o b) \o c = a \o (b \o c)
      BY ConcatAssociative
    <3>4. written \o (ready \o << p >>) = (written \o ready) \o << p >>
      BY <3>1, <3>3, Zenon
    <3>5. received \o ((written \o ready) \o << p >>) = (received \o (written \o ready)) \o << p >>
      BY <3>1, <3>3, Zenon
    <3> QED BY <2>1, <3>2, <3>4, <3>5 DEF Line
  <2>3. /\ Len(Line') = Len(Line) + 1 /\ Line'[Len(Line) + 1] = p
        /\ \A k \in 1 .. Len(Line) : Line'[k] = Line[k]
    BY <1>1, <2>2, AppendProperties
  <2>4. \A k \in 1 .. Len(Line) : Line[k] # p
    BY <1>0, <2>1 DEF LineIsInOrder
  <2>5. \A q \in Presses : p \notin answeredBefore[q]
    BY <1>0, <2>1 DEF LineIsInOrder, Answered
  <2>6. \A j, k \in 1 .. Len(Line') : Line'[j] = Line'[k] => j = k
    BY <1>0, <1>1, <2>3, <2>4 DEF LineIsInOrder
  <2>7. \A k \in 1 .. Len(Line') : post'[Line'[k]] \in {"waiting", "sent", "failed"}
    BY <1>0, <1>1, <2>1, <2>3, <2>4 DEF LineIsInOrder
  <2>8. \A j, k \in 1 .. Len(Line') : j < k => Line'[k] \notin answeredBefore'[Line'[j]]
    <3> SUFFICES ASSUME NEW j \in 1 .. Len(Line'), NEW k \in 1 .. Len(Line'), j < k
                 PROVE  Line'[k] \notin answeredBefore[Line'[j]]
      BY <2>1
    <3>1. j \in 1 .. Len(Line) /\ Line'[j] = Line[j] /\ Line[j] \in Presses
      BY <1>1, <2>3
    <3>2. CASE k = Len(Line) + 1
      BY <2>3, <2>5, <3>1, <3>2
    <3>3. CASE k \in 1 .. Len(Line)
      BY <1>0, <2>3, <3>1, <3>3 DEF LineIsInOrder
    <3> QED BY <1>1, <2>3, <3>2, <3>3
  <2>9. \A q \in Presses : \A r \in answeredBefore'[q] : post'[r] \in Answered
    <3> SUFFICES ASSUME NEW q \in Presses, NEW r \in answeredBefore[q] PROVE post'[r] \in Answered
      BY <2>1
    <3>1. r \in Presses /\ post[r] \in Answered
      BY <1>0 DEF Types, LineIsInOrder
    <3> QED BY <2>1, <2>5, <3>1
  <2> QED
    BY <2>6, <2>7, <2>8, <2>9 DEF LineIsInOrder
<1> QED
  BY <1>2, <1>3, <1>4, <1>5, <1>6 DEF Next, ble_send

LEMMA AlwaysOrderInv == Spec => []OrderInv
<1>1. IInv /\ OrderInv /\ [Next]_vars => OrderInv'
  BY TypesStep, LineStep DEF OrderInv
<1> QED
  BY <1>1, OrderInit, AlwaysIInv, PTL DEF Spec

(* A line without repetitions is not longer than there are presses.         *)
LEMMA LineIsBounded ==
  ASSUME OrderInv
  PROVE  Len(ready) + Len(written) + Len(received) <= Cardinality(Presses)
<1>1. /\ Line \in Seq(Presses) /\ Len(Line) \in Nat /\ Len(Line) = Len(received) + (Len(written) + Len(ready))
  BY LineType DEF OrderInv, Types
<1>2. Line \in [1 .. Len(Line) -> Presses]
  BY <1>1, LenProperties
<1>3. Line \in Injection(1 .. Len(Line), Presses)
  BY <1>2, Fun_IsInj DEF OrderInv, LineIsInOrder
<1>4. Cardinality(1 .. Len(Line)) <= Cardinality(Presses)
  BY <1>3, PressesAssumption, FS_Injection
<1>5. Cardinality(1 .. Len(Line)) = Len(Line)
  BY <1>1, FS_Interval
<1>6. Len(ready) \in Nat /\ Len(written) \in Nat /\ Len(received) \in Nat
  BY LenProperties DEF OrderInv, Types, PressTypes
<1> QED
  BY <1>1, <1>4, <1>5, <1>6

(* Every press is handed to the loop once and reaches the board once at      *)
(* most, behind those that were answered before it began (app.py:53-68).    *)
THEOREM PressesKeepOrder == Spec => []AnsweredPressesKeepOrder
<1>1. OrderInv => AnsweredPressesKeepOrder
  <2> SUFFICES ASSUME OrderInv PROVE AnsweredPressesKeepOrder
    OBVIOUS
  <2>1. TypeOK
    BY LineIsBounded DEF OrderInv, Types, PressTypes, TypeOK
  <2>2. /\ Len(received) \in Nat /\ Len(written \o ready) \in Nat
        /\ \A k \in 1 .. Len(received) : k \in 1 .. Len(Line) /\ Line[k] = received[k]
    <3>1. written \o ready \in Seq(Presses) /\ received \in Seq(Presses)
      BY ConcatProperties DEF OrderInv, Types, PressTypes
    <3>2. Len(received) \in Nat /\ Len(written \o ready) \in Nat
      BY <3>1, LenProperties
    <3> DEFINE rest == written \o ready
    <3>3. Len(received \o rest) = Len(received) + Len(rest)
          /\ \A k \in 1 .. Len(received) + Len(rest) :
               (received \o rest)[k] = IF k <= Len(received) THEN received[k] ELSE rest[k - Len(received)]
      <4> HIDE DEF rest
      <4> QED BY <3>1, ConcatProperties DEF rest
    <3>4. Line = received \o rest /\ Len(rest) \in Nat
      BY <3>2 DEF Line
    <3> HIDE DEF rest
    <3> QED BY <3>2, <3>3, <3>4
  <2>3. DOMAIN received = 1 .. Len(received)
    BY LenProperties DEF OrderInv, Types, PressTypes
  <2> QED
    BY <2>1, <2>2, <2>3 DEF OrderInv, LineIsInOrder, AnsweredPressesKeepOrder
<1> QED
  BY <1>1, AlwaysOrderInv, PTL

--------------------------------------------------------------------------------
(* The event streams.                                                       *)
Subscribed == {"registered", "open", "abandoned"}
All(s) == got[s] \o queue[s]

StreamTypes ==
  /\ subscribers_lock \in Producers \cup {Free}
  /\ subscribers \in Seq(Streams)
  /\ status \in [Streams -> Listed \cup {"new", "gone"}]
  /\ connection \in [Streams -> {"up", "closed", "reset"}]
  /\ queue \in [Streams -> Seq(1 .. MaxMessages)] /\ got \in [Streams -> Seq(1 .. MaxMessages)]
  /\ pending \in [Producers -> 0 .. 2] /\ number \in [Producers -> 0 .. MaxMessages]
  /\ at \in [Producers -> Nat \ {0}]
  /\ zmqAlive \in BOOLEAN /\ count \in 0 .. MaxMessages /\ since \in [Streams -> 0 .. MaxMessages]

(* The list has each stream that registered and has not left, once.         *)
ListIsExact ==
  /\ \A j, k \in 1 .. Len(subscribers) : subscribers[j] = subscribers[k] => j = k
  /\ \A k \in 1 .. Len(subscribers) : status[subscribers[k]] \in Listed
  /\ \A s \in Streams : status[s] \in Listed => \E k \in 1 .. Len(subscribers) : subscribers[k] = s

(* Who broadcasts holds the lock, and what it puts is the latest message.   *)
LockIsHeld ==
  /\ \A p \in Producers :
       /\ number[p] # 0 <=> subscribers_lock = p
       /\ number[p] # 0 => number[p] = count /\ pending[p] > 0
       /\ number[p] = 0 => at[p] = 1
  /\ Announced <= MaxMessages + IF subscribers_lock = Free THEN 0 ELSE 1

(* A broadcast is under way that has yet to reach s.                        *)
Awaits(s) ==
  \E p \in Producers : number[p] # 0 /\ \E k \in at[p] .. Len(subscribers) : subscribers[k] = s

Complete(s) ==
  /\ \A k \in 1 .. Len(All(s)) : All(s)[k] = since[s] + k
  /\ since[s] + Len(All(s)) = IF Awaits(s) THEN count - 1 ELSE count

DeliveredTo(s) ==
  /\ status[s] = "new" => got[s] = << >> /\ queue[s] = << >>
  /\ status[s] \in Subscribed => Complete(s)

Delivered == \A s \in Streams : DeliveredTo(s)

StreamIInv == StreamTypes /\ ListIsExact /\ LockIsHeld /\ Delivered

--------------------------------------------------------------------------------
(* What the actions do to the sequences.                                    *)

(* Yielding moves a message from what is queued to what was yielded.        *)
LEMMA Yielding ==
  ASSUME NEW S, NEW g \in Seq(S), NEW q \in Seq(S), q # << >>
  PROVE  Append(g, Head(q)) \o Tail(q) = g \o q
<1>1. Head(q) \in S /\ Tail(q) \in Seq(S) /\ << Head(q) >> \in Seq(S)
  BY HeadTailProperties
<1>2. q = << Head(q) >> \o Tail(q)
  <2>1. Len(q) \in Nat \ {0} /\ Head(q) = q[1]
    BY EmptySeq
  <2>2. SubSeq(q, 1, Len(q)) = << q[1] >> \o SubSeq(q, 2, Len(q))
    BY <2>1, SubSeqRecursiveFirst
  <2> QED
    BY <2>1, <2>2, SubSeqFull, TailIsSubSeq
<1>3. Append(g, Head(q)) = g \o << Head(q) >>
  BY <1>1, AppendIsConcat
<1>4. (g \o << Head(q) >>) \o Tail(q) = g \o (<< Head(q) >> \o Tail(q))
  BY <1>1, ConcatAssociative
<1> QED
  BY <1>2, <1>3, <1>4

(* Queueing appends to all that a stream gets.                              *)
LEMMA Queueing ==
  ASSUME NEW S, NEW g \in Seq(S), NEW q \in Seq(S), NEW e \in S
  PROVE  g \o Append(q, e) = Append(g \o q, e)
<1>1. << e >> \in Seq(S) /\ g \o q \in Seq(S)
  BY ConcatProperties
<1>2. Append(q, e) = q \o << e >> /\ Append(g \o q, e) = (g \o q) \o << e >>
  BY <1>1, AppendIsConcat
<1> QED
  BY <1>1, <1>2, ConcatAssociative

(* Removing an element moves those behind it up by one.                     *)
LEMMA Removing ==
  ASSUME NEW S, NEW seq \in Seq(S), NEW k \in 1 .. Len(seq)
  PROVE  /\ RemoveAt(seq, k) \in Seq(S)
         /\ Len(RemoveAt(seq, k)) = Len(seq) - 1
         /\ \A i \in 1 .. Len(seq) - 1 :
              RemoveAt(seq, k)[i] = IF i < k THEN seq[i] ELSE seq[i + 1]
<1> DEFINE before == SubSeq(seq, 1, k - 1)
           after  == SubSeq(seq, k + 1, Len(seq))
<1>1. Len(seq) \in Nat /\ k \in Nat /\ \A i \in 1 .. Len(seq) : seq[i] \in S
  BY LenProperties, ElementOfSeq, SMT
<1>2. before \in Seq(S) /\ Len(before) = k - 1 /\ \A i \in 1 .. k - 1 : before[i] = seq[i]
  <2>1. \A i \in 1 .. k - 1 : seq[i] \in S
    BY <1>1, SMT
  <2>2. 1 \in Int /\ k - 1 \in Int
    BY <1>1
  <2>3. /\ before \in Seq(S)
        /\ Len(before) = IF 1 <= k - 1 THEN (k - 1) - 1 + 1 ELSE 0
        /\ \A i \in 1 .. (k - 1) - 1 + 1 : before[i] = seq[1 + i - 1]
    BY <2>1, <2>2, SubSeqProperties
  <2> HIDE DEF before
  <2> QED BY <2>3, <1>1, SMT
<1>3. /\ after \in Seq(S) /\ Len(after) = Len(seq) - k
      /\ \A i \in 1 .. Len(seq) - k : after[i] = seq[k + i]
  <2>1. \A i \in k + 1 .. Len(seq) : seq[i] \in S
    BY <1>1, SMT
  <2>2. k + 1 \in Int /\ Len(seq) \in Int
    BY <1>1
  <2>3. /\ after \in Seq(S)
        /\ Len(after) = IF k + 1 <= Len(seq) THEN Len(seq) - (k + 1) + 1 ELSE 0
        /\ \A i \in 1 .. Len(seq) - (k + 1) + 1 : after[i] = seq[(k + 1) + i - 1]
    BY <2>1, <2>2, SubSeqProperties
  <2> HIDE DEF after
  <2> QED BY <2>3, <1>1, SMT
<1> HIDE DEF before, after
<1>4. /\ before \o after \in Seq(S)
      /\ Len(before \o after) = Len(before) + Len(after)
      /\ \A i \in 1 .. Len(before) + Len(after) :
           (before \o after)[i] = IF i <= Len(before) THEN before[i] ELSE after[i - Len(before)]
  BY <1>2, <1>3, ConcatProperties
<1>5. RemoveAt(seq, k) = before \o after
  BY DEF RemoveAt, before, after
<1>6. ASSUME NEW i \in 1 .. Len(seq) - 1
      PROVE  (before \o after)[i] = IF i < k THEN seq[i] ELSE seq[i + 1]
  <2>1. i \in 1 .. Len(before) + Len(after)
    BY <1>1, <1>2, <1>3, SMT
  <2>2. (before \o after)[i] = IF i <= Len(before) THEN before[i] ELSE after[i - Len(before)]
    BY <1>4, <2>1
  <2>3. CASE i < k
    <3>1. i \in 1 .. k - 1 /\ i <= Len(before)
      BY <1>1, <1>2, <2>3, SMT
    <3> QED
      BY <1>2, <2>2, <2>3, <3>1
  <2>4. CASE ~ (i < k)
    <3>1. i - (k - 1) \in 1 .. Len(seq) - k /\ ~ (i <= Len(before)) /\ k + (i - (k - 1)) = i + 1
      BY <1>1, <1>2, <2>4, SMT
    <3> QED
      BY <1>2, <1>3, <2>2, <2>4, <3>1
  <2> QED
    BY <2>3, <2>4
<1>7. Len(before \o after) = Len(seq) - 1
  BY <1>1, <1>2, <1>3, <1>4, SMT
<1> QED
  BY <1>4, <1>5, <1>6, <1>7
--------------------------------------------------------------------------------
(* The types.                                                               *)

LEMMA TypesInit == StreamInit => StreamTypes
<1>1. \A S : << >> \in Seq(S)
  BY EmptySeq
<1> QED
  BY <1>1, MaxMessagesAssumption DEF StreamInit, StreamTypes, Producers, Free, Listed

LEMMA StreamTypesStep == StreamIInv /\ [StreamNext]_broadcastVars => StreamTypes'
<1> SUFFICES ASSUME StreamIInv, [StreamNext]_broadcastVars PROVE StreamTypes'
  OBVIOUS
<1> USE MaxMessagesAssumption
<1>0. StreamTypes /\ LockIsHeld
  BY DEF StreamIInv
<1> USE <1>0 DEF StreamTypes
<1>1. CASE on_nus_notification
  BY <1>1 DEF on_nus_notification, streamVars, Producers
<1>2. CASE ZmqFrame
  BY <1>2 DEF ZmqFrame, streamVars, Producers
<1>3. CASE ZmqMalformed
  BY <1>3 DEF ZmqMalformed, streamVars, producerVars
<1>4. ASSUME NEW p \in Producers, BroadcastBegins(p)
      PROVE  StreamTypes'
  <2>1. count + 1 <= MaxMessages
    BY <1>4 DEF BroadcastBegins, LockIsHeld, Announced, Producers
  <2> QED
    BY <1>4, <2>1 DEF BroadcastBegins, streamVars
<1>5. ASSUME NEW p \in Producers, BroadcastPuts(p)
      PROVE  StreamTypes'
  <2>1. at[p] \in 1 .. Len(subscribers) /\ number[p] \in 1 .. MaxMessages
    BY <1>5, LenProperties DEF BroadcastPuts
  <2> DEFINE t == subscribers[at[p]]
  <2>2. t \in Streams
    BY <2>1, ElementOfSeq
  <2>3. Append(queue[t], number[p]) \in Seq(1 .. MaxMessages)
    BY <2>1, <2>2, AppendProperties
  <2>4. queue' = [queue EXCEPT ![t] = Append(queue[t], number[p])]
    BY <1>5 DEF BroadcastPuts
  <2>5. queue' \in [Streams -> Seq(1 .. MaxMessages)]
    <3> HIDE DEF t
    <3> QED BY <2>2, <2>3, <2>4
  <2>6. at' \in [Producers -> Nat \ {0}]
    BY <1>5 DEF BroadcastPuts
  <2>7. UNCHANGED << subscribers_lock, subscribers, streamVars, pending, number, count, zmqAlive >>
    BY <1>5 DEF BroadcastPuts
  <2> QED
    BY <2>5, <2>6, <2>7 DEF streamVars
<1>6. ASSUME NEW p \in Producers, BroadcastEnds(p)
      PROVE  StreamTypes'
  <2>1. pending[p] \in 1 .. 2
    BY <1>6 DEF BroadcastEnds, LockIsHeld
  <2> QED
    BY <1>6, <2>1 DEF BroadcastEnds, streamVars
<1>7. ASSUME NEW s \in Streams, index_stream(s)
      PROVE  StreamTypes'
  <2>1. Append(subscribers, s) \in Seq(Streams)
    BY AppendProperties
  <2> QED
    BY <1>7, <2>1 DEF index_stream, Becomes, Listed, producerVars
<1>8. ASSUME NEW s \in Streams, StreamAbandoned(s)
      PROVE  StreamTypes'
  BY <1>8 DEF StreamAbandoned, Becomes, Listed, producerVars
<1>9. ASSUME NEW s \in Streams, StreamStarts(s)
      PROVE  StreamTypes'
  BY <1>9 DEF StreamStarts, Becomes, Listed, producerVars
<1>10. ASSUME NEW s \in Streams, StreamYields(s)
       PROVE  StreamTypes'
  <2>1. Head(queue[s]) \in 1 .. MaxMessages /\ Tail(queue[s]) \in Seq(1 .. MaxMessages)
    BY <1>10, HeadTailProperties DEF StreamYields
  <2>2. Append(got[s], Head(queue[s])) \in Seq(1 .. MaxMessages)
    BY <2>1, AppendProperties
  <2> QED
    BY <1>10, <2>1, <2>2 DEF StreamYields, producerVars
<1>11. ASSUME NEW s \in Streams, StreamFails(s)
       PROVE  StreamTypes'
  <2>1. Tail(queue[s]) \in Seq(1 .. MaxMessages)
    BY <1>11, HeadTailProperties DEF StreamFails
  <2> QED
    BY <1>11, <2>1 DEF StreamFails, Becomes, Listed, producerVars
<1>12. ASSUME NEW s \in Streams, StreamLeaves(s)
       PROVE  StreamTypes'
  <2>1. PICK k \in DOMAIN subscribers : subscribers' = RemoveAt(subscribers, k)
    BY <1>12 DEF StreamLeaves
  <2>2. subscribers' \in Seq(Streams)
    BY <2>1, LenProperties, Removing
  <2> QED
    BY <1>12, <2>2 DEF StreamLeaves, Leaves, Becomes, Listed, producerVars
<1>13. ASSUME NEW s \in Streams, BrowserCloses(s)
       PROVE  StreamTypes'
  BY <1>13 DEF BrowserCloses, producerVars
<1>14. CASE UNCHANGED broadcastVars
  BY <1>14 DEF broadcastVars, streamVars, producerVars
<1> QED
  BY <1>1, <1>2, <1>3, <1>4, <1>5, <1>6, <1>7, <1>8, <1>9, <1>10, <1>11, <1>12, <1>13, <1>14
  DEF StreamNext, broadcast, event_stream

--------------------------------------------------------------------------------
(* The list.                                                                *)

LEMMA ListInit == StreamInit => ListIsExact
  BY EmptySeq DEF StreamInit, ListIsExact, Listed

LEMMA ListStep == StreamIInv /\ [StreamNext]_broadcastVars => ListIsExact'
<1> SUFFICES ASSUME StreamIInv, [StreamNext]_broadcastVars PROVE ListIsExact'
  OBVIOUS
<1>0. StreamTypes /\ ListIsExact
  BY DEF StreamIInv
<1>1. \A k \in 1 .. Len(subscribers) : subscribers[k] \in Streams
  BY <1>0, ElementOfSeq DEF StreamTypes
(* A step that leaves the list alone keeps it exact when no stream starts   *)
(* or stops being listed.                                                   *)
<1>2. ASSUME UNCHANGED subscribers,
             \A s \in Streams : status[s] \in Listed <=> status'[s] \in Listed
      PROVE  ListIsExact'
  BY <1>0, <1>1, <1>2 DEF ListIsExact
<1>3. CASE on_nus_notification \/ ZmqFrame \/ ZmqMalformed \/ (\E p \in Producers : broadcast(p))
           \/ UNCHANGED broadcastVars
  BY <1>2, <1>3 DEF on_nus_notification, ZmqFrame, ZmqMalformed, broadcast, BroadcastBegins,
    BroadcastPuts, BroadcastEnds, broadcastVars, streamVars
<1>4. ASSUME NEW s \in Streams,
             StreamAbandoned(s) \/ StreamStarts(s) \/ StreamYields(s) \/ StreamFails(s)
             \/ BrowserCloses(s)
      PROVE  ListIsExact'
  BY <1>0, <1>2, <1>4 DEF StreamTypes, StreamAbandoned, StreamStarts, StreamYields, StreamFails, BrowserCloses,
    Becomes, Listed
<1>5. ASSUME NEW s \in Streams, index_stream(s)
      PROVE  ListIsExact'
  <2>1. /\ Len(subscribers') = Len(subscribers) + 1 /\ Len(subscribers) \in Nat
        /\ \A k \in 1 .. Len(subscribers) : subscribers'[k] = subscribers[k]
        /\ subscribers'[Len(subscribers) + 1] = s
    BY <1>0, <1>5, AppendProperties, LenProperties DEF StreamTypes, index_stream
  <2>2. status'[s] \in Listed /\ status[s] \notin Listed
        /\ \A t \in Streams \ {s} : status'[t] = status[t]
    BY <1>0, <1>5 DEF StreamTypes, index_stream, Becomes, Listed
  <2>3. \A k \in 1 .. Len(subscribers) : subscribers[k] # s
    BY <2>2, <1>0 DEF ListIsExact
  <2> HIDE DEF Listed
  <2> QED
    BY <1>0, <1>1, <2>1, <2>2, <2>3 DEF ListIsExact
<1>6. ASSUME NEW s \in Streams, StreamLeaves(s)
      PROVE  ListIsExact'
  <2>1. PICK k \in DOMAIN subscribers :
          subscribers[k] = s /\ subscribers' = RemoveAt(subscribers, k)
    BY <1>6 DEF StreamLeaves
  <2>2. k \in 1 .. Len(subscribers) /\ Len(subscribers) \in Nat
    BY <1>0, <2>1, LenProperties DEF StreamTypes
  <2>3. /\ Len(subscribers') = Len(subscribers) - 1
        /\ \A i \in 1 .. Len(subscribers) - 1 :
             subscribers'[i] = IF i < k THEN subscribers[i] ELSE subscribers[i + 1]
    BY <1>0, <2>1, <2>2, Removing DEF StreamTypes
  <2>4. status'[s] \notin Listed /\ \A t \in Streams \ {s} : status'[t] = status[t]
    BY <1>0, <1>6 DEF StreamTypes, StreamLeaves, Leaves, Becomes, Listed
  <2>5. \A i, j \in 1 .. Len(subscribers) : subscribers[i] = subscribers[j] => i = j
    BY <1>0 DEF ListIsExact
  <2>6. \A i, j \in 1 .. Len(subscribers') : subscribers'[i] = subscribers'[j] => i = j
    BY <2>2, <2>3, <2>5
  <2>7. \A i \in 1 .. Len(subscribers') : status'[subscribers'[i]] \in Listed
    <3> TAKE i \in 1 .. Len(subscribers')
    <3>1. PICK j \in 1 .. Len(subscribers) : j # k /\ subscribers'[i] = subscribers[j]
      BY <2>2, <2>3
    <3>2. subscribers[j] \in Streams \ {s}
      BY <1>1, <2>1, <2>2, <2>5, <3>1
    <3> QED
      BY <1>0, <2>4, <3>1, <3>2 DEF ListIsExact
  <2>8. ASSUME NEW t \in Streams, status'[t] \in Listed
        PROVE  \E i \in 1 .. Len(subscribers') : subscribers'[i] = t
    <3>1. t # s /\ status[t] \in Listed
      BY <2>4, <2>8
    <3>2. PICK j \in 1 .. Len(subscribers) : subscribers[j] = t
      BY <1>0, <3>1 DEF ListIsExact
    <3>3. j # k
      BY <2>1, <3>1, <3>2
    <3>4. CASE j < k
      BY <2>2, <2>3, <3>2, <3>4
    <3>5. CASE j > k
      <4>1. j - 1 \in 1 .. Len(subscribers') /\ subscribers'[j - 1] = t
        BY <2>2, <2>3, <3>2, <3>5
      <4> QED BY <4>1
    <3> QED
      BY <2>2, <3>2, <3>3, <3>4, <3>5
  <2> QED
    BY <2>6, <2>7, <2>8 DEF ListIsExact
<1> QED
  BY <1>3, <1>4, <1>5, <1>6 DEF StreamNext, event_stream

--------------------------------------------------------------------------------
(* The lock.                                                                *)

LEMMA LockInit == StreamInit => LockIsHeld
  BY MaxMessagesAssumption DEF StreamInit, LockIsHeld, Announced, Producers, Free

LEMMA LockStep == StreamIInv /\ [StreamNext]_broadcastVars => LockIsHeld'
<1> SUFFICES ASSUME StreamIInv, [StreamNext]_broadcastVars PROVE LockIsHeld'
  OBVIOUS
<1> USE MaxMessagesAssumption
<1>0. StreamTypes /\ LockIsHeld
  BY DEF StreamIInv
<1>1. CASE on_nus_notification
  BY <1>0, <1>1 DEF on_nus_notification, LockIsHeld, StreamTypes, Announced, Producers, Free
<1>2. CASE ZmqFrame
  BY <1>0, <1>2 DEF ZmqFrame, LockIsHeld, StreamTypes, Announced, Producers, Free
<1>3. CASE ZmqMalformed \/ UNCHANGED broadcastVars
  BY <1>0, <1>3 DEF ZmqMalformed, LockIsHeld, Announced, broadcastVars, producerVars
<1>4. ASSUME NEW p \in Producers, BroadcastBegins(p)
      PROVE  LockIsHeld'
  BY <1>0, <1>4 DEF BroadcastBegins, LockIsHeld, StreamTypes, Announced, Producers, Free
<1>5. ASSUME NEW p \in Producers, BroadcastPuts(p)
      PROVE  LockIsHeld'
  BY <1>0, <1>5 DEF BroadcastPuts, LockIsHeld, StreamTypes, Announced, Producers, Free
<1>6. ASSUME NEW p \in Producers, BroadcastEnds(p)
      PROVE  LockIsHeld'
  BY <1>0, <1>6 DEF BroadcastEnds, LockIsHeld, StreamTypes, Announced, Producers, Free
<1>7. ASSUME NEW s \in Streams,
             index_stream(s) \/ StreamAbandoned(s) \/ event_stream(s) \/ BrowserCloses(s)
      PROVE  LockIsHeld'
  <2>1. UNCHANGED << subscribers_lock, producerVars >>
    BY <1>7 DEF index_stream, StreamAbandoned, event_stream, StreamStarts, StreamYields, StreamFails,
      StreamLeaves, Leaves, BrowserCloses
  <2> QED
    BY <1>0, <2>1 DEF LockIsHeld, Announced, producerVars
<1> QED
  BY <1>1, <1>2, <1>3, <1>4, <1>5, <1>6, <1>7 DEF StreamNext, broadcast

--------------------------------------------------------------------------------
(* What is delivered.                                                       *)

LEMMA DeliveredInit == StreamInit => Delivered
  BY DEF StreamInit, Delivered, DeliveredTo, Subscribed

LEMMA DeliveredStep == StreamIInv /\ [StreamNext]_broadcastVars => Delivered'
<1> SUFFICES ASSUME StreamIInv, [StreamNext]_broadcastVars, NEW s \in Streams PROVE DeliveredTo(s)'
  BY DEF Delivered
<1>0. StreamTypes /\ ListIsExact /\ LockIsHeld /\ DeliveredTo(s) /\ StreamTypes'
  BY StreamTypesStep DEF StreamIInv, Delivered
<1> DEFINE all == All(s)
<1>1. all \in Seq(1 .. MaxMessages) /\ Len(all) \in Nat /\ Len(subscribers) \in Nat
      /\ count \in Nat /\ since[s] \in Nat
  BY <1>0, ConcatProperties, LenProperties DEF StreamTypes, All
(* A step that changes nothing of s, unless it is to leave.                 *)
<1>2. ASSUME UNCHANGED << count, All(s), got[s], queue[s], since[s] >>, Awaits(s)' <=> Awaits(s),
             status'[s] \in Subscribed => status[s] \in Subscribed,
             status'[s] = "new" => status[s] = "new"
      PROVE  DeliveredTo(s)'
  BY <1>0, <1>2 DEF DeliveredTo, Complete
<1>3. CASE on_nus_notification \/ ZmqFrame \/ ZmqMalformed \/ UNCHANGED broadcastVars
  BY <1>2, <1>3 DEF on_nus_notification, ZmqFrame, ZmqMalformed, broadcastVars, streamVars, producerVars, Awaits, All
<1>4. ASSUME NEW p \in Producers, BroadcastBegins(p)
      PROVE  DeliveredTo(s)'
  <2>1. ~ Awaits(s) /\ at[p] = 1
    BY <1>0, <1>4 DEF BroadcastBegins, LockIsHeld, Awaits, Producers, Free
  <2>2. status[s] \in Subscribed => Awaits(s)'
    <3> SUFFICES ASSUME status[s] \in Subscribed PROVE Awaits(s)'
      OBVIOUS
    <3>1. PICK k \in 1 .. Len(subscribers) : subscribers[k] = s
      BY <1>0 DEF ListIsExact, Subscribed, Listed
    <3>2. number'[p] # 0 /\ at'[p] = 1 /\ subscribers' = subscribers
      BY <1>0, <1>1, <1>4, <2>1 DEF BroadcastBegins, StreamTypes
    <3> QED
      BY <3>1, <3>2 DEF Awaits
  <2>3. UNCHANGED << All(s), got[s], queue[s], since[s], status[s] >> /\ count' = count + 1
    BY <1>4 DEF BroadcastBegins, streamVars, All
  <2> QED
    BY <1>0, <1>1, <2>1, <2>2, <2>3 DEF DeliveredTo, Complete
<1>5. ASSUME NEW p \in Producers, BroadcastPuts(p)
      PROVE  DeliveredTo(s)'
  <2> DEFINE t == subscribers[at[p]]
  <2>1. at[p] \in 1 .. Len(subscribers) /\ number[p] = count /\ number[p] \in 1 .. MaxMessages
        /\ \A r \in Producers : number[r] # 0 => r = p
    <3>1. number[p] # 0 /\ at[p] <= Len(subscribers) /\ number[p] \in 0 .. MaxMessages
          /\ at[p] \in Nat \ {0}
      BY <1>0, <1>5 DEF BroadcastPuts, StreamTypes
    <3>2. subscribers_lock = p /\ number[p] = count
          /\ \A r \in Producers : number[r] # 0 => subscribers_lock = r
      BY <1>0, <3>1 DEF LockIsHeld
    <3> QED BY <1>1, <3>1, <3>2, MaxMessagesAssumption
  <2>2. t \in Streams /\ status[t] \in Listed
    BY <1>0, <2>1, ElementOfSeq DEF StreamTypes, ListIsExact
  <2>3. /\ UNCHANGED << subscribers, count, number, got, since, status >>
        /\ at'[p] = at[p] + 1
        /\ queue' = [queue EXCEPT ![t] = Append(queue[t], number[p])]
    BY <1>0, <1>5 DEF BroadcastPuts, streamVars, StreamTypes
  <2> HIDE DEF t
  <2>4. CASE s = t
    <3>1. Awaits(s)
      BY <1>1, <2>1, <2>4 DEF Awaits, t
    <3>2. ~ Awaits(s)'
      BY <1>0, <1>1, <2>1, <2>3, <2>4 DEF Awaits, ListIsExact, t
    <3>3. All(s)' = Append(all, count)
      <4>1. All(s)' = got[s] \o Append(queue[s], number[p])
        BY <1>0, <2>3, <2>4 DEF StreamTypes, All
      <4>2. got[s] \in Seq(1 .. MaxMessages) /\ queue[s] \in Seq(1 .. MaxMessages)
        BY <1>0 DEF StreamTypes
      <4>3. number[p] \in 1 .. MaxMessages
        BY <2>1
      <4>4. \A g, q \in Seq(1 .. MaxMessages), e \in 1 .. MaxMessages :
              g \o Append(q, e) = Append(g \o q, e)
        BY Queueing
      <4>5. got[s] \o Append(queue[s], number[p]) = Append(got[s] \o queue[s], number[p])
        BY <4>2, <4>3, <4>4, Zenon
      <4> QED BY <2>1, <4>1, <4>5 DEF All
    <3>4. count \in 1 .. MaxMessages
      BY <2>1
    <3>5. /\ Len(All(s)') = Len(all) + 1
          /\ \A k \in 1 .. Len(all) : All(s)'[k] = all[k]
          /\ All(s)'[Len(all) + 1] = count
      <4> HIDE DEF all
      <4> QED BY <1>1, <3>3, <3>4, AppendProperties
    <3>6. status[s] \in Subscribed => Complete(s)'
      <4> SUFFICES ASSUME Complete(s) PROVE Complete(s)'
        BY <1>0 DEF DeliveredTo
      <4>1. since[s] + Len(all) = count - 1 /\ \A k \in 1 .. Len(all) : all[k] = since[s] + k
        BY <3>1 DEF Complete
      <4> HIDE DEF all
      <4>2. since'[s] = since[s] /\ count' = count
        BY <2>3
      <4>3. \A k \in 1 .. Len(All(s)') : All(s)'[k] = since[s] + k
        <5>1. ASSUME NEW k \in 1 .. Len(all) PROVE All(s)'[k] = since[s] + k
          BY <3>5, <4>1
        <5>2. All(s)'[Len(all) + 1] = since[s] + (Len(all) + 1)
          BY <1>1, <3>5, <4>1
        <5>3. 1 .. Len(All(s)') = (1 .. Len(all)) \cup {Len(all) + 1}
          BY <1>1, <3>5
        <5> QED
          BY <5>1, <5>2, <5>3
      <4>4. since[s] + Len(All(s)') = count
        BY <1>1, <3>5, <4>1
      <4> QED
        BY <3>2, <4>2, <4>3, <4>4 DEF Complete
    <3> QED
      BY <2>2, <2>3, <2>4, <3>6 DEF DeliveredTo, Listed
  <2>5. CASE s # t
    <3>1. queue'[s] = queue[s] /\ All(s)' = All(s)
      BY <1>0, <2>3, <2>5 DEF StreamTypes, All
    <3>2. Awaits(s)' <=> Awaits(s)
      BY <1>1, <2>1, <2>3, <2>5 DEF Awaits, t
    <3> QED
      BY <1>2, <2>3, <3>1, <3>2
  <2> QED BY <2>4, <2>5
<1>6. ASSUME NEW p \in Producers, BroadcastEnds(p)
      PROVE  DeliveredTo(s)'
  <2>1. ~ Awaits(s) /\ ~ Awaits(s)'
    BY <1>0, <1>1, <1>6 DEF BroadcastEnds, LockIsHeld, Awaits, StreamTypes
  <2> QED
    BY <1>2, <1>6, <2>1 DEF BroadcastEnds, streamVars, All
<1>7. ASSUME NEW t \in Streams, index_stream(t)
      PROVE  DeliveredTo(s)'
  <2>1. \A p \in Producers : number[p] = 0 /\ number'[p] = 0
    BY <1>0, <1>7 DEF index_stream, LockIsHeld, producerVars, Producers, Free
  <2>2. ~ Awaits(s) /\ ~ Awaits(s)'
    BY <2>1 DEF Awaits
  <2>3. CASE s = t
    <3>1. got'[s] = << >> /\ queue'[s] = << >> /\ since'[s] = count /\ count' = count
          /\ status'[s] = "registered"
      BY <1>0, <1>7, <2>3 DEF index_stream, Becomes, DeliveredTo, StreamTypes, producerVars
    <3>2. All(s)' = << >> /\ Len(<< >>) = 0
      BY <3>1, EmptySeq, ConcatEmptySeq DEF All
    <3> QED
      BY <1>1, <2>2, <3>1, <3>2 DEF DeliveredTo, Complete
  <2>4. CASE s # t
    BY <1>0, <1>2, <1>7, <2>2, <2>4 DEF index_stream, Becomes, StreamTypes, producerVars, All
  <2> QED BY <2>3, <2>4
<1>8. ASSUME NEW t \in Streams, StreamAbandoned(t) \/ StreamStarts(t) \/ BrowserCloses(t)
      PROVE  DeliveredTo(s)'
  BY <1>0, <1>2, <1>8 DEF StreamAbandoned, StreamStarts, BrowserCloses, Becomes, Subscribed, StreamTypes,
    producerVars, Awaits, All
<1>9. ASSUME NEW t \in Streams, StreamYields(t)
      PROVE  DeliveredTo(s)'
  <2>1. All(s)' = All(s)
    <3>1. CASE s = t
      <4>1. queue[s] # << >> /\ All(s)' = Append(got[s], Head(queue[s])) \o Tail(queue[s])
        BY <1>0, <1>9, <3>1 DEF StreamYields, StreamTypes, All
      <4>2. got[s] \in Seq(1 .. MaxMessages) /\ queue[s] \in Seq(1 .. MaxMessages)
        BY <1>0 DEF StreamTypes
      <4> QED BY <4>1, <4>2, Yielding DEF All
    <3>2. CASE s # t
      BY <1>0, <1>9, <3>2 DEF StreamYields, StreamTypes, All
    <3> QED BY <3>1, <3>2
  <2>2. Awaits(s)' <=> Awaits(s)
    BY <1>9 DEF StreamYields, producerVars, Awaits
  <2>3. status[t] # "new" /\ UNCHANGED << count, since, status >>
        /\ (s # t => UNCHANGED << got[s], queue[s] >>)
    BY <1>0, <1>9 DEF StreamYields, StreamTypes, producerVars
  <2> QED
    BY <1>0, <2>1, <2>2, <2>3 DEF DeliveredTo, Complete
<1>10. ASSUME NEW t \in Streams, StreamFails(t)
       PROVE  DeliveredTo(s)'
  <2>1. Awaits(s)' <=> Awaits(s)
    BY <1>10 DEF StreamFails, producerVars, Awaits
  <2>2. CASE s = t
    BY <1>0, <1>10, <2>2 DEF StreamFails, Becomes, StreamTypes, DeliveredTo, Subscribed
  <2>3. CASE s # t
    BY <1>0, <1>2, <1>10, <2>1, <2>3 DEF StreamFails, Becomes, StreamTypes, producerVars, All
  <2> QED BY <2>2, <2>3
<1>11. ASSUME NEW t \in Streams, StreamLeaves(t)
       PROVE  DeliveredTo(s)'
  <2>1. \A p \in Producers : number[p] = 0 /\ number'[p] = 0
    BY <1>0, <1>11 DEF StreamLeaves, Leaves, LockIsHeld, producerVars, Producers, Free
  <2>2. ~ Awaits(s) /\ ~ Awaits(s)'
    BY <2>1 DEF Awaits
  <2> QED
    BY <1>0, <1>2, <1>11, <2>2 DEF StreamLeaves, Leaves, Becomes, StreamTypes, Subscribed, producerVars, All
<1> QED
  BY <1>3, <1>4, <1>5, <1>6, <1>7, <1>8, <1>9, <1>10, <1>11 DEF StreamNext, broadcast, event_stream

--------------------------------------------------------------------------------
LEMMA Invariant == StreamSpec => []StreamIInv
<1>1. StreamInit => StreamIInv
  BY TypesInit, ListInit, LockInit, DeliveredInit DEF StreamIInv
<1>2. StreamIInv /\ [StreamNext]_broadcastVars => StreamIInv'
  BY StreamTypesStep, ListStep, LockStep, DeliveredStep DEF StreamIInv
<1> QED
  BY <1>1, <1>2, PTL DEF StreamSpec

(* The list holds the queue of every stream that registered and has not      *)
(* left, once, and each such stream gets every message broadcast since it    *)
(* subscribed, once and in order, however many threads, streams and          *)
(* messages there are (app.py:31-34, 76-90).                                 *)
THEOREM StreamsGetEverything == StreamSpec => []StreamsAgree
<1>1. StreamIInv => StreamTypeOK
  <2> SUFFICES ASSUME StreamIInv PROVE StreamTypeOK
    OBVIOUS
  <2>1. DOMAIN subscribers = 1 .. Len(subscribers)
    BY LenProperties DEF StreamIInv, StreamTypes
  <2>2. IsInjective(subscribers)
    BY <2>1 DEF StreamIInv, ListIsExact, IsInjective
  <2>3. Range(subscribers) = {s \in Streams : status[s] \in Listed}
    <3>1. \A k \in 1 .. Len(subscribers) : subscribers[k] \in Streams
      BY ElementOfSeq DEF StreamIInv, StreamTypes
    <3> QED BY <2>1, <3>1 DEF StreamIInv, ListIsExact, Range
  <2> QED
    BY <2>2, <2>3 DEF StreamIInv, StreamTypes, StreamTypeOK
<1>2. StreamIInv => StreamsAgree
  <2> SUFFICES ASSUME StreamIInv, NEW s \in Streams, status[s] \in Subscribed
               PROVE  /\ All(s) = [k \in 1 .. Len(All(s)) |-> since[s] + k]
                      /\ (\A p \in Producers : number[p] = 0) => since[s] + Len(All(s)) = count
    BY <1>1 DEF StreamsAgree, Subscribed, All
  <2>1. Complete(s) /\ All(s) \in Seq(1 .. MaxMessages)
    BY ConcatProperties DEF StreamIInv, StreamTypes, Delivered, DeliveredTo, All
  <2>2. All(s) \in [1 .. Len(All(s)) -> 1 .. MaxMessages]
    BY <2>1, LenProperties
  <2> QED
    BY <2>1, <2>2 DEF Complete, Awaits
<1> QED
  BY <1>2, Invariant, PTL
================================================================================
