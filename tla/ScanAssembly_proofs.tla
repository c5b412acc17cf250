-------------------------- MODULE ScanAssembly_proofs ---------------------------
(***************************************************************************)
(* What is grabbed is one scan, and a complete one when its nodes fit in the *)
(* buffer, for revolutions of any number of capsules.                        *)
(***************************************************************************)
EXTENDS ScanAssembly, SequenceTheorems, TLAPS

Types ==
  /\ TypeOK
  /\ ~scanning => publishing = << >> /\ previous = << >>
  /\ first => publishing = << >>

(* The first node of a scan is a sync node and no other one is.             *)
SyncIsFirst(b) == \A k \in 1 .. Len(b) : StartsScan(b[k]) <=> k = 1

ScansStartOnce ==
  SyncIsFirst(_scanbuffer[0]) /\ SyncIsFirst(_scanbuffer[1]) /\ SyncIsFirst(nodebuffer)

(* The event is set, and a grab is woken by it, when a scan was published.   *)
EventIsForScan ==
  /\ grab = "copying" => available >= 0
  /\ ~Spurious /\ (_data_waiter \/ grab = "woken") => available >= 0

(* What is being copied does not change.                                    *)
CopyIsPrefix ==
  grab = "copying" =>
    /\ Len(nodebuffer) <= Len(_scanbuffer[available])
    /\ \A k \in 1 .. Len(nodebuffer) : nodebuffer[k] = _scanbuffer[available][k]

(* The scan being formed.                                                   *)
Forming == _scanbuffer[_getOperationBufferID_locked]

OfRevolution(b, r) == \A k \in 1 .. Len(b) : b[k].revolution = r

(* It has all nodes of revolution r, from the sync node to the n-th.        *)
Has(b, n, r) == b # << >> => Len(b) = n /\ OfRevolution(b, r)

IsComplete(b) == Len(b) = NodesPerScan /\ OfRevolution(b, b[1].revolution)

(* In a node format: it has the nodes up to the one before that of turn, or  *)
(* up to that before the one being published.                               *)
FormedByNodes ==
  \/ publishing = << >> /\ Forming = << >>
  \/ \E c \in Capsule :
       /\ turn = Following(c)
       /\ \/ publishing = << >> /\ Has(Forming, c.sector + 1, c.revolution)
          \/ /\ publishing = << NodeOf(c, c.sector = 0) >>
             /\ IF c.sector = 0 THEN \E r \in 0 .. Revolutions - 1 : Has(Forming, Sectors, r)
                                ELSE Has(Forming, c.sector, c.revolution)

(* In a capsule format: it has the nodes of all capsules before previous, or *)
(* is getting those of the last of them.                                    *)
FormedByCapsules ==
  /\ previous \in Capsule /\ turn = Following(previous)
  /\ \/ publishing = << >> /\ Has(Forming, previous.sector + 1, previous.revolution)
     \/ \E p \in Capsule :
          /\ previous = Following(p)
          /\ \/ publishing = CapsuleNodes(p) /\ Has(Forming, p.sector + 1, p.revolution)
             \/ /\ p.sector = Sectors - 1 /\ publishing = << NodeOf(previous, TRUE) >>
                /\ Has(Forming, Sectors + 1, p.revolution)

ScansAreComplete ==
  BufferSize > Sectors /\ ~lost =>
    /\ available >= 0 => IsComplete(_scanbuffer[available])
    /\ scanning /\ ~capsules => FormedByNodes
    /\ scanning /\ capsules /\ ~first => FormedByCapsules

IInv == Types /\ ScansStartOnce /\ EventIsForScan /\ CopyIsPrefix /\ ScansAreComplete
--------------------------------------------------------------------------------
(* The capsules and their nodes.                                            *)

LEMMA FollowingCapsule ==
  ASSUME NEW c \in Capsule
  PROVE  /\ Following(c) \in Capsule
         /\ c.sector < Sectors - 1 =>
              Following(c).sector = c.sector + 1 /\ Following(c).revolution = c.revolution
         /\ c.sector = Sectors - 1 => Following(c).sector = 0
<1>1. c.sector \in 0 .. Sectors - 1 /\ c.revolution \in 0 .. Revolutions - 1
  BY DEF Capsule
<1>2. CASE c.sector < Sectors - 1
  BY <1>1, <1>2, SectorsAssumption DEF Following, Capsule
<1>3. CASE c.sector = Sectors - 1
  <2>1. Following(c) = [revolution |-> (c.revolution + 1) % Revolutions, sector |-> 0]
    BY <1>1, <1>3, SectorsAssumption DEF Following
  <2>2. (c.revolution + 1) % Revolutions \in 0 .. Revolutions - 1
    BY <1>1, RevolutionsAssumption
  <2> QED
    BY <1>3, <2>1, <2>2, SectorsAssumption DEF Capsule
<1> QED
  BY <1>1, <1>2, <1>3, SectorsAssumption

LEMMA NodeOfCapsule ==
  ASSUME NEW c \in Capsule, NEW sync \in BOOLEAN
  PROVE  /\ NodeOf(c, sync) \in Node /\ NodeOf(c, sync).revolution = c.revolution
         /\ StartsScan(NodeOf(c, sync)) = sync
  BY DEF NodeOf, Node, Capsule, StartsScan

LEMMA NodesOfCapsule ==
  ASSUME NEW c \in Capsule
  PROVE  CapsuleNodes(c) \in Seq(Node)
<1> DEFINE m == NodeOf(c, FALSE)
           n == NodeOf(Following(c), TRUE)
<1>1. m \in Node /\ n \in Node
  BY FollowingCapsule, NodeOfCapsule
<1>2. CapsuleNodes(c) = IF c.sector = Sectors - 1 THEN << m, n >> ELSE << m >>
  BY DEF CapsuleNodes
<1> HIDE DEF m, n
<1> QED
  BY <1>1, <1>2

--------------------------------------------------------------------------------
(* What a node does to the buffers.                                         *)

(* Storing a node in a scan that has its first leaves that one where it is.  *)
LEMMA Storing ==
  ASSUME NEW b \in Seq(Node), NEW node \in Node, b # << >>, Len(b) <= BufferSize,
         ~ StartsScan(node), SyncIsFirst(b)
  PROVE  /\ Stored(b, node) \in Seq(Node) /\ Stored(b, node) # << >>
         /\ Len(Stored(b, node)) <= BufferSize /\ SyncIsFirst(Stored(b, node))
         /\ Len(b) < BufferSize =>
              /\ Len(Stored(b, node)) = Len(b) + 1 /\ Stored(b, node)[Len(b) + 1] = node
              /\ \A k \in 1 .. Len(b) : Stored(b, node)[k] = b[k]
<1>1. Len(b) \in Nat /\ Len(b) > 0 /\ BufferSize \in Nat /\ BufferSize > 1
  BY BufferSizeAssumption, EmptySeq
<1> DEFINE s == Stored(b, node)
<1>2. CASE Len(b) < BufferSize
  <2>1. s = Append(b, node)
    BY <1>1, <1>2 DEF Stored
  <2>2. /\ s \in Seq(Node) /\ s # << >> /\ Len(s) = Len(b) + 1
        /\ (\A k \in 1 .. Len(b) : s[k] = b[k]) /\ s[Len(b) + 1] = node
    BY <2>1, AppendProperties
  <2> HIDE DEF s
  <2>3. SyncIsFirst(s)
    BY <1>1, <2>2 DEF SyncIsFirst
  <2> QED
    BY <1>1, <1>2, <2>2, <2>3 DEF s
<1>3. CASE Len(b) = BufferSize
  <2>1. s = [b EXCEPT ![Len(b)] = node]
    BY <1>1, <1>3 DEF Stored
  <2>2. /\ s \in Seq(Node) /\ Len(s) = Len(b)
        /\ \A k \in 1 .. Len(b) : s[k] = IF k = Len(b) THEN node ELSE b[k]
    BY <1>1, <2>1, ExceptSeq
  <2> HIDE DEF s
  <2>3. SyncIsFirst(s)
    BY <1>1, <1>3, <2>2 DEF SyncIsFirst
  <2>4. s # << >>
    BY <1>1, <2>2, EmptySeq
  <2> QED
    BY <1>1, <1>3, <2>2, <2>3, <2>4 DEF s
<1> QED
  BY <1>1, <1>2, <1>3

LEMMA OneNode ==
  ASSUME NEW node \in Node
  PROVE  /\ << node >> \in Seq(Node) /\ << node >> # << >> /\ Len(<< node >>) = 1
         /\ << node >>[1] = node /\ (StartsScan(node) => SyncIsFirst(<< node >>))
  BY DEF SyncIsFirst

(* The available scan is replaced by the one being formed, or stays.        *)
Finishes(node) ==
  /\ Forming # << >> /\ available' \in {0, 1} /\ _scanbuffer'[available'] = Forming
  /\ Forming' = << node >> /\ _data_waiter' = TRUE

GoesOn(formed) ==
  /\ Forming' = formed /\ UNCHANGED << available, _data_waiter >>
  /\ available >= 0 => _scanbuffer'[available] = _scanbuffer[available]

LEMMA Pushing ==
  ASSUME Types, ScansStartOnce, NEW node \in Node, pushScanNodeData(node)
  PROVE  /\ _scanbuffer' \in [{0, 1} -> Seq(Node)] /\ available' \in {-1, 0, 1}
         /\ \A id \in {0, 1} : Len(_scanbuffer'[id]) <= BufferSize /\ SyncIsFirst(_scanbuffer'[id])
         /\ _data_waiter' \in BOOLEAN
         /\ StartsScan(node) => Finishes(node) \/ (Forming = << >> /\ GoesOn(<< node >>))
         /\ ~ StartsScan(node) => GoesOn(IF Forming = << >> THEN << >> ELSE Stored(Forming, node))
<1> DEFINE id == _getOperationBufferID_locked
<1>1. /\ id \in {0, 1} /\ 1 - id \in {0, 1} /\ id # 1 - id /\ available \in {-1, 0, 1}
      /\ (available >= 0 => available # id) /\ Forming = _scanbuffer[id]
  BY DEF Types, TypeOK, _getOperationBufferID_locked, Forming
<1>2. /\ _scanbuffer \in [{0, 1} -> Seq(Node)] /\ _data_waiter \in BOOLEAN
      /\ \A i \in {0, 1} : Len(_scanbuffer[i]) <= BufferSize /\ SyncIsFirst(_scanbuffer[i])
      /\ 1 <= BufferSize
  BY BufferSizeAssumption DEF Types, TypeOK, ScansStartOnce
<1>3. /\ << node >> \in Seq(Node) /\ Len(<< node >>) <= BufferSize
      /\ (StartsScan(node) => SyncIsFirst(<< node >>))
  BY <1>2, OneNode
<1> HIDE DEF id
<1>4. CASE FinishScan(node)
  <2>1. /\ StartsScan(node) /\ _scanbuffer[id] # << >> /\ available' = id /\ _data_waiter' = TRUE
        /\ _scanbuffer' = [_scanbuffer EXCEPT ![1 - id] = << node >>]
    BY <1>4 DEF FinishScan, id
  <2>2. /\ _scanbuffer' \in [{0, 1} -> Seq(Node)] /\ _scanbuffer'[1 - id] = << node >>
        /\ _scanbuffer'[id] = _scanbuffer[id]
    BY <1>1, <1>2, <1>3, <2>1
  <2>3. Forming' = _scanbuffer'[1 - id]
    BY <1>1, <2>1 DEF Forming, _getOperationBufferID_locked
  <2>4. \A i \in {0, 1} : Len(_scanbuffer'[i]) <= BufferSize /\ SyncIsFirst(_scanbuffer'[i])
    BY <1>1, <1>2, <1>3, <2>1, <2>2
  <2>5. Finishes(node)
    BY <1>1, <2>1, <2>2, <2>3 DEF Finishes
  <2>6. _data_waiter' \in BOOLEAN /\ available' \in {-1, 0, 1}
    BY <1>1, <2>1
  <2>7. StartsScan(node)
    BY <2>1
  <2> QED
    BY <2>2, <2>4, <2>5, <2>6, <2>7, Zenon
<1>5. CASE BeginScan(node)
  <2>1. /\ StartsScan(node) /\ _scanbuffer[id] = << >> /\ UNCHANGED << available, _data_waiter >>
        /\ _scanbuffer' = [_scanbuffer EXCEPT ![id] = << node >>]
    BY <1>5 DEF BeginScan, id
  <2>2. /\ _scanbuffer' \in [{0, 1} -> Seq(Node)] /\ _scanbuffer'[id] = << node >>
        /\ \A i \in {0, 1} \ {id} : _scanbuffer'[i] = _scanbuffer[i]
    BY <1>1, <1>2, <1>3, <2>1
  <2>3. Forming' = _scanbuffer'[id]
    BY <2>1 DEF Forming, _getOperationBufferID_locked, id
  <2>4. \A i \in {0, 1} : Len(_scanbuffer'[i]) <= BufferSize /\ SyncIsFirst(_scanbuffer'[i])
    BY <1>1, <1>2, <1>3, <2>1, <2>2
  <2> QED
    BY <1>1, <1>2, <2>1, <2>2, <2>3, <2>4 DEF GoesOn
<1>6. CASE ExtendScan(node)
  <2> DEFINE formed == IF Forming = << >> THEN << >> ELSE Stored(Forming, node)
  <2>1. /\ ~ StartsScan(node) /\ UNCHANGED << available, _data_waiter >>
        /\ _scanbuffer' = [_scanbuffer EXCEPT ![id] = formed]
    BY <1>1, <1>2, <1>6 DEF ExtendScan, id
  <2>2. formed \in Seq(Node) /\ Len(formed) <= BufferSize /\ SyncIsFirst(formed)
    BY <1>1, <1>2, <2>1, Storing
  <2> HIDE DEF formed
  <2>3. /\ _scanbuffer' \in [{0, 1} -> Seq(Node)] /\ _scanbuffer'[id] = formed
        /\ \A i \in {0, 1} \ {id} : _scanbuffer'[i] = _scanbuffer[i]
    BY <1>1, <1>2, <2>1, <2>2
  <2>4. Forming' = _scanbuffer'[id]
    BY <2>1 DEF Forming, _getOperationBufferID_locked, id
  <2>5. \A i \in {0, 1} : Len(_scanbuffer'[i]) <= BufferSize /\ SyncIsFirst(_scanbuffer'[i])
    BY <1>1, <1>2, <2>2, <2>3
  <2>6. GoesOn(formed)
    BY <1>1, <2>1, <2>3, <2>4 DEF GoesOn
  <2> QED
    BY <1>1, <1>2, <2>1, <2>3, <2>5, <2>6 DEF formed
<1> QED
  BY <1>4, <1>5, <1>6 DEF pushScanNodeData
--------------------------------------------------------------------------------
LEMMA InitHolds == Init => IInv
<1> SUFFICES ASSUME Init PROVE IInv
  OBVIOUS
<1> USE SectorsAssumption, RevolutionsAssumption, BufferSizeAssumption, RawAssumption
<1>1. \A S : << >> \in Seq(S) /\ Len(<< >>) = 0
  BY EmptySeq
<1>2. {capsules, scanning, first, lost} \subseteq BOOLEAN /\ _data_waiter \in BOOLEAN /\ raw_waiter \in BOOLEAN
  BY DEF Init
<1>3. turn \in Capsule /\ raw \in 0 .. RawSize
  BY DEF Init, Capsule
<1>4. Types
  BY <1>1, <1>2, <1>3 DEF Init, Types, TypeOK
<1>5. ScansStartOnce
  BY <1>1 DEF Init, ScansStartOnce, SyncIsFirst
<1>6. EventIsForScan /\ CopyIsPrefix
  BY DEF Init, EventIsForScan, CopyIsPrefix
<1>7. ScansAreComplete
  BY DEF Init, ScansAreComplete
<1> QED
  BY <1>4, <1>5, <1>6, <1>7 DEF IInv

(* What is published is a node.                                             *)
LEMMA Publishing ==
  ASSUME Types, onHQNodeDecoded
  PROVE  Head(publishing) \in Node /\ Tail(publishing) \in Seq(Node) /\ pushScanNodeData(Head(publishing))
  BY HeadTailProperties DEF Types, TypeOK, onHQNodeDecoded

LEMMA ArrivingTypes ==
  ASSUME Types, Arrives
  PROVE  turn' \in Capsule /\ {capsules', scanning', first'} \subseteq BOOLEAN /\ scanning' /\ ~first'
  BY FollowingCapsule DEF Types, TypeOK, Arrives

LEMMA TypesStep == IInv /\ [Next]_vars => Types'
<1> SUFFICES ASSUME IInv, [Next]_vars PROVE Types'
  OBVIOUS
<1>0. Types /\ ScansStartOnce
  BY DEF IInv
<1> USE SectorsAssumption, RevolutionsAssumption, BufferSizeAssumption, RawAssumption
<1>1. CASE FirstCapsuleArrives
  <2>1. /\ turn' \in Capsule /\ {capsules', scanning', first', lost'} \subseteq BOOLEAN /\ scanning' /\ ~first'
        /\ previous' = turn /\ publishing' = << >>
        /\ UNCHANGED << available, _data_waiter, rawVars, grab, nodebuffer >>
    BY <1>0, <1>1, ArrivingTypes DEF FirstCapsuleArrives, _onScanNodeCapsuleData, Types, TypeOK
  <2>2. /\ _scanbuffer' \in [{0, 1} -> Seq(Node)]
        /\ \A id \in {0, 1} : Len(_scanbuffer'[id]) <= BufferSize
    BY <1>0, <1>1, EmptySeq DEF FirstCapsuleArrives, rewindCurrentScanData, Types, TypeOK,
      _getOperationBufferID_locked
  <2> QED
    BY <1>0, <2>1, <2>2, EmptySeq DEF Types, TypeOK, rawVars
<1>2. CASE CapsuleArrives
  <2>1. /\ turn' \in Capsule /\ {capsules', scanning', first', lost'} \subseteq BOOLEAN /\ scanning' /\ ~first'
        /\ previous' = turn /\ UNCHANGED << holderVars, rawVars, grab, nodebuffer >>
    BY <1>0, <1>2, ArrivingTypes DEF CapsuleArrives, _onScanNodeCapsuleData, Types, TypeOK
  <2>2. publishing' \in Seq(Node)
    BY <1>0, <1>2, NodesOfCapsule, EmptySeq DEF CapsuleArrives, _onScanNodeCapsuleData, Types, TypeOK
  <2> QED
    BY <1>0, <2>1, <2>2 DEF Types, TypeOK, rawVars, holderVars
<1>3. CASE NodeArrives
  <2>1. /\ turn' \in Capsule /\ {capsules', scanning', first', lost'} \subseteq BOOLEAN /\ scanning' /\ ~first'
        /\ UNCHANGED << previous, holderVars, rawVars, grab, nodebuffer >>
    BY <1>0, <1>3, ArrivingTypes DEF NodeArrives, Types, TypeOK
  <2> DEFINE n == NodeOf(turn, turn.sector = 0)
  <2>2. n \in Node
    BY <1>0, NodeOfCapsule DEF Types, TypeOK
  <2>3. publishing' = << n >>
    BY <1>3 DEF NodeArrives
  <2> HIDE DEF n
  <2>4. publishing' \in Seq(Node)
    BY <2>2, <2>3
  <2> QED
    BY <1>0, <2>1, <2>4 DEF Types, TypeOK, rawVars, holderVars
<1>4. CASE ChecksumFails
  BY <1>0, <1>4, ArrivingTypes DEF ChecksumFails, Types, TypeOK, rawVars, holderVars
<1>5. CASE onHQNodeDecoded
  <2>1. /\ _scanbuffer' \in [{0, 1} -> Seq(Node)] /\ available' \in {-1, 0, 1}
        /\ (\A id \in {0, 1} : Len(_scanbuffer'[id]) <= BufferSize) /\ _data_waiter' \in BOOLEAN
    BY <1>0, <1>5, Publishing, Pushing
  <2>2. publishing' \in Seq(Node) /\ publishing # << >>
        /\ UNCHANGED << sensorVars, previous, grab, nodebuffer >>
    BY <1>0, <1>5, Publishing DEF onHQNodeDecoded
  <2>3. raw' \in 0 .. RawSize /\ raw_waiter' \in BOOLEAN
    BY <1>0, <1>5 DEF onHQNodeDecoded, pushNode, Types, TypeOK
  <2> QED
    BY <1>0, <2>1, <2>2, <2>3 DEF Types, TypeOK, sensorVars
<1>6. CASE stop
  BY <1>0, <1>6 DEF stop, Types, TypeOK, rawVars, holderVars
<1>7. CASE startScan
  <2>1. /\ turn' \in Capsule /\ {capsules', scanning', first', lost'} \subseteq BOOLEAN
        /\ scanning' /\ _data_waiter' \in BOOLEAN
    <3>1. (turn.revolution + 1) % Revolutions \in 0 .. Revolutions - 1
      BY <1>0 DEF Types, TypeOK, Capsule
    <3> QED BY <1>7, <3>1 DEF startScan, Capsule
  <2>2. /\ _scanbuffer' \in [{0, 1} -> Seq(Node)] /\ available' = -1
        /\ \A id \in {0, 1} : Len(_scanbuffer'[id]) <= BufferSize
    BY <1>7, EmptySeq DEF startScan
  <2>3. publishing = << >> /\ UNCHANGED << previous, publishing, rawVars, grab, nodebuffer >>
    BY <1>0, <1>7 DEF startScan, Types
  <2> QED
    BY <1>0, <2>1, <2>2, <2>3 DEF Types, TypeOK, rawVars
<1>8. CASE GrabFindsScan \/ GrabIsWoken \/ GrabWaits \/ GrabTimesOut \/ GrabReturns
  BY <1>0, <1>8 DEF GrabFindsScan, GrabIsWoken, Woken, GrabWaits, GrabTimesOut, GrabReturns, Types, TypeOK,
    decoderVars, sensorVars, holderVars, rawVars
<1>9. CASE GrabLocks
  BY <1>0, <1>9, EmptySeq DEF GrabLocks, Types, TypeOK, decoderVars, sensorVars, holderVars, rawVars
<1>10. CASE GrabCopies
  <2>1. nodebuffer' \in Seq(Node)
    <3>1. /\ _scanbuffer[available] \in Seq(Node) /\ nodebuffer \in Seq(Node) /\ Len(nodebuffer) \in Nat
          /\ Len(nodebuffer) + 1 \in 1 .. Len(_scanbuffer[available])
      BY <1>0, <1>10, LenProperties DEF GrabCopies, IInv, EventIsForScan, Types, TypeOK
    <3>2. _scanbuffer[available][Len(nodebuffer) + 1] \in Node
      BY <3>1, ElementOfSeq
    <3> QED BY <1>10, <3>1, <3>2, AppendProperties DEF GrabCopies
  <2> QED
    BY <1>0, <1>10, <2>1 DEF GrabCopies, Types, TypeOK, decoderVars, sensorVars, holderVars, rawVars
<1>11. CASE getScanDataWithIntervalHq
  <2>1. raw' \in 0 .. RawSize /\ raw_waiter' \in BOOLEAN
    <3>1. /\ raw \in 0 .. RawSize /\ raw' \in (IF raw < RawCount THEN 0 .. RawSize ELSE {raw - RawCount})
          /\ raw_waiter' = FALSE
      BY <1>0, <1>11 DEF getScanDataWithIntervalHq, Types, TypeOK
    <3>2. raw' \in 0 .. RawSize
      BY <3>1
    <3> QED BY <3>1, <3>2
  <2> QED
    BY <1>0, <1>11, <2>1 DEF getScanDataWithIntervalHq, Types, TypeOK, decoderVars, sensorVars, holderVars
<1>12. CASE UNCHANGED vars
  BY <1>0, <1>12 DEF vars, Types, TypeOK, decoderVars, sensorVars, holderVars, rawVars
<1> QED
  BY <1>1, <1>2, <1>3, <1>4, <1>5, <1>6, <1>7, <1>8, <1>9, <1>10, <1>11, <1>12
  DEF Next, Decoder, grabScanDataHq
--------------------------------------------------------------------------------
(* A scan starts with a sync node and has no other.                         *)

LEMMA Rewinding ==
  ASSUME Types, rewindCurrentScanData
  PROVE  /\ Forming' = << >> \/ available' # available
         /\ \A id \in {0, 1} : _scanbuffer'[id] \in {<< >>, _scanbuffer[id]}
         /\ available >= 0 => _scanbuffer'[available] = _scanbuffer[available]
  BY DEF Types, TypeOK, rewindCurrentScanData, Forming, _getOperationBufferID_locked

LEMMA StartOnceStep == IInv /\ [Next]_vars => ScansStartOnce'
<1> SUFFICES ASSUME IInv, [Next]_vars PROVE ScansStartOnce'
  OBVIOUS
<1>0. Types /\ ScansStartOnce
  BY DEF IInv
<1>1. SyncIsFirst(<< >>)
  BY EmptySeq DEF SyncIsFirst
<1>2. CASE UNCHANGED << _scanbuffer, nodebuffer >>
  BY <1>0, <1>2 DEF ScansStartOnce
<1>3. CASE FirstCapsuleArrives
  <2>1. nodebuffer' = nodebuffer /\ \A id \in {0, 1} : _scanbuffer'[id] \in {<< >>, _scanbuffer[id]}
    BY <1>0, <1>3, Rewinding DEF FirstCapsuleArrives
  <2>2. SyncIsFirst(_scanbuffer'[0]) /\ SyncIsFirst(_scanbuffer'[1])
    BY <1>0, <1>1, <2>1 DEF ScansStartOnce
  <2> QED
    BY <1>0, <2>1, <2>2 DEF ScansStartOnce
<1>4. CASE onHQNodeDecoded
  <2>1. nodebuffer' = nodebuffer /\ \A id \in {0, 1} : SyncIsFirst(_scanbuffer'[id])
    BY <1>0, <1>4, Publishing, Pushing DEF onHQNodeDecoded
  <2> QED
    BY <1>0, <2>1 DEF ScansStartOnce
<1>5. CASE startScan
  BY <1>0, <1>1, <1>5 DEF startScan, ScansStartOnce
<1>6. CASE GrabLocks
  BY <1>0, <1>1, <1>6 DEF GrabLocks, holderVars, ScansStartOnce
<1>7. CASE GrabCopies
  <2> DEFINE b == _scanbuffer[available]
  <2>1. /\ available \in {0, 1} /\ b \in Seq(Node) /\ nodebuffer \in Seq(Node) /\ Len(nodebuffer) \in Nat
        /\ Len(nodebuffer) + 1 \in 1 .. Len(b) /\ SyncIsFirst(b)
    BY <1>0, <1>7, LenProperties DEF GrabCopies, IInv, EventIsForScan, ScansStartOnce, Types, TypeOK
  <2>2. nodebuffer' = Append(nodebuffer, b[Len(nodebuffer) + 1]) /\ b[Len(nodebuffer) + 1] \in Node
        /\ _scanbuffer' = _scanbuffer
    BY <1>7, <2>1, ElementOfSeq DEF GrabCopies, holderVars
  <2>3. /\ Len(nodebuffer') = Len(nodebuffer) + 1 /\ nodebuffer'[Len(nodebuffer) + 1] = b[Len(nodebuffer) + 1]
        /\ \A k \in 1 .. Len(nodebuffer) : nodebuffer'[k] = nodebuffer[k]
    BY <2>1, <2>2, AppendProperties
  <2> HIDE DEF b
  <2>4. SyncIsFirst(nodebuffer')
    BY <1>0, <2>1, <2>3 DEF ScansStartOnce, SyncIsFirst
  <2> QED
    BY <1>0, <2>2, <2>4 DEF ScansStartOnce
<1> QED
  BY <1>2, <1>3, <1>4, <1>5, <1>6, <1>7 DEF Next, Decoder, CapsuleArrives, NodeArrives, ChecksumFails, stop,
    grabScanDataHq, GrabFindsScan, GrabIsWoken, GrabWaits, GrabTimesOut, GrabReturns,
    getScanDataWithIntervalHq, holderVars, vars

--------------------------------------------------------------------------------
(* The event and the copy.                                                  *)

LEMMA EventStep == IInv /\ [Next]_vars => EventIsForScan'
<1> SUFFICES ASSUME IInv, [Next]_vars PROVE EventIsForScan'
  OBVIOUS
<1>0. Types /\ ScansStartOnce /\ EventIsForScan
  BY DEF IInv
<1>1. CASE UNCHANGED << available, _data_waiter, grab >>
  BY <1>0, <1>1 DEF EventIsForScan
<1>2. CASE onHQNodeDecoded
  <2>1. grab' = grab /\ grab # "copying"
    BY <1>2 DEF onHQNodeDecoded, Unlocked
  <2>2. available' >= 0 \/ UNCHANGED << available, _data_waiter >>
    <3> DEFINE node == Head(publishing)
    <3>1. node \in Node /\ pushScanNodeData(node)
      BY <1>0, <1>2, Publishing
    <3> HIDE DEF node
    <3>2. Finishes(node) \/ GoesOn(<< node >>) \/ GoesOn(IF Forming = << >> THEN << >> ELSE Stored(Forming, node))
      BY <1>0, <3>1, Pushing
    <3> QED BY <3>2 DEF Finishes, GoesOn
  <2> QED
    BY <1>0, <2>1, <2>2 DEF EventIsForScan
<1>3. CASE startScan
  BY <1>3 DEF startScan, EventIsForScan
<1>4. CASE GrabFindsScan \/ GrabIsWoken
  BY <1>0, <1>4, SpuriousAssumption DEF GrabFindsScan, GrabIsWoken, Woken, EventIsForScan
<1>5. CASE GrabWaits \/ GrabTimesOut \/ GrabReturns \/ GrabLocks
  BY <1>0, <1>5 DEF GrabWaits, GrabTimesOut, GrabReturns, GrabLocks, holderVars, EventIsForScan
<1> QED
  BY <1>1, <1>2, <1>3, <1>4, <1>5 DEF Next, Decoder, FirstCapsuleArrives, CapsuleArrives, NodeArrives,
    ChecksumFails, stop, grabScanDataHq, GrabCopies, getScanDataWithIntervalHq, holderVars, vars

LEMMA CopyStep == IInv /\ [Next]_vars => CopyIsPrefix'
<1> SUFFICES ASSUME IInv, [Next]_vars, grab' = "copying" PROVE CopyIsPrefix'
  BY DEF CopyIsPrefix
<1>0. Types /\ CopyIsPrefix
  BY DEF IInv
<1>1. CASE UNCHANGED << _scanbuffer, available, grab, nodebuffer >>
  BY <1>0, <1>1 DEF CopyIsPrefix
<1>2. CASE GrabLocks
  <2>1. nodebuffer' = << >> /\ UNCHANGED << _scanbuffer, available >> /\ available \in {0, 1}
    BY <1>0, <1>2 DEF GrabLocks, holderVars, Types, TypeOK
  <2>2. Len(_scanbuffer[available]) \in Nat /\ Len(<< >>) = 0
    BY <1>0, <2>1, LenProperties, EmptySeq DEF Types, TypeOK
  <2> QED
    BY <2>1, <2>2 DEF CopyIsPrefix
<1>3. CASE GrabCopies
  <2> DEFINE b == _scanbuffer[available]
  <2>0. available \in {0, 1}
    BY <1>0, <1>3 DEF GrabCopies, IInv, EventIsForScan, Types, TypeOK
  <2>1. /\ b \in Seq(Node) /\ nodebuffer \in Seq(Node) /\ Len(nodebuffer) \in Nat
        /\ Len(nodebuffer) + 1 \in 1 .. Len(b)
        /\ \A k \in 1 .. Len(nodebuffer) : nodebuffer[k] = b[k]
    <3>1. b \in Seq(Node) /\ nodebuffer \in Seq(Node)
      BY <1>0, <2>0 DEF Types, TypeOK
    <3>2. Len(b) \in Nat /\ Len(nodebuffer) \in Nat
      BY <3>1, LenProperties
    <3>3. Len(nodebuffer) < Len(b) /\ \A k \in 1 .. Len(nodebuffer) : nodebuffer[k] = b[k]
      BY <1>0, <1>3 DEF GrabCopies, CopyIsPrefix
    <3> HIDE DEF b
    <3> QED
      BY <3>1, <3>2, <3>3
  <2>2. /\ nodebuffer' = Append(nodebuffer, b[Len(nodebuffer) + 1]) /\ b[Len(nodebuffer) + 1] \in Node
        /\ UNCHANGED << _scanbuffer, available >>
    BY <1>3, <2>1, ElementOfSeq DEF GrabCopies, holderVars
  <2>3. /\ Len(nodebuffer') = Len(nodebuffer) + 1 /\ nodebuffer'[Len(nodebuffer) + 1] = b[Len(nodebuffer) + 1]
        /\ \A k \in 1 .. Len(nodebuffer) : nodebuffer'[k] = nodebuffer[k]
    BY <2>1, <2>2, AppendProperties
  <2> HIDE DEF b
  <2>4. Len(nodebuffer') <= Len(b) /\ \A k \in 1 .. Len(nodebuffer') : nodebuffer'[k] = b[k]
    BY <2>1, <2>3
  <2> QED
    BY <2>2, <2>4 DEF CopyIsPrefix, b
<1>4. ~ (FirstCapsuleArrives \/ onHQNodeDecoded \/ startScan \/ stop)
  BY DEF FirstCapsuleArrives, onHQNodeDecoded, startScan, stop, Unlocked
<1> QED
  BY <1>1, <1>2, <1>3, <1>4 DEF Next, Decoder, CapsuleArrives, NodeArrives, ChecksumFails,
    grabScanDataHq, GrabFindsScan, GrabIsWoken, Woken, GrabWaits, GrabTimesOut, GrabReturns,
    getScanDataWithIntervalHq, holderVars, vars
--------------------------------------------------------------------------------
(* A scan that is formed without a loss is complete.                        *)

LEMMA FormingType ==
  ASSUME Types
  PROVE  /\ Forming \in Seq(Node) /\ Len(Forming) \in Nat /\ Len(Forming) <= BufferSize
         /\ available >= 0 => _scanbuffer[available] \in Seq(Node)
         /\ BufferSize \in Nat /\ Sectors \in Nat /\ Sectors > 1
  BY BufferSizeAssumption, SectorsAssumption, LenProperties
  DEF Types, TypeOK, Forming, _getOperationBufferID_locked

LEMMA HasOne ==
  ASSUME NEW node \in Node
  PROVE  Has(<< node >>, 1, node.revolution)
  BY DEF Has, OfRevolution

(* The next node of its revolution extends what a scan has.                 *)
LEMMA HasNext ==
  ASSUME NEW b \in Seq(Node), Len(b) <= BufferSize, SyncIsFirst(b), NEW node \in Node, ~ StartsScan(node),
         NEW n \in Nat, n < BufferSize, Has(b, n, node.revolution)
  PROVE  Has(IF b = << >> THEN << >> ELSE Stored(b, node), n + 1, node.revolution)
<1>1. CASE b = << >>
  BY <1>1 DEF Has
<1>2. CASE b # << >>
  <2> DEFINE s == Stored(b, node)
  <2>1. Len(b) = n /\ OfRevolution(b, node.revolution)
    BY <1>2 DEF Has
  <2>2. /\ Len(s) = n + 1 /\ s[n + 1] = node /\ \A k \in 1 .. n : s[k] = b[k]
    BY <1>2, <2>1, Storing
  <2> HIDE DEF s
  <2>3. OfRevolution(s, node.revolution)
    BY <2>1, <2>2 DEF OfRevolution
  <2> QED
    BY <1>2, <2>2, <2>3 DEF Has, s
<1> QED
  BY <1>1, <1>2

(* A scan that has all nodes of a revolution is complete.                   *)
LEMMA HasAll ==
  ASSUME NEW b \in Seq(Node), b # << >>, NEW r, Has(b, NodesPerScan, r)
  PROVE  IsComplete(b)
<1>1. Len(b) \in Nat /\ Len(b) > 0
  BY EmptySeq
<1> QED
  BY <1>1 DEF Has, OfRevolution, IsComplete

(* A decoded node that leaves the available scan alone leaves it complete,   *)
(* and one that finishes a scan makes a complete one available.             *)
Complete == available >= 0 => IsComplete(_scanbuffer[available])

LEMMA SyncCompletes ==
  ASSUME Types, Complete, UNCHANGED capsules, NEW node \in Node,
         Finishes(node) \/ (Forming = << >> /\ GoesOn(<< node >>)),
         NEW r, Has(Forming, NodesPerScan, r)
  PROVE  Complete' /\ Has(Forming', 1, node.revolution)
<1>1. Forming' = << node >>
  BY DEF Finishes, GoesOn
<1>2. NodesPerScan' = NodesPerScan
  BY DEF NodesPerScan
<1>3. CASE Finishes(node)
  <2>1. IsComplete(Forming) /\ _scanbuffer'[available'] = Forming
    BY <1>3, FormingType, HasAll DEF Finishes
  <2>2. IsComplete(_scanbuffer[available])'
    BY <1>2, <2>1 DEF IsComplete, OfRevolution
  <2> QED
    BY <1>1, <2>2, HasOne DEF Complete
<1>4. CASE GoesOn(<< node >>)
  <2>1. Complete'
    BY <1>2, <1>4 DEF GoesOn, Complete, IsComplete, OfRevolution
  <2> QED
    BY <1>1, <2>1, HasOne
<1> QED
  BY <1>3, <1>4

LEMMA OtherKeepsComplete ==
  ASSUME Complete, UNCHANGED << capsules, available >>,
         available >= 0 => _scanbuffer'[available] = _scanbuffer[available]
  PROVE  Complete'
  BY DEF Complete, IsComplete, OfRevolution, NodesPerScan

LEMMA NodePublished ==
  ASSUME IInv, onHQNodeDecoded, BufferSize > Sectors, ~lost, scanning, ~capsules
  PROVE  Complete' /\ FormedByNodes'
<1>0. Types /\ ScansStartOnce /\ Complete /\ FormedByNodes
  BY DEF IInv, ScansAreComplete, Complete
<1>1. /\ publishing # << >> /\ publishing' = Tail(publishing) /\ UNCHANGED << sensorVars, previous >>
      /\ pushScanNodeData(Head(publishing))
  BY DEF onHQNodeDecoded
<1>2. PICK c \in Capsule :
        /\ turn = Following(c) /\ publishing = << NodeOf(c, c.sector = 0) >>
        /\ IF c.sector = 0 THEN \E r \in 0 .. Revolutions - 1 : Has(Forming, Sectors, r)
                           ELSE Has(Forming, c.sector, c.revolution)
  BY <1>0, <1>1 DEF FormedByNodes
<1> DEFINE node == NodeOf(c, c.sector = 0)
<1>3. node \in Node /\ node.revolution = c.revolution /\ StartsScan(node) = (c.sector = 0)
  BY NodeOfCapsule
<1>4. publishing = << node >>
  BY <1>2
<1> HIDE DEF node
<1>5. Head(publishing) = node /\ publishing' = << >>
  BY <1>1, <1>4
<1>6. /\ StartsScan(node) => Finishes(node) \/ (Forming = << >> /\ GoesOn(<< node >>))
      /\ ~ StartsScan(node) => GoesOn(IF Forming = << >> THEN << >> ELSE Stored(Forming, node))
  BY <1>0, <1>1, <1>3, <1>5, Pushing
<1>7. c.sector \in 0 .. Sectors - 1 /\ turn' = turn /\ capsules' = capsules
  BY <1>1 DEF Capsule, sensorVars
<1>8. CASE c.sector = 0
  <2>1. PICK r \in 0 .. Revolutions - 1 : Has(Forming, NodesPerScan, r)
    BY <1>2, <1>8 DEF NodesPerScan
  <2>2. Complete' /\ Has(Forming', 1, c.revolution)
    <3>1. StartsScan(node)
      BY <1>3, <1>8
    <3>2. Complete' /\ Has(Forming', 1, node.revolution)
      BY <1>0, <1>3, <1>6, <1>7, <2>1, <3>1, SyncCompletes
    <3> QED BY <1>3, <3>2
  <2>3. Has(Forming', c.sector + 1, c.revolution)
    BY <1>8, <2>2
  <2> QED
    BY <1>2, <1>5, <1>7, <2>2, <2>3 DEF FormedByNodes
<1>9. CASE c.sector # 0
  <2>1. ~ StartsScan(node) /\ Has(Forming, c.sector, node.revolution)
    BY <1>2, <1>3, <1>9
  <2>2. GoesOn(IF Forming = << >> THEN << >> ELSE Stored(Forming, node))
    BY <1>6, <2>1
  <2>3. Complete'
    BY <1>0, <1>7, <2>2, OtherKeepsComplete DEF GoesOn
  <2>4. SyncIsFirst(Forming)
    BY <1>0 DEF Types, TypeOK, ScansStartOnce, Forming, _getOperationBufferID_locked
  <2>5. c.sector \in Nat /\ c.sector < BufferSize
    BY <1>0, <1>7, FormingType
  <2>6. Has(Forming', c.sector + 1, c.revolution)
    <3>1. Has(IF Forming = << >> THEN << >> ELSE Stored(Forming, node), c.sector + 1, node.revolution)
      BY <1>0, <1>3, <2>1, <2>4, <2>5, FormingType, HasNext
    <3> QED BY <1>3, <2>2, <3>1 DEF GoesOn
  <2> QED
    BY <1>2, <1>5, <1>7, <2>3, <2>6 DEF FormedByNodes
<1> QED
  BY <1>8, <1>9

LEMMA CapsulePublished ==
  ASSUME IInv, onHQNodeDecoded, BufferSize > Sectors, ~lost, scanning, capsules, ~first
  PROVE  Complete' /\ FormedByCapsules'
<1>0. Types /\ ScansStartOnce /\ Complete /\ FormedByCapsules
  BY DEF IInv, ScansAreComplete, Complete
<1>1. /\ publishing # << >> /\ publishing' = Tail(publishing) /\ UNCHANGED << turn, previous, capsules >>
      /\ pushScanNodeData(Head(publishing))
  BY DEF onHQNodeDecoded, sensorVars
<1>2. PICK p \in Capsule :
        /\ previous = Following(p)
        /\ \/ publishing = CapsuleNodes(p) /\ Has(Forming, p.sector + 1, p.revolution)
           \/ /\ p.sector = Sectors - 1 /\ publishing = << NodeOf(previous, TRUE) >>
              /\ Has(Forming, Sectors + 1, p.revolution)
  BY <1>0, <1>1 DEF FormedByCapsules
<1>3. previous \in Capsule /\ turn = Following(previous)
  BY <1>0 DEF FormedByCapsules
<1>4. p.sector \in 0 .. Sectors - 1 /\ Sectors \in Nat /\ Sectors > 1 /\ BufferSize \in Nat
  BY <1>0, FormingType DEF Capsule
<1>5. CASE publishing = CapsuleNodes(p) /\ Has(Forming, p.sector + 1, p.revolution)
  <2> DEFINE node == NodeOf(p, FALSE)
             sync == NodeOf(previous, TRUE)
  <2>1. node \in Node /\ node.revolution = p.revolution /\ ~ StartsScan(node) /\ sync \in Node
    BY <1>3, NodeOfCapsule
  <2>2. publishing = IF p.sector = Sectors - 1 THEN << node, sync >> ELSE << node >>
    BY <1>2, <1>5 DEF CapsuleNodes
  <2> HIDE DEF node, sync
  <2>3. Head(publishing) = node /\ publishing' = IF p.sector = Sectors - 1 THEN << sync >> ELSE << >>
    BY <1>1, <2>1, <2>2
  <2>4. GoesOn(IF Forming = << >> THEN << >> ELSE Stored(Forming, node))
    BY <1>0, <1>1, <2>1, <2>3, Pushing
  <2>5. Complete'
    BY <1>0, <1>1, <2>4, OtherKeepsComplete DEF GoesOn
  <2>6. SyncIsFirst(Forming)
    BY <1>0 DEF Types, TypeOK, ScansStartOnce, Forming, _getOperationBufferID_locked
  <2>7. Has(Forming', p.sector + 2, p.revolution)
    <3>1. Has(Forming, p.sector + 1, node.revolution) /\ p.sector + 1 \in Nat /\ p.sector + 1 < BufferSize
      BY <1>4, <1>5, <2>1
    <3>2. Has(IF Forming = << >> THEN << >> ELSE Stored(Forming, node), (p.sector + 1) + 1, node.revolution)
      BY <1>0, <2>1, <2>6, <3>1, FormingType, HasNext
    <3>3. (p.sector + 1) + 1 = p.sector + 2
      BY <1>4
    <3> QED BY <2>1, <2>4, <3>2, <3>3 DEF GoesOn
  <2>8. CASE p.sector = Sectors - 1
    <3>1. p.sector + 2 = Sectors + 1
      BY <1>4, <2>8
    <3>2. publishing' = << NodeOf(previous, TRUE) >> /\ Has(Forming', Sectors + 1, p.revolution)
      BY <2>3, <2>7, <2>8, <3>1 DEF sync
    <3> QED
      BY <1>1, <1>2, <1>3, <2>5, <2>8, <3>2 DEF FormedByCapsules
  <2>9. CASE p.sector # Sectors - 1
    <3>1. previous.sector = p.sector + 1 /\ previous.revolution = p.revolution
      BY <1>2, <1>4, <2>9, FollowingCapsule
    <3>2. previous.sector + 1 = p.sector + 2
      BY <1>4, <3>1
    <3>3. publishing' = << >> /\ Has(Forming', previous.sector + 1, previous.revolution)
      BY <2>3, <2>7, <2>9, <3>1, <3>2
    <3> QED
      BY <1>1, <1>3, <2>5, <3>3 DEF FormedByCapsules
  <2> QED
    BY <2>8, <2>9
<1>6. CASE /\ p.sector = Sectors - 1 /\ publishing = << NodeOf(previous, TRUE) >>
           /\ Has(Forming, Sectors + 1, p.revolution)
  <2> DEFINE sync == NodeOf(previous, TRUE)
  <2>1. sync \in Node /\ sync.revolution = previous.revolution /\ StartsScan(sync)
    BY <1>3, NodeOfCapsule
  <2>2. publishing = << sync >>
    BY <1>6
  <2> HIDE DEF sync
  <2>3. Head(publishing) = sync /\ publishing' = << >>
    BY <1>1, <2>1, <2>2
  <2>4. Finishes(sync) \/ (Forming = << >> /\ GoesOn(<< sync >>))
    BY <1>0, <1>1, <2>1, <2>3, Pushing
  <2>5. Has(Forming, NodesPerScan, p.revolution)
    BY <1>6 DEF NodesPerScan
  <2>6. Complete' /\ Has(Forming', 1, sync.revolution)
    BY <1>0, <1>1, <2>1, <2>4, <2>5, SyncCompletes
  <2>7. previous.sector = 0
    BY <1>2, <1>6, FollowingCapsule
  <2>8. Has(Forming', previous.sector + 1, previous.revolution)
    BY <2>1, <2>6, <2>7
  <2> QED
    BY <1>1, <1>3, <2>3, <2>6, <2>8 DEF FormedByCapsules
<1> QED
  BY <1>2, <1>5, <1>6

(* A capsule or a node comes in.                                            *)
LEMMA FirstArrives ==
  ASSUME IInv, Complete, FirstCapsuleArrives
  PROVE  Complete' /\ FormedByCapsules' /\ capsules'
<1>0. Types
  BY DEF IInv
<1>1. /\ capsules /\ UNCHANGED << capsules, available >> /\ rewindCurrentScanData
      /\ previous' = turn /\ turn' = Following(turn) /\ publishing' = << >>
  BY DEF FirstCapsuleArrives, Arrives, _onScanNodeCapsuleData
<1>2. Forming' = << >> /\ (available >= 0 => _scanbuffer'[available] = _scanbuffer[available])
  BY <1>0, <1>1, Rewinding
<1>3. Complete'
  BY <1>1, <1>2, OtherKeepsComplete
<1>4. Has(Forming', turn.sector + 1, turn.revolution) /\ turn \in Capsule
  BY <1>0, <1>2 DEF Has, Types, TypeOK
<1> QED
  BY <1>1, <1>3, <1>4 DEF FormedByCapsules

LEMMA HolderKept ==
  ASSUME Complete, UNCHANGED << capsules, holderVars >>
  PROVE  Complete' /\ Forming' = Forming
  BY OtherKeepsComplete DEF holderVars, Forming, _getOperationBufferID_locked

LEMMA NextArrives ==
  ASSUME IInv, Complete, FormedByCapsules, CapsuleArrives
  PROVE  Complete' /\ FormedByCapsules' /\ capsules'
<1>0. Types /\ previous \in Capsule /\ turn = Following(previous)
  BY DEF IInv, FormedByCapsules
<1>1. /\ capsules /\ UNCHANGED << capsules, holderVars >> /\ publishing = << >>
      /\ previous' = turn /\ turn' = Following(turn)
      /\ publishing' = IF previous # << >> THEN CapsuleNodes(previous) ELSE << >>
  BY DEF CapsuleArrives, Arrives, _onScanNodeCapsuleData
<1>2. previous # << >>
  BY <1>0 DEF Capsule
<1>3. Complete' /\ Forming' = Forming
  BY <1>1, HolderKept
<1>4. \A p \in Capsule : CapsuleNodes(p) # << >> /\ << NodeOf(turn, TRUE) >> # << >>
  BY DEF CapsuleNodes
<1>5. Has(Forming, previous.sector + 1, previous.revolution)
  <2>1. publishing = << >> => ~ \E p \in Capsule :
          \/ publishing = CapsuleNodes(p)
          \/ publishing = << NodeOf(previous, TRUE) >>
    BY <1>4
  <2> QED
    BY <1>1, <2>1 DEF FormedByCapsules
<1>6. publishing' = CapsuleNodes(previous) /\ turn \in Capsule
  BY <1>0, <1>1, <1>2 DEF Types, TypeOK
<1> QED
  BY <1>0, <1>1, <1>3, <1>5, <1>6 DEF FormedByCapsules

LEMMA OneNodeArrives ==
  ASSUME IInv, Complete, FormedByNodes, NodeArrives
  PROVE  Complete' /\ FormedByNodes' /\ ~capsules'
<1>0. Types /\ turn \in Capsule
  BY DEF IInv, Types, TypeOK
<1>1. /\ ~capsules /\ UNCHANGED << capsules, holderVars >> /\ publishing = << >>
      /\ turn' = Following(turn) /\ publishing' = << NodeOf(turn, turn.sector = 0) >>
  BY DEF NodeArrives, Arrives
<1>2. Complete' /\ Forming' = Forming
  BY <1>1, HolderKept
<1>3. IF turn.sector = 0 THEN \E r \in 0 .. Revolutions - 1 : Has(Forming, Sectors, r)
                         ELSE Has(Forming, turn.sector, turn.revolution)
  <2>1. CASE Forming = << >>
    BY <2>1, RevolutionsAssumption DEF Has
  <2>2. CASE Forming # << >>
    <3>1. PICK c \in Capsule : turn = Following(c) /\ Has(Forming, c.sector + 1, c.revolution)
      BY <1>1, <2>2 DEF FormedByNodes
    <3>2. c.sector \in 0 .. Sectors - 1 /\ c.revolution \in 0 .. Revolutions - 1 /\ Sectors \in Nat /\ Sectors > 1
      BY <1>0, FormingType DEF Capsule
    <3>3. CASE c.sector = Sectors - 1
      <4>1. turn.sector = 0 /\ c.sector + 1 = Sectors
        BY <3>1, <3>2, <3>3, FollowingCapsule
      <4> QED
        BY <3>1, <3>2, <4>1
    <3>4. CASE c.sector # Sectors - 1
      <4>1. turn.sector = c.sector + 1 /\ turn.revolution = c.revolution /\ turn.sector # 0
        BY <3>1, <3>2, <3>4, FollowingCapsule
      <4> QED
        BY <3>1, <4>1
    <3> QED
      BY <3>3, <3>4
  <2> QED
    BY <2>1, <2>2
<1> QED
  BY <1>0, <1>1, <1>2, <1>3 DEF FormedByNodes

LEMMA CompleteStep == IInv /\ [Next]_vars => ScansAreComplete'
<1> SUFFICES ASSUME IInv, [Next]_vars, BufferSize > Sectors, ~lost'
             PROVE  /\ Complete'
                    /\ scanning' /\ ~capsules' => FormedByNodes'
                    /\ scanning' /\ capsules' /\ ~first' => FormedByCapsules'
  BY DEF ScansAreComplete, Complete
<1>0. Types
  BY DEF IInv
<1>1. CASE startScan
  <2>1. available' = -1 /\ publishing' = << >> /\ first' /\ Forming' = << >>
    BY <1>0, <1>1 DEF startScan, Types, Forming, _getOperationBufferID_locked
  <2> QED
    BY <2>1 DEF Complete, FormedByNodes
<1>2. CASE ~ startScan
  <2>0. ~ lost
    BY <1>2 DEF Next, Decoder, FirstCapsuleArrives, CapsuleArrives, NodeArrives, ChecksumFails, stop,
      onHQNodeDecoded, sensorVars, grabScanDataHq, GrabFindsScan, GrabIsWoken, GrabWaits, GrabTimesOut,
      GrabLocks, GrabCopies, GrabReturns, getScanDataWithIntervalHq, decoderVars, vars
  <2>1. /\ Complete
        /\ scanning /\ ~capsules => FormedByNodes
        /\ scanning /\ capsules /\ ~first => FormedByCapsules
    BY <2>0 DEF IInv, ScansAreComplete, Complete
  <2>2. CASE FirstCapsuleArrives
    BY <2>1, <2>2, FirstArrives
  <2>3. CASE CapsuleArrives
    <3>1. scanning /\ capsules /\ ~first
      BY <2>3 DEF CapsuleArrives, Arrives
    <3> QED
      BY <2>1, <2>3, <3>1, NextArrives
  <2>4. CASE NodeArrives
    <3>1. scanning /\ ~capsules
      BY <2>4 DEF NodeArrives, Arrives
    <3> QED
      BY <2>1, <2>4, <3>1, OneNodeArrives
  <2>5. CASE onHQNodeDecoded
    <3>1. scanning /\ ~first /\ UNCHANGED << scanning, first, capsules >>
      BY <1>0, <2>5 DEF onHQNodeDecoded, sensorVars, Types
    <3>2. CASE capsules
      BY <2>0, <2>5, <3>1, <3>2, CapsulePublished
    <3>3. CASE ~capsules
      BY <2>0, <2>5, <3>1, <3>3, NodePublished
    <3> QED
      BY <3>2, <3>3
  <2>6. CASE stop
    BY <2>1, <2>6, HolderKept DEF stop
  <2>7. CASE UNCHANGED << decoderVars, _scanbuffer, available >>
    <3>1. Complete'
      BY <2>1, <2>7, OtherKeepsComplete DEF decoderVars, sensorVars
    <3>2. FormedByNodes' = FormedByNodes /\ FormedByCapsules' = FormedByCapsules
      BY <2>7 DEF decoderVars, sensorVars, FormedByNodes, FormedByCapsules, Forming, _getOperationBufferID_locked
    <3>3. UNCHANGED << scanning, capsules, first >>
      BY <2>7 DEF decoderVars, sensorVars
    <3> QED
      BY <2>1, <3>1, <3>2, <3>3
  <2>8. ~ ChecksumFails
    BY DEF ChecksumFails
  <2> QED
    BY <1>2, <2>2, <2>3, <2>4, <2>5, <2>6, <2>7, <2>8 DEF Next, Decoder, grabScanDataHq, GrabFindsScan,
      GrabIsWoken, GrabWaits, GrabTimesOut, GrabLocks, GrabCopies, GrabReturns, getScanDataWithIntervalHq,
      holderVars, vars
<1> QED
  BY <1>1, <1>2
--------------------------------------------------------------------------------
LEMMA Invariant == Spec => []IInv
<1>1. IInv /\ [Next]_vars => IInv'
  BY TypesStep, StartOnceStep, EventStep, CopyStep, CompleteStep DEF IInv
<1> QED
  BY InitHolds, <1>1, PTL DEF Spec

(* The nodes being formed, published and copied are nodes of the lidar and    *)
(* the two buffers are never written beyond their size, whatever comes in     *)
(* and however the threads interleave (sl_lidar_driver.cpp:272-311).         *)
THEOREM ScansStayInBuffer == Spec => []TypeOK
<1>1. IInv => TypeOK
  BY DEF IInv, Types
<1> QED
  BY Invariant, <1>1, PTL

(* What is grabbed starts with the first node of a scan and runs into no     *)
(* other one, losses, restarts and a full buffer included                    *)
(* (sl_lidar_driver.h:421, sl_lidar_driver.cpp:272-341).                     *)
THEOREM GrabbedStartsOnce == Spec => []GrabbedScanStartsOnce
<1>1. IInv => GrabbedScanStartsOnce
  <2> SUFFICES ASSUME IInv PROVE GrabbedScanStartsOnce
    OBVIOUS
  <2>1. SyncIsFirst(nodebuffer) /\ DOMAIN nodebuffer = 1 .. Len(nodebuffer)
    BY LenProperties DEF IInv, Types, TypeOK, ScansStartOnce
  <2> QED
    BY <2>1 DEF SyncIsFirst, GrabbedScanStartsOnce
<1> QED
  BY Invariant, <1>1, PTL

(* What is grabbed without a loss is one whole revolution, in both kinds of  *)
(* format and for every number of capsules, when a revolution fits into the  *)
(* buffer (sl_lidar_driver.h:422, sl_lidar_driver.cpp:272-341,               *)
(* handler_capsules.cpp:205-263).                                            *)
THEOREM GrabbedIsComplete == BufferSize > Sectors => (Spec => []GrabbedScanIsComplete)
<1> SUFFICES ASSUME BufferSize > Sectors PROVE Spec => []GrabbedScanIsComplete
  OBVIOUS
<1>1. IInv => GrabbedScanIsComplete
  <2> SUFFICES ASSUME IInv, grab = "copying", Len(nodebuffer) = Len(_scanbuffer[available]), ~lost
               PROVE  /\ Len(nodebuffer) = NodesPerScan
                      /\ \A k \in DOMAIN nodebuffer : nodebuffer[k].revolution = nodebuffer[1].revolution
    BY DEF GrabbedScanIsComplete
  <2> DEFINE b == _scanbuffer[available]
  <2>1. IsComplete(b)
    BY DEF IInv, ScansAreComplete, EventIsForScan
  <2>2. \A k \in 1 .. Len(nodebuffer) : nodebuffer[k] = b[k]
    BY DEF IInv, CopyIsPrefix
  <2>3. DOMAIN nodebuffer = 1 .. Len(nodebuffer) /\ Len(nodebuffer) \in Nat
    BY LenProperties DEF IInv, Types, TypeOK
  <2> HIDE DEF b
  <2>4. Len(b) = Len(nodebuffer)
    BY DEF b
  <2> QED
    BY <2>1, <2>2, <2>3, <2>4 DEF IsComplete, OfRevolution
<1> QED
  BY Invariant, <1>1, PTL

(* When a wait returns only if the event was set, a grab that woke has a scan *)
(* to lock (the assertion of sl_lidar_driver.cpp:322, hal/event.h:106-180).   *)
THEOREM WokenHasScan == ~Spurious => (Spec => []ScanIsAvailable)
<1> SUFFICES ASSUME ~Spurious PROVE Spec => []ScanIsAvailable
  OBVIOUS
<1>1. IInv => ScanIsAvailable
  BY DEF IInv, EventIsForScan, ScanIsAvailable
<1> QED
  BY Invariant, <1>1, PTL
================================================================================
