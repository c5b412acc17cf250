--------------------------- MODULE ScanSharing_proofs ---------------------------
(***************************************************************************)
(* The inference brakes for distances that were measured, for any number of  *)
(* points, scans and lives of the two processes and in whatever order what   *)
(* the lidar stores becomes visible.                                         *)
(***************************************************************************)
EXTENDS ScanSharing, SequenceTheorems, TLAPS

(* Memory, and stores to it, with distances of D only.                      *)
Memory(D) ==
  [ is_writing : BOOLEAN, total_points : 0 .. MaxPoints,
    angle : [Slot -> Angle], distance : [Slot -> {0} \cup D] ]

StoreOf(D) ==
  [place : {<< "is_writing", 0 >>}, value : BOOLEAN]
    \cup [place : {<< "total_points", 0 >>}, value : 0 .. MaxPoints]
    \cup [place : {"angle"} \X Slot, value : Angle]
    \cup [place : {"distance"} \X Slot, value : D]

(* A segment's memory holds, and the stores under way bring it, what was    *)
(* measured in that segment.                                                *)
MemoryIsMeasured ==
  /\ measured \in [Segment -> SUBSET (1 .. Scans)]
  /\ memory \in [Segment -> Memory(1 .. Scans)]
  /\ \A s \in Segment : memory[s] \in Memory(measured[s])
  /\ stores # << >> => segments # 0
  /\ segments # 0 => stores \in Seq(StoreOf(measured[segments]))

LidarTypes ==
  /\ segments \in 0 .. MaxSegments /\ name \in 0 .. segments
  /\ lidarPc \in {"off", "connect", "grab", "write"}
  /\ lidarPc # "off" => segments # 0
  /\ nodes \in Readings \cup {<< >>} /\ scan \in 1 .. Scans /\ saved_count \in 0 .. MaxPoints

(* What was found was measured in the segment that is open.                 *)
FoundIsMeasured ==
  /\ yoloPc \in {"off", "frame", "check", "angle", "distance", "decide"}
  /\ shared_lidar \in 0 .. MaxSegments /\ i \in 1 .. MaxPoints + 1
  /\ yoloPc = "distance" => i <= MaxPoints
  /\ yoloPc = "off" <=> shared_lidar = 0
  /\ found \notin {-1, 0} => shared_lidar # 0 /\ found \in measured[shared_lidar]

SentIsFound ==
  /\ matched \in BOOLEAN /\ sent \in BOOLEAN
  /\ sent => yoloPc = "frame" /\ found > 0

IInv == MemoryIsMeasured /\ LidarTypes /\ FoundIsMeasured /\ SentIsFound
--------------------------------------------------------------------------------
(* The operators on the memory.                                             *)

(* A store of what was measured leaves a memory of what was measured.       *)
LEMMA ApplyingStore ==
  ASSUME NEW D, NEW m \in Memory(D), NEW store \in StoreOf(D)
  PROVE  Applied(m, store) \in Memory(D)
<1>1. CASE store \in [place : {<< "is_writing", 0 >>}, value : BOOLEAN]
  <2>1. Applied(m, store) = [m EXCEPT !.is_writing = store.value] /\ store.value \in BOOLEAN
    BY <1>1 DEF Applied
  <2> QED BY <2>1 DEF Memory
<1>2. CASE store \in [place : {<< "total_points", 0 >>}, value : 0 .. MaxPoints]
  <2>1. Applied(m, store) = [m EXCEPT !.total_points = store.value] /\ store.value \in 0 .. MaxPoints
    BY <1>2 DEF Applied
  <2> QED BY <2>1 DEF Memory
<1>3. CASE store \in [place : {"angle"} \X Slot, value : Angle]
  <2>1. PICK k \in Slot : store.place = << "angle", k >>
    BY <1>3
  <2>2. Applied(m, store) = [m EXCEPT !.angle[k] = store.value] /\ store.value \in Angle
    BY <1>3, <2>1 DEF Applied
  <2> QED BY <2>1, <2>2 DEF Memory
<1>4. CASE store \in [place : {"distance"} \X Slot, value : D]
  <2>1. PICK k \in Slot : store.place = << "distance", k >>
    BY <1>4
  <2>2. Applied(m, store) = [m EXCEPT !.distance[k] = store.value] /\ store.value \in D
    BY <1>4, <2>1 DEF Applied
  <2> QED BY <2>1, <2>2 DEF Memory
<1> QED
  BY <1>1, <1>2, <1>3, <1>4 DEF StoreOf

(* A store that became visible is no longer under way, the others are.      *)
LEMMA WithoutStore ==
  ASSUME NEW S, stores \in Seq(S), NEW k \in DOMAIN stores
  PROVE  Without(k) \in Seq(S)
<1>1. Len(stores) \in Nat /\ k \in 1 .. Len(stores) /\ \A j \in 1 .. Len(stores) : stores[j] \in S
  BY LenProperties, ElementOfSeq
<1>2. SubSeq(stores, 1, k - 1) \in Seq(S)
  <2>1. 1 \in Int /\ k - 1 \in Int /\ \A j \in 1 .. k - 1 : stores[j] \in S
    BY <1>1
  <2> QED BY <2>1, SubSeqProperties
<1>3. SubSeq(stores, k + 1, Len(stores)) \in Seq(S)
  <2>1. k + 1 \in Int /\ Len(stores) \in Int /\ \A j \in k + 1 .. Len(stores) : stores[j] \in S
    BY <1>1
  <2> QED BY <2>1, SubSeqProperties
<1> QED
  BY <1>2, <1>3, ConcatProperties DEF Without

(* More measured, more memories and stores are of what was measured.        *)
LEMMA MeasuringMore ==
  ASSUME NEW D, NEW E, D \subseteq E
  PROVE  Memory(D) \subseteq Memory(E) /\ Seq(StoreOf(D)) \subseteq Seq(StoreOf(E))
<1>1. Memory(D) \subseteq Memory(E)
  BY DEF Memory
<1>2. StoreOf(D) \subseteq StoreOf(E)
  BY DEF StoreOf
<1> QED
  BY <1>1, <1>2, SeqMonotonic

--------------------------------------------------------------------------------
LEMMA InitHolds == Init => IInv
<1> SUFFICES ASSUME Init PROVE IInv
  OBVIOUS
<1> USE MaxPointsAssumption, ScansAssumption
<1>1. \A D : Fresh \in Memory(D)
  BY DEF Fresh, Memory, Angle
<1>2. MemoryIsMeasured
  BY <1>1 DEF Init, MemoryIsMeasured
<1>3. LidarTypes
  BY DEF Init, LidarTypes
<1>4. FoundIsMeasured
  BY DEF Init, FoundIsMeasured
<1>5. SentIsFound
  BY DEF Init, SentIsFound
<1> QED
  BY <1>2, <1>3, <1>4, <1>5 DEF IInv

(* What a step of the lidar issues is what it measured.                     *)
LEMMA Issuing ==
  ASSUME MemoryIsMeasured, segments \in 1 .. MaxSegments, NEW new \in Seq(StoreOf(measured[segments])),
         Issue(new), UNCHANGED << memory, segments, measured >>
  PROVE  MemoryIsMeasured'
<1>1. stores' \in Seq(StoreOf(measured[segments]))
  BY ConcatProperties DEF MemoryIsMeasured, Issue
<1> QED
  BY <1>1 DEF MemoryIsMeasured

LEMMA MemoryStep == IInv /\ [Next]_vars => MemoryIsMeasured'
<1> SUFFICES ASSUME IInv, [Next]_vars PROVE MemoryIsMeasured'
  OBVIOUS
<1> USE MaxPointsAssumption, ScansAssumption
<1>0. MemoryIsMeasured /\ LidarTypes
  BY DEF IInv
<1>1. CASE UNCHANGED << memory, stores, segments, measured >>
  BY <1>0, <1>1 DEF MemoryIsMeasured
<1>2. CASE StoreAppears
  <2>1. PICK k \in DOMAIN stores :
          /\ memory' = [memory EXCEPT ![segments] = Applied(@, stores[k])]
          /\ stores' = Without(k)
    BY <1>2 DEF StoreAppears
  <2>2. UNCHANGED << segments, measured >>
    BY <1>2 DEF StoreAppears
  <2>3. stores # << >> /\ segments \in Segment
    BY <1>0, <2>1, EmptySeq DEF MemoryIsMeasured, LidarTypes, Segment
  <2> DEFINE D == measured[segments]
  <2>4. stores \in Seq(StoreOf(D)) /\ memory[segments] \in Memory(D) /\ D \subseteq 1 .. Scans
    BY <1>0, <2>3 DEF MemoryIsMeasured, Segment
  <2>5. stores[k] \in StoreOf(D)
    BY <2>1, <2>4, ElementOfSeq, LenProperties
  <2>6. Applied(memory[segments], stores[k]) \in Memory(D) /\ Without(k) \in Seq(StoreOf(D))
    BY <2>4, <2>5, ApplyingStore, WithoutStore
  <2>7. Applied(memory[segments], stores[k]) \in Memory(1 .. Scans)
    BY <2>4, <2>6, MeasuringMore
  <2> QED
    BY <1>0, <2>1, <2>2, <2>3, <2>6, <2>7 DEF MemoryIsMeasured
<1>3. CASE LidarStart
  <2>1. stores' = << >> /\ UNCHANGED << memory, measured >> /\ segments' # 0
    BY <1>0, <1>3 DEF LidarStart, LidarTypes
  <2> QED
    BY <1>0, <2>1, EmptySeq DEF MemoryIsMeasured
<1>4. CASE LidarGrabs
  <2>1. segments \in 1 .. MaxSegments /\ Issue(<< Store("is_writing", 0, TRUE) >>)
        /\ UNCHANGED << memory, segments, measured >>
    BY <1>0, <1>4 DEF LidarGrabs, LidarTypes
  <2> DEFINE w == Store("is_writing", 0, TRUE)
  <2>2. w \in StoreOf(measured[segments])
    BY DEF Store, StoreOf
  <2> HIDE DEF w
  <2>3. << w >> \in Seq(StoreOf(measured[segments]))
    BY <2>2
  <2> QED
    BY <1>0, <2>1, <2>3, Issuing DEF w
<1>5. CASE LidarFinishes
  <2>1. segments \in 1 .. MaxSegments
        /\ Issue(<< Store("total_points", 0, saved_count), Store("is_writing", 0, FALSE) >>)
        /\ UNCHANGED << memory, segments, measured >>
    BY <1>0, <1>5 DEF LidarFinishes, LidarTypes
  <2> DEFINE t == Store("total_points", 0, saved_count)
             w == Store("is_writing", 0, FALSE)
  <2>2. t \in StoreOf(measured[segments]) /\ w \in StoreOf(measured[segments])
    BY <1>0 DEF Store, StoreOf, LidarTypes
  <2> HIDE DEF t, w
  <2>3. << t, w >> \in Seq(StoreOf(measured[segments]))
    BY <2>2
  <2> QED
    BY <1>0, <2>1, <2>3, Issuing DEF t, w
<1>6. CASE LidarSavesPoint
  <2> DEFINE a == Store("angle", saved_count + 1, nodes[saved_count + 1])
             d == Store("distance", saved_count + 1, scan)
             D == measured'[segments]
  <2>1. /\ segments \in Segment /\ UNCHANGED << memory, segments >>
        /\ measured' = [measured EXCEPT ![segments] = @ \cup {scan}]
        /\ stores' = stores \o << a, d >>
        /\ scan \in 1 .. Scans /\ saved_count + 1 \in Slot
    BY <1>0, <1>6 DEF LidarSavesPoint, LidarTypes, Segment, Slot, Issue
  <2>2. /\ measured' \in [Segment -> SUBSET (1 .. Scans)] /\ scan \in D
        /\ \A s \in Segment : measured[s] \subseteq measured'[s]
    BY <1>0, <2>1 DEF MemoryIsMeasured
  <2>3. \A s \in Segment : memory[s] \in Memory(measured'[s])
    BY <1>0, <2>2, MeasuringMore DEF MemoryIsMeasured
  <2>4. stores \in Seq(StoreOf(D))
    <3>1. stores \in Seq(StoreOf(measured[segments])) /\ measured[segments] \subseteq D
      BY <1>0, <2>1, <2>2 DEF MemoryIsMeasured, Segment
    <3> QED BY <3>1, MeasuringMore
  <2>5. nodes[saved_count + 1] \in Angle
    <3>1. nodes \in Seq(Angle)
      BY <1>0, ReadingsAssumption, EmptySeq DEF LidarTypes, Angle
    <3>2. saved_count + 1 \in 1 .. Len(nodes)
      BY <1>0, <1>6, <3>1, LenProperties DEF LidarSavesPoint, LidarTypes
    <3> QED BY <3>1, <3>2, ElementOfSeq
  <2>6. a \in StoreOf(D) /\ d \in StoreOf(D)
    BY <2>1, <2>2, <2>5 DEF Store, StoreOf
  <2>7. << a, d >> \in Seq(StoreOf(D))
    <3> HIDE DEF a, d, D
    <3> QED BY <2>6
  <2>8. stores' \in Seq(StoreOf(D))
    BY <2>1, <2>4, <2>7, ConcatProperties
  <2>9. segments' = segments /\ memory' = memory /\ segments # 0
    BY <2>1 DEF Segment
  <2> HIDE DEF D
  <2>10. \A s \in Segment : memory'[s] \in Memory(measured'[s])
    BY <2>3, <2>9
  <2>11. stores' \in Seq(StoreOf(measured'[segments']))
    BY <2>8, <2>9 DEF D
  <2> QED
    BY <1>0, <2>2, <2>9, <2>10, <2>11 DEF MemoryIsMeasured
<1> QED
  BY <1>1, <1>2, <1>3, <1>4, <1>5, <1>6 DEF Next, Lidar, LidarConnects, LidarDies, LidarInterrupted,
    YoloOpens, YoloEnds, Yolo, YoloDetects, YoloChecksFree, YoloChecksBusy, YoloTakesPoint, YoloPassesPoint,
    YoloReadsDistance, YoloReadsAll, YoloDecides, vars

LEMMA LidarStep == IInv /\ [Next]_vars => LidarTypes'
<1> SUFFICES ASSUME LidarTypes, [Next]_vars PROVE LidarTypes'
  BY DEF IInv
<1> USE MaxPointsAssumption, ScansAssumption DEF LidarTypes
<1>1. CASE LidarStart
  BY <1>1 DEF LidarStart
<1>2. CASE LidarConnects \/ LidarDies \/ LidarInterrupted
  BY <1>2 DEF LidarConnects, LidarDies, LidarInterrupted
<1>3. CASE LidarGrabs
  BY <1>3 DEF LidarGrabs
<1>4. CASE LidarSavesPoint
  BY <1>4 DEF LidarSavesPoint
<1>5. CASE LidarFinishes
  BY <1>5 DEF LidarFinishes
<1>6. CASE StoreAppears \/ YoloOpens \/ YoloEnds \/ Yolo \/ UNCHANGED vars
  BY <1>6 DEF StoreAppears, YoloOpens, YoloEnds, Yolo, YoloDetects, YoloChecksFree, YoloChecksBusy,
    YoloTakesPoint, YoloPassesPoint, YoloReadsDistance, YoloReadsAll, YoloDecides, vars, lidarVars
<1> QED
  BY <1>1, <1>2, <1>3, <1>4, <1>5, <1>6 DEF Next, Lidar

(* What was measured stays measured.                                        *)
LEMMA MeasuredGrows ==
  IInv /\ [Next]_vars => \A s \in Segment : measured[s] \subseteq measured'[s]
<1> SUFFICES ASSUME IInv, [Next]_vars PROVE \A s \in Segment : measured[s] \subseteq measured'[s]
  OBVIOUS
<1>1. CASE LidarSavesPoint
  BY <1>1 DEF LidarSavesPoint, IInv, MemoryIsMeasured
<1>2. CASE UNCHANGED measured
  BY <1>2
<1> QED
  BY <1>1, <1>2 DEF Next, StoreAppears, Lidar, LidarStart, LidarConnects, LidarGrabs, LidarFinishes,
    LidarDies, LidarInterrupted, YoloOpens, YoloEnds, Yolo, YoloDetects, YoloChecksFree, YoloChecksBusy,
    YoloTakesPoint, YoloPassesPoint, YoloReadsDistance, YoloReadsAll, YoloDecides, vars

LEMMA FoundStep == IInv /\ [Next]_vars => FoundIsMeasured'
<1> SUFFICES ASSUME IInv, [Next]_vars PROVE FoundIsMeasured'
  OBVIOUS
<1> USE MaxPointsAssumption, ScansAssumption
<1>0. /\ FoundIsMeasured /\ LidarTypes
      /\ \A s \in Segment : measured[s] \subseteq measured'[s]
  BY MeasuredGrows DEF IInv
<1>1. yoloPc # "off" => /\ shared_lidar \in Segment /\ Shared.total_points \in 0 .. MaxPoints
                       /\ \A k \in Slot : Shared.distance[k] \in {0} \cup measured[shared_lidar]
  <2> SUFFICES ASSUME yoloPc # "off"
               PROVE  /\ shared_lidar \in Segment /\ Shared.total_points \in 0 .. MaxPoints
                      /\ \A k \in Slot : Shared.distance[k] \in {0} \cup measured[shared_lidar]
    OBVIOUS
  <2>1. shared_lidar \in Segment
    BY <1>0 DEF FoundIsMeasured, Segment
  <2>2. Shared \in Memory(measured[shared_lidar])
    BY <2>1 DEF IInv, MemoryIsMeasured, Shared
  <2> QED
    BY <2>1, <2>2 DEF Memory
<1>2. CASE UNCHANGED yoloVars
  BY <1>0, <1>2 DEF FoundIsMeasured, yoloVars, Segment
<1>3. CASE YoloOpens
  BY <1>0, <1>3 DEF YoloOpens, FoundIsMeasured, LidarTypes, Segment
<1>4. CASE YoloEnds \/ YoloDetects
  BY <1>0, <1>4 DEF YoloEnds, YoloDetects, FoundIsMeasured, Segment
<1>5. CASE YoloChecksFree \/ YoloChecksBusy \/ YoloReadsAll
  BY <1>0, <1>5 DEF YoloChecksFree, YoloChecksBusy, YoloReadsAll, FoundIsMeasured
<1>6. CASE YoloDecides
  BY <1>0, <1>6 DEF YoloDecides, FoundIsMeasured
<1>7. CASE YoloTakesPoint
  BY <1>0, <1>1, <1>7 DEF YoloTakesPoint, FoundIsMeasured
<1>8. CASE YoloPassesPoint
  BY <1>0, <1>1, <1>8 DEF YoloPassesPoint, FoundIsMeasured
<1>9. CASE YoloReadsDistance
  <2>1. i \in Slot /\ found' = Shared.distance[i] /\ i' = i + 1 /\ yoloPc' = "angle"
        /\ UNCHANGED << shared_lidar, sent, measured >>
    BY <1>0, <1>9 DEF YoloReadsDistance, FoundIsMeasured, Slot
  <2>2. shared_lidar # 0 /\ found' \in {0} \cup measured[shared_lidar]
    BY <1>0, <1>1, <1>9, <2>1 DEF YoloReadsDistance, FoundIsMeasured
  <2> QED
    BY <1>0, <2>1, <2>2 DEF FoundIsMeasured, Slot
<1> QED
  BY <1>2, <1>3, <1>4, <1>5, <1>6, <1>7, <1>8, <1>9 DEF Next, StoreAppears, Lidar, LidarStart, LidarConnects,
    LidarGrabs, LidarSavesPoint, LidarFinishes, LidarDies, LidarInterrupted, Yolo, vars

LEMMA SentStep == IInv /\ [Next]_vars => SentIsFound'
<1> SUFFICES ASSUME SentIsFound, [Next]_vars PROVE SentIsFound'
  BY DEF IInv
<1>1. CASE UNCHANGED << yoloPc, found, matched, sent >>
  BY <1>1 DEF SentIsFound
<1>2. CASE YoloOpens \/ YoloChecksFree \/ YoloChecksBusy \/ YoloTakesPoint \/ YoloPassesPoint \/ YoloReadsAll
  BY <1>2 DEF YoloOpens, YoloChecksFree, YoloChecksBusy, YoloTakesPoint, YoloPassesPoint, YoloReadsAll, SentIsFound
<1>3. CASE YoloEnds \/ YoloDetects
  BY <1>3 DEF YoloEnds, YoloDetects, SentIsFound
<1>4. CASE YoloReadsDistance
  BY <1>4 DEF YoloReadsDistance, SentIsFound
<1>5. CASE YoloDecides
  <2>1. sent' = (found > 0) /\ yoloPc' = "frame" /\ UNCHANGED << found, matched >>
    BY <1>5 DEF YoloDecides
  <2>2. CASE found > 0
    BY <2>1, <2>2 DEF SentIsFound
  <2>3. CASE ~ (found > 0)
    BY <2>1, <2>3 DEF SentIsFound
  <2> QED BY <2>2, <2>3
<1> QED
  BY <1>1, <1>2, <1>3, <1>4, <1>5 DEF Next, StoreAppears, Lidar, LidarStart, LidarConnects,
    LidarGrabs, LidarSavesPoint, LidarFinishes, LidarDies, LidarInterrupted, Yolo, yoloVars, vars

LEMMA Invariant == Spec => []IInv
<1>1. IInv /\ [Next]_vars => IInv'
  BY MemoryStep, LidarStep, FoundStep, SentStep DEF IInv
<1> QED
  BY <1>1, InitHolds, PTL DEF Spec

(* No point beyond the array is stored, or loaded, whatever the lidar and    *)
(* the inference find in the memory (Lidar.cpp:159-175;                      *)
(* yoloInference.cpp:562-585).                                               *)
THEOREM PointsStayInArray == Spec => []TypeOK
<1>1. IInv => TypeOK
  <2> SUFFICES ASSUME IInv PROVE TypeOK
    OBVIOUS
  <2> USE MaxPointsAssumption, ScansAssumption
  <2>1. memory \in [Segment -> Memory(1 .. Scans)] /\ measured \in [Segment -> SUBSET (1 .. Scans)]
    BY DEF IInv, MemoryIsMeasured
  <2>2. memory \in [Segment -> [ is_writing : BOOLEAN, total_points : 0 .. MaxPoints,
                                 angle : [Slot -> Angle], distance : [Slot -> Distance] ]]
    <3>1. Memory(1 .. Scans) \subseteq [ is_writing : BOOLEAN, total_points : 0 .. MaxPoints,
                                        angle : [Slot -> Angle], distance : [Slot -> Distance] ]
      BY DEF Memory, Distance
    <3> QED BY <2>1, <3>1
  <2>3. \A k \in DOMAIN stores : stores[k].place \in Place
    <3> SUFFICES ASSUME NEW k \in DOMAIN stores PROVE stores[k].place \in Place
      OBVIOUS
    <3>1. segments # 0 /\ stores \in Seq(StoreOf(measured[segments]))
      BY EmptySeq DEF IInv, MemoryIsMeasured
    <3>2. stores[k] \in StoreOf(measured[segments])
      BY <3>1, ElementOfSeq, LenProperties
    <3> QED BY <3>2 DEF StoreOf, Place
  <2>4. found \in Distance \cup {-1}
    BY <2>1 DEF IInv, FoundIsMeasured, Segment, Distance
  <2> QED
    BY <2>1, <2>2, <2>3, <2>4 DEF IInv, LidarTypes, FoundIsMeasured, SentIsFound, TypeOK
<1> QED
  BY <1>1, Invariant, PTL

(* The inference asks for the brake only with a distance that was measured   *)
(* in the segment it opened, in whatever order stores become visible and     *)
(* however often both processes die and start again (Lidar.cpp:156-175;      *)
(* yoloInference.cpp:562-585).                                               *)
THEOREM BrakesOnlyForMeasured == Spec => []BrakesForMeasured
<1>1. IInv => BrakesForMeasured
  BY DEF IInv, FoundIsMeasured, SentIsFound, BrakesForMeasured
<1> QED
  BY <1>1, Invariant, PTL

================================================================================
