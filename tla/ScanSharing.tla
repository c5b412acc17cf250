------------------------------- MODULE ScanSharing -------------------------------
(***************************************************************************)
(* The shared memory between Jetson/Lidar.cpp, which writes each scan into  *)
(* it, and Jetson/yoloInference.cpp, which looks up the distance of what    *)
(* the camera detected (layout in Jetson/SharedBuffer.h).                   *)
(*                                                                          *)
(* is_writing is a plain bool and nothing orders the accesses, a data race. *)
(* What the build for the Jetson's ARM cores can produce is: the stores of  *)
(* the writer become visible one by one, in any order but for two stores to *)
(* the same place.                                                          *)
(*                                                                          *)
(* A point is near when its angle is within the matching tolerance of the   *)
(* detection; a distance is the number of the scan that measured it (modulo *)
(* Scans, from 1).  Memory nobody wrote holds angle 0, which is near to a   *)
(* detection straight ahead, and distance 0.                                *)
(***************************************************************************)
EXTENDS Integers, Sequences

CONSTANTS MaxPoints,     \* MAX_LIDAR_POINTS
          Readings,      \* what a scan may hold: sequences over {"near", "far"}
          Scans,         \* bound: how many scans are told apart
          MaxSegments,   \* bound: how often the lidar process is started
          Faults         \* whether the lidar process may end and be started again

ASSUME MaxPointsAssumption == MaxPoints \in Nat \ {0}
ASSUME ReadingsAssumption == Readings \subseteq Seq({"near", "far"})
ASSUME ScansAssumption == Scans \in Nat \ {0} /\ MaxSegments \in Nat \ {0}
ASSUME FaultsAssumption == Faults \in BOOLEAN

VARIABLES memory,      \* per segment, what the reader would load
          stores,      \* stores of the writer that are not visible yet
          name,        \* the segment SHM_SEGMENT_NAME refers to, 0 for none
          segments,    \* how many segments were created
          lidarPc, nodes, scan, saved_count,       \* the lidar process
          yoloPc, shared_lidar, i, found, matched, \* the inference process
          sent,        \* a brake message was written for this frame
          measured     \* history: per segment, the distances the lidar saved in it

lidarVars == << lidarPc, nodes, scan, saved_count >>
yoloVars == << yoloPc, shared_lidar, i, found, matched, sent >>
vars == << memory, stores, name, segments, lidarVars, yoloVars, measured >>

Segment == 1 .. MaxSegments
Slot == 1 .. MaxPoints
Angle == {"near", "far"}
Distance == 0 .. Scans
Place == ({"is_writing", "total_points"} \X {0}) \cup ({"angle", "distance"} \X Slot)

(* SharedDataBuffer() is all zeros. *)
Fresh == [ is_writing |-> FALSE, total_points |-> 0,
           angle |-> [s \in Slot |-> "near"], distance |-> [s \in Slot |-> 0] ]

TypeOK ==
  /\ memory \in [Segment -> [ is_writing : BOOLEAN, total_points : 0 .. MaxPoints,
                              angle : [Slot -> Angle], distance : [Slot -> Distance] ]]
  /\ \A k \in DOMAIN stores : stores[k].place \in Place
  /\ name \in 0 .. MaxSegments /\ segments \in 0 .. MaxSegments
  /\ lidarPc \in {"off", "connect", "grab", "write"}
  /\ nodes \in Readings \cup {<< >>} /\ scan \in 1 .. Scans /\ saved_count \in 0 .. MaxPoints
  /\ yoloPc \in {"off", "frame", "check", "angle", "distance", "decide"}
  /\ shared_lidar \in 0 .. MaxSegments
  /\ i \in 1 .. MaxPoints + 1 /\ found \in Distance \cup {-1} /\ matched \in BOOLEAN /\ sent \in BOOLEAN
  /\ measured \in [Segment -> SUBSET (1 .. Scans)]

Init ==
  /\ memory = [s \in Segment |-> Fresh]
  /\ stores = << >>
  /\ name = 0 /\ segments = 0
  /\ lidarPc = "off" /\ nodes = << >> /\ scan = 1 /\ saved_count = 0
  /\ yoloPc = "off" /\ shared_lidar = 0 /\ i = 1 /\ found = -1 /\ matched = FALSE /\ sent = FALSE
  /\ measured = [s \in Segment |-> {}]

--------------------------------------------------------------------------------
(* The memory. *)
Store(field, slot, value) == [place |-> << field, slot >>, value |-> value]

Issue(new) == stores' = stores \o new

(* A store becomes visible once those before it to the same place are. *)
MayAppear(k) == \A j \in 1 .. k - 1 : stores[j].place # stores[k].place

Without(k) == SubSeq(stores, 1, k - 1) \o SubSeq(stores, k + 1, Len(stores))

Applied(m, store) ==
  LET field == store.place[1]
  IN IF field \in {"is_writing", "total_points"}
       THEN [m EXCEPT ![field] = store.value]
       ELSE [m EXCEPT ![field][store.place[2]] = store.value]

StoreAppears ==
  /\ \E k \in DOMAIN stores :
       /\ MayAppear(k)
       /\ memory' = [memory EXCEPT ![segments] = Applied(@, stores[k])]
       /\ stores' = Without(k)
  /\ UNCHANGED << name, segments, lidarVars, yoloVars, measured >>

--------------------------------------------------------------------------------
(* The lidar process. *)
LidarStart ==                      \* removes the old segment, creates its own
  /\ lidarPc = "off" /\ stores = << >>
  /\ segments < MaxSegments
  /\ segments' = segments + 1
  /\ name' = segments'
  /\ lidarPc' = "connect"
  /\ UNCHANGED << memory, stores, nodes, scan, saved_count, yoloVars, measured >>

LidarConnects ==
  /\ lidarPc = "connect"
  /\ lidarPc' = "grab"
  /\ UNCHANGED << memory, stores, name, segments, nodes, scan, saved_count, yoloVars, measured >>

(* Failing to connect, or a crash: the name and the memory stay behind.     *)
LidarDies ==
  /\ Faults /\ lidarPc # "off"
  /\ lidarPc' = "off"
  /\ UNCHANGED << memory, stores, name, segments, nodes, scan, saved_count, yoloVars, measured >>

(* SIGINT is looked at between two scans. *)
LidarInterrupted ==
  /\ Faults /\ lidarPc = "grab"
  /\ name' = 0
  /\ lidarPc' = "off"
  /\ UNCHANGED << memory, stores, segments, nodes, scan, saved_count, yoloVars, measured >>

(* grabScanDataHq returns a scan; when it fails the loop only goes round.   *)
(* The locks it takes order the stores of one scan before those of the next. *)
LidarGrabs ==
  /\ lidarPc = "grab" /\ stores = << >>
  /\ nodes' \in Readings
  /\ scan' = 1 + (scan % Scans)
  /\ saved_count' = 0
  /\ Issue(<< Store("is_writing", 0, TRUE) >>)
  /\ lidarPc' = "write"
  /\ UNCHANGED << memory, name, segments, yoloVars, measured >>

(* Mutant: the bound of the array is not checked. *)
LidarSavesPoint_unbounded ==
  /\ lidarPc = "write"
  /\ saved_count < Len(nodes)
  /\ saved_count' = saved_count + 1
  /\ Issue(<< Store("angle", saved_count', nodes[saved_count']),
              Store("distance", saved_count', scan) >>)
  /\ UNCHANGED << memory, name, segments, lidarPc, nodes, scan, yoloVars, measured >>

(* Points beyond the array are not saved. *)
LidarSavesPoint ==
  /\ lidarPc = "write"
  /\ saved_count < Len(nodes) /\ saved_count < MaxPoints
  /\ saved_count' = saved_count + 1
  /\ Issue(<< Store("angle", saved_count', nodes[saved_count']),
              Store("distance", saved_count', scan) >>)
  /\ measured' = [measured EXCEPT ![segments] = @ \cup {scan}]
  /\ UNCHANGED << memory, name, segments, lidarPc, nodes, scan, yoloVars >>

(* Mutant: the flag stays set. *)
LidarFinishes_flag_left_set ==
  /\ lidarPc = "write"
  /\ saved_count = Len(nodes) \/ saved_count = MaxPoints
  /\ Issue(<< Store("total_points", 0, saved_count) >>)
  /\ lidarPc' = "grab"
  /\ UNCHANGED << memory, name, segments, nodes, scan, saved_count, yoloVars, measured >>

(* Mutant: the number of points is not stored. *)
LidarFinishes_no_total ==
  /\ lidarPc = "write"
  /\ saved_count = Len(nodes) \/ saved_count = MaxPoints
  /\ Issue(<< Store("is_writing", 0, FALSE) >>)
  /\ lidarPc' = "grab"
  /\ UNCHANGED << memory, name, segments, nodes, scan, saved_count, yoloVars, measured >>

LidarFinishes ==
  /\ lidarPc = "write"
  /\ saved_count = Len(nodes) \/ saved_count = MaxPoints
  /\ Issue(<< Store("total_points", 0, saved_count), Store("is_writing", 0, FALSE) >>)
  /\ lidarPc' = "grab"
  /\ UNCHANGED << memory, name, segments, nodes, scan, saved_count, yoloVars, measured >>

Lidar == LidarStart \/ LidarConnects \/ LidarGrabs \/ LidarSavesPoint \/ LidarFinishes

--------------------------------------------------------------------------------
(* The inference process. *)
Shared == memory[shared_lidar]

YoloOpens ==                       \* without a segment of that name it returns
  /\ yoloPc = "off" /\ name # 0
  /\ shared_lidar' = name
  /\ yoloPc' = "frame"
  /\ UNCHANGED << memory, stores, name, segments, lidarVars, i, found, matched, sent, measured >>

YoloEnds ==                        \* an exception, a signal or 'q'
  /\ Faults /\ yoloPc = "frame"
  /\ yoloPc' = "off"
  /\ shared_lidar' = 0
  /\ i' = 1 /\ found' = -1 /\ matched' = FALSE /\ sent' = FALSE
  /\ UNCHANGED << memory, stores, name, segments, lidarVars, measured >>

(* A frame with a detection; frames without one change nothing. *)
YoloDetects ==
  /\ yoloPc = "frame"
  /\ yoloPc' = "check"
  /\ i' = 1 /\ found' = -1 /\ matched' = FALSE /\ sent' = FALSE
  /\ UNCHANGED << memory, stores, name, segments, lidarVars, shared_lidar, measured >>

YoloChecksFree ==
  /\ yoloPc = "check" /\ ~Shared.is_writing
  /\ yoloPc' = "angle"
  /\ UNCHANGED << memory, stores, name, segments, lidarVars, shared_lidar, i, found, matched, sent, measured >>

YoloChecksBusy ==                  \* no distance for this detection
  /\ yoloPc = "check" /\ Shared.is_writing
  /\ yoloPc' = "decide"
  /\ UNCHANGED << memory, stores, name, segments, lidarVars, shared_lidar, i, found, matched, sent, measured >>

(* total_points is loaded anew for each point.  A point within the tolerance *)
(* is taken unless an earlier one is nearer.                                 *)
YoloTakesPoint ==
  /\ yoloPc = "angle" /\ i <= Shared.total_points
  /\ Shared.angle[i] = "near"
  /\ yoloPc' = "distance"
  /\ UNCHANGED << memory, stores, name, segments, lidarVars, shared_lidar, i, found, matched, sent, measured >>

YoloPassesPoint ==
  /\ yoloPc = "angle" /\ i <= Shared.total_points
  /\ matched \/ Shared.angle[i] = "far"
  /\ i' = i + 1
  /\ UNCHANGED << memory, stores, name, segments, lidarVars, yoloPc, shared_lidar, found, matched, sent, measured >>

YoloReadsDistance ==
  /\ yoloPc = "distance"
  /\ found' = Shared.distance[i]
  /\ matched' = TRUE
  /\ i' = i + 1
  /\ yoloPc' = "angle"
  /\ UNCHANGED << memory, stores, name, segments, lidarVars, shared_lidar, sent, measured >>

YoloReadsAll ==
  /\ yoloPc = "angle" /\ i > Shared.total_points
  /\ yoloPc' = "decide"
  /\ UNCHANGED << memory, stores, name, segments, lidarVars, shared_lidar, i, found, matched, sent, measured >>

(* Mutant: the -1 of "no point matched" counts as a distance. *)
YoloDecides_no_match_counts ==
  /\ yoloPc = "decide"
  /\ sent' = (found # 0)
  /\ yoloPc' = "frame"
  /\ UNCHANGED << memory, stores, name, segments, lidarVars, shared_lidar, i, found, matched, measured >>

(* Only a positive distance makes it ask for the brake. *)
YoloDecides ==
  /\ yoloPc = "decide"
  /\ sent' = (found > 0)
  /\ yoloPc' = "frame"
  /\ UNCHANGED << memory, stores, name, segments, lidarVars, shared_lidar, i, found, matched, measured >>

Yolo == YoloDetects \/ YoloChecksFree \/ YoloChecksBusy \/ YoloTakesPoint
          \/ YoloPassesPoint \/ YoloReadsDistance \/ YoloReadsAll \/ YoloDecides

Next == StoreAppears \/ Lidar \/ LidarDies \/ LidarInterrupted \/ YoloOpens \/ YoloEnds \/ Yolo

Spec == Init /\ [][Next]_vars

(* Both processes run on and what was stored becomes visible.  Nothing is   *)
(* assumed about when, within a scan, the inference looks at the flag.      *)
FairSpec ==
  /\ Spec
  /\ WF_vars(StoreAppears) /\ WF_vars(Lidar) /\ WF_vars(YoloOpens) /\ WF_vars(Yolo)

--------------------------------------------------------------------------------
(* The inference asks for the brake only with a distance the lidar did save *)
(* in the segment the inference opened, whatever it read of half written    *)
(* scans, of a segment just created or of one left behind by a lidar that   *)
(* died: yoloInference.cpp:562-585 against Lidar.cpp:156-175.               *)
BrakesForMeasured == sent => found \in measured[shared_lidar]

(* When the lidar process stays up from some point on, its flag is seen      *)
(* clear again and again: a scan that is being written does not lock the    *)
(* inference out for good, nor does one that an earlier process left half   *)
(* written (Lidar.cpp:84-94, 156, 175; yoloInference.cpp:562).              *)
LidarStays == <>[](lidarPc # "off")

FlagIsClear == segments # 0 /\ ~memory[segments].is_writing

FlagClearsAgain == LidarStays => []<>FlagIsClear

(* When lidar and inference stay up, linked, and every scan has the          *)
(* obstacle, an inference that again and again happens to find the flag     *)
(* clear asks for the brake again and again, although what it then reads    *)
(* may be changing under its hands (Lidar.cpp:159-175;                      *)
(* yoloInference.cpp:562-585).                                               *)
Linked == yoloPc # "off" /\ shared_lidar = segments

ObstacleKeepsBraking ==
  LidarStays /\ <>[]Linked /\ []<>(yoloPc = "angle") => []<>sent

(* "Open the existing segment created by your running LiDAR executable"     *)
(* (yoloInference.cpp:508): what the inference reads is what the running    *)
(* lidar process writes.                                                    *)
ReadsRunningLidar ==
  yoloPc # "off" /\ lidarPc \in {"grab", "write"} => shared_lidar = segments
================================================================================
