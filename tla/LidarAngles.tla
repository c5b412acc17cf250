------------------------------ MODULE LidarAngles ------------------------------
(***************************************************************************)
(* From a grabbed scan to the distance an inference finds: the scan is        *)
(* brought into ascending order (ascendScanData_ of sl_lidar_driver.cpp),    *)
(* what lies ahead of the camera is saved (Lidar.cpp), and the nearest in     *)
(* angle to a detection is looked up (yoloInference.cpp).                    *)
(*                                                                           *)
(* NodeAngles are integers, Turn to a turn.  A node's distance is its place in   *)
(* the scan, which tells it from the others, or 0 where there was no echo.   *)
(* That two processes race for what is saved is in ScanSharing.              *)
(***************************************************************************)
EXTENDS Integers, Sequences, FiniteSetsExt, Functions

CONSTANTS Turn,      \* units of angle in a turn
          Ahead,     \* FOV_HALF: half the view of the camera
          Tolerance, \* matching_tolerance
          MaxScan    \* bound: nodes of a scan

Unmatched == [delta |-> 999, dist |-> -1]   \* best_delta, found_distance

ASSUME TurnAssumption ==
  /\ {Turn, Ahead, Tolerance, MaxScan} \subseteq Nat \ {0}
  /\ 2 * Ahead < Turn /\ Tolerance < Unmatched.delta

VARIABLES stage,          \* of the scan: "grabbed", "ascended", "saved", "matched"
          nodes,          \* the scan; its points ahead once it was saved
          hAngle, match   \* a detection, and what was found for it

anglesVars == << stage, nodes, hAngle, match >>

NodeAngles == 0 .. Turn - 1
Views == -Ahead .. Ahead
Echo == [angle : NodeAngles, dist : 0 .. MaxScan]

AnglesTypeOK ==
  /\ stage \in {"grabbed", "ascended", "saved", "matched"}
  /\ nodes \in Seq(Echo) /\ Len(nodes) <= MaxScan
  /\ hAngle \in Views
  /\ match \in [delta : Int, dist : {-1} \cup 1 .. MaxScan]

AnglesInit == stage = "grabbed" /\ nodes = << >> /\ hAngle = 0 /\ match = Unmatched

(* A scan: nodes of any angle, with an echo or without; ascendScanData does  *)
(* not look at the angle of one without.                                     *)
Measured(angle, echo) ==
  /\ stage = "grabbed" /\ Len(nodes) < MaxScan
  /\ nodes' = Append(nodes, IF echo THEN [angle |-> angle, dist |-> Len(nodes) + 1]
                            ELSE [angle |-> 0, dist |-> 0])
  /\ UNCHANGED << stage, hAngle, match >>

--------------------------------------------------------------------------------
(* Mutant: a full turn is not wrapped to 0.                                  *)
setAngle_not_wrapped(parts, count) == parts \div count

(* An angle in parts of count to the unit: the fraction is cut off, and a    *)
(* full turn is 0, as angle_z_q14 has 16 bits.                               *)
setAngle(parts, count) == (parts \div count) % Turn

(* "expect_angle > 360.0f": a full turn itself is left.                      *)
Tuned(parts, count) == setAngle(IF parts > Turn * count THEN parts - Turn * count ELSE parts, count)

(* What the head of the scan is given, going back from its first echo.       *)
FrontAngle(first) ==
  LET back[i \in 0 .. first - 1] ==
        IF i = 0 THEN nodes[first].angle
        ELSE setAngle(Max({0, back[i - 1] * Len(nodes) - Turn}), Len(nodes))
  IN back[first - 1]

WithEcho(scan) == {i \in DOMAIN scan : scan[i].dist > 0}

(* What the tail is given is overwritten here: only the front remains of it. *)
Filled ==
  LET front == FrontAngle(Min(WithEcho(nodes)))
  IN [i \in DOMAIN nodes |->
        IF nodes[i].dist > 0 THEN nodes[i]
        ELSE [nodes[i] EXCEPT !.angle = IF i = 1 THEN front
                                        ELSE Tuned(front * Len(nodes) + (i - 1) * Turn, Len(nodes))]]

(* Mutant: the scan is left in the order of its nodes.                       *)
ascendScanData_unsorted ==
  /\ stage = "grabbed" /\ nodes # << >> /\ stage' = "ascended"
  /\ nodes' = IF WithEcho(nodes) = {} THEN nodes ELSE Filled
  /\ UNCHANGED << hAngle, match >>

Orders == [count \in 1 .. MaxScan |-> Bijection(1 .. count, 1 .. count)]

(* std::sort leaves the order of nodes of one angle open.                    *)
Sorts(scan) ==
  \E order \in Orders[Len(scan)] :
    /\ \A i \in 1 .. Len(scan) - 1 : scan[order[i]].angle <= scan[order[i + 1]].angle
    /\ nodes' = [i \in DOMAIN scan |-> scan[order[i]]]

(* A scan without any echo fails and is left as it is; Lidar does not look.  *)
ascendScanData ==
  /\ stage = "grabbed" /\ nodes # << >> /\ stage' = "ascended"
  /\ IF WithEcho(nodes) = {} THEN nodes' = nodes
     ELSE Sorts(Filled)
  /\ UNCHANGED << hAngle, match >>

IsAhead(node) == node.dist > 0 /\ (node.angle <= Ahead \/ node.angle >= Turn - Ahead)

PointsAhead(scan) ==
  LET saved[pos \in 0 .. Len(scan)] ==
        IF pos = 0 THEN << >>
        ELSE IF IsAhead(scan[pos]) THEN Append(saved[pos - 1], scan[pos]) ELSE saved[pos - 1]
  IN saved[Len(scan)]

(* The points that Lidar saves.  That it has room for 360 is in ScanSharing. *)
Saves ==
  /\ stage = "ascended" /\ stage' = "saved"
  /\ nodes' = PointsAhead(nodes)
  /\ UNCHANGED << hAngle, match >>

Distance(a, b) == IF a > b THEN a - b ELSE b - a

(* Mutant: the two sides of angle zero are far apart.                        *)
Delta_not_wrapped(angle, h) == Distance(angle, h)

Delta(angle, h) ==
  LET delta == Distance(angle, h)
  IN IF 2 * delta > Turn THEN Turn - delta ELSE delta

Closer(best, point, h) ==
  LET delta == Delta(point.angle, h)
  IN IF delta <= Tolerance /\ delta < best.delta THEN [delta |-> delta, dist |-> point.dist] ELSE best

Found(h) ==
  LET best[i \in 0 .. Len(nodes)] ==
        IF i = 0 THEN Unmatched ELSE Closer(best[i - 1], nodes[i], h)
  IN best[Len(nodes)]

Detects(h) ==
  /\ stage \in {"saved", "matched"} /\ stage' = "matched"
  /\ hAngle' = h /\ match' = Found(h)
  /\ UNCHANGED nodes

NextScan ==
  /\ stage = "matched" /\ stage' = "grabbed"
  /\ nodes' = << >> /\ hAngle' = 0 /\ match' = Unmatched

AnglesNext ==
  \/ \E angle \in NodeAngles, echo \in BOOLEAN : Measured(angle, echo)
  \/ ascendScanData \/ Saves \/ NextScan
  \/ \E h \in Views : Detects(h)

AnglesSpec == AnglesInit /\ [][AnglesNext]_anglesVars

--------------------------------------------------------------------------------
(* An ascended scan is in ascending order, and every echo is there once, at  *)
(* its angle.                                                                *)
AscendedIsSorted ==
  [][stage = "grabbed" /\ stage' = "ascended" /\ WithEcho(nodes) # {} =>
       /\ \A i, j \in DOMAIN nodes' : i < j => nodes'[i].angle <= nodes'[j].angle
       /\ Len(nodes') = Len(nodes)
       /\ {nodes'[i] : i \in WithEcho(nodes')} = {nodes[i] : i \in WithEcho(nodes)}
       /\ \A i, j \in WithEcho(nodes') : nodes'[i] = nodes'[j] => i = j]_anglesVars

Separation(angle, h) == Min({Distance(angle + k * Turn, h) : k \in {-1, 0, 1}})

(* What is found for a detection is the distance of the saved point that is  *)
(* nearest to it in angle, across angle zero too, if that is within the      *)
(* tolerance, and else nothing.  It is so of detections at the centre and    *)
(* right of it; left of it (h < 0) only while no saved point is between the  *)
(* detection and the centre, for then the difference comes out negative.     *)
NearestIsFound ==
  LET near == {i \in DOMAIN nodes : Separation(nodes[i].angle, hAngle) <= Tolerance}
      nearest(i) ==
        \A j \in DOMAIN nodes : Separation(nodes[i].angle, hAngle) <= Separation(nodes[j].angle, hAngle)
  IN /\ AnglesTypeOK
     /\ stage = "matched" /\ (\A i \in DOMAIN nodes : nodes[i].angle - hAngle <= Turn) =>
          IF near = {} THEN match = Unmatched
          ELSE \E i \in near : nearest(i) /\ match.dist = nodes[i].dist
================================================================================
