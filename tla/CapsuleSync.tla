------------------------------ MODULE CapsuleSync ------------------------------
(***************************************************************************)
(* Where a revolution begins: how the four handlers of capsules              *)
(* (handler_capsules.cpp) give the nodes of a capsule their angles and find  *)
(* the node that starts a scan.  A capsule says the angle it starts at; its  *)
(* nodes are spread evenly up to the start of the next, which is why it is   *)
(* unpacked one capsule late.                                                *)
(*                                                                           *)
(* Angles are integers, Full to a turn, as the code's are in units of        *)
(* 1/65536 degree; a start is a multiple of Grain, as in the code of 1/64    *)
(* degree, and what a node tells of its angle is a number of Grains.         *)
(***************************************************************************)
EXTENDS Integers, FiniteSetsExt

CONSTANTS Full, Grain,
          Formats,      \* the formats of capsules in use
          Points,       \* the nodes of a capsule of each format
          Diffs,        \* how far the lidar turns during a capsule
          MaxDiff,      \* the dense formats discard a capsule that spans more
          Offsets,      \* corrections of the angle in the plain and ultra formats
          MaxTravelled  \* bound: what travelled counts up to

Dense == {"dense", "ultra_dense"}

ASSUME FormatsAssumption == Formats \subseteq {"plain", "ultra"} \cup Dense
ASSUME PointsAssumption == Points \in [Formats -> Nat \ {0}]
ASSUME AnglesAssumption ==
  /\ {Full, Grain} \subseteq Nat \ {0} /\ Full % Grain = 0
  /\ Diffs \subseteq {d \in 0 .. Full - 1 : d % Grain = 0} /\ MaxDiff \in Nat /\ Offsets \subseteq Nat
  /\ MaxTravelled \in Nat /\ MaxTravelled > 2 * Full
(* A plain capsule has 32 nodes, which divide its angle exactly, a dense one   *)
(* 40 or 64; while a lidar turns, it does so by more than a Grain per capsule, *)
(* so that what a division cuts off is never more than a step.               *)
ASSUME StepsAssumption ==
  /\ Diffs # {}
  /\ "plain" \in Formats => \A d \in Diffs : d % Points["plain"] = 0
  /\ \A f \in Formats \cap Dense :
       Points[f] > 2 /\ \A c, d \in Diffs : d # 0 => c % Points[f] <= d \div Points[f]

VARIABLES format,
          start, _is_previous_capsuledataRdy,   \* the capsule that is cached
          lastNodeSyncBit, _last_node_sync_bit, \* static, of the dense handler;
                                                \* a member of the ultra-dense one
          angleInc, published,                  \* the step between the nodes that were
                                                \* unpacked last, and these nodes
          travelled, since,                     \* history: angle from the last node with
                                                \* the sync bit, or the start of scanning
          turns, faster                         \* history: angles between the sync nodes
                                                \* of published and those before them;
                                                \* the lidar sped up at this capsule

cachedVars == << start, _is_previous_capsuledataRdy >>
syncVars == << lastNodeSyncBit, _last_node_sync_bit >>
vars == << format, cachedVars, syncVars, angleInc, published, travelled, since, turns, faster >>

Starts == {a \in 0 .. Full - 1 : a % Grain = 0}
Angles == 0 .. (Full \div Grain) - 1
Node == [angle : Angles, sync : BOOLEAN]

TypeOK ==
  /\ format \in Formats /\ start \in Starts
  /\ {_is_previous_capsuledataRdy, lastNodeSyncBit, _last_node_sync_bit, faster} \subseteq BOOLEAN
  /\ angleInc \in 0 .. Full
  /\ published = << >> \/ published \in [1 .. Points[format] -> Node]
  /\ travelled \in 0 .. MaxTravelled /\ since \in {"start", "sync", "gap"}
  /\ turns \subseteq 0 .. MaxTravelled

Init ==
  /\ format \in Formats /\ start \in Starts
  /\ _is_previous_capsuledataRdy = FALSE
  /\ lastNodeSyncBit = FALSE /\ _last_node_sync_bit = FALSE
  /\ angleInc = 0 /\ published = << >>
  /\ travelled = 0 /\ since = "start" /\ turns = {} /\ faster = FALSE

--------------------------------------------------------------------------------
(* Mutant: a capsule that spans angle zero is not told.                      *)
diffAngle_not_wrapped(current, prev) == IF prev > current THEN 0 ELSE current - prev

diffAngle(current, prev) == current - prev + (IF prev > current THEN Full ELSE 0)

Raw(pos, inc) == start + (pos - 1) * inc

(* Mutant: an angle of a full turn and more is not wrapped.                  *)
angle_q6_not_wrapped(raw) == raw \div Grain

angle_q6(raw) == (raw \div Grain) % (Full \div Grain)

Within(width, pos, inc) == (Raw(pos, inc) + inc) % Full < width

(* The node whose successor is the first beyond angle zero. *)
CapsuleSyncBits(inc) == [pos \in 1 .. Points[format] |-> Within(inc, pos, inc)]

(* Mutant: the bit is set for every node next to angle zero.                 *)
DenseSyncBits_not_exact(inc, last) == [pos \in 0 .. Points[format] |-> Within(2 * inc, pos, inc)]

(* "Ensure that syncBit is exactly detected": any node next to angle zero,   *)
(* but for one that follows a node with the bit.                             *)
DenseSyncBits(inc, last) ==
  LET syncBit[pos \in 0 .. Points[format]] ==
        IF pos = 0 THEN last ELSE Within(2 * inc, pos, inc) /\ ~syncBit[pos - 1]
  IN syncBit

(* History: what the sync bits of a capsule that spans diff say of turns.    *)
Observe(sync, inc, diff) ==
  LET at == {pos \in 1 .. Points[format] : sync[pos]}
      before(pos) == {p \in at : p < pos}
      seen == {pos \in at : before(pos) # {} \/ since = "sync"}
      turn(pos) == IF before(pos) = {} THEN travelled + (pos - 1) * inc
                   ELSE (pos - Max(before(pos))) * inc
  IN /\ turns' = {Min({MaxTravelled, turn(pos)}) : pos \in seen}
     /\ since' = IF at = {} THEN since ELSE "sync"
     /\ travelled' = Min({MaxTravelled, IF at = {} THEN travelled + diff ELSE diff - (Max(at) - 1) * inc})
     /\ faster' = (inc > angleInc)

Publish(sync, inc, diff, offset) ==
  /\ published' = [pos \in 1 .. Points[format] |->
                     [angle |-> angle_q6(Raw(pos, inc) - offset), sync |-> sync[pos]]]
  /\ angleInc' = inc
  /\ Observe(sync, inc, diff)

--------------------------------------------------------------------------------
(* The _onScanNode...CapsuleData of each format: what was cached is unpacked  *)
(* when its successor tells where it ends.                                   *)
UnpacksCapsule(inc, diff) ==
  /\ format = "plain"
  /\ \E offset \in Offsets : Publish(CapsuleSyncBits(inc), inc, diff, offset)
  /\ UNCHANGED syncVars

UnpacksUltraCapsule(inc, diff) ==
  /\ format = "ultra"
  /\ \E offset \in Offsets : Publish(CapsuleSyncBits(inc), inc, diff, offset)
  /\ UNCHANGED syncVars

UnpacksDenseCapsule(inc, diff) ==
  LET bits == DenseSyncBits(inc, lastNodeSyncBit)
  IN /\ format = "dense" /\ diff <= MaxDiff
     /\ Publish(bits, inc, diff, 0)
     /\ lastNodeSyncBit' = bits[Points[format]] /\ UNCHANGED _last_node_sync_bit

UnpacksUltraDenseCapsule(inc, diff) ==
  LET bits == DenseSyncBits(inc, _last_node_sync_bit)
  IN /\ format = "ultra_dense" /\ diff <= MaxDiff
     /\ Publish(bits, inc, diff, 0)
     /\ _last_node_sync_bit' = bits[Points[format]] /\ UNCHANGED lastNodeSyncBit

PublishesNothing ==
  /\ published' = << >> /\ turns' = {} /\ faster' = FALSE
  /\ UNCHANGED << angleInc, syncVars >>

Cache(capsule) == start' = capsule /\ _is_previous_capsuledataRdy' = TRUE

Following(d) == (start + d) % Full

CapsuleArrives(d) ==
  LET diff == diffAngle(Following(d), start)
      inc == diff \div Points[format]
  IN /\ _is_previous_capsuledataRdy
     /\ \/ UnpacksCapsule(inc, diff) \/ UnpacksUltraCapsule(inc, diff)
        \/ UnpacksDenseCapsule(inc, diff) \/ UnpacksUltraDenseCapsule(inc, diff)
     /\ Cache(Following(d))
     /\ UNCHANGED format

CapsuleIsDiscarded(d) ==
  /\ _is_previous_capsuledataRdy /\ format \in Dense /\ diffAngle(Following(d), start) > MaxDiff
  /\ Cache(Following(d))
  /\ since' = "gap" /\ PublishesNothing /\ UNCHANGED << format, travelled >>

(* The first capsule of a scan, and the first after one that was lost. *)
FirstCapsuleArrives(d) ==
  /\ ~_is_previous_capsuledataRdy
  /\ Cache(Following(d))
  /\ PublishesNothing /\ UNCHANGED << format, travelled, since >>

(* A wrong checksum, or none of the two sync bytes where one is due. *)
CapsuleIsLost(d) ==
  /\ start' = Following(d) /\ _is_previous_capsuledataRdy' = FALSE
  /\ since' = "gap" /\ PublishesNothing /\ UNCHANGED << format, travelled >>

(* Scanning is stopped and started again, in any format: reset, and a first  *)
(* capsule that tells it is one.  The dense handler's bit is not reset.      *)
ScanStarts ==
  /\ format' \in Formats /\ start' \in Starts
  /\ _is_previous_capsuledataRdy' = FALSE
  /\ _last_node_sync_bit' = FALSE /\ UNCHANGED lastNodeSyncBit
  /\ angleInc' = 0 /\ published' = << >>
  /\ travelled' = 0 /\ since' = "start" /\ turns' = {} /\ faster' = FALSE

Next ==
  \/ \E d \in Diffs : \/ CapsuleArrives(d) \/ CapsuleIsDiscarded(d)
                      \/ FirstCapsuleArrives(d) \/ CapsuleIsLost(d)
  \/ ScanStarts

Spec == Init /\ [][Next]_vars

--------------------------------------------------------------------------------
LargestStep == Max(Diffs) \div Points[format]

(* No start of a revolution is missed: from one node with the sync bit, or   *)
(* from the start of scanning, it is a turn and two steps at most to the     *)
(* next, whatever an earlier scan left in lastNodeSyncBit, if no capsule is  *)
(* missing.  It is not so of ultra capsules: the step is cut off to an       *)
(* integer, and when a capsule starts at zero exactly, neither the last node *)
(* before nor the first has the bit.                                         *)
NoSyncIsMissed ==
  format # "ultra" /\ since # "gap" => travelled <= Full + 2 * LargestStep

(* No scan is shorter than a turn by more than two steps, but in a dense     *)
(* format when the lidar speeds up between the nodes next to angle zero.     *)
ScanIsNotShort ==
  /\ TypeOK
  /\ (format \in Dense /\ faster) \/ \A turn \in turns : turn >= Full - 2 * LargestStep
================================================================================
