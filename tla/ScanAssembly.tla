------------------------------ MODULE ScanAssembly ------------------------------
(***************************************************************************)
(* How the driver of the lidar SDK makes scans: the decoder thread unpacks   *)
(* capsules into nodes (dataunpacker/unpacker/handler_*.cpp) and gives them  *)
(* to ScanDataHolder and RawSampleNodeHolder (sl_lidar_driver.cpp), the      *)
(* thread of the application grabs the finished scans.                       *)
(*                                                                           *)
(* A revolution of the lidar is Sectors capsules.  A node keeps the number   *)
(* of its revolution and its sync bit; angles, distances and timestamps are  *)
(* left out.  The capsule formats give the nodes of a capsule when the next  *)
(* one has come and set the sync bit where the angle passes zero; the node   *)
(* formats (normal, HQ) carry the bit and do not wait.                       *)
(***************************************************************************)
EXTENDS Integers, Sequences

CONSTANTS Sectors,      \* capsules per revolution
          Revolutions,  \* bound: how many revolutions are told apart
          BufferSize,   \* _scan_node_buffer_size of ScanDataHolder
          RawSize,      \* _max_count of RawSampleNodeHolder
          RawCount,     \* what getScanDataWithIntervalHq is asked for
          Spurious      \* whether a condition wait may return unsignalled

ASSUME SectorsAssumption == Sectors \in Nat \ {0, 1}
ASSUME RevolutionsAssumption == Revolutions \in Nat \ {0, 1}
ASSUME BufferSizeAssumption == BufferSize \in Nat \ {0, 1}
ASSUME RawAssumption == RawSize \in Nat \ {0} /\ RawCount \in 1 .. RawSize
ASSUME SpuriousAssumption == Spurious \in BOOLEAN

VARIABLES capsules,                \* the scan uses a capsule format, not a node format
          scanning, first, turn,   \* the lidar: first capsule of a scan, the next one
          previous,                \* _is_previous_capsuledataRdy and the capsule, or << >>
          publishing,              \* nodes of the capsule being unpacked
          _scanbuffer, available,  \* _scan_node_available_id
          _data_waiter,            \* of the scan holder
          raw, raw_waiter,         \* RawSampleNodeHolder: nodes held, event
          grab, nodebuffer,        \* the application's grabScanDataHq
          lost                     \* history: a capsule was lost since the start

sensorVars == << capsules, scanning, first, turn, lost >>
decoderVars == << sensorVars, previous, publishing >>
holderVars == << _scanbuffer, available, _data_waiter >>
rawVars == << raw, raw_waiter >>
vars == << decoderVars, holderVars, rawVars, grab, nodebuffer >>

Node == [revolution : 0 .. Revolutions - 1, sync : BOOLEAN]
Capsule == [revolution : 0 .. Revolutions - 1, sector : 0 .. Sectors - 1]

TypeOK ==
  /\ {capsules, scanning, first, lost} \subseteq BOOLEAN /\ turn \in Capsule
  /\ previous = << >> \/ previous \in Capsule
  /\ publishing \in Seq(Node) /\ nodebuffer \in Seq(Node)
  /\ _scanbuffer \in [{0, 1} -> Seq(Node)]
  /\ \A id \in {0, 1} : Len(_scanbuffer[id]) <= BufferSize
  /\ available \in {-1, 0, 1} /\ _data_waiter \in BOOLEAN
  /\ raw \in 0 .. RawSize /\ raw_waiter \in BOOLEAN
  /\ grab \in {"idle", "waiting", "woken", "copying"}

Init ==
  /\ capsules = FALSE /\ lost = FALSE
  /\ scanning = FALSE /\ first = FALSE /\ turn = [revolution |-> 0, sector |-> 0]
  /\ previous = << >> /\ publishing = << >>
  /\ _scanbuffer = [id \in {0, 1} |-> << >>] /\ available = -1 /\ _data_waiter = FALSE
  /\ raw = 0 /\ raw_waiter = FALSE
  /\ grab = "idle" /\ nodebuffer = << >>

--------------------------------------------------------------------------------
(* ScanDataHolder. *)
_getOperationBufferID_locked == IF available < 0 THEN 0 ELSE 1 - available

Unlocked == grab # "copying"      \* waitAndLockAvailableScan holds _locker until unlockScan

rewindCurrentScanData ==
  _scanbuffer' = [_scanbuffer EXCEPT ![_getOperationBufferID_locked] = << >>]

(* A full buffer gets its last node replaced. *)
Stored(buffer, node) ==
  IF Len(buffer) >= BufferSize THEN [buffer EXCEPT ![Len(buffer)] = node]
                               ELSE Append(buffer, node)

StartsScan(node) == node.sync

(* Mutant: the buffers are not swapped. *)
FinishScan_no_swap(node) ==
  LET id == _getOperationBufferID_locked
  IN /\ StartsScan(node) /\ _scanbuffer[id] # << >>
     /\ available' = id
     /\ _scanbuffer' = [_scanbuffer EXCEPT ![id] = << node >>]
     /\ _data_waiter' = TRUE

(* A sync node finishes a scan that has nodes: it becomes the available one *)
(* and the other buffer is emptied for the next.                            *)
FinishScan(node) ==
  LET id == _getOperationBufferID_locked
  IN /\ StartsScan(node) /\ _scanbuffer[id] # << >>
     /\ available' = id
     /\ _scanbuffer' = [_scanbuffer EXCEPT ![1 - id] = << node >>]
     /\ _data_waiter' = TRUE

BeginScan(node) ==
  LET id == _getOperationBufferID_locked
  IN /\ StartsScan(node) /\ _scanbuffer[id] = << >>
     /\ _scanbuffer' = [_scanbuffer EXCEPT ![id] = << node >>]
     /\ UNCHANGED << available, _data_waiter >>

(* Mutant: nodes before the first sync node form a partial scan. *)
ExtendScan_partial(node) ==
  LET id == _getOperationBufferID_locked
  IN /\ ~StartsScan(node)
     /\ _scanbuffer' = [_scanbuffer EXCEPT ![id] = Stored(@, node)]
     /\ UNCHANGED << available, _data_waiter >>

(* Mutant: the size of the buffer is not checked. *)
ExtendScan_unbounded(node) ==
  LET id == _getOperationBufferID_locked
  IN /\ ~StartsScan(node)
     /\ _scanbuffer' = [_scanbuffer EXCEPT ![id] = IF @ = << >> THEN @ ELSE Append(@, node)]
     /\ UNCHANGED << available, _data_waiter >>

ExtendScan(node) ==
  LET id == _getOperationBufferID_locked
  IN /\ ~StartsScan(node)
     /\ _scanbuffer' = [_scanbuffer EXCEPT ![id] = IF @ = << >> THEN @ ELSE Stored(@, node)]
     /\ UNCHANGED << available, _data_waiter >>

pushScanNodeData(node) == FinishScan(node) \/ BeginScan(node) \/ ExtendScan(node)

(* RawSampleNodeHolder drops its oldest node when it has too many. *)
pushNode ==
  /\ raw' = IF raw = RawSize THEN raw ELSE raw + 1
  /\ raw_waiter' = TRUE

onHQNodeDecoded ==
  /\ publishing # << >> /\ Unlocked
  /\ publishing' = Tail(publishing)
  /\ pushScanNodeData(Head(publishing))
  /\ pushNode
  /\ UNCHANGED << sensorVars, previous, grab, nodebuffer >>

--------------------------------------------------------------------------------
(* The lidar sends the capsules of a scan in order, the handler unpacks them. *)
Following(capsule) ==
  IF capsule.sector < Sectors - 1
    THEN [capsule EXCEPT !.sector = @ + 1]
    ELSE [revolution |-> (capsule.revolution + 1) % Revolutions, sector |-> 0]

NodeOf(capsule, sync) == [revolution |-> capsule.revolution, sync |-> sync]

(* The nodes of the last sector pass the angle zero. *)
CapsuleNodes(capsule) ==
  IF capsule.sector = Sectors - 1
    THEN << NodeOf(capsule, FALSE), NodeOf(Following(capsule), TRUE) >>
    ELSE << NodeOf(capsule, FALSE) >>

_onScanNodeCapsuleData(capsule, ready) ==
  /\ publishing' = IF ready # << >> THEN CapsuleNodes(ready) ELSE << >>
  /\ previous' = capsule

Arrives ==
  /\ scanning /\ publishing = << >>
  /\ turn' = Following(turn)
  /\ first' = FALSE
  /\ UNCHANGED << capsules, scanning >>

(* The first capsule of a scan says so: what was cached is discarded and the *)
(* scan being formed is rewound.                                             *)
FirstCapsuleArrives ==
  /\ capsules /\ first /\ Unlocked
  /\ Arrives
  /\ _onScanNodeCapsuleData(turn, << >>)
  /\ rewindCurrentScanData
  /\ UNCHANGED << lost, available, _data_waiter, rawVars, grab, nodebuffer >>

CapsuleArrives ==
  /\ capsules /\ ~first
  /\ Arrives
  /\ _onScanNodeCapsuleData(turn, previous)
  /\ UNCHANGED << lost, holderVars, rawVars, grab, nodebuffer >>

NodeArrives ==
  /\ ~capsules
  /\ Arrives
  /\ publishing' = << NodeOf(turn, turn.sector = 0) >>
  /\ UNCHANGED << lost, previous, holderVars, rawVars, grab, nodebuffer >>

ChecksumFails ==
  /\ Arrives
  /\ previous' = << >>
  /\ lost' = TRUE
  /\ UNCHANGED << publishing, holderVars, rawVars, grab, nodebuffer >>

Decoder == FirstCapsuleArrives \/ CapsuleArrives \/ NodeArrives \/ ChecksumFails \/ onHQNodeDecoded

--------------------------------------------------------------------------------
(* The application.  stop() waits 100 ms after it told the lidar to stop and *)
(* disabled the unpacker; what was being unpacked is taken to be through.    *)
stop ==
  /\ grab = "idle" /\ scanning /\ publishing = << >>
  /\ scanning' = FALSE /\ first' = FALSE
  /\ previous' = << >>
  /\ UNCHANGED << capsules, turn, lost, publishing, holderVars, rawVars, grab, nodebuffer >>

(* Mutant: a reset leaves the event as it is. *)
startScan_event_left_set ==
  /\ grab = "idle" /\ ~scanning
  /\ scanning' = TRUE /\ first' = TRUE /\ capsules' \in BOOLEAN /\ lost' = FALSE
  /\ turn' \in [revolution : {(turn.revolution + 1) % Revolutions}, sector : 0 .. Sectors - 1]
  /\ _scanbuffer' = [id \in {0, 1} |-> << >>] /\ available' = -1
  /\ UNCHANGED << previous, publishing, _data_waiter, rawVars, grab, nodebuffer >>

(* ScanDataHolder::reset, then the unpacker is enabled and the scan started, *)
(* wherever the lidar points.                                                *)
startScan ==
  /\ grab = "idle" /\ ~scanning
  /\ scanning' = TRUE /\ first' = TRUE /\ capsules' \in BOOLEAN /\ lost' = FALSE
  /\ turn' \in [revolution : {(turn.revolution + 1) % Revolutions}, sector : 0 .. Sectors - 1]
  /\ _scanbuffer' = [id \in {0, 1} |-> << >>] /\ available' = -1 /\ _data_waiter' = FALSE
  /\ UNCHANGED << previous, publishing, rawVars, grab, nodebuffer >>

(* Event::wait, on an event that resets itself. *)
Woken == grab' = "woken" /\ _data_waiter' = FALSE

GrabFindsScan ==
  /\ grab = "idle" /\ _data_waiter /\ Woken
  /\ UNCHANGED << decoderVars, _scanbuffer, available, rawVars, nodebuffer >>

GrabWaits ==
  /\ grab = "idle" /\ ~_data_waiter
  /\ grab' = "waiting"
  /\ UNCHANGED << decoderVars, holderVars, rawVars, nodebuffer >>

GrabIsWoken ==
  /\ grab = "waiting" /\ (_data_waiter \/ Spurious) /\ Woken
  /\ UNCHANGED << decoderVars, _scanbuffer, available, rawVars, nodebuffer >>

(* Mutant: a wait that timed out resets the event. *)
GrabTimesOut_resets_event ==
  /\ grab = "waiting"
  /\ grab' = "idle" /\ _data_waiter' = FALSE
  /\ UNCHANGED << decoderVars, _scanbuffer, available, rawVars, nodebuffer >>

GrabTimesOut ==
  /\ grab = "waiting"
  /\ grab' = "idle"
  /\ UNCHANGED << decoderVars, holderVars, rawVars, nodebuffer >>

GrabLocks ==                       \* assert(_scan_node_available_id >= 0)
  /\ grab = "woken" /\ available >= 0
  /\ grab' = "copying" /\ nodebuffer' = << >>
  /\ UNCHANGED << decoderVars, holderVars, rawVars >>

GrabCopies ==
  /\ grab = "copying" /\ Len(nodebuffer) < Len(_scanbuffer[available])
  /\ nodebuffer' = Append(nodebuffer, _scanbuffer[available][Len(nodebuffer) + 1])
  /\ UNCHANGED << decoderVars, holderVars, rawVars, grab >>

GrabReturns ==
  /\ grab = "copying" /\ Len(nodebuffer) = Len(_scanbuffer[available])
  /\ grab' = "idle"
  /\ UNCHANGED << decoderVars, holderVars, rawVars, nodebuffer >>

grabScanDataHq == GrabFindsScan \/ GrabWaits \/ GrabIsWoken \/ GrabTimesOut
                    \/ GrabLocks \/ GrabCopies \/ GrabReturns

(* RawSampleNodeHolder::waitAndFetch takes as many as it is asked for; that  *)
(* it has them is not looked at, and to pop more is undefined.               *)
getScanDataWithIntervalHq ==
  /\ grab = "idle" /\ raw_waiter
  /\ raw_waiter' = FALSE
  /\ raw' \in IF raw < RawCount THEN 0 .. RawSize ELSE {raw - RawCount}
  /\ UNCHANGED << decoderVars, holderVars, grab, nodebuffer >>

Next == Decoder \/ stop \/ startScan \/ grabScanDataHq \/ getScanDataWithIntervalHq

Spec == Init /\ [][Next]_vars

(* The lidar sends, the decoder decodes and the application grabs for ever;  *)
(* nothing is assumed of stop, startScan and the raw nodes.                  *)
FairSpec == Spec /\ WF_vars(Decoder) /\ WF_vars(grabScanDataHq)

--------------------------------------------------------------------------------
(* "The first node of the grabbed data array must be the first sample of a   *)
(* scan" (sl_lidar_driver.h:421) and no other one is, whatever was lost and  *)
(* whenever the decoder came between (sl_lidar_driver.cpp:272-341).          *)
GrabbedScanStartsOnce ==
  \A k \in DOMAIN nodebuffer : StartsScan(nodebuffer[k]) <=> k = 1

(* "All data nodes are belong to exactly ONE complete 360-degrees's scan"    *)
(* (sl_lidar_driver.h:422), if no capsule was lost since the scan started:   *)
(* however the grabs fall between the capsules, and also right after a start *)
(* in the middle of a revolution (sl_lidar_driver.cpp:272-341,               *)
(* handler_capsules.cpp:205-263).                                            *)
NodesPerScan == IF capsules THEN Sectors + 1 ELSE Sectors

GrabbedScanIsComplete ==
  grab = "copying" /\ Len(nodebuffer) = Len(_scanbuffer[available]) /\ ~lost =>
    /\ Len(nodebuffer) = NodesPerScan
    /\ \A k \in DOMAIN nodebuffer : nodebuffer[k].revolution = nodebuffer[1].revolution

(* assert(_scan_node_available_id >= 0) (sl_lidar_driver.cpp:322), which the *)
(* SDK compiles to nothing with GCC (hal/assert.h): a grab that woke has a   *)
(* scan to lock.                                                             *)
ScanIsAvailable == grab = "woken" => available >= 0

(* A published scan is not lost between a grab that times out and the next   *)
(* (hal/event.h:106-180): it is grabbed, unless the scan is started anew.     *)
PublishedIsGrabbed == _data_waiter ~> grab = "copying" \/ first
================================================================================
