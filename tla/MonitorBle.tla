------------------------------- MODULE MonitorBle -------------------------------
(***************************************************************************)
(* How pc/app.py reaches the brake controller: ble_run, a coroutine that    *)
(* keeps a BLE connection up, and ble_send, called by the thread of each    *)
(* POST /brake and POST /release, which hands a write to the event loop and *)
(* waits five seconds for it.                                               *)
(*                                                                          *)
(* A BleakClient stands for the connection it made; link is the one that is *)
(* up.  Client objects nobody refers to are used again.  What a press asks  *)
(* for is left out: a press is a member of Presses.                         *)
(***************************************************************************)
EXTENDS Integers, Sequences, FiniteSets

CONSTANTS Presses,       \* bound: the POST requests of a behaviour
          Clients,       \* BleakClient objects
          None

ASSUME PressesAssumption == IsFiniteSet(Presses)
ASSUME ClientsAssumption == None \notin Clients /\ Cardinality(Clients) > Cardinality(Presses) + 1

VARIABLES link,        \* the client whose connection is up
          ble_client,  \* the shared variable
          bleRun,      \* where ble_run is
          client,      \* its local variable
          post,        \* per press, where its thread is
          captured,    \* per press, the client it read
          ready,       \* writes handed to the loop and not started
          written,     \* writes handed to the client and not sent
          received,    \* history: what the board was sent, in order
          answeredBefore, \* history: per press, those answered when it began
          outlived     \* history: presses whose connection ended since they read it

loopVars == << link, ble_client, bleRun, client, outlived >>
vars == << loopVars, post, captured, ready, written, received, answeredBefore >>

Waiting == {"taken", "checked", "waiting"}
Answered == {"sent", "dropped", "failed"}     \* 204, 204 and 500

(* Besides the types: each press is handed to the loop once.                *)
TypeOK ==
  /\ {link, ble_client, client} \subseteq Clients \cup {None}
  /\ bleRun \in {"scan", "connect", "notify", "watch", "stop", "exit", "finally", "ended"}
  /\ post \in [Presses -> {"new"} \cup Waiting \cup Answered]
  /\ captured \in [Presses -> Clients \cup {None}]
  /\ ready \in Seq(Presses) /\ written \in Seq(Presses) /\ received \in Seq(Presses)
  /\ Len(ready) + Len(written) + Len(received) <= Cardinality(Presses)
  /\ outlived \subseteq Presses

Init ==
  /\ link = None /\ ble_client = None /\ client = None
  /\ bleRun = "scan"
  /\ post = [p \in Presses |-> "new"] /\ captured = [p \in Presses |-> None]
  /\ ready = << >> /\ written = << >> /\ received = << >>
  /\ answeredBefore = [p \in Presses |-> {}] /\ outlived = {}

--------------------------------------------------------------------------------
(* The board and the air. *)
Ends(connection) == outlived' = outlived \cup {p \in Presses : captured[p] = connection}

LinkLost ==
  /\ link # None
  /\ link' = None /\ Ends(link)
  /\ UNCHANGED << ble_client, bleRun, client, post, captured, ready, written, received, answeredBefore >>

--------------------------------------------------------------------------------
(* ble_run: between two of its awaits the loop runs other coroutines. *)
pressVars == << post, captured, ready, written, received, answeredBefore >>
Goes(from, to) == bleRun = from /\ bleRun' = to

Unused == Clients \ ({captured[p] : p \in Presses} \cup {ble_client, link})

ScanFinds ==                       \* what it does not find it scans for again
  /\ Goes("scan", "connect")
  /\ client' \in Unused
  /\ UNCHANGED << link, ble_client, outlived, pressVars >>

(* The scan is made outside the try: what it raises ends the coroutine.     *)
ScanRaises ==
  /\ Goes("scan", "ended")
  /\ UNCHANGED << link, ble_client, client, outlived, pressVars >>

Connects ==                        \* and ble_client = client, before any await
  /\ Goes("connect", "notify")
  /\ link' = client /\ ble_client' = client
  /\ UNCHANGED << client, outlived, pressVars >>

ConnectFails ==
  /\ Goes("connect", "finally")
  /\ UNCHANGED << link, ble_client, client, outlived, pressVars >>

StartsNotify ==
  /\ Goes("notify", "watch")
  /\ link = client
  /\ UNCHANGED << link, ble_client, client, outlived, pressVars >>

StartNotifyFails ==
  /\ Goes("notify", "exit")
  /\ UNCHANGED << link, ble_client, client, outlived, pressVars >>

WatchSeesLoss_never == FALSE /\ bleRun' = bleRun   \* Mutant: it sleeps on and on.

WatchSeesLoss ==                   \* is_connected is polled every second
  /\ Goes("watch", "stop")
  /\ link # client
  /\ UNCHANGED << link, ble_client, client, outlived, pressVars >>

StopsNotify ==                     \* returns or raises, it leaves the block
  /\ Goes("stop", "exit")
  /\ UNCHANGED << link, ble_client, client, outlived, pressVars >>

Disconnects ==                     \* leaving async with
  /\ Goes("exit", "finally")
  /\ link' = IF link = client THEN None ELSE link
  /\ IF link = client /\ client # None THEN Ends(client) ELSE UNCHANGED outlived
  /\ UNCHANGED << ble_client, client, pressVars >>

(* Mutant: no finally, ble_client keeps the client that is gone. *)
ClearsClient_not ==
  /\ Goes("finally", "scan")
  /\ client' = None
  /\ UNCHANGED << link, ble_client, outlived, pressVars >>

ClearsClient ==
  /\ Goes("finally", "scan")
  /\ ble_client' = None /\ client' = None
  /\ UNCHANGED << link, outlived, pressVars >>

ble_run == ScanFinds \/ ScanRaises \/ Connects \/ ConnectFails \/ StartsNotify \/ StartNotifyFails
             \/ WatchSeesLoss \/ StopsNotify \/ Disconnects \/ ClearsClient

--------------------------------------------------------------------------------
(* ble_send, in the thread of a press. *)
PostGoes(p, from, to) == post[p] = from /\ post' = [post EXCEPT ![p] = to]

TakesClient(p) ==
  /\ PostGoes(p, "new", "taken")
  /\ captured' = [captured EXCEPT ![p] = ble_client]
  /\ answeredBefore' = [answeredBefore EXCEPT ![p] = {q \in Presses : post[q] \in Answered}]
  /\ UNCHANGED << loopVars, ready, written, received >>

Connected(p) == captured[p] # None /\ link = captured[p]

Drops(p) ==
  /\ PostGoes(p, "taken", "dropped")
  /\ ~Connected(p)
  /\ UNCHANGED << loopVars, captured, ready, written, received, answeredBefore >>

ChecksClient(p) ==
  /\ PostGoes(p, "taken", "checked")
  /\ Connected(p)
  /\ UNCHANGED << loopVars, captured, ready, written, received, answeredBefore >>

HandsToLoop(p) ==
  /\ PostGoes(p, "checked", "waiting")
  /\ ready' = Append(ready, p)
  /\ UNCHANGED << loopVars, captured, written, received, answeredBefore >>

(* Mutant: a press that timed out is handed to the loop once more. *)
TimesOut_and_tries_again(p) ==
  /\ PostGoes(p, "waiting", "failed")
  /\ ready' = Append(ready, p)
  /\ UNCHANGED << loopVars, captured, written, received, answeredBefore >>

(* Mutant: result() has no timeout. *)
TimesOut_never(p) == FALSE /\ post' = post

(* result(timeout=5) raises, and the write stays with the loop. *)
TimesOut(p) ==
  /\ PostGoes(p, "waiting", "failed")
  /\ UNCHANGED << loopVars, captured, ready, written, received, answeredBefore >>

ble_send(p) == TakesClient(p) \/ Drops(p) \/ ChecksClient(p) \/ HandsToLoop(p) \/ TimesOut(p)

--------------------------------------------------------------------------------
(* _write, in the loop, which runs as long as ble_run does. *)
Answer(p, with) == post' = [post EXCEPT ![p] = IF @ = "waiting" THEN with ELSE @]

StartsWrite ==
  /\ bleRun # "ended" /\ ready # << >>
  /\ link = captured[Head(ready)]
  /\ ready' = Tail(ready) /\ written' = Append(written, Head(ready))
  /\ UNCHANGED << loopVars, post, captured, received, answeredBefore >>

StartWriteFails ==                 \* always, when the connection is gone
  /\ bleRun # "ended" /\ ready # << >>
  /\ ready' = Tail(ready)
  /\ Answer(Head(ready), "failed")
  /\ UNCHANGED << loopVars, captured, written, received, answeredBefore >>

(* Mutant: a write is sent over whatever link is up. *)
WriteIsSent_over_any_link ==
  /\ bleRun # "ended" /\ written # << >>
  /\ link # None
  /\ written' = Tail(written) /\ received' = Append(received, Head(written))
  /\ Answer(Head(written), "sent")
  /\ UNCHANGED << loopVars, captured, ready, answeredBefore >>

WriteIsSent ==
  /\ bleRun # "ended" /\ written # << >>
  /\ link = captured[Head(written)]
  /\ written' = Tail(written) /\ received' = Append(received, Head(written))
  /\ Answer(Head(written), "sent")
  /\ UNCHANGED << loopVars, captured, ready, answeredBefore >>

WriteFails ==
  /\ bleRun # "ended" /\ written # << >>
  /\ written' = Tail(written)
  /\ Answer(Head(written), "failed")
  /\ UNCHANGED << loopVars, captured, ready, received, answeredBefore >>

_write == StartsWrite \/ StartWriteFails \/ WriteIsSent \/ WriteFails

--------------------------------------------------------------------------------
Next == LinkLost \/ ble_run \/ _write \/ \E p \in Presses : ble_send(p)

Spec == Init /\ [][Next]_vars

(* The loop and the threads run on.  The board is found, connected to and   *)
(* subscribed to if that is possible again and again.                       *)
FairSpec ==
  /\ Spec
  /\ WF_vars(ble_run) /\ WF_vars(_write)
  /\ SF_vars(Connects) /\ SF_vars(StartsNotify)
  /\ \A p \in Presses : WF_vars(ble_send(p))

--------------------------------------------------------------------------------
(* A press that began after an earlier one was answered is not overtaken by *)
(* it, even by one whose write was still with the loop when it timed out,   *)
(* and no press reaches the board twice (app.py:53-68).                     *)
AnsweredPressesKeepOrder ==
  /\ TypeOK
  /\ \A j, k \in DOMAIN received : j < k =>
       received[k] # received[j] /\ received[k] \notin answeredBefore[received[j]]

(* A press whose connection ended after it read the client is never sent    *)
(* over one that was made later (app.py:55-65, 131-148).                    *)
NoWriteOverLaterLink ==
  [][\A p \in Presses : received' = Append(received, p) => p \notin outlived]_vars

(* The client presses are given is the one ble_run runs, and none between   *)
(* two connections (app.py:131-148).                                        *)
SharedClientIsCurrent ==
  /\ ble_client \in {None, client}
  /\ bleRun \in {"notify", "watch", "stop", "exit"} => ble_client = client
  /\ bleRun \in {"scan", "connect", "ended"} => ble_client = None /\ link = None

(* Every press is answered, even one handed to a loop that has ended        *)
(* (app.py:68).                                                             *)
PressesAreAnswered == \A p \in Presses : post[p] = "taken" ~> post[p] \in Answered

Up == bleRun = "watch" /\ link = client

(* After a connection was lost another one is made, if the board can be     *)
(* connected to again and the scanner did not raise (app.py:120-151).       *)
ReconnectsUnlessScanRaises == []<>Up \/ <>(bleRun = "ended")
================================================================================
