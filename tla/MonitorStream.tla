------------------------------ MODULE MonitorStream ------------------------------
(***************************************************************************)
(* The event streams of pc/app.py: two threads broadcast (the one running   *)
(* the BLE loop, for notifications, and thread_zmq_server, for the frames   *)
(* of the Jetson), each GET /stream adds a queue to subscribers, and its    *)
(* generator yields what is queued and removes the queue when it ends.      *)
(*                                                                          *)
(* A message is its number in the order of the broadcasts; what it says is  *)
(* left out.  subscribers is only touched under subscribers_lock.           *)
(***************************************************************************)
EXTENDS Integers, SequencesExt

CONSTANTS Streams,      \* the GET /stream requests
          MaxMessages   \* bound: broadcasts

ASSUME MaxMessagesAssumption == MaxMessages \in Nat

Producers == {"ble", "zmq"}
Free == "free"
ASSUME StreamsAssumption == Streams \cap (Producers \cup {Free}) = {}

VARIABLES subscribers_lock,  \* its holder or Free
          subscribers,       \* the streams with a queue in the list, in its order
          queue,             \* per stream
          status,            \* per stream, where its request is
          connection,        \* per stream, what its browser has done to it
          pending,           \* per producer, how many broadcasts are to be made
          number, at,        \* per producer, the message it puts and where it is
          zmqAlive,          \* thread_zmq_server runs
          count,             \* history: broadcasts begun
          since, got         \* history: count at subscription, what was yielded

streamVars == << status, connection, since, got >>
producerVars == << pending, number, at, count >>
broadcastVars == << subscribers_lock, subscribers, queue, streamVars, producerVars, zmqAlive >>

Listed == {"registered", "open", "closing", "abandoned"}

StreamInit ==
  /\ subscribers_lock = Free /\ subscribers = << >>
  /\ queue = [s \in Streams |-> << >>]
  /\ status = [s \in Streams |-> "new"] /\ connection = [s \in Streams |-> "up"]
  /\ pending = [p \in Producers |-> 0]
  /\ number = [p \in Producers |-> 0] /\ at = [p \in Producers |-> 1]
  /\ zmqAlive = TRUE
  /\ count = 0 /\ since = [s \in Streams |-> 0] /\ got = [s \in Streams |-> << >>]

--------------------------------------------------------------------------------
(* The producers. *)
Announced == count + pending["ble"] + pending["zmq"]

on_nus_notification ==             \* a brake state is one broadcast
  /\ pending["ble"] = 0 /\ Announced < MaxMessages
  /\ pending' = [pending EXCEPT !["ble"] = 1]
  /\ UNCHANGED << subscribers_lock, subscribers, queue, streamVars, number, at, count, zmqAlive >>

ZmqFrame ==                        \* an image, and a distance if it has one
  /\ zmqAlive /\ pending["zmq"] = 0
  /\ \E broadcasts \in {1, 2} :
       /\ Announced + broadcasts <= MaxMessages
       /\ pending' = [pending EXCEPT !["zmq"] = broadcasts]
  /\ UNCHANGED << subscribers_lock, subscribers, queue, streamVars, number, at, count, zmqAlive >>

(* What is not JSON is answered on the PULL socket, which cannot send: the  *)
(* exception leaves the handler, and the thread.                            *)
ZmqMalformed ==
  /\ zmqAlive /\ pending["zmq"] = 0
  /\ zmqAlive' = FALSE
  /\ UNCHANGED << subscribers_lock, subscribers, queue, streamVars, producerVars >>

(* Mutant: broadcast does not take the lock. *)
BroadcastBegins_without_lock(p) ==
  /\ pending[p] > 0 /\ at[p] = 1 /\ number[p] = 0
  /\ count' = count + 1
  /\ number' = [number EXCEPT ![p] = count']
  /\ UNCHANGED << subscribers_lock, subscribers, queue, streamVars, pending, at, zmqAlive >>

BroadcastBegins(p) ==
  /\ pending[p] > 0 /\ number[p] = 0
  /\ subscribers_lock = Free
  /\ subscribers_lock' = p
  /\ count' = count + 1
  /\ number' = [number EXCEPT ![p] = count']
  /\ UNCHANGED << subscribers, queue, streamVars, pending, at, zmqAlive >>

BroadcastPuts(p) ==
  /\ number[p] # 0 /\ at[p] <= Len(subscribers)
  /\ queue' = [queue EXCEPT ![subscribers[at[p]]] = Append(@, number[p])]
  /\ at' = [at EXCEPT ![p] = @ + 1]
  /\ UNCHANGED << subscribers_lock, subscribers, streamVars, pending, number, count, zmqAlive >>

BroadcastEnds(p) ==
  /\ number[p] # 0 /\ at[p] > Len(subscribers)
  /\ subscribers_lock' = Free
  /\ pending' = [pending EXCEPT ![p] = @ - 1]
  /\ number' = [number EXCEPT ![p] = 0] /\ at' = [at EXCEPT ![p] = 1]
  /\ UNCHANGED << subscribers, queue, streamVars, count, zmqAlive >>

broadcast(p) == BroadcastBegins(p) \/ BroadcastPuts(p) \/ BroadcastEnds(p)

--------------------------------------------------------------------------------
(* The streams. *)
Becomes(s, new) == status' = [status EXCEPT ![s] = new]

index_stream(s) ==
  /\ status[s] = "new"
  /\ subscribers_lock = Free
  /\ subscribers' = Append(subscribers, s)
  /\ Becomes(s, "registered")
  /\ since' = [since EXCEPT ![s] = count]
  /\ UNCHANGED << subscribers_lock, queue, connection, got, producerVars, zmqAlive >>

StreamStarts(s) ==                 \* the server asks for the first item
  /\ status[s] = "registered"
  /\ Becomes(s, "open")
  /\ UNCHANGED << subscribers_lock, subscribers, queue, connection, since, got, producerVars, zmqAlive >>

(* The response is closed before an item was asked for (a HEAD request, a   *)
(* browser gone at once): a generator that never ran has no finally to run. *)
StreamAbandoned(s) ==
  /\ status[s] = "registered"
  /\ Becomes(s, "abandoned")
  /\ connection' = [connection EXCEPT ![s] = "closed"]
  /\ UNCHANGED << subscribers_lock, subscribers, queue, since, got, producerVars, zmqAlive >>

(* The first write to a closed connection may still succeed. *)
StreamYields(s) ==
  /\ status[s] = "open" /\ queue[s] # << >>
  /\ connection[s] # "reset"
  /\ got' = [got EXCEPT ![s] = Append(@, Head(queue[s]))]
  /\ queue' = [queue EXCEPT ![s] = Tail(@)]
  /\ connection' = [connection EXCEPT ![s] = IF @ = "closed" THEN "reset" ELSE @]
  /\ UNCHANGED << subscribers_lock, subscribers, status, since, producerVars, zmqAlive >>

(* Mutant: a failed write does not end the generator. *)
StreamFails_goes_on(s) ==
  /\ status[s] = "open" /\ queue[s] # << >>
  /\ connection[s] # "up"
  /\ queue' = [queue EXCEPT ![s] = Tail(@)]
  /\ UNCHANGED << subscribers_lock, subscribers, streamVars, producerVars, zmqAlive >>

StreamFails(s) ==
  /\ status[s] = "open" /\ queue[s] # << >>
  /\ connection[s] # "up"
  /\ queue' = [queue EXCEPT ![s] = Tail(@)]
  /\ Becomes(s, "closing")
  /\ UNCHANGED << subscribers_lock, subscribers, connection, since, got, producerVars, zmqAlive >>

Leaves(s) ==
  /\ status[s] = "closing"
  /\ subscribers_lock = Free
  /\ Becomes(s, "gone")
  /\ UNCHANGED << subscribers_lock, queue, connection, since, got, producerVars, zmqAlive >>

(* Mutant: the queue stays in the list. *)
StreamLeaves_stays_listed(s) == Leaves(s) /\ UNCHANGED subscribers

StreamLeaves(s) ==                 \* subscribers.remove
  /\ Leaves(s)
  /\ \E k \in DOMAIN subscribers :
       subscribers[k] = s /\ subscribers' = RemoveAt(subscribers, k)

event_stream(s) == StreamStarts(s) \/ StreamYields(s) \/ StreamFails(s) \/ StreamLeaves(s)

BrowserCloses(s) ==
  /\ status[s] = "open" /\ connection[s] = "up"
  /\ connection' = [connection EXCEPT ![s] = "closed"]
  /\ UNCHANGED << subscribers_lock, subscribers, queue, status, since, got, producerVars, zmqAlive >>

StreamNext ==
  \/ on_nus_notification \/ ZmqFrame \/ ZmqMalformed
  \/ \E p \in Producers : broadcast(p)
  \/ \E s \in Streams : index_stream(s) \/ StreamAbandoned(s) \/ event_stream(s) \/ BrowserCloses(s)

StreamSpec == StreamInit /\ [][StreamNext]_broadcastVars

(* The threads run on; nothing is assumed of browsers and of what arrives.  *)
StreamFairSpec ==
  /\ StreamSpec
  /\ \A p \in Producers : WF_broadcastVars(broadcast(p))
  /\ \A s \in Streams : WF_broadcastVars(event_stream(s))

--------------------------------------------------------------------------------
(* subscribers holds the queue of every stream that registered and has not  *)
(* left, once (app.py:76-90).                                               *)
StreamTypeOK ==
  /\ subscribers_lock \in Producers \cup {Free}
  /\ status \in [Streams -> Listed \cup {"new", "gone"}]
  /\ connection \in [Streams -> {"up", "closed", "reset"}]
  /\ IsInjective(subscribers)
  /\ Range(subscribers) = {s \in Streams : status[s] \in Listed}
  /\ \A s \in Streams : queue[s] \in Seq(1 .. MaxMessages)
  /\ pending \in [Producers -> 0 .. 2] /\ number \in [Producers -> 0 .. MaxMessages]
  /\ zmqAlive \in BOOLEAN /\ count \in 0 .. MaxMessages

(* Whoever broadcasts, and whoever comes and goes meanwhile, a stream gets   *)
(* every message broadcast since it subscribed, each once, and in the order  *)
(* every other stream gets them (app.py:31-34, 76-90).                       *)
StreamsAgree ==
  /\ StreamTypeOK
  /\ \A s \in Streams : status[s] \in {"registered", "open", "abandoned"} =>
       LET all == got[s] \o queue[s]
       IN /\ all = [k \in 1 .. Len(all) |-> since[s] + k]
          /\ (\A p \in Producers : number[p] = 0) => since[s] + Len(all) = count

Closed(s) == connection[s] # "up" /\ Len(queue[s]) >= 2

(* A stream that ran and whose browser has gone leaves the list once two    *)
(* more messages are there to find that out with (app.py:82-88).            *)
StartedStreamsLeave ==
  \A s \in Streams : Closed(s) /\ status[s] = "open" ~> status[s] = "gone"
================================================================================
