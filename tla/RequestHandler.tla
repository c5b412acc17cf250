----------------------------- MODULE RequestHandler -----------------------------
(***************************************************************************)
(* brake-controller/src/request_handler.c: what handle_request does with a  *)
(* text, whoever calls it (the main thread with a UART line, the Bluetooth  *)
(* receive thread with a write of the central), and the queue of requests.  *)
(*                                                                          *)
(* A text is abstracted to what handle_request tells apart.  json_obj_parse *)
(* returns a mask of the fields it found and only a negative value is an    *)
(* error, so a text that lacks fields is parsed: a missing percentage is    *)
(* the 0 the struct was initialised with, a missing string is NULL.  Of a   *)
(* request the queue keeps the percentage; the rest of it is only logged.   *)
(***************************************************************************)
EXTENDS BrakeMath, Sequences

CONSTANTS RequestDepth,   \* K_MSGQ_DEFINE(requests, ..., 10, 1)
          NoPercentage    \* the text has no such field

ASSUME RequestDepthAssumption == RequestDepth \in Nat \ {0}
ASSUME NoPercentageAssumption == NoPercentage \notin Percentages

Text == [ json : BOOLEAN,              \* json_obj_parse >= 0
          message_type : {"brake request", "other", "too long", "absent"},
          sender : {"fits", "too long", "absent"},
          percentage : Percentages \cup {NoPercentage} ]

VARIABLES requests,   \* the queue between the two callers and the main thread
          newest      \* history: percentage of the last request that was queued

requestVars == << requests, newest >>

RequestTypeOK ==
  /\ requests \in Seq(Percentages)
  /\ Len(requests) <= RequestDepth
  /\ newest \in Percentages

RequestInit == requests = << >> /\ newest = 0

Percentage(text) == IF text.percentage = NoPercentage THEN 0 ELSE text.percentage

IsBrakeRequest(text) == text.json /\ text.message_type = "brake request"

(* strncpy from NULL reads address 0, which is readable flash on the board  *)
(* the README builds for: the copy may or may not end within 64 bytes, and  *)
(* what is there does not compare equal to "brake request".                 *)
MayPass(text) == IsBrakeRequest(text) /\ text.sender \in {"fits", "absent"}
MayFail(text) == ~(IsBrakeRequest(text) /\ text.sender = "fits")

(* Mutant: the queue takes one request more than it has room for.           *)
QueueRequest_past_the_end(text) ==
  /\ MayPass(text)
  /\ Len(requests) <= RequestDepth
  /\ requests' = Append(requests, Percentage(text))
  /\ newest' = Percentage(text)

(* A full queue refuses the newest request (K_NO_WAIT). *)
QueueRequest(text) ==
  /\ MayPass(text)
  /\ Len(requests) < RequestDepth
  /\ requests' = Append(requests, Percentage(text))
  /\ newest' = Percentage(text)

RefuseRequest(text) ==
  /\ MayFail(text) \/ Len(requests) = RequestDepth
  /\ UNCHANGED requestVars

handle_request(text) == QueueRequest(text) \/ RefuseRequest(text)
================================================================================
