---------------------------- MODULE MCBrakeController ----------------------------
EXTENDS BrakeController

BrakeText(p) == [json |-> TRUE, message_type |-> "brake request", sender |-> "fits",
                 percentage |-> p]
NoSender == [BrakeText(0) EXCEPT !.sender = "absent"]
OtherType == [BrakeText(100) EXCEPT !.message_type = "other"]
Garbage == [BrakeText(100) EXCEPT !.json = FALSE]

MCJetsonTexts == {BrakeText(100)}
MCCentralTexts == {BrakeText(0), BrakeText(NoPercentage), NoSender, OtherType, Garbage}
MCMillivolts(raw) == (raw * 600 * 6) \div 4096
================================================================================
