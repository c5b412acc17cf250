---------------------------- MODULE MCLidarCommand ----------------------------
EXTENDS LidarCommand

MCScanAsks == << "info" >>
================================================================================
