----------------------------- MODULE MCLidarAngles -----------------------------
EXTENDS LidarAngles
================================================================================
