--------------------------- MODULE MCLidarConnection ---------------------------
EXTENDS LidarConnection
================================================================================
