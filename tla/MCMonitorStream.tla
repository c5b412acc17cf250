----------------------------- MODULE MCMonitorStream -----------------------------
EXTENDS MonitorStream
================================================================================
