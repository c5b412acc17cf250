------------------------------ MODULE MCMonitorBle ------------------------------
EXTENDS MonitorBle
================================================================================
