----------------------------- MODULE MCScanAssembly -----------------------------
EXTENDS ScanAssembly
================================================================================
