--------------------------------- MODULE MCUart ---------------------------------
EXTENDS Uart
================================================================================
