----------------------------- MODULE MCDevices -----------------------------
EXTENDS Devices
=============================================================================
