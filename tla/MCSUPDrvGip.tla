---------------------------- MODULE MCSUPDrvGip ----------------------------
EXTENDS SUPDrvGip

Cpus == 0..1
=============================================================================
