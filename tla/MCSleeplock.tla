---------------------------- MODULE MCSleeplock -----------------------------
EXTENDS Sleeplock
=============================================================================
