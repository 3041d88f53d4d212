------------------------------ MODULE MCAlarmAge ------------------------------
\* AlarmAge for TLC: every hour of the first two weeks and a half, on a device
\* whose clock may lag by two hours, with builds at any of them.
EXTENDS AlarmAge
=============================================================================
