---------------------------- MODULE MCAlarmTable ----------------------------
\* Three devices for two entries, and one reconnection: the table fills, turns one
\* device away, is cleared and fills again, in the middle of a report too; one line for them all.
EXTENDS AlarmTable
=============================================================================
