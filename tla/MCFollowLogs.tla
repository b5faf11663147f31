---------------------------- MODULE MCFollowLogs ----------------------------
EXTENDS FollowLogs
BothStreams == {"stdout", "stderr"}
=============================================================================
