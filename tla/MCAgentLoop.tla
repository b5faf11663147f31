----------------------------- MODULE MCAgentLoop -----------------------------
(***************************************************************************)
(* Values of the constants of AgentLoop for TLC.                           *)
(***************************************************************************)
EXTENDS AgentLoop

(* A deployment with everything optional off, and variations of it. *)
Plain == [stopped |-> FALSE, secretStore |-> TRUE, external |-> FALSE,
          backup |-> FALSE, gitea |-> FALSE, edge |-> FALSE, image |-> 1]
WithBackup == [Plain EXCEPT !.backup = TRUE]
Upgraded == [WithBackup EXCEPT !.image = 2, !.gitea = TRUE]
Offline == [WithBackup EXCEPT !.stopped = TRUE]
External == [Plain EXCEPT !.external = TRUE]
NoStore == [Plain EXCEPT !.secretStore = FALSE]
Managed == [WithBackup EXCEPT !.edge = TRUE]

CrashConfigs == {WithBackup, Offline}
SafetyConfigs == {WithBackup, Upgraded, External, Offline}
LiveConfigs == {Offline, NoStore, Managed}

Limits(fault, removal, cut, crash, drop, command, edge) ==
    [m \in Mishaps |-> CASE m = "fault" -> fault
                         [] m = "removal" -> removal
                         [] m = "cut" -> cut
                         [] m = "crash" -> crash
                         [] m = "drop" -> drop
                         [] m = "command" -> command
                         [] m = "edge" -> edge]

(* fault, removal, cut, crash, drop, command, edge *)
SafetyLimit == Limits(1, 1, 1, 1, 1, 1, 0)
CrashLimit == Limits(0, 0, 0, 1, 0, 1, 0)
LiveLimit == Limits(1, 0, 0, 1, 0, 1, 1)

None == {}
Restores == {"restore"}
CoreServer == {"core-server"}
=============================================================================
