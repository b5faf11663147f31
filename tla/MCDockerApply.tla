--------------------------- MODULE MCDockerApply ----------------------------
EXTENDS DockerApply

MCLimit == [broken |-> 1, fault |-> 2, forced |-> 1, change |-> 1,
            exit |-> 1, removal |-> 1]
=============================================================================
