------------------------------ MODULE MCEnroll ------------------------------
EXTENDS Enroll

MCLimit == [m \in Mishaps |-> IF m = "crash" THEN 2 ELSE 1]
=============================================================================
