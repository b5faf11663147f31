------------------------------ MODULE MCBackups ------------------------------
EXTENDS Backups
SomeFolders ==
    {[pass1 |-> "text", pass2 |-> "text", s3 |-> "text"],
     [pass1 |-> "text", pass2 |-> "absent", s3 |-> "text"],
     [pass1 |-> "text", pass2 |-> "blank", s3 |-> "text"],
     [pass1 |-> "text", pass2 |-> "text", s3 |-> "blank"],
     [pass1 |-> "blank", pass2 |-> "absent", s3 |-> "absent"]}
Limits == [m \in Mishaps |-> IF m = "plan" THEN 2 ELSE 1]
=============================================================================
