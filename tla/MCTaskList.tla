---------------------------- MODULE MCTaskList ----------------------------
\* A list of two tasks; the function of the first adds two subtasks, the way
\* download_iso adds a download that may fail and a check that may not, which
\* adds a subtask of its own.
EXTENDS TaskList

CONSTANTS root, t1, t2, s1, s2, s3

TwoTasks == <<t1, t2>>
NestedDeeper  == [t \in {root, t1, t2, s1, s2, s3} |->
                   CASE t = t1 -> <<s1, s2>> [] t = s2 -> <<s3>> [] OTHER -> <<>>]
============================================================================
