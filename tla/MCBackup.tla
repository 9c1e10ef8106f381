------------------------------ MODULE MCBackup ------------------------------
EXTENDS Backup, TLC

\* Bound: no Job runs while a restore does, which has its archive by then.
Apart == restore.pc = "files" => \A j \in Jobs : ~UnderWay(j)

\* The Jobs are alike.
Alike == Permutations(Jobs)
=============================================================================
