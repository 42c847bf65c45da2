--------------------------- MODULE MCKernelLocks ----------------------------
EXTENDS LockDiscipline, TLC

MCDevices == <<"dev1", "dev2">>
MCSymmetry == Permutations(Processors)
=============================================================================
