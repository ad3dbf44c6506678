---------------------------- MODULE MCUploadList ----------------------------
EXTENDS UploadList
CONSTANTS k1, k2, k3
Spec == UploadListInit /\ [][UploadListNext]_uploadListVars /\ UploadListFairness
=============================================================================
