----------------------------- MODULE MCLockFile -----------------------------
EXTENDS LockFile
=============================================================================
