----------------------------- MODULE MCSRWLock -----------------------------
EXTENDS SRWLock
=============================================================================
