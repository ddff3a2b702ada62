------------------------------ MODULE MCFutex ------------------------------
EXTENDS Futex
=============================================================================
