---------------------------- MODULE MCLifecycle ----------------------------
\* A client that calls again and again, and two daemons, one of which may be late.
EXTENDS Lifecycle
=============================================================================
