----------------------------- MODULE MCTrigger -----------------------------
\* One loop of jj's own trigger, on a root of either kind.
EXTENDS Trigger
=============================================================================
