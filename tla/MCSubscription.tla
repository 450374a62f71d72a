--------------------------- MODULE MCSubscription ---------------------------
EXTENDS Subscription

\* Every session uses the same subscription name.
SameName == [s \in Subs |-> "sub"]
=============================================================================
