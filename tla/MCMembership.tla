---------------------------- MODULE MCMembership -----------------------------
\* A founder and the devices it pairs with.
EXTENDS Membership

CONSTANTS a, b, c
=============================================================================
