---------------------------- MODULE MCMembership ----------------------------
EXTENDS Membership
CONSTANTS a, b
=============================================================================
