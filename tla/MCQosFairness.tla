--------------------------- MODULE MCQosFairness ---------------------------
EXTENDS QosFairness, TLC

CONSTANTS MaxBypass   \* bound on the unbounded count of the Low class

Symm == Permutations(Request)

BypassConstraint == bypass["Low"] <= MaxBypass
=============================================================================
