---------------------------- MODULE MCPublishing ----------------------------
EXTENDS Publishing, TLC
Sym == Permutations(Orgs) \cup Permutations(Years) \cup Permutations(Admins)
=============================================================================
