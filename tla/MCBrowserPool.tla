---------------------------- MODULE MCBrowserPool ----------------------------
EXTENDS BrowserPool, TLC
Symmetry == Permutations(Request) \union Permutations(Session)
=============================================================================
