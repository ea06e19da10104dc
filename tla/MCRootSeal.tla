----------------------------- MODULE MCRootSeal -----------------------------
EXTENDS RootSeal, TLC

CONSTANTS i1, i2, i3

MCLocs == <<"a", "b", "t">>
MCHistory == <<1, 2>>
\* A copy, an edit outside the fingerprint, one inside it, a shortened, an emptied and a longer one. No edit
\* extends another: bytes that follow an intact floor are an append to the daemon.
MCEdited == {<<1, 2>>, <<11, 2>>, <<1, 12>>, <<13>>, <<>>, <<14, 15, 16>>}
Symmetry == Permutations(Inodes)

====
