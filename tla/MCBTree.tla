------------------------------ MODULE MCBTree ------------------------------
EXTENDS BTree

\* Everything, a = 2 and a > 2.
MCRanges == {<<MinusInf, PlusInf>>, <<<<2, 0>>, <<2, MaxTid + 1>>>>,
             <<<<2, MaxTid + 1>>, PlusInf>>}

=============================================================================
