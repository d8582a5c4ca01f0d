---------------------------- MODULE MCDocRewrite ----------------------------
EXTENDS DocRewriteInv
=============================================================================
