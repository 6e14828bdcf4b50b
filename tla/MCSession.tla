----------------------------- MODULE MCSession -----------------------------
EXTENDS Session
===========================================================================
