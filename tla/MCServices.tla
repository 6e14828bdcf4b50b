----------------------------- MODULE MCServices -----------------------------
EXTENDS Services
===========================================================================
