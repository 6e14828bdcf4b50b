---- MODULE MCEncodings ----
EXTENDS Encodings
====
