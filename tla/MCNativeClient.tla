--------------------------- MODULE MCNativeClient ---------------------------
EXTENDS NativeClient

\* A short text; texts of one and of two bytes a character around the limit; a
\* long one; a blob with nothing in it, and one of two segments.
MCValues ==
  {[kind |-> "Text", utf8 |-> 1, enc |-> 1], [kind |-> "Text", utf8 |-> 2, enc |-> 2],
   [kind |-> "Text", utf8 |-> 4, enc |-> 2], [kind |-> "Text", utf8 |-> 6, enc |-> 5],
   [kind |-> "Binary", utf8 |-> 0, enc |-> 0], [kind |-> "Binary", utf8 |-> 6, enc |-> 6]}
===========================================================================
