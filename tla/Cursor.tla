------------------------------ MODULE Cursor ------------------------------
(***************************************************************************)
(* What reading a cursor promises: its rows in order and each once; an end *)
(* only behind the last one.  A reported failure may cost rows, but never  *)
(* reorders or repeats one.                                                *)
(***************************************************************************)
EXTENDS Naturals, Sequences

CONSTANT Rows       \* how many rows the cursor has

VARIABLES
  given,            \* the rows delivered, by their number
  failed,           \* a failure was reported
  over              \* the end was reported

Init == given = <<>> /\ failed = FALSE /\ over = FALSE

Deliver ==
  /\ \E r \in 1 .. Rows :
       /\ failed \/ r = Len(given) + 1
       /\ \A i \in DOMAIN given : given[i] < r
       /\ given' = Append(given, r)
  /\ UNCHANGED <<failed, over>>

End ==
  /\ failed \/ Len(given) = Rows
  /\ over' = TRUE
  /\ UNCHANGED <<given, failed>>

Fail == failed' = TRUE /\ UNCHANGED <<given, over>>

\* The statement is executed again.
Reopen == given' = <<>> /\ failed' = FALSE /\ over' = FALSE

Next == Deliver \/ End \/ Fail \/ Reopen

Spec == Init /\ [][Next]_<<given, failed, over>>

============================================================================
