------------------------ MODULE DieselTransactions ------------------------
(***************************************************************************)
(* The transaction manager of the diesel backend                           *)
(* (rsfbclient-diesel/src/fb/transaction.rs) on top of one raw Connection. *)
(* The outermost level is the raw Connection's explicit transaction, the   *)
(* ones inside it are savepoints named after their depth, and committing   *)
(* one of those does nothing.  A FbConnection may sit in an r2d2 pool,     *)
(* which checks it with a statement of its own.                            *)
(*                                                                         *)
(* Abstraction: the raw Connection is what module Connection says of it,   *)
(* reduced to its one transaction.  The server's transaction is the log of *)
(* the works done and the savepoints set in it.  A statement that changes  *)
(* nothing is the pool's check.                                            *)
(***************************************************************************)
EXTENDS Naturals, Sequences, FiniteSets, SequencesExt

CONSTANTS
  Works,            \* the executions of statements that change something
  InError,          \* the status of a manager that cannot go on
  MaxDepth          \* bound: how deep the application nests

ASSUME InErrorAssumption == InError \notin Nat
ASSUME DepthAssumption == MaxDepth \in Nat \ {0}

VARIABLES
  status,           \* TransactionManagerStatus: InError, or Valid with this depth
  in_transaction,   \* Connection.in_transaction
  def_tr,           \* Connection.def_tr is there
  srv,              \* the server: up, the transaction's log, what is durable
  result            \* of the last call

vars == <<status, in_transaction, def_tr, srv, result>>

Valid == status # InError

---------------------------------------------------------------------------
(***************************************************************************)
(* The server                                                              *)
(***************************************************************************)

Work(w) == <<"work", w>>
Savepoint(d) == <<"savepoint", d>>

\* The works of a log.
Done(log) == {w \in Works : Work(w) \in ToSet(log)}

\* Where a savepoint is in a log; 0 when it is not.
Place(log, d) == SelectInSeq(log, LAMBDA x : x = Savepoint(d))

\* What a statement does to the log of the transaction it runs in: the set of
\* its outcomes, empty when it must be refused.  A savepoint replaces the one of
\* its name; rolling back to it keeps it.
Statement(does, arg) == [does |-> does, arg |-> arg]
Effects(q, log) ==
  CASE q.does = "work"        -> {Append(log, Work(q.arg))}
    [] q.does = "check"       -> {log}
    [] q.does = "savepoint"   ->
         {Append(RemoveFirst(log, Savepoint(q.arg)), Savepoint(q.arg))}
    [] q.does = "rollback to" ->
         {SubSeq(log, 1, i) : i \in {Place(log, q.arg)} \ {0}}

\* The server loses the attachment and undoes what was not committed.
Gone(s) == [s EXCEPT !.up = FALSE, !.log = <<>>]

\* The transaction ended: by commit_retaining or rollback_retaining.
Ended(s, op) ==
  [s EXCEPT !.log = <<>>, !.durable = IF op = "commit" THEN @ \cup Done(s.log) ELSE @]

\* A request to end it: refused, performed, or the link breaks before or after the
\* server performed it.
Ask(s, op) ==
  {[srv |-> s, ok |-> FALSE]} \cup
  (IF s.up
   THEN {[srv |-> Ended(s, op), ok |-> TRUE],
         [srv |-> Gone(s), ok |-> FALSE],
         [srv |-> Gone(Ended(s, op)), ok |-> FALSE]}
   ELSE {})

\* A statement is run: an error may follow an effect.
Run(s, q) ==
  {[srv |-> s, ok |-> FALSE]} \cup
  (IF s.up
   THEN {[srv |-> Gone(s), ok |-> FALSE]} \cup
        {[srv |-> [s EXCEPT !.log = log], ok |-> b] : log \in Effects(q, s.log), b \in BOOLEAN}
   ELSE {})

---------------------------------------------------------------------------
(***************************************************************************)
(* The raw Connection                                                      *)
(***************************************************************************)

\* The default transaction is taken, or one begun.
TakeTr(s, held) ==
  IF held THEN {[srv |-> s, ok |-> TRUE]}
  ELSE {[srv |-> s, ok |-> FALSE]} \cup
       (IF s.up THEN {[srv |-> s, ok |-> TRUE], [srv |-> Gone(s), ok |-> FALSE]} ELSE {})

\* What the calls below leave: the server, whether the call succeeds, and whether
\* the Connection still holds a default transaction.
Outcome(s, ok, kept) == [srv |-> s, ok |-> ok, kept |-> kept]

\* commit and rollback keep the transaction they end, whatever the answer.
EndDefault(s, held, op) ==
  UNION {IF ~t.ok THEN {Outcome(t.srv, FALSE, FALSE)}
         ELSE {Outcome(e.srv, e.ok, TRUE) : e \in Ask(t.srv, op)} : t \in TakeTr(s, held)}

\* execute, in the explicit transaction or with one of its own.  A transaction
\* that cannot be ended is dropped, which undoes it as far as this connection goes.
Finish(r) ==
  IF in_transaction THEN {Outcome(r.srv, r.ok, TRUE)}
  ELSE {IF e.ok THEN Outcome(e.srv, r.ok, TRUE)
        ELSE Outcome(Ended(e.srv, "rollback"), FALSE, FALSE) :
          e \in Ask(r.srv, IF r.ok THEN "commit" ELSE "rollback")}

Execute(q) ==
  UNION {IF ~t.ok THEN {Outcome(t.srv, FALSE, FALSE)}
         ELSE UNION {Finish(r) : r \in Run(t.srv, q)} : t \in TakeTr(srv, def_tr)}

---------------------------------------------------------------------------
(***************************************************************************)
(* FbTransactionManager                                                    *)
(***************************************************************************)

Return(ok) == result' = IF ok THEN "ok" ELSE "error"

Refuse == Return(FALSE) /\ UNCHANGED <<status, in_transaction, def_tr, srv>>

\* begin_transaction at depth 0: the raw Connection's.
BeginOutermost ==
  /\ status = 0
  /\ \E t \in TakeTr(srv, def_tr) :
       /\ srv' = t.srv
       /\ def_tr' = t.ok
       /\ in_transaction' = (t.ok \/ in_transaction)
       /\ status' = IF t.ok THEN 1 ELSE 0
       /\ Return(t.ok)

\* begin_transaction inside a level: the savepoint of the depth it opens.
BeginSavepoint ==
  /\ Valid /\ status \in 1 .. MaxDepth - 1
  /\ \E r \in Execute(Statement("savepoint", status + 1)) :
       /\ srv' = r.srv
       /\ def_tr' = r.kept
       /\ status' = IF r.ok THEN status + 1 ELSE status
       /\ Return(r.ok)
  /\ UNCHANGED in_transaction

\* rollback_transaction: the level ends, or the manager breaks.
RolledBackTo(r, depth) ==
  /\ srv' = r.srv
  /\ def_tr' = r.kept
  /\ status' = IF r.ok THEN depth ELSE InError

RollbackOutermost ==
  /\ status = 1
  /\ in_transaction' = FALSE
  /\ \E r \in EndDefault(srv, def_tr, "rollback") : RolledBackTo(r, 0) /\ Return(r.ok)

\* Mutant of RollbackSavepoint: it rolls back to the savepoint of the level around.
RollbackSavepointOuter ==
  /\ Valid /\ status > 1
  /\ \E r \in Execute(Statement("rollback to", IF status > 2 THEN status - 1 ELSE status)) :
       RolledBackTo(r, status - 1) /\ Return(r.ok)
  /\ UNCHANGED in_transaction

RollbackSavepoint ==
  /\ Valid /\ status > 1
  /\ \E r \in Execute(Statement("rollback to", status)) :
       RolledBackTo(r, status - 1) /\ Return(r.ok)
  /\ UNCHANGED in_transaction

\* Mutant of CommitOutermost: the raw Connection keeps its flag.
CommitOutermostKeepsFlag ==
  /\ status = 1
  /\ \E r \in EndDefault(srv, def_tr, "commit") :
       /\ Return(r.ok)
       /\ IF r.ok THEN status' = 0 /\ srv' = r.srv /\ def_tr' = r.kept
          ELSE \E q \in EndDefault(r.srv, r.kept, "rollback") : RolledBackTo(q, 0)
  /\ UNCHANGED in_transaction

\* commit_transaction: a failed commit of the outermost level is rolled back.
CommitOutermost ==
  /\ status = 1
  /\ in_transaction' = FALSE
  /\ \E r \in EndDefault(srv, def_tr, "commit") :
       /\ Return(r.ok)
       /\ IF r.ok THEN status' = 0 /\ srv' = r.srv /\ def_tr' = r.kept
          ELSE \E q \in EndDefault(r.srv, r.kept, "rollback") : RolledBackTo(q, 0)

CommitSavepoint ==
  /\ Valid /\ status > 1
  /\ status' = status - 1
  /\ Return(TRUE)
  /\ UNCHANGED <<in_transaction, def_tr, srv>>

\* rollback_transaction and commit_transaction outside a transaction.
NotInTransaction == status = 0 /\ Refuse

\* All three calls of a broken manager.
BrokenTransactionManager == status = InError /\ Refuse

\* execute_returning_count, batch_execute and the returning queries of load: none
\* of them looks at the status.
ExecuteWork(w) ==
  /\ w \notin srv.durable \cup Done(srv.log)
  /\ \E r \in Execute(Statement("work", w)) :
       /\ srv' = r.srv
       /\ def_tr' = r.kept
       /\ Return(r.ok)
  /\ UNCHANGED <<status, in_transaction>>

\* is_valid of the pool's DieselConnectionManager; has_broken never refuses a
\* connection, so a broken one is handed out as long as this succeeds.
IsValid ==
  /\ \E r \in Execute(Statement("check", 0)) :
       /\ srv' = r.srv
       /\ def_tr' = r.kept
       /\ Return(r.ok)
  /\ UNCHANGED <<status, in_transaction>>

\* The server ends, or loses the attachment, between two calls.
ServerGone ==
  /\ srv.up
  /\ srv' = Gone(srv)
  /\ UNCHANGED <<status, in_transaction, def_tr, result>>

---------------------------------------------------------------------------

Init ==
  /\ status = 0
  /\ in_transaction = FALSE
  /\ def_tr = FALSE
  /\ srv = [up |-> TRUE, log |-> <<>>, durable |-> {}]
  /\ result = "ok"

Next ==
  \/ BeginOutermost
  \/ BeginSavepoint
  \/ RollbackOutermost
  \/ RollbackSavepoint
  \/ CommitOutermost
  \/ CommitSavepoint
  \/ NotInTransaction
  \/ BrokenTransactionManager
  \/ \E w \in Works : ExecuteWork(w)
  \/ IsValid
  \/ ServerGone

Spec == Init /\ [][Next]_vars

---------------------------------------------------------------------------
(***************************************************************************)
(* Properties                                                              *)
(***************************************************************************)

\* The types of the variables, a part of DepthIsReal.
TypeOK ==
  /\ status \in 0 .. MaxDepth \cup {InError}
  /\ in_transaction \in BOOLEAN
  /\ def_tr \in BOOLEAN
  /\ srv.up \in BOOLEAN
  /\ srv.log \in Seq({Work(w) : w \in Works} \cup {Savepoint(d) : d \in 2 .. MaxDepth})
  /\ srv.durable \subseteq Works
  /\ result \in {"ok", "error"}

\* The variables have their types, and the depth of the manager, the raw Connection and the server agree: an explicit
\* transaction is open exactly when the depth is not zero, each level inside it
\* has its savepoint, and they nest; outside no work is open.
DepthIsReal ==
  /\ TypeOK
  /\ Valid =>
       /\ in_transaction <=> status > 0
       /\ status > 0 => def_tr
       /\ status = 0 => srv.log = <<>>
       /\ srv.up => \A d \in 2 .. status :
            /\ Place(srv.log, d) > 0
            /\ d > 2 => Place(srv.log, d) > Place(srv.log, d - 1)

\* Where level d begins in the log, and where the one inside it does.
Start(d) == IF d = 1 THEN 0 ELSE Place(srv.log, d)
End(d) == IF d = status THEN Len(srv.log) ELSE Place(srv.log, d + 1)

Levels == IF Valid THEN [d \in 1 .. status |->
                          IF srv.up THEN Done(SubSeq(srv.log, Start(d) + 1, End(d))) ELSE {}]
          ELSE <<>>

Promise == INSTANCE NestedTransactions WITH
  frames <- Levels,
  limbo <- IF Valid THEN {} ELSE Done(srv.log),
  durable <- srv.durable,
  broken <- ~Valid,
  lost <- ~srv.up

\* Savepoints named after their depth, of which a committed level leaves its own
\* behind, implement nested transactions: a level keeps its work apart from those
\* around it, whatever the server refuses.
ImplementsNestedTransactions == Promise!Spec

============================================================================
