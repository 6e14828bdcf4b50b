---------------------------- MODULE Connection ----------------------------
(***************************************************************************)
(* The transactions of one `Connection` (src/connection/mod.rs) and of the *)
(* `Transaction` objects made from it (src/transaction/mod.rs), against a  *)
(* server that may refuse any request and a link that may break at any     *)
(* moment, a commit in flight included.                                    *)
(*                                                                         *)
(* The default transaction def_tr is kept between calls and reused through *)
(* commit_retaining and rollback_retaining.  Outside an explicit           *)
(* transaction every call commits or rolls it back itself.                 *)
(*                                                                         *)
(* Abstraction: statements are the members of Works, each run once; the    *)
(* statement cache is module StmtCache, which shows that giving a          *)
(* statement back never displaces another, hence never fails.              *)
(***************************************************************************)
EXTENDS Naturals, FiniteSets

CONSTANTS
  Works,        \* the executions of statements
  TrHandles,    \* the transaction handles the server gives out
  Confs,        \* transaction configurations
  DefConf,      \* def_confs_tr, the default one
  NoTr          \* no transaction

ASSUME DefConfAssumption == DefConf \in Confs
ASSUME NoTrAssumption == NoTr \notin TrHandles

VARIABLES
  def_tr,           \* Connection.def_tr
  in_transaction,   \* Connection.in_transaction
  tr,               \* the live Transaction value, a closure's or an object
  iter,             \* the transaction a live StmtIter opened its cursor in
  phase,            \* "open", or "closed" once the Connection is gone
  socket,           \* the TCP socket of the pure-rust client
  srv,              \* the server's side of the attachment
  told,             \* history: what the application knows of each execution
  orphans           \* history: handles dropped although their rollback failed

vars == <<def_tr, in_transaction, tr, iter, phase, socket, srv, told, orphans>>

Promise == INSTANCE UnitsOfWork WITH durable <- srv.durable

---------------------------------------------------------------------------
(***************************************************************************)
(* The server.  A request yields one of a set of replies: the server's     *)
(* next state and whether the client sees a success.                       *)
(***************************************************************************)

\* The server loses the attachment and undoes what was not committed.
Gone(s) == [s EXCEPT !.up = FALSE, !.active = {}, !.work = [h \in TrHandles |-> {}]]

\* TrOp performed on h.
Done(s, op, h) ==
  [s EXCEPT
     !.active  = IF op \in {"Commit", "Rollback"} THEN @ \ {h} ELSE @,
     !.work    = [@ EXCEPT ![h] = {}],
     !.durable = IF op \in {"Commit", "CommitRetaining"} THEN @ \cup s.work[h] ELSE @]

\* transaction_operation: refused, performed, or the link breaks before or after
\* the server performed it.
Ask(s, op, h) ==
  {[srv |-> s, ok |-> FALSE]} \cup
  (IF s.up /\ h \in s.active
   THEN {[srv |-> Done(s, op, h), ok |-> TRUE],
         [srv |-> Gone(s), ok |-> FALSE],
         [srv |-> Gone(Done(s, op, h)), ok |-> FALSE]}
   ELSE {})

\* begin_transaction with configuration c.
BeginTr(s, c) ==
  {[srv |-> s, ok |-> FALSE, h |-> NoTr]} \cup
  (IF s.up
   THEN {[srv |-> Gone(s), ok |-> FALSE, h |-> NoTr]} \cup
        {[srv |-> [s EXCEPT !.active = @ \cup {h}, !.conf = [@ EXCEPT ![h] = c]],
          ok |-> TRUE, h |-> h] : h \in TrHandles \ s.active}
   ELSE {})

\* Statement w run in transaction h.  `done` tells whether it had an effect: the
\* client can see an error after one (the row does not convert, the affected
\* rows cannot be read).
Run(s, h, w) ==
  {[srv |-> s, ok |-> FALSE, done |-> FALSE]} \cup
  (IF s.up /\ h \in s.active
   THEN {[srv |-> Gone(s), ok |-> FALSE, done |-> FALSE]} \cup
        {[srv |-> [s EXCEPT !.work[h] = @ \cup {w}], ok |-> b, done |-> TRUE] :
           b \in BOOLEAN}
   ELSE {})

---------------------------------------------------------------------------
(***************************************************************************)
(* Parts of the calls                                                      *)
(***************************************************************************)

NoTransaction == [by |-> "none", h |-> NoTr, auto |-> FALSE, res |-> "none"]

Free == phase = "open" /\ tr.by = "none" /\ iter = NoTr

\* The default transaction is taken, or a new one begun.
TakeTr(c) ==
  IF def_tr # NoTr THEN {[srv |-> srv, ok |-> TRUE, h |-> def_tr]} ELSE BeginTr(srv, c)

\* The application learns the fate v of the unit of o.
Settle(o, v) == [w \in Works |-> IF told[w] = o THEN v ELSE told[w]]

\* What a failed commit means once its transaction is rolled back: undone, unless
\* the link broke in it and nobody knows.
Verdict(s, r) == IF s.up /\ ~r.srv.up THEN "doubtful" ELSE "undone"

\* Drop of a Transaction: it is rolled back, and a failure to do so is ignored.
DropTr(s, h) ==
  \E r \in Ask(s, "Rollback", h) :
    /\ srv' = r.srv
    /\ orphans' = IF ~r.ok /\ r.srv.up THEN orphans \cup {h} ELSE orphans \cap r.srv.active

\* The unit the work of the live Transaction belongs to.
Owner == IF tr.by = "object" THEN "obj" ELSE IF tr.auto THEN "call" ELSE "conn"

\* What is told of an execution for owner o.
Report(r, o) ==
  CASE ~r.done                         -> "undone"
    [] r.done /\ (r.ok \/ o = "call")  -> o
    [] OTHER                           -> "doubtful"

---------------------------------------------------------------------------
(***************************************************************************)
(* Explicit transactions of the Connection                                 *)
(***************************************************************************)

\* begin_transaction_config
BeginTransaction(c) ==
  /\ Free
  /\ \E t \in TakeTr(c) :
       /\ srv' = t.srv
       /\ def_tr' = t.h
       /\ in_transaction' = (t.ok \/ in_transaction)
  /\ UNCHANGED <<tr, iter, phase, socket, told, orphans>>

\* use_transaction with a retaining operation, as commit and rollback do: the
\* transaction is kept even when the operation fails.
FinishDefault(op, o, v) ==
  \E t \in TakeTr(DefConf) :
    /\ def_tr' = t.h
    /\ \/ ~t.ok /\ srv' = t.srv /\ told' = Settle(o, "doubtful")
       \/ /\ t.ok
          /\ \E r \in Ask(t.srv, op, t.h) :
               /\ srv' = r.srv
               /\ told' = Settle(o, IF r.ok THEN v ELSE "doubtful")

\* Mutant of Rollback: it asks for the wrong operation.
RollbackCommits ==
  /\ Free
  /\ in_transaction' = FALSE
  /\ FinishDefault("CommitRetaining", "conn", "undone")
  /\ UNCHANGED <<tr, iter, phase, socket, orphans>>

\* commit and rollback: the flag is cleared before the server is asked.
Commit ==
  /\ Free
  /\ in_transaction' = FALSE
  /\ FinishDefault("CommitRetaining", "conn", "committed")
  /\ UNCHANGED <<tr, iter, phase, socket, orphans>>

Rollback ==
  /\ Free
  /\ in_transaction' = FALSE
  /\ FinishDefault("RollbackRetaining", "conn", "undone")
  /\ UNCHANGED <<tr, iter, phase, socket, orphans>>

---------------------------------------------------------------------------
(***************************************************************************)
(* with_transaction, and execute and execute_returnable, which are calls   *)
(* of it with a closure that runs one statement                            *)
(***************************************************************************)

WithTransaction(c, by) ==
  /\ Free
  /\ by = "execute" => c = DefConf
  /\ \E t \in TakeTr(c) :
       /\ srv' = t.srv
       /\ def_tr' = NoTr
       /\ tr' = IF t.ok
                THEN [by |-> by, h |-> t.h, auto |-> ~in_transaction, res |-> "none"]
                ELSE NoTransaction
  /\ UNCHANGED <<in_transaction, iter, phase, socket, told, orphans>>

\* Mutant of ClosureReturn: an explicit transaction is not put back.
ClosureReturnDropsTr(res) ==
  /\ tr.by \in {"closure", "execute"}
  /\ tr' = NoTransaction
  /\ def_tr' = NoTr
  /\ DropTr(srv, tr.h)
  /\ UNCHANGED <<in_transaction, iter, phase, socket, told>>

\* Mutant of ClosureReturn: a transaction whose commit failed is neither rolled
\* back nor put back.
ClosureReturnForgetsTr(res) ==
  /\ tr.by \in {"closure", "execute"} /\ tr.auto
  /\ tr' = NoTransaction
  /\ \E r \in Ask(srv, IF res = "ok" THEN "CommitRetaining" ELSE "RollbackRetaining", tr.h) :
       /\ srv' = r.srv
       /\ def_tr' = IF r.ok THEN tr.h ELSE NoTr
       /\ told' = Settle("call", IF ~r.ok THEN "undone" ELSE IF res = "ok" THEN "committed" ELSE "undone")
  /\ UNCHANGED <<in_transaction, iter, phase, socket, orphans>>

\* Mutant of ClosureReturn: a transaction rolled back for good is put back.
ClosureReturnKeepsDead(res) ==
  /\ tr.by \in {"closure", "execute"} /\ tr.auto
  /\ tr' = NoTransaction
  /\ DropTr(srv, tr.h)
  /\ def_tr' = tr.h
  /\ told' = Settle("call", "undone")
  /\ UNCHANGED <<in_transaction, iter, phase, socket>>

\* The closure returned `res`; what is left of with_transaction_config.
ClosureReturn(res) ==
  /\ tr.by \in {"closure", "execute"}
  /\ tr.by = "execute" => tr.res = res
  /\ tr' = NoTransaction
  /\ IF ~tr.auto
     THEN def_tr' = tr.h /\ UNCHANGED <<srv, told, orphans>>
     ELSE \E r \in Ask(srv, IF res = "ok" THEN "CommitRetaining" ELSE "RollbackRetaining", tr.h) :
            \/ /\ r.ok
               /\ srv' = r.srv
               /\ def_tr' = tr.h
               /\ told' = Settle("call", IF res = "ok" THEN "committed" ELSE "undone")
               /\ UNCHANGED orphans
            \/ /\ ~r.ok
               /\ DropTr(r.srv, tr.h)
               /\ def_tr' = NoTr
               /\ told' = Settle("call", IF res = "ok" THEN Verdict(srv, r) ELSE "undone")
  /\ UNCHANGED <<in_transaction, iter, phase, socket>>

\* The closure panics and the caller goes on with the Connection: the Transaction
\* is dropped on the way, an explicit one included.
ClosurePanics ==
  /\ tr.by = "closure"
  /\ DropTr(srv, tr.h)
  /\ tr' = NoTransaction
  /\ told' = Settle(Owner, "undone")
  /\ UNCHANGED <<def_tr, in_transaction, iter, phase, socket>>

---------------------------------------------------------------------------
(***************************************************************************)
(* Transaction objects, and the Transaction a closure is given             *)
(***************************************************************************)

TransactionNew(c) ==
  /\ Free
  /\ \E t \in BeginTr(srv, c) :
       /\ srv' = t.srv
       /\ tr' = IF t.ok THEN [by |-> "object", h |-> t.h, auto |-> FALSE, res |-> "none"]
                ELSE NoTransaction
  /\ UNCHANGED <<def_tr, in_transaction, iter, phase, socket, told, orphans>>

\* execute, execute_returnable, execute_immediate or query_iter of a Transaction.
\* The closure of Connection::execute runs exactly one statement.
TrExecute(w) ==
  /\ tr.by # "none"
  /\ tr.by = "execute" => tr.res = "none"
  /\ told[w] = "new"
  /\ \E r \in Run(srv, tr.h, w) :
       /\ srv' = r.srv
       /\ told' = [told EXCEPT ![w] = Report(r, Owner)]
       /\ tr' = [tr EXCEPT !.res = IF tr.by # "execute" THEN @ ELSE IF r.ok THEN "ok" ELSE "err"]
  /\ UNCHANGED <<def_tr, in_transaction, iter, phase, socket, orphans>>

\* commit_retaining and rollback_retaining of a Transaction.
TrRetain(op, v) ==
  /\ tr.by \in {"closure", "object"}
  /\ \E r \in Ask(srv, op, tr.h) :
       /\ srv' = r.srv
       /\ told' = Settle(Owner, IF r.ok THEN v ELSE "doubtful")
  /\ UNCHANGED <<def_tr, in_transaction, tr, iter, phase, socket, orphans>>

\* Transaction::commit: a failed one is rolled back.
TransactionCommit ==
  /\ tr.by = "object"
  /\ tr' = NoTransaction
  /\ \E r \in Ask(srv, "Commit", tr.h) :
       \/ /\ r.ok
          /\ srv' = r.srv
          /\ told' = Settle("obj", "committed")
          /\ UNCHANGED orphans
       \/ /\ ~r.ok
          /\ DropTr(r.srv, tr.h)
          /\ told' = Settle("obj", Verdict(srv, r))
  /\ UNCHANGED <<def_tr, in_transaction, iter, phase, socket>>

\* Transaction::rollback, or dropping the object.
TransactionRollback ==
  /\ tr.by = "object"
  /\ tr' = NoTransaction
  /\ DropTr(srv, tr.h)
  /\ told' = Settle("obj", "undone")
  /\ UNCHANGED <<def_tr, in_transaction, iter, phase, socket>>

---------------------------------------------------------------------------
(***************************************************************************)
(* query_iter of the Connection                                            *)
(***************************************************************************)

\* Mutant of QueryIter: a failed query is not rolled back.
QueryIterKeepsWork(w) ==
  /\ Free
  /\ told[w] = "new"
  /\ \E t \in TakeTr(DefConf) :
       /\ def_tr' = t.h
       /\ t.ok
       /\ \E r \in Run(t.srv, t.h, w) :
            /\ srv' = r.srv
            /\ iter' = IF r.ok THEN t.h ELSE NoTr
            /\ told' = [told EXCEPT ![w] = IF ~r.ok THEN "undone"
                                            ELSE IF in_transaction THEN "conn" ELSE "call"]
  /\ UNCHANGED <<in_transaction, tr, phase, socket, orphans>>

QueryIter(w) ==
  /\ Free
  /\ told[w] = "new"
  /\ \E t \in TakeTr(DefConf) :
       /\ def_tr' = t.h
       /\ \/ /\ ~t.ok
             /\ srv' = t.srv
             /\ UNCHANGED <<told, iter>>
          \/ /\ t.ok
             /\ \E r \in Run(t.srv, t.h, w) :
                  \/ /\ r.ok
                     /\ iter' = t.h
                     /\ srv' = r.srv
                     /\ told' = [told EXCEPT ![w] = IF in_transaction THEN "conn" ELSE "call"]
                  \/ /\ ~r.ok /\ in_transaction
                     /\ srv' = r.srv
                     /\ told' = [told EXCEPT ![w] = Report(r, "conn")]
                     /\ UNCHANGED iter
                  \/ /\ ~r.ok /\ ~in_transaction
                     /\ \E b \in Ask(r.srv, "RollbackRetaining", t.h) :
                          /\ srv' = b.srv
                          /\ told' = [told EXCEPT ![w] = IF r.done /\ ~b.ok THEN "doubtful"
                                                         ELSE "undone"]
                     /\ UNCHANGED iter
  /\ UNCHANGED <<in_transaction, tr, phase, socket, orphans>>

\* The statement does not prepare: query_iter returns without touching the
\* transaction it took or began.
QueryIterUnprepared ==
  /\ Free
  /\ \E t \in TakeTr(DefConf) : def_tr' = t.h /\ srv' = t.srv
  /\ UNCHANGED <<in_transaction, tr, iter, phase, socket, told, orphans>>

\* StmtIter::next fetches in the default transaction.
StmtIterNext ==
  /\ iter # NoTr
  /\ \E t \in TakeTr(DefConf) : def_tr' = t.h /\ srv' = t.srv
  /\ UNCHANGED <<in_transaction, tr, iter, phase, socket, told, orphans>>

\* Drop of the StmtIter: outside an explicit transaction it commits, and ignores
\* a failure to.
StmtIterDrop ==
  /\ iter # NoTr
  /\ iter' = NoTr
  /\ IF in_transaction
     THEN UNCHANGED <<def_tr, srv, told>>
     ELSE FinishDefault("CommitRetaining", "call", "committed")
  /\ UNCHANGED <<in_transaction, tr, phase, socket, orphans>>

---------------------------------------------------------------------------
(***************************************************************************)
(* The end of the Connection, and the link                                 *)
(***************************************************************************)

\* cleanup_and_detach: the default transaction is rolled back, whether that succeeds
\* or not, then the server is asked to let the attachment go, which undoes whatever
\* was left.  It may refuse: the attachment lives on, with a transaction whose
\* rollback was refused, and nothing of the Connection knows either any more.
Detach ==
  /\ \/ srv' = Gone(srv) /\ orphans' = {}
     \/ IF def_tr = NoTr THEN UNCHANGED <<srv, orphans>> ELSE DropTr(srv, def_tr)
  /\ def_tr' = NoTr
  /\ told' = Settle("conn", "undone")
  /\ phase' = "closed"
  /\ UNCHANGED <<in_transaction, tr, iter>>

\* Connection::close forgets the Connection afterwards, its client included, whether
\* the detachment succeeded or not: the socket stays open, and an attachment the
\* server did not let go lives until the link breaks.
Close ==
  /\ Free
  /\ Detach
  /\ UNCHANGED socket

\* Dropping the Connection drops its client, which closes the socket; the server
\* hears of that in its own time (LinkLost).
DropConnection ==
  /\ Free
  /\ Detach
  /\ socket' = "closed"

\* The link breaks, or the server finds its socket closed.
LinkLost ==
  /\ srv.up
  /\ srv' = Gone(srv)
  /\ orphans' = {}
  /\ UNCHANGED <<def_tr, in_transaction, tr, iter, phase, socket, told>>

Init ==
  /\ def_tr = NoTr
  /\ in_transaction = FALSE
  /\ tr = NoTransaction
  /\ iter = NoTr
  /\ phase = "open"
  /\ socket = "open"
  /\ srv = [up |-> TRUE, active |-> {}, conf |-> [h \in TrHandles |-> DefConf],
            work |-> [h \in TrHandles |-> {}], durable |-> {}]
  /\ told = [w \in Works |-> "new"]
  /\ orphans = {}

Next ==
  \/ \E c \in Confs :
       \/ BeginTransaction(c)
       \/ WithTransaction(c, "closure")
       \/ WithTransaction(c, "execute")
       \/ TransactionNew(c)
  \/ Commit
  \/ Rollback
  \/ \E res \in {"ok", "err"} : ClosureReturn(res)
  \/ ClosurePanics
  \/ \E w \in Works : TrExecute(w) \/ QueryIter(w)
  \/ TrRetain("CommitRetaining", "committed")
  \/ TrRetain("RollbackRetaining", "undone")
  \/ TransactionCommit
  \/ TransactionRollback
  \/ QueryIterUnprepared
  \/ StmtIterNext
  \/ StmtIterDrop
  \/ Close
  \/ DropConnection
  \/ LinkLost

Spec == Init /\ [][Next]_vars

---------------------------------------------------------------------------
(***************************************************************************)
(* Properties                                                              *)
(***************************************************************************)

Told(v) == {w \in Works : told[w] = v}

\* The transaction the statements of the Connection run in.
DefaultTr == IF tr.by \in {"closure", "execute"} THEN tr.h ELSE def_tr

\* The types of the variables, a part of HandlesAreLive.
TypeOK ==
  /\ def_tr \in TrHandles \cup {NoTr}
  /\ in_transaction \in BOOLEAN
  /\ tr \in [by : {"closure", "execute", "object"}, h : TrHandles, auto : BOOLEAN,
             res : {"none", "ok", "err"}] \cup {NoTransaction}
  /\ iter \in TrHandles \cup {NoTr}
  /\ phase \in {"open", "closed"}
  /\ socket \in {"open", "closed"}
  /\ srv \in [up : BOOLEAN, active : SUBSET TrHandles, conf : [TrHandles -> Confs],
              work : [TrHandles -> SUBSET Works], durable : SUBSET Works]
  /\ told \in [Works -> Promise!Tellings]
  /\ orphans \subseteq TrHandles

\* While the link is up, the work of an unfinished unit waits in the transaction
\* its end will act on: taking def_tr out of the Connection for a call and putting
\* it back never loses or replaces it.
OpenWorkIsHeld ==
  srv.up => \A w \in Works :
    /\ told[w] \in {"conn", "call"} => DefaultTr # NoTr /\ w \in srv.work[DefaultTr]
    /\ told[w] = "obj" => tr.by = "object" /\ w \in srv.work[tr.h]

\* Every transaction alive at the server is the default one or the live
\* Transaction's, unless the server refused to roll it back when it was dropped: no
\* other is left behind, not even by a Connection closed without its detachment.
NoTransactionLeaks == srv.active \subseteq {def_tr, tr.h} \cup orphans

\* Between calls outside an explicit transaction, the default transaction, which
\* the next call will reuse, holds no work but that of a failed commit or rollback.
DefaultIsClean ==
  Free /\ ~in_transaction /\ def_tr # NoTr => srv.work[def_tr] \subseteq Told("doubtful")

\* The variables have their types, and a call has a Transaction exactly while it
\* runs.  The handles the client keeps are alive at the server and kept once; a live
\* iterator fetches in the transaction that opened its cursor.
HandlesAreLive ==
  /\ TypeOK
  /\ srv.up =>
       /\ def_tr # NoTr => def_tr \in srv.active
       /\ tr.h # NoTr => tr.h \in srv.active
       /\ def_tr = tr.h => def_tr = NoTr
       /\ iter # NoTr => iter = def_tr
       /\ {def_tr, tr.h} \cap orphans = {}

\* The Connection implements the units of work an application relies on.
ImplementsUnitsOfWork == Promise!Spec

============================================================================
