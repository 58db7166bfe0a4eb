-------------------------------- MODULE Gtxn --------------------------------
(***************************************************************************)
(* The transaction manager (sotfs-tx/src/lib.rs) over the file system.     *)
(* with_transaction may be nested: a closure may open another one and go   *)
(* on after it failed.  Gtxn::begin, commit and rollback are also public:  *)
(* a caller may keep a transaction by hand.                                *)
(***************************************************************************)
EXTENDS Sotfs

CONSTANTS
  RollbackAfterCommit,  \* TRUE: a caller may roll back a committed Gtxn,
                        \* which the type allows
  MaxDepth, MaxTxns     \* bounds: nesting, transactions begun

VARIABLES
  stack,     \* snapshots of the with_transactions that are running
  manual,    \* the Gtxn a caller keeps by hand: state and snapshot
  outcome,   \* of the last transaction; "running" while one is open
  begun      \* transactions begun so far

txn  == <<stack, manual, outcome, begun>>
vars == <<g, txn>>

NoTxn == [state |-> "None", snapshot |-> <<>>]

TxnInit ==
  Init /\ stack = <<>> /\ manual = NoTxn /\ outcome = "none" /\ begun = 0

InTxn == stack # <<>> \/ manual.state = "Active"

\* One more call on the graph, by the closure or by the caller.
Body == InTxn /\ Next /\ UNCHANGED txn

\* with_transaction takes its snapshot and starts the closure.
Enter ==
  /\ manual.state # "Active"
  /\ Len(stack) < MaxDepth /\ begun < MaxTxns
  /\ stack' = Append(stack, g)
  /\ outcome' = "running" /\ begun' = begun + 1
  /\ UNCHANGED <<g, manual>>

Leave(result) ==
  /\ stack' = SubSeq(stack, 1, Len(stack) - 1)
  /\ outcome' = IF Len(stack) = 1 THEN result ELSE "running"
  /\ UNCHANGED <<manual, begun>>

\* The closure returned Err, and the graph stays as the closure left it.
ClosureErr_keep == stack # <<>> /\ UNCHANGED g /\ Leave("err")

\* The closure returned Err: rollback.
ClosureErr ==
  /\ stack # <<>>
  /\ g' = stack[Len(stack)]
  /\ Leave("err")

\* The closure returned Ok; `?` passes an error of check_invariants on before
\* the graph could be rolled back.
ClosureOk ==
  /\ stack # <<>>
  /\ Leave(IF check_invariants(g) THEN "ok" ELSE "err")
  /\ UNCHANGED g

\* Gtxn::begin, commit and rollback called by hand.
Begin ==
  /\ stack = <<>> /\ manual.state # "Active" /\ begun < MaxTxns
  /\ manual' = [state |-> "Active", snapshot |-> g]
  /\ outcome' = "running" /\ begun' = begun + 1
  /\ UNCHANGED <<g, stack>>

\* No check of the graph; a second commit is refused.
Commit ==
  /\ manual.state = "Active"
  /\ manual' = [manual EXCEPT !.state = "Committed"]
  /\ outcome' = "ok"
  /\ UNCHANGED <<g, stack, begun>>

\* The state of the transaction is not looked at; the transaction is consumed.
Rollback ==
  /\ \/ manual.state = "Active"
     \/ manual.state = "Committed" /\ RollbackAfterCommit /\ stack = <<>>
  /\ g' = manual.snapshot
  /\ manual' = NoTxn
  /\ outcome' = "err"
  /\ UNCHANGED <<stack, begun>>

TxnNext ==
  Body \/ Enter \/ ClosureErr \/ ClosureOk \/ Begin \/ Commit \/ Rollback

TxnSpec == TxnInit /\ [][TxnNext]_vars

-----------------------------------------------------------------------------
\* What others see: the graph as it was before the outermost transaction.
public == IF stack # <<>> THEN stack[1]
          ELSE IF manual.state = "Active" THEN manual.snapshot ELSE g

A == INSTANCE AtomicStore WITH Valid <- check_invariants

\* "If the closure returns Err or invariants fail, the graph is rolled back
\* automatically": transactions, nested or kept by hand, implement an atomic
\* store; a failed inner transaction does not leak into the outer one's
\* commit either, since the outer result then passed the check as a whole.
TransactionsAreAtomic == A!Spec
=============================================================================
