---------------------------- MODULE AtomicStore ----------------------------
(***************************************************************************)
(* What a transaction manager promises (ADR-001 in the words of            *)
(* sotfs-tx/src/lib.rs): outside a transaction one sees the public value   *)
(* of the store; a transaction either replaces it by a valid one, or       *)
(* leaves it as it was and reports an error; nothing else changes it.      *)
(***************************************************************************)
CONSTANT Valid(_)           \* the integrity check a commit has to pass

VARIABLES public, outcome   \* the outcome of the last transaction, or "running"

Init == outcome = "none"

Begin == outcome # "running" /\ outcome' = "running" /\ UNCHANGED public

Commit == outcome = "running" /\ outcome' = "ok" /\ Valid(public')

Abort == outcome = "running" /\ outcome' = "err" /\ UNCHANGED public

Next == Begin \/ Commit \/ Abort

Spec == Init /\ [][Next]_<<public, outcome>>
=============================================================================
