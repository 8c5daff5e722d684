----------------------------- MODULE StoreWriter ----------------------------
(***************************************************************************)
(* What the daemon's start promises of a worktree's store: one process at  *)
(* a time has it open for writing, and it executes the project's tests     *)
(* only after its starter accepted the start.                              *)
(***************************************************************************)
CONSTANTS Starts, None

VARIABLES
    writer,     \* the process with the store open, None without one
    executes    \* whether it has begun

Init == writer = None /\ executes = FALSE

Open(p) == writer = None /\ writer' = p /\ executes' = FALSE

Begin == writer # None /\ ~executes /\ executes' = TRUE /\ UNCHANGED writer

\* A stop ends what executes before it closes the store.
Halt == executes /\ executes' = FALSE /\ UNCHANGED writer

End == writer # None /\ writer' = None /\ executes' = FALSE

Next == (\E p \in Starts : Open(p)) \/ Begin \/ Halt \/ End

Spec == Init /\ [][Next]_<<writer, executes>>
=============================================================================
