--------------------------- MODULE SequentialCopy ---------------------------
(***************************************************************************)
(* What a block read promises its caller (d_ops.read of                    *)
(* includes/driver.h, called through device_read or directly by            *)
(* copy2ram): the destination receives the bytes of the medium from the    *)
(* requested address on, in order, each exactly once and nothing beyond    *)
(* the requested length, and the call returns only when all are there.     *)
(* The module says nothing of commands, pages or polling.                  *)
(***************************************************************************)
EXTENDS Integers

CONSTANTS Medium,     \* the contents of the medium, a function on addresses
          BufSize,    \* size of the destination
          Requests    \* the [addr, len] pairs callers ask for

NoByte == -1            \* what the destination holds before the first read

VARIABLES reading,    \* a call is in progress
          req,        \* its request
          done,       \* how many bytes have been stored
          buf         \* the destination

vars == <<reading, req, done, buf>>

Init == /\ reading = FALSE
        /\ req \in Requests
        /\ done = 0
        /\ buf = [k \in 0..BufSize-1 |-> NoByte]

Call(r) == /\ ~reading
           /\ reading' = TRUE
           /\ req' = r
           /\ done' = 0
           /\ UNCHANGED buf

CopyByte == /\ reading
            /\ done < req.len
            /\ buf' = [buf EXCEPT ![done] = Medium[req.addr + done]]
            /\ done' = done + 1
            /\ UNCHANGED <<reading, req>>

Return == /\ reading
          /\ done = req.len
          /\ reading' = FALSE
          /\ UNCHANGED <<req, done, buf>>

Next == \/ \E r \in Requests : Call(r)
        \/ CopyByte
        \/ Return

Spec == Init /\ [][Next]_vars
=============================================================================
