----------------------------- MODULE MCLockLog -----------------------------
(* Instances of LockLog for TLC. *)
EXTENDS LockLog, TLC

CONSTANTS d1, d2, x, f, g

On(n, d) == [name |-> n, device |-> d]

\* Agents of one name on two devices.
Namesakes == {On(x, d1), On(x, d2)}

Empty == {<<>>}

\* A new log, or one begun by a build that did not record the device.
Old == {<<>>,
        <<[id |-> 1, path |-> f, actor |-> On(x, Legacy), action |-> "Acquire",
           ts |-> 0, ends |-> 1, takeover |-> FALSE]>>}

LockSymmetry == Permutations({d1, d2}) \cup Permutations({f, g})
=============================================================================
