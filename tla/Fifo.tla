-------------------------------- MODULE Fifo --------------------------------
(***************************************************************************)
(* What a pipe promises: the bytes that are written are read once, in the  *)
(* order of each writer, and no more than Size of them wait to be read.    *)
(***************************************************************************)
EXTENDS Naturals, Sequences

CONSTANTS Readers, Writers, Msgs, Size

VARIABLES queue,  \* written and not yet read
          left,   \* left[w]: what w has still to write
          got     \* got[r]: the result of the last read of r

vars == <<queue, left, got>>

Init ==
    /\ queue = <<>>
    /\ left = [w \in Writers |-> <<>>]
    /\ got = [r \in Readers |-> <<>>]

Begin(w, m) ==
    /\ left[w] = <<>>
    /\ left' = [left EXCEPT ![w] = m]
    /\ UNCHANGED <<queue, got>>

\* The next k bytes of w enter the pipe.
Put(w, k) ==
    /\ Len(queue) + k <= Size
    /\ queue' = queue \o SubSeq(left[w], 1, k)
    /\ left' = [left EXCEPT ![w] = SubSeq(@, k + 1, Len(@))]
    /\ UNCHANGED got

\* The same, and w gives up the rest.
Abort(w, k) ==
    /\ Len(queue) + k <= Size
    /\ queue' = queue \o SubSeq(left[w], 1, k)
    /\ left' = [left EXCEPT ![w] = <<>>]
    /\ UNCHANGED got

Get(r, k) ==
    /\ got' = [got EXCEPT ![r] = SubSeq(queue, 1, k)]
    /\ queue' = SubSeq(queue, k + 1, Len(queue))
    /\ UNCHANGED left

Next ==
    \/ \E w \in Writers, m \in Msgs : Begin(w, m)
    \/ \E w \in Writers : \E k \in 0..Len(left[w]) : Put(w, k) \/ Abort(w, k)
    \/ \E r \in Readers : \E k \in 0..Len(queue) : Get(r, k)

Spec == Init /\ [][Next]_vars
=============================================================================
