----------------------------- MODULE LineInput ------------------------------
(***************************************************************************)
(* What console input promises: characters are edited until their line     *)
(* ends, lines are then read in the order in which they were typed, and no *)
(* more than Size characters wait.                                         *)
(***************************************************************************)
EXTENDS Naturals, Sequences

CONSTANTS Size
VARIABLES ready,   \* characters of ended lines that have not been read
          edit     \* the line that is typed

vars == <<ready, edit>>

Init == ready = <<>> /\ edit = <<>>

Ends(ch) == ch \in {"newline", "eof"} \/ Len(ready) + Len(edit) + 1 = Size

Type(ch) ==
    /\ Len(ready) + Len(edit) < Size
    /\ IF Ends(ch) THEN ready' = ready \o Append(edit, ch) /\ edit' = <<>>
                   ELSE edit' = Append(edit, ch) /\ UNCHANGED ready

\* Backspace and ^U
Erase(k) == edit' = SubSeq(edit, 1, k) /\ UNCHANGED ready

Read == ready # <<>> /\ ready' = Tail(ready) /\ UNCHANGED edit

Next ==
    \/ \E ch \in {"a", "newline", "eof"} : Type(ch)
    \/ \E k \in {0, Len(edit) - 1} : k >= 0 /\ Erase(k)
    \/ Read

Spec == Init /\ [][Next]_vars
=============================================================================
