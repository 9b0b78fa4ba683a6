------------------------------- MODULE Streams ------------------------------
(***************************************************************************)
(* What open files promise: a file is a sequence of words that lasts as    *)
(* long as it has its name or someone has it open; an open file is a place *)
(* in it, shared by all descriptors that dup() and fork() made of it; a    *)
(* read or a piece of a write happens at that place and moves it.          *)
(***************************************************************************)
EXTENDS Naturals, Sequences

CONSTANTS Inums, Files, Procs, Fds, Value, Limit

VARIABLES exist,     \* the files that exist
          content,   \* content[i]: the words of i
          name,      \* the file that has the name, or 0
          place,     \* place[f]: ip and off of an open file; ip is 0 if it is not open
          fds        \* fds[p][fd]: an open file, or 0

vars == <<exist, content, name, place, fds>>

Closed == [ip |-> 0, off |-> 0]

Init ==
    /\ exist = {} /\ content = [i \in Inums |-> <<>>] /\ name = 0
    /\ place = [f \in Files |-> Closed]
    /\ fds = [p \in Procs |-> [fd \in Fds |-> 0]]

\* A place at the start of i, with one descriptor, if there is room.
Opened(i) ==
    \/ UNCHANGED <<place, fds>>
    \/ \E f \in Files, p \in Procs, fd \in Fds :
          /\ place[f] = Closed /\ fds[p][fd] = 0
          /\ place' = [place EXCEPT ![f] = [ip |-> i, off |-> 0]]
          /\ fds' = [fds EXCEPT ![p][fd] = f]

Open == name # 0 /\ Opened(name) /\ UNCHANGED <<exist, content, name>>

Create ==
    /\ name = 0
    /\ \E i \in Inums \ exist : /\ exist' = exist \cup {i}
                                /\ name' = i
                                /\ Opened(i)
    /\ UNCHANGED content

Unlink == name' = 0 /\ UNCHANGED <<exist, content, place, fds>>

\* A descriptor is closed or copied, or all those of a process are.
Share ==
    /\ \E p, q \in Procs, fd, gd \in Fds :
          fds' \in {[fds EXCEPT ![p][fd] = 0], [fds EXCEPT ![p] = [d \in Fds |-> 0]],
                    [fds EXCEPT ![p][fd] = fds[p][gd]], [fds EXCEPT ![p] = fds[q]]}
    /\ UNCHANGED <<exist, content, name, place>>

\* Without descriptors a place is closed.
Leave(f) ==
    /\ \A p \in Procs, fd \in Fds : fds[p][fd] # f
    /\ place' = [place EXCEPT ![f] = Closed]
    /\ UNCHANGED <<exist, content, name, fds>>

\* Without a name and a place the file ends.
End(i) ==
    /\ i # name /\ \A f \in Files : place[f].ip # i
    /\ exist' = exist \ {i}
    /\ content' = [content EXCEPT ![i] = <<>>]
    /\ UNCHANGED <<name, place, fds>>

\* n words are read, or written.
Read(f, n) ==
    /\ place[f].ip # 0 /\ place[f].off + n <= Len(content[place[f].ip])
    /\ place' = [place EXCEPT ![f].off = @ + n]
    /\ UNCHANGED <<exist, content, name, fds>>

Write(f, n, v) ==
    LET i == place[f].ip
        off == place[f].off
    IN /\ i # 0
       /\ content' = [content EXCEPT ![i] =
            [k \in 1..(IF off + n > Len(@) THEN off + n ELSE Len(@)) |->
                IF k \in off + 1..off + n THEN v ELSE @[k]]]
       /\ place' = [place EXCEPT ![f].off = @ + n]
       /\ UNCHANGED <<exist, name, fds>>

Next ==
    \/ Open \/ Create \/ Unlink \/ Share
    \/ \E f \in Files : Leave(f)
    \/ \E i \in Inums : End(i)
    \/ \E f \in Files, n \in 1..Limit : Read(f, n)
    \/ \E f \in Files, n \in 1..Limit, p \in Procs : Write(f, n, Value[p])

Spec == Init /\ [][Next]_vars
=============================================================================
