------------------------------ MODULE ByteStream ------------------------------
(***************************************************************************)
(* What a reader expects of a stream of bytes: every byte once and in      *)
(* order, and "nothing", which it takes for the end, only at the end.      *)
(* A Mark in the stream stands for an empty message: a stream made of      *)
(* messages may read as ended there, although more follows.                *)
(***************************************************************************)
EXTENDS SequencesExt

CONSTANT Mark

VARIABLES
    written,    \* all that was written: bytes and Marks
    taken,      \* how many of them the reader has had
    closed,     \* nothing more will be written
    got,        \* the bytes that the last read returned
    eof         \* it returned none

vars == <<written, taken, closed, got, eof>>

Init ==
    /\ written = <<>>
    /\ taken = 0
    /\ closed = FALSE
    /\ got = <<>>
    /\ eof = FALSE

Write ==
    /\ ~closed
    /\ IsStrictPrefix(written, written')
    /\ UNCHANGED <<taken, closed, got, eof>>

Close ==
    /\ closed' = TRUE
    /\ UNCHANGED <<written, taken, got, eof>>

Read ==
    /\ taken' \in taken + 1 .. Len(written)
    /\ got' = SubSeq(written, taken + 1, taken')
    /\ Mark \notin ToSet(got')
    /\ eof' = FALSE
    /\ UNCHANGED <<written, closed>>

ReadNothing ==
    /\ \/ taken = Len(written) /\ closed /\ taken' = taken
       \/ /\ taken < Len(written) /\ written[taken + 1] = Mark
          /\ taken' \in {taken, taken + 1}
    /\ got' = <<>>
    /\ eof' = TRUE
    /\ UNCHANGED <<written, closed>>

Next == Write \/ Close \/ Read \/ ReadNothing

Spec == Init /\ [][Next]_vars
==============================================================================
