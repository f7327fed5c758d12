--------------------------- MODULE WriterPriority ---------------------------
(***************************************************************************)
(* What src/shared/rwLock.ts promises its callers, without counters,       *)
(* settled entries or promises: many readers or one writer, writers served *)
(* first and in the order they asked, and all waiting readers admitted     *)
(* together once no writer waits.                                          *)
(***************************************************************************)

CONSTANT Tasks

VARIABLES
    reading,        \* tasks that hold the lock for reading
    writing,        \* tasks that hold it for writing
    waitingToRead,  \* tasks that wait, readers ...
    waitingToWrite, \* ... and writers
    before          \* pairs of waiting writers: the first asked first

vars == <<reading, writing, waitingToRead, waitingToWrite, before>>

Present == reading \cup writing \cup waitingToRead \cup waitingToWrite

Init ==
    /\ reading = {}
    /\ writing = {}
    /\ waitingToRead = {}
    /\ waitingToWrite = {}
    /\ before = {}

\* Those of S whom nobody in S precedes.
First(S, order) == {t \in S : \A u \in S : <<u, t>> \notin order}

Among(S, order) == {p \in order : p[1] \in S /\ p[2] \in S}

\* Whoever may enter now does: the first writer of a free lock, else all the
\* readers when no writer holds the lock or waits for it.
AdmitWriter(r, w, wr, ww, order) ==
    /\ r = {} /\ w = {} /\ ww # {}
    /\ writing' = First(ww, order)
    /\ waitingToWrite' = ww \ First(ww, order)
    /\ before' = Among(ww \ First(ww, order), order)
    /\ reading' = r /\ waitingToRead' = wr

AdmitReaders(r, w, wr, ww, order) ==
    /\ w = {} /\ ww = {}
    /\ reading' = r \cup wr /\ waitingToRead' = {}
    /\ writing' = w /\ waitingToWrite' = ww /\ before' = {}

AdmitNobody(r, w, wr, ww, order) ==
    /\ w # {} \/ (r # {} /\ ww # {})
    /\ reading' = r /\ waitingToRead' = wr
    /\ writing' = w /\ waitingToWrite' = ww
    /\ before' = Among(ww, order)

Admit(r, w, wr, ww, order) ==
    \/ AdmitWriter(r, w, wr, ww, order)
    \/ AdmitReaders(r, w, wr, ww, order)
    \/ AdmitNobody(r, w, wr, ww, order)

AskToRead(t) ==
    /\ t \notin Present
    /\ Admit(reading, writing, waitingToRead \cup {t}, waitingToWrite, before)

AskToWrite(t) ==
    /\ t \notin Present
    /\ Admit(reading, writing, waitingToRead, waitingToWrite \cup {t},
             before \cup (waitingToWrite \X {t}))

\* A holder leaves, or a waiter gives up.
Leave(t) ==
    /\ t \in Present
    /\ Admit(reading \ {t}, writing \ {t}, waitingToRead \ {t}, waitingToWrite \ {t}, before)

Next == \E t \in Tasks : AskToRead(t) \/ AskToWrite(t) \/ Leave(t)

Spec == Init /\ [][Next]_vars
=============================================================================
