---------------------------- MODULE RecordStore ----------------------------
(***************************************************************************)
(* What flash data storage promises (fds.h): a set of records to which     *)
(* only records somebody asked to write are added, whole, and from which   *)
(* only records somebody asked to delete disappear; a request may come to  *)
(* nothing.  Power may fail at any moment, which forgets requests and      *)
(* leaves the records alone.                                               *)
(***************************************************************************)
EXTENDS FiniteSets

CONSTANT Records

VARIABLES
    stored,      \* the records
    toWrite,     \* records somebody asked to write
    toDelete     \* records somebody asked to delete, now stored or not

vars == <<stored, toWrite, toDelete>>

Init == stored \in SUBSET Records /\ toWrite = {} /\ toDelete = {}

\* Requests come and go.
Requests ==
    /\ toWrite' \in SUBSET Records /\ toDelete' \in SUBSET Records
    /\ UNCHANGED stored

\* One record appears, and is no longer to be written; requests may be
\* forgotten at the same time.
Write(r) ==
    /\ r \in toWrite \ stored
    /\ stored' = stored \cup {r}
    /\ toWrite' \in SUBSET (toWrite \ {r})
    /\ toDelete' \in SUBSET Records

\* One record disappears.
Delete(r) ==
    /\ r \in stored \cap toDelete
    /\ stored' = stored \ {r}
    /\ toWrite' \in SUBSET toWrite
    /\ toDelete' \in SUBSET Records

Next == Requests \/ \E r \in Records : Write(r) \/ Delete(r)

Spec == Init /\ [][Next]_vars

=============================================================================
