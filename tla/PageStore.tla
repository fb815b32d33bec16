------------------------------ MODULE PageStore -----------------------------
(***************************************************************************)
(* What the buffer pool promises its only client: a file of pages, each of *)
(* which can be fetched, changed and stored; a stored page is in the file  *)
(* at once and survives a restart, and a fetch returns what was stored     *)
(* last.  Fetching the page behind the last one returns anything at all.   *)
(***************************************************************************)
EXTENDS Naturals

CONSTANTS
    Pages,      \* page ids
    Bytes,      \* what a page can hold
    NoPage      \* stands for a page that is not there or not fetched

VARIABLES
    disk,       \* the file: NoPage for the pages it does not have
    work        \* the client's view of the pages it has fetched

vars == <<disk, work>>

Init ==
    /\ disk = [p \in Pages |-> NoPage]
    /\ work = [p \in Pages |-> NoPage]

Fetch(p) ==
    /\ work[p] = NoPage
    /\ \E b \in Bytes :
        /\ disk[p] # NoPage => b = disk[p]
        /\ work' = [work EXCEPT ![p] = b]
    /\ UNCHANGED disk

Change(p) ==
    /\ work[p] # NoPage
    /\ \E b \in Bytes : work' = [work EXCEPT ![p] = b]
    /\ UNCHANGED disk

Store(p) ==
    /\ work[p] # NoPage
    /\ disk' = [disk EXCEPT ![p] = work[p]]
    /\ work' = [work EXCEPT ![p] = NoPage]

\* A page may only be put back unstored if storing it would change nothing.
Release(p) ==
    /\ work[p] # NoPage
    /\ disk[p] # NoPage => work[p] = disk[p]
    /\ work' = [work EXCEPT ![p] = NoPage]
    /\ UNCHANGED disk

Restart ==
    /\ work' = [p \in Pages |-> NoPage]
    /\ UNCHANGED disk

Next ==
    \/ \E p \in Pages : Fetch(p) \/ Change(p) \/ Store(p) \/ Release(p)
    \/ Restart

Spec == Init /\ [][Next]_vars

=============================================================================
