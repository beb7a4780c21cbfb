---------------------------- MODULE MCFfiHandles ----------------------------
(***************************************************************************)
(* FfiHandles for TLC.                                                     *)
(***************************************************************************)
EXTENDS FfiHandles, TLC

Symmetry == Permutations(Calls)

Request(op, map, flag) == [op |-> op, map |-> map, flag |-> flag]

\* Everything the library offers.
Everything ==
    {Request(op, "session", FALSE) : op \in {"open", "work", "rekey", "close"}} \cup
    {Request(op, "session", flag) : op \in {"start", "end"}, flag \in BOOLEAN} \cup
    {Request("use", "session", TRUE)} \cup
    {Request(op, "scan", FALSE) : op \in {"start", "use", "end"}}

\* What an application does with a store and its sessions at last.
AtLast ==
    {Request("close", "session", FALSE), Request("use", "session", TRUE),
     Request("end", "session", FALSE)}

\* A store was opened, then a transaction session (1) and one that is none (2).
Opened ==
    /\ stores = {1} /\ storeCount = 1 /\ pooled = {1} /\ closed = {}
    /\ res = [r \in 1 .. MaxRes |->
                [map |-> "session", store |-> 1, txn |-> r = 1,
                 mapped |-> TRUE, conn |-> TRUE, wrote |-> FALSE]]
    /\ resCount = MaxRes
    /\ call = [c \in Calls |-> NoCall]

\* The application has four threads: one closes the store, one ends the sessions, two use
\* them.
Thread == <<"close", "end", "use", "use">>

Threads ==
    \A c \in Calls : call[c].op = "none" /\ call'[c].op # "none" => call'[c].op = Thread[c]

OpenedSpec == Opened /\ [][Next /\ Threads]_vars /\ Fairness
============================================================================
