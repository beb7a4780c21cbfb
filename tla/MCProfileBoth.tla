---------------------------- MODULE MCProfileBoth ----------------------------
(***************************************************************************)
(* ProfileStore on both backends in one run.  The Postgres store keeps to  *)
(* one store key; the SQLite store is rekeyed from one to another, and has *)
(* no sessions.                                                            *)
(***************************************************************************)
EXTENDS MCProfileStore

CONSTANT SqliteKeys     \* the store keys of the SQLite store

VARIABLE case

Lite == INSTANCE ProfileStore
           WITH Backend <- "sqlite", StoreKeys <- SqliteKeys, KeyMethods <- {"kdf"},
                MaxKeys <- 2, MaxCaches <- 3

BothInit ==
    \/ case = "postgres" /\ Init
    \/ case = "sqlite" /\ Lite!Init

PostgresStep ==
    /\ case = "postgres"
    /\ Next
    /\ case' = case

SqliteStep ==
    /\ case = "sqlite"
    /\ (\E i \in Instances : Lite!InstanceStep(i)) \/ Lite!CallStep
    /\ case' = case

BothSpec == BothInit /\ [][PostgresStep \/ SqliteStep]_<<vars, case>>
==============================================================================
