---------------------------- MODULE RecordStore ----------------------------
(***************************************************************************)
(* What the vector database promises to one program: a store of records    *)
(* by id that is changed in one step, saved whole in one step, and after a *)
(* crash or a loss of power is again one of the states that were saved.    *)
(* A file that cannot be opened for reading counts as none.                *)
(***************************************************************************)
CONSTANTS Ids, Vals

VARIABLES
    open,    \* the database can be used
    store,   \* its records, pairs of an id and a value
    saved,   \* the records of the file
    backups  \* what the file may hold after a loss of power

vars == <<open, store, saved, backups>>

Init ==
    /\ open = FALSE /\ store = {}
    /\ saved = {} /\ backups = {{}}

Open(records) ==
    /\ ~open /\ open' = TRUE
    /\ store' = records
    /\ UNCHANGED <<saved, backups>>

Without(i) == {r \in store : r[1] # i}

Put(i, v) ==
    /\ open /\ open' = open
    /\ store' = Without(i) \cup {<<i, v>>}
    /\ UNCHANGED <<saved, backups>>

Delete(i) ==
    /\ open /\ open' = open
    /\ store' = Without(i)
    /\ UNCHANGED <<saved, backups>>

Save ==
    /\ open
    /\ saved' = store
    /\ backups' = backups \cup {store}
    /\ UNCHANGED <<open, store>>

\* The program closes the database or crashes.  It may have failed to save it,
\* or another of its threads may have changed it after the save.
Close ==
    /\ open' = FALSE /\ store' = {}
    /\ UNCHANGED <<saved, backups>>

\* The medium has caught up with the file.
Settle ==
    /\ backups' = {saved}
    /\ UNCHANGED <<open, store, saved>>

LosePower ==
    /\ open' = FALSE /\ store' = {}
    /\ saved' \in backups /\ backups' = {saved'}

Next ==
    \/ Open(saved) \/ Open({}) \/ Save \/ Close \/ Settle \/ LosePower
    \/ \E i \in Ids : Delete(i) \/ \E v \in Vals : Put(i, v)

Spec == Init /\ [][Next]_vars
=============================================================================
