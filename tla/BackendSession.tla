--------------------------- MODULE BackendSession ---------------------------
(***************************************************************************)
(* What the LiveDisplay front end promises of its vendor backend: the      *)
(* backend is used by one thread at a time, only inside a session, only    *)
(* for a feature that session was opened with, and a session is neither    *)
(* opened nor closed while a backend operation runs.                       *)
(***************************************************************************)
CONSTANTS Threads, Features

VARIABLES open,     \* whether a session is open
          granted,  \* the features it was opened with
          users     \* the threads inside a backend operation

vars == <<open, granted, users>>

TypeOK == /\ open \in BOOLEAN
          /\ granted \subseteq Features
          /\ users \subseteq Threads

Init == ~open /\ granted = {} /\ users = {}

Open(fs) == /\ ~open
            /\ users = {}
            /\ open' = TRUE
            /\ granted' = fs
            /\ UNCHANGED users

Begin(t, f) == /\ f \in granted
               /\ users = {}
               /\ users' = {t}
               /\ UNCHANGED <<open, granted>>

End(t) == /\ users = {t}
          /\ users' = {}
          /\ UNCHANGED <<open, granted>>

Close == /\ open
         /\ users = {}
         /\ open' = FALSE
         /\ granted' = {}
         /\ UNCHANGED users

Next == \/ \E fs \in SUBSET Features : Open(fs)
        \/ \E t \in Threads, f \in Features : Begin(t, f)
        \/ \E t \in Threads : End(t)
        \/ Close

Spec == Init /\ [][Next]_vars
=============================================================================
