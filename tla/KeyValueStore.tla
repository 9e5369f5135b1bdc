---------------------------- MODULE KeyValueStore ----------------------------
(***************************************************************************)
(* What PersistentStorage promises its callers: a map from keys to values  *)
(* on which get and set take effect at one instant between call and        *)
(* return.  A set that returns true has replaced the value, one that       *)
(* returns false has changed nothing.  What each fault may break is named: *)
(* nothing else changes when it happens.  So is where the store keeps less *)
(* than a map would even if nothing fails: Unreadable and Unstorable.      *)
(***************************************************************************)
CONSTANTS Threads, Keys, Values,
          Unreadable, \* values that are found missing
          Unstorable, \* keys no value can be stored for
          Null,       \* no value: not found, and the argument that deletes
          NoCall,     \* a thread that has called nothing
          Pending     \* the answer of a call that has not taken effect

VARIABLES faults, \* what may go wrong
          store,  \* the value of each key, or Null
          call,   \* what each thread has called
          answer  \* and what it will return

vars == <<faults, store, call, answer>>

Gets == [op : {"get"}, key : Keys]
Sets == [op : {"set"}, key : Keys, value : Values \cup {Null}]

Init == /\ faults \in SUBSET {"unsupported", "read", "copy", "delete", "rename", "crash"}
        /\ store = [k \in Keys |-> Null]
        /\ call = [t \in Threads |-> NoCall]
        /\ answer = [t \in Threads |-> Pending]

Answer(t, a) == answer' = [answer EXCEPT ![t] = a]

Invoke(t, c) == /\ call[t] = NoCall
                /\ call' = [call EXCEPT ![t] = c]
                /\ UNCHANGED <<store, answer>>

Busy(t, op) == /\ call[t] # NoCall
               /\ call[t].op = op
               /\ answer[t] = Pending

\* A read that fails finds nothing, and changes nothing.
Get(t) == /\ Busy(t, "get")
          /\ \/ LET v == store[call[t].key]
                IN Answer(t, IF v \in Unreadable THEN Null ELSE v)
             \/ {"unsupported", "read"} \cap faults # {} /\ Answer(t, Null)
          /\ UNCHANGED <<store, call>>

Set(t) == /\ Busy(t, "set")
          /\ store' = [store EXCEPT ![call[t].key] = call[t].value]
          /\ Answer(t, TRUE)
          /\ UNCHANGED call

\* A value that cannot be put in a file is refused; a delete needs no file.
Refuse(t) == /\ Busy(t, "set")
             /\ \/ "unsupported" \in faults
                \/ /\ call[t].value # Null
                   /\ "copy" \in faults \/ call[t].key \in Unstorable
             /\ Answer(t, FALSE)
             /\ UNCHANGED <<store, call>>

\* A delete that fails leaves the value; so does a rename after it.
Keep(t) == /\ Busy(t, "set")
           /\ "delete" \in faults
           /\ call[t].value = Null \/ "rename" \in faults
           /\ Answer(t, TRUE)
           /\ UNCHANGED <<store, call>>

\* A rename that fails loses the value of the set it belongs to.
Lose(t) == /\ "rename" \in faults
           /\ call[t] # NoCall
           /\ call[t].op = "set"
           /\ answer[t] = TRUE
           /\ store[call[t].key] = call[t].value
           /\ store' = [store EXCEPT ![call[t].key] = Null]
           /\ UNCHANGED <<call, answer>>

Return(t) == /\ answer[t] # Pending
             /\ call' = [call EXCEPT ![t] = NoCall]
             /\ answer' = [answer EXCEPT ![t] = Pending]
             /\ UNCHANGED store

\* The process dies.  A key that was being set may have lost its value.
Crash ==
  /\ "crash" \in faults
  /\ \A k \in Keys :
       \/ store'[k] = store[k]
       \/ /\ \E t \in Threads : call[t] # NoCall /\ call[t].op = "set"
                                  /\ call[t].key = k
          /\ store'[k] = Null
  /\ DOMAIN store' = Keys
  /\ call' = [t \in Threads |-> NoCall]
  /\ answer' = [t \in Threads |-> Pending]

Next == /\ \/ \E t \in Threads :
                \/ \E c \in Gets \cup Sets : Invoke(t, c)
                \/ Get(t) \/ Set(t) \/ Refuse(t) \/ Keep(t) \/ Lose(t)
                \/ Return(t)
           \/ Crash
        /\ UNCHANGED faults

Spec == Init /\ [][Next]_vars
=============================================================================
