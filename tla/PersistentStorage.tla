-------------------------- MODULE PersistentStorage --------------------------
(***************************************************************************)
(* PersistentStorage.java: get and set of a key under a read-write lock,   *)
(* one file per key, replaced by way of a temporary file.  Files survive a *)
(* crash of the process; the lock does not.                                *)
(***************************************************************************)
CONSTANTS Threads,
          Keys,        \* keys of a legal length
          ShortKeys,   \* those too short to prefix a temporary file (under 3)
          Values,      \* byte arrays of a legal length
          EmptyValue,  \* the array without bytes
          Null,        \* no file, and a null buffer
          Partial,     \* a file that is still being written
          NoCall, Pending,
          FaultSets    \* what may go wrong, one of these sets in each behaviour

Gets == [op : {"get"}, key : Keys]
Sets == [op : {"set"}, key : Keys, value : Values \cup {Null}]

ASSUME KeysAssumption == ShortKeys \subseteq Keys
ASSUME ValuesAssumption ==
  /\ Null \notin Values
  /\ Partial \notin Values \cup {Null}
ASSUME CallsAssumption ==
  /\ NoCall \notin Gets \cup Sets
  /\ Pending \notin Values \cup {Null} \cup BOOLEAN
AllFaults == {"unsupported", "read", "copy", "delete", "rename", "crash"}
ASSUME FaultsAssumption == FaultSets \subseteq SUBSET AllFaults

VARIABLES
  faults,   \* what may go wrong; chosen once
  files,    \* what the file of each key holds
  temp,     \* the temporary file of each thread's set
  writer,   \* the threads that hold the write lock
  readers,  \* and the read lock
  pc, call, answer

vars == <<faults, files, temp, writer, readers, pc, call, answer>>
locks == <<writer, readers>>

TypeOK ==
  /\ faults \in FaultSets
  /\ files \in [Keys -> Values \cup {Null, Partial}]
  /\ temp \in [Threads -> Values \cup {Null, Partial}]
  /\ writer \subseteq Threads
  /\ readers \subseteq Threads
  /\ pc \in [Threads -> {"idle", "lock", "read", "create", "copy", "delete",
                         "rename", "unlock", "return"}]
  /\ call \in [Threads -> Gets \cup Sets \cup {NoCall}]
  /\ answer \in [Threads -> Values \cup BOOLEAN \cup {Null, Pending}]

Init ==
  /\ faults \in FaultSets
  /\ files = [k \in Keys |-> Null]
  /\ temp = [t \in Threads |-> Null]
  /\ writer = {}
  /\ readers = {}
  /\ pc = [t \in Threads |-> "idle"]
  /\ call = [t \in Threads |-> NoCall]
  /\ answer = [t \in Threads |-> Pending]

May(fault) == fault \in faults
Goto(t, label) == pc' = [pc EXCEPT ![t] = label]
Answer(t, a) == answer' = [answer EXCEPT ![t] = a]
Key(t) == call[t].key

-----------------------------------------------------------------------------
Invoke(t, c) ==
  /\ pc[t] = "idle"
  /\ call' = [call EXCEPT ![t] = c]
  /\ Goto(t, "lock")
  /\ UNCHANGED <<files, temp, locks, answer>>

\* isSupported() looks at the directory, and the key is encoded, before the
\* lock is taken.
NotSupported(t) ==
  /\ pc[t] = "lock"
  /\ May("unsupported")
  /\ Answer(t, IF call[t].op = "get" THEN Null ELSE FALSE)
  /\ Goto(t, "return")
  /\ UNCHANGED <<files, temp, locks, call>>

\* Mutant: the read lock does not wait for the writer.
ReadLockFree(t) ==
  /\ pc[t] = "lock"
  /\ call[t].op = "get"
  /\ readers' = readers \cup {t}
  /\ Goto(t, "read")
  /\ UNCHANGED <<files, temp, writer, call, answer>>

ReadLock(t) ==
  /\ pc[t] = "lock"
  /\ call[t].op = "get"
  /\ writer = {}
  /\ readers' = readers \cup {t}
  /\ Goto(t, "read")
  /\ UNCHANGED <<files, temp, writer, call, answer>>

\* A file without bytes makes read() return -1, and bos.write throw.  That, and
\* a file that cannot be opened or read, is answered with null like one that is
\* not there.
Read(t) ==
  /\ pc[t] = "read"
  /\ \/ Answer(t, IF files[Key(t)] = EmptyValue THEN Null ELSE files[Key(t)])
     \/ May("read") /\ Answer(t, Null)
  /\ Goto(t, "unlock")
  /\ UNCHANGED <<files, temp, locks, call>>

\* Mutant: sets share the lock.
WriteLockShared(t) ==
  /\ pc[t] = "lock"
  /\ call[t].op = "set"
  /\ readers = {}
  /\ writer' = writer \cup {t}
  /\ Goto(t, IF call[t].value = Null THEN "delete" ELSE "create")
  /\ UNCHANGED <<files, temp, readers, call, answer>>

WriteLock(t) ==
  /\ pc[t] = "lock"
  /\ call[t].op = "set"
  /\ writer \cup readers = {}
  /\ writer' = {t}
  /\ Goto(t, IF call[t].value = Null THEN "delete" ELSE "create")
  /\ UNCHANGED <<files, temp, readers, call, answer>>

\* createTempFile throws for a prefix under three characters, and when there is
\* no room for a file.
CreateTemp(t) ==
  /\ pc[t] = "create"
  /\ \/ /\ Key(t) \notin ShortKeys
        /\ temp' = [temp EXCEPT ![t] = Partial]
        /\ Goto(t, "copy")
        /\ UNCHANGED answer
     \/ /\ Key(t) \in ShortKeys \/ May("copy")
        /\ Answer(t, FALSE)
        /\ Goto(t, "unlock")
        /\ UNCHANGED temp
  /\ UNCHANGED <<files, locks, call>>

\* Mutant: the value is moved into place before it is complete.
CopyLater(t) ==
  /\ pc[t] = "copy"
  /\ Goto(t, "delete")
  /\ UNCHANGED <<files, temp, locks, call, answer>>

\* FileUtils.copyToFile; when it fails the temporary file stays, and nobody
\* looks at it again.
CopyToTemp(t) ==
  /\ pc[t] = "copy"
  /\ \/ /\ temp' = [temp EXCEPT ![t] = call[t].value]
        /\ Goto(t, "delete")
        /\ UNCHANGED answer
     \/ /\ May("copy")
        /\ temp' = [temp EXCEPT ![t] = Null]
        /\ Answer(t, FALSE)
        /\ Goto(t, "unlock")
  /\ UNCHANGED <<files, locks, call>>

\* prop.delete(), its result ignored.
DeleteOld(t) ==
  /\ pc[t] = "delete"
  /\ \/ files' = [files EXCEPT ![Key(t)] = Null]
     \/ May("delete") /\ UNCHANGED files
  /\ IF call[t].value = Null
     THEN Answer(t, TRUE) /\ Goto(t, "unlock")
     ELSE Goto(t, "rename") /\ UNCHANGED answer
  /\ UNCHANGED <<temp, locks, call>>

\* tmp.renameTo(prop), its result ignored; it replaces what is still there.
Rename(t) ==
  /\ pc[t] = "rename"
  /\ \/ files' = [files EXCEPT ![Key(t)] = temp[t]]
     \/ May("rename") /\ UNCHANGED files
  /\ temp' = [temp EXCEPT ![t] = Null]
  /\ Answer(t, TRUE)
  /\ Goto(t, "unlock")
  /\ UNCHANGED <<locks, call>>

Unlock(t) ==
  /\ pc[t] = "unlock"
  /\ writer' = writer \ {t}
  /\ readers' = readers \ {t}
  /\ Goto(t, "return")
  /\ UNCHANGED <<files, temp, call, answer>>

Return(t) ==
  /\ pc[t] = "return"
  /\ call' = [call EXCEPT ![t] = NoCall]
  /\ Answer(t, Pending)
  /\ Goto(t, "idle")
  /\ UNCHANGED <<files, temp, locks>>

\* The process dies and starts again.
Crash ==
  /\ May("crash")
  /\ temp' = [t \in Threads |-> Null]
  /\ writer' = {}
  /\ readers' = {}
  /\ pc' = [t \in Threads |-> "idle"]
  /\ call' = [t \in Threads |-> NoCall]
  /\ answer' = [t \in Threads |-> Pending]
  /\ UNCHANGED files

Run(t) == \/ NotSupported(t) \/ ReadLock(t) \/ Read(t)
          \/ WriteLock(t) \/ CreateTemp(t) \/ CopyToTemp(t)
          \/ DeleteOld(t) \/ Rename(t) \/ Unlock(t) \/ Return(t)

Next == /\ \/ \E t \in Threads : \/ \E c \in Gets \cup Sets : Invoke(t, c)
                                 \/ Run(t)
           \/ Crash
        /\ UNCHANGED faults

Spec == Init /\ [][Next]_vars

-----------------------------------------------------------------------------
(* Properties.                                                             *)

\* A key never holds half a value, whatever fails and whenever the process
\* dies: a value is complete in its temporary file before it takes the name
\* of the key (146-162).
NoTornValue == \A k \in Keys : files[k] # Partial

\* PersistentStorage.java:127: set returns "true if the operation succeeded".
\* Until it gives the lock back its key then holds what it was asked to store
\* (141-171).
SetAnswersTruly ==
  \A t \in Threads :
    pc[t] = "unlock" /\ t \in writer /\ answer[t] = TRUE =>
      files[Key(t)] = call[t].value

\* PersistentStorage.java:68: get returns the "previously stored byte array, null
\* if not found".  Until it gives the lock back its key holds what it is going to
\* return (82-114).
GetAnswersTruly ==
  \A t \in Threads :
    pc[t] = "unlock" /\ t \in readers => answer[t] = files[Key(t)]

\* A set replaces the value when the old file is gone: from there on only a
\* crash or a failing rename keeps it from going through.
Committed(t) == pc[t] = "rename" /\ files[Key(t)] = Null

StoreNow ==
  [k \in Keys |->
     IF \E t \in Threads : Committed(t) /\ Key(t) = k
     THEN call[CHOOSE t \in Threads : Committed(t) /\ Key(t) = k].value
     ELSE files[k]]
AnswerNow == [t \in Threads |-> IF Committed(t) THEN TRUE ELSE answer[t]]

Store == INSTANCE KeyValueStore WITH
  Unreadable <- {EmptyValue},
  Unstorable <- ShortKeys,
  store <- StoreNow,
  answer <- AnswerNow

\* get and set are atomic for concurrent callers, and a fault breaks no more
\* than KeyValueStore lets it (64-172).
ImplementsStore == Store!Spec
=============================================================================
