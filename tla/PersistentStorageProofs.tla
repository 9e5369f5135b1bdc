------------------------ MODULE PersistentStorageProofs ------------------------
(***************************************************************************)
(* Proofs about PersistentStorage: type correctness, no half values, and   *)
(* the refinement of KeyValueStore, for any threads, keys and values, and  *)
(* whatever goes wrong.                                                    *)
(***************************************************************************)
EXTENDS PersistentStorage, TLAPS

Writing == {"create", "copy", "delete", "rename"}

\* What each place in the code knows of the call it serves and of its
\* temporary file, which is complete before it takes a key's name.
CallInv ==
  \A t \in Threads :
    /\ pc[t] = "idle" <=> call[t] = NoCall
    /\ pc[t] = "read" => call[t] \in Gets
    /\ pc[t] \in Writing => call[t] \in Sets
    /\ pc[t] \in {"create", "copy", "rename"} => call[t].value # Null
    /\ \/ pc[t] = "rename"
       \/ pc[t] = "delete" /\ call[t].value # Null
       => temp[t] = call[t].value
    /\ answer[t] = Pending <=> pc[t] \notin {"unlock", "return"}

\* Who holds the lock, and that writers exclude everybody.
LockInv ==
  /\ \A t \in Threads :
       /\ pc[t] = "read" => t \in readers
       /\ pc[t] \in Writing => t \in writer
       /\ t \in readers => pc[t] \in {"read", "unlock"}
       /\ t \in writer => pc[t] \in Writing \cup {"unlock"}
  /\ \A s \in writer : \A t \in writer \cup readers : s = t
  /\ writer \cap readers = {}

\* An old file that is still there at the rename is one whose delete failed.
DeleteInv ==
  \A t \in Threads :
    pc[t] = "rename" /\ files[Key(t)] # Null => "delete" \in faults

IInv == TypeOK /\ NoTornValue /\ CallInv /\ LockInv /\ DeleteInv

-----------------------------------------------------------------------------
\* Every step keeps the variables in their types.
LEMMA TypeStep == IInv /\ [Next]_vars => TypeOK'
<1> SUFFICES ASSUME IInv, [Next]_vars
             PROVE  TypeOK'
  OBVIOUS
<1>0. faults' = faults
  BY DEF Next, vars
<1> USE <1>0, KeysAssumption, ValuesAssumption, CallsAssumption
        DEF IInv, TypeOK, Goto, Answer, Key, May, locks,
            NoTornValue, CallInv, Writing, Gets, Sets
<1>1. CASE UNCHANGED vars
  BY <1>1 DEF vars
<1>2. CASE Crash
  BY <1>2 DEF Crash
<1>3. ASSUME NEW t \in Threads, NEW c \in Gets \cup Sets, Invoke(t, c)
      PROVE  TypeOK'
  BY <1>3 DEF Invoke
<1>4. ASSUME NEW t \in Threads, Run(t)
      PROVE  TypeOK'
  <2>1. CASE NotSupported(t)
    BY <2>1 DEF NotSupported
  <2>2. CASE ReadLock(t)
    BY <2>2 DEF ReadLock
  <2>3. CASE Read(t)
    BY <2>3 DEF Read
  <2>4. CASE WriteLock(t)
    BY <2>4 DEF WriteLock
  <2>5. CASE CreateTemp(t)
    BY <2>5 DEF CreateTemp
  <2>6. CASE CopyToTemp(t)
    BY <2>6 DEF CopyToTemp
  <2>7. CASE DeleteOld(t)
    BY <2>7 DEF DeleteOld
  <2>8. CASE Rename(t)
    BY <2>8 DEF Rename
  <2>9. CASE Unlock(t)
    BY <2>9 DEF Unlock
  <2>10. CASE Return(t)
    BY <2>10 DEF Return
  <2> QED BY <1>4, <2>1, <2>2, <2>3, <2>4, <2>5,
           <2>6, <2>7, <2>8, <2>9, <2>10 DEF Run
<1> QED BY <1>1, <1>2, <1>3, <1>4 DEF Next

\* No step gives a key half a value.
LEMMA TornStep == IInv /\ [Next]_vars => NoTornValue'
<1> SUFFICES ASSUME IInv, [Next]_vars
             PROVE  NoTornValue'
  OBVIOUS
<1> USE KeysAssumption, ValuesAssumption, CallsAssumption
        DEF IInv, TypeOK, Goto, Answer, Key, May, locks,
            NoTornValue, CallInv, Writing, Gets, Sets
<1>1. CASE UNCHANGED vars
  BY <1>1 DEF vars
<1>2. CASE Crash
  BY <1>2 DEF Crash
<1>3. ASSUME NEW t \in Threads, NEW c \in Gets \cup Sets, Invoke(t, c)
      PROVE  NoTornValue'
  BY <1>3 DEF Invoke
<1>4. ASSUME NEW t \in Threads, Run(t)
      PROVE  NoTornValue'
  <2>1. CASE NotSupported(t)
    BY <2>1 DEF NotSupported
  <2>2. CASE ReadLock(t)
    BY <2>2 DEF ReadLock
  <2>3. CASE Read(t)
    BY <2>3 DEF Read
  <2>4. CASE WriteLock(t)
    BY <2>4 DEF WriteLock
  <2>5. CASE CreateTemp(t)
    BY <2>5 DEF CreateTemp
  <2>6. CASE CopyToTemp(t)
    BY <2>6 DEF CopyToTemp
  <2>7. CASE DeleteOld(t)
    BY <2>7 DEF DeleteOld
  <2>8. CASE Rename(t)
    BY <2>8 DEF Rename
  <2>9. CASE Unlock(t)
    BY <2>9 DEF Unlock
  <2>10. CASE Return(t)
    BY <2>10 DEF Return
  <2> QED BY <1>4, <2>1, <2>2, <2>3, <2>4, <2>5,
           <2>6, <2>7, <2>8, <2>9, <2>10 DEF Run
<1> QED BY <1>1, <1>2, <1>3, <1>4 DEF Next

\* Every step keeps place, call, answer and temporary file together.
LEMMA CallStep == IInv /\ [Next]_vars => CallInv'
<1> SUFFICES ASSUME IInv, [Next]_vars
             PROVE  CallInv'
  OBVIOUS
<1> USE KeysAssumption, ValuesAssumption, CallsAssumption
        DEF IInv, TypeOK, Goto, Answer, Key, May, locks,
            NoTornValue, CallInv, Writing, Gets, Sets
<1>1. CASE UNCHANGED vars
  BY <1>1 DEF vars
<1>2. CASE Crash
  BY <1>2 DEF Crash
<1>3. ASSUME NEW t \in Threads, NEW c \in Gets \cup Sets, Invoke(t, c)
      PROVE  CallInv'
  BY <1>3 DEF Invoke
<1>4. ASSUME NEW t \in Threads, Run(t)
      PROVE  CallInv'
  <2>1. CASE NotSupported(t)
    BY <2>1 DEF NotSupported
  <2>2. CASE ReadLock(t)
    BY <2>2 DEF ReadLock
  <2>3. CASE Read(t)
    BY <2>3 DEF Read
  <2>4. CASE WriteLock(t)
    BY <2>4 DEF WriteLock
  <2>5. CASE CreateTemp(t)
    <3>1. CASE pc'[t] = "unlock" /\ answer'[t] = FALSE
      <4>1. /\ pc[t] = "create" /\ call' = call
            /\ \A s \in Threads \ {t} : /\ pc'[s] = pc[s]
                                       /\ temp'[s] = temp[s]
                                       /\ answer'[s] = answer[s]
        BY <2>5, <3>1 DEF CreateTemp
      <4> QED BY <3>1, <4>1
    <3>2. CASE pc'[t] = "copy"
      BY <2>5, <3>2 DEF CreateTemp
    <3> QED BY <2>5, <3>1, <3>2 DEF CreateTemp
  <2>6. CASE CopyToTemp(t)
    <3>1. /\ pc[t] = "copy" /\ call' = call
          /\ \A s \in Threads \ {t} : /\ pc'[s] = pc[s]
                                     /\ temp'[s] = temp[s]
                                     /\ answer'[s] = answer[s]
      BY <2>6 DEF CopyToTemp
    <3>2. CASE pc'[t] = "delete"
      <4>1. temp'[t] = call[t].value /\ answer'[t] = answer[t]
        BY <2>6, <3>2 DEF CopyToTemp
      <4> QED BY <3>1, <3>2, <4>1
    <3>3. CASE pc'[t] = "unlock" /\ answer'[t] = FALSE
      BY <3>1, <3>3
    <3> QED BY <2>6, <3>2, <3>3 DEF CopyToTemp
  <2>7. CASE DeleteOld(t)
    <3>1. CASE call[t].value = Null
      <4>1. /\ pc[t] = "delete" /\ pc'[t] = "unlock"
            /\ answer'[t] # Pending
            /\ call' = call
            /\ \A s \in Threads \ {t} : /\ pc'[s] = pc[s]
                                       /\ temp'[s] = temp[s]
                                       /\ answer'[s] = answer[s]
        BY <2>7, <3>1 DEF DeleteOld
      <4> QED BY <4>1
    <3>2. CASE call[t].value # Null
      BY <2>7, <3>2 DEF DeleteOld
    <3> QED BY <3>1, <3>2
  <2>8. CASE Rename(t)
    BY <2>8 DEF Rename
  <2>9. CASE Unlock(t)
    BY <2>9 DEF Unlock
  <2>10. CASE Return(t)
    BY <2>10 DEF Return
  <2> QED BY <1>4, <2>1, <2>2, <2>3, <2>4, <2>5,
           <2>6, <2>7, <2>8, <2>9, <2>10 DEF Run
<1> QED BY <1>1, <1>2, <1>3, <1>4 DEF Next

\* Every step keeps the lock.
LEMMA LockStep == IInv /\ [Next]_vars => LockInv'
<1> SUFFICES ASSUME IInv, [Next]_vars
             PROVE  LockInv'
  OBVIOUS
<1> USE KeysAssumption, ValuesAssumption, CallsAssumption
        DEF IInv, TypeOK, Goto, Answer, Key, May, locks,
            CallInv, LockInv, Writing, Gets, Sets
<1>1. CASE UNCHANGED vars
  BY <1>1 DEF vars
<1>2. CASE Crash
  BY <1>2 DEF Crash
<1>3. ASSUME NEW t \in Threads, NEW c \in Gets \cup Sets, Invoke(t, c)
      PROVE  LockInv'
  BY <1>3 DEF Invoke
<1>4. ASSUME NEW t \in Threads, Run(t)
      PROVE  LockInv'
  <2>1. CASE NotSupported(t)
    BY <2>1 DEF NotSupported
  <2>2. CASE ReadLock(t)
    BY <2>2 DEF ReadLock
  <2>3. CASE Read(t)
    BY <2>3 DEF Read
  <2>4. CASE WriteLock(t)
    BY <2>4 DEF WriteLock
  <2>5. CASE CreateTemp(t)
    BY <2>5 DEF CreateTemp
  <2>6. CASE CopyToTemp(t)
    BY <2>6 DEF CopyToTemp
  <2>7. CASE DeleteOld(t)
    BY <2>7 DEF DeleteOld
  <2>8. CASE Rename(t)
    BY <2>8 DEF Rename
  <2>9. CASE Unlock(t)
    BY <2>9 DEF Unlock
  <2>10. CASE Return(t)
    BY <2>10 DEF Return
  <2> QED BY <1>4, <2>1, <2>2, <2>3, <2>4, <2>5,
           <2>6, <2>7, <2>8, <2>9, <2>10 DEF Run
<1> QED BY <1>1, <1>2, <1>3, <1>4 DEF Next

\* Every step keeps what the rename knows of the delete.
LEMMA DeleteStep == IInv /\ [Next]_vars => DeleteInv'
<1> SUFFICES ASSUME IInv, [Next]_vars
             PROVE  DeleteInv'
  OBVIOUS
<1>0. faults' = faults
  BY DEF Next, vars
<1> USE <1>0, KeysAssumption, ValuesAssumption, CallsAssumption
        DEF IInv, TypeOK, Goto, Answer, Key, May, locks,
            CallInv, LockInv, DeleteInv, Writing, Gets, Sets
<1>1. CASE UNCHANGED vars
  BY <1>1 DEF vars
<1>2. CASE Crash
  BY <1>2 DEF Crash
<1>3. ASSUME NEW t \in Threads, NEW c \in Gets \cup Sets, Invoke(t, c)
      PROVE  DeleteInv'
  BY <1>3 DEF Invoke
<1>4. ASSUME NEW t \in Threads, Run(t)
      PROVE  DeleteInv'
  <2>1. CASE NotSupported(t)
    BY <2>1 DEF NotSupported
  <2>2. CASE ReadLock(t)
    BY <2>2 DEF ReadLock
  <2>3. CASE Read(t)
    BY <2>3 DEF Read
  <2>4. CASE WriteLock(t)
    BY <2>4 DEF WriteLock
  <2>5. CASE CreateTemp(t)
    BY <2>5 DEF CreateTemp
  <2>6. CASE CopyToTemp(t)
    BY <2>6 DEF CopyToTemp
  <2>7. CASE DeleteOld(t)
    BY <2>7 DEF DeleteOld
  <2>8. CASE Rename(t)
    BY <2>8 DEF Rename
  <2>9. CASE Unlock(t)
    BY <2>9 DEF Unlock
  <2>10. CASE Return(t)
    BY <2>10 DEF Return
  <2> QED BY <1>4, <2>1, <2>2, <2>3, <2>4, <2>5,
           <2>6, <2>7, <2>8, <2>9, <2>10 DEF Run
<1> QED BY <1>1, <1>2, <1>3, <1>4 DEF Next

-----------------------------------------------------------------------------
\* With no file, no call and a free lock the invariant holds.
LEMMA InitInv == Init => IInv
BY ValuesAssumption, CallsAssumption
   DEF Init, IInv, TypeOK, NoTornValue, CallInv, LockInv, DeleteInv, Writing

\* The inductive invariant holds in every reachable state.
THEOREM Invariance == Spec => []IInv
<1>1. IInv /\ [Next]_vars => IInv'
  BY TypeStep, TornStep, CallStep, LockStep, DeleteStep DEF IInv
<1> QED BY InitInv, <1>1, PTL DEF Spec

\* Every variable keeps its type.
THEOREM TypeCorrect == Spec => []TypeOK
<1>1. IInv => TypeOK
  BY DEF IInv
<1> QED BY <1>1, Invariance, PTL

\* A key never holds half a value, whatever fails and whenever the process
\* dies.
THEOREM NeverTorn == Spec => []NoTornValue
<1>1. IInv => NoTornValue
  BY DEF IInv
<1> QED BY <1>1, Invariance, PTL

-----------------------------------------------------------------------------
(* The refinement.  At most one set is committed; the store is then its    *)
(* file system with that set's value in place.  StoreOf makes the mapping  *)
(* a function of the state, to speak of the state before and after a step. *)

CommittedIn(fs, cs, ps, t) == ps[t] = "rename" /\ fs[cs[t].key] = Null

StoreOf(fs, cs, ps) ==
  [k \in Keys |->
     IF \E t \in Threads : CommittedIn(fs, cs, ps, t) /\ cs[t].key = k
     THEN cs[CHOOSE t \in Threads : CommittedIn(fs, cs, ps, t)
                                     /\ cs[t].key = k].value
     ELSE fs[k]]

\* With one set committed, its key has its value and the others their file's.
LEMMA StoreCommitted ==
  ASSUME NEW fs, NEW cs, NEW ps, NEW t \in Threads,
         \A s \in Threads : CommittedIn(fs, cs, ps, s) <=> s = t,
         DOMAIN fs = Keys, fs = [k \in Keys |-> fs[k]]
  PROVE  StoreOf(fs, cs, ps) = [fs EXCEPT ![cs[t].key] = cs[t].value]
<1>1. ASSUME NEW k \in Keys
      PROVE  StoreOf(fs, cs, ps)[k] = IF k = cs[t].key THEN cs[t].value
                                                       ELSE fs[k]
  <2>1. CASE k = cs[t].key
    <3>1. (CHOOSE s \in Threads : CommittedIn(fs, cs, ps, s)
                                   /\ cs[s].key = k) = t
      BY <2>1
    <3> QED BY <2>1, <3>1 DEF StoreOf
  <2>2. CASE k # cs[t].key
    BY <2>2 DEF StoreOf
  <2> QED BY <2>1, <2>2
<1>2. StoreOf(fs, cs, ps) = [k \in Keys |-> StoreOf(fs, cs, ps)[k]]
  BY DEF StoreOf
<1> QED BY <1>1, <1>2

\* With none, the store is what the files hold.
LEMMA StoreQuiet ==
  ASSUME NEW fs, NEW cs, NEW ps, fs = [k \in Keys |-> fs[k]],
         \A t \in Threads : ~CommittedIn(fs, cs, ps, t)
  PROVE  StoreOf(fs, cs, ps) = fs
BY DEF StoreOf

\* StoreOf is the store of the refinement mapping, before and after a step.
LEMMA StoreNowIs == /\ StoreNow = StoreOf(files, call, pc)
                    /\ StoreNow' = StoreOf(files', call', pc')
BY DEF StoreNow, StoreOf, Committed, CommittedIn, Key

\* Before and after a step: the thread that has committed, or nobody.
LEMMA StoreCases ==
  ASSUME IInv
  PROVE  /\ \A t \in Threads : Committed(t) =>
              /\ StoreNow = [files EXCEPT ![Key(t)] = call[t].value]
              /\ \A s \in Threads : Committed(s) => s = t
         /\ (\A t \in Threads : ~Committed(t)) => StoreNow = files
<1>1. files = [k \in Keys |-> files[k]] /\ DOMAIN files = Keys
  BY DEF IInv, TypeOK
<1>2. ASSUME NEW s \in Threads, NEW t \in Threads, Committed(s), Committed(t)
      PROVE  s = t
  BY <1>2 DEF IInv, LockInv, Committed, Writing
<1>3. ASSUME NEW t \in Threads, Committed(t)
      PROVE  StoreNow = [files EXCEPT ![Key(t)] = call[t].value]
  <2>1. \A s \in Threads : CommittedIn(files, call, pc, s) <=> s = t
    BY <1>2, <1>3 DEF Committed, CommittedIn, Key
  <2> QED BY <1>1, <2>1, StoreCommitted, StoreNowIs DEF Key
<1>4. ASSUME \A t \in Threads : ~Committed(t)
      PROVE  StoreNow = files
  <2>1. \A s \in Threads : ~CommittedIn(files, call, pc, s)
    BY <1>4 DEF Committed, CommittedIn, Key
  <2> QED BY <1>1, <2>1, StoreQuiet, StoreNowIs
<1> QED BY <1>2, <1>3, <1>4

\* The same two cases for the state after a step.
LEMMA StoreCasesAfter ==
  ASSUME IInv'
  PROVE  /\ \A t \in Threads : Committed(t)' =>
              StoreNow' = [files' EXCEPT ![Key(t)'] = call'[t].value]
         /\ (\A t \in Threads : ~Committed(t)') => StoreNow' = files'
<1>1. files' = [k \in Keys |-> files'[k]] /\ DOMAIN files' = Keys
  BY DEF IInv, TypeOK
<1>2. ASSUME NEW s \in Threads, NEW t \in Threads, Committed(s)', Committed(t)'
      PROVE  s = t
  BY <1>2 DEF IInv, LockInv, Committed, Writing
<1>3. ASSUME NEW t \in Threads, Committed(t)'
      PROVE  StoreNow' = [files' EXCEPT ![Key(t)'] = call'[t].value]
  <2>1. \A s \in Threads : CommittedIn(files', call', pc', s) <=> s = t
    BY <1>2, <1>3 DEF Committed, CommittedIn, Key
  <2> QED BY <1>1, <2>1, StoreCommitted, StoreNowIs DEF Key
<1>4. ASSUME \A t \in Threads : ~Committed(t)'
      PROVE  StoreNow' = files'
  <2>1. \A s \in Threads : ~CommittedIn(files', call', pc', s)
    BY <1>4 DEF Committed, CommittedIn, Key
  <2> QED BY <1>1, <2>1, StoreQuiet, StoreNowIs
<1> QED BY <1>3, <1>4

\* A step that leaves the files and every committed set alone.
LEMMA StoreFrame ==
  ASSUME IInv, IInv', files' = files,
         \A s \in Threads : Committed(s)' <=> Committed(s),
         \A s \in Threads : Committed(s) => call'[s] = call[s]
  PROVE  StoreNow' = StoreNow
<1>1. CASE \E t \in Threads : Committed(t)
  <2>1. PICK t \in Threads : Committed(t)
    BY <1>1
  <2>2. Committed(t)' /\ call'[t] = call[t] /\ Key(t)' = Key(t)
    BY <2>1 DEF Key
  <2> QED BY <2>1, <2>2, StoreCases, StoreCasesAfter
<1>2. CASE \A t \in Threads : ~Committed(t)
  BY <1>2, StoreCases, StoreCasesAfter
<1> QED BY <1>1, <1>2

\* A step of t that changes only its answer, and is not a rename.
LEMMA AnswerFrame ==
  ASSUME IInv, NEW t \in Threads, NEW a, ~Committed(t), ~Committed(t)',
         answer' = [answer EXCEPT ![t] = a],
         \A s \in Threads \ {t} : Committed(s)' <=> Committed(s)
  PROVE  AnswerNow' = [AnswerNow EXCEPT ![t] = a]
<1>1. \A s \in Threads : answer'[s] = IF s = t THEN a ELSE answer[s]
  BY DEF IInv, TypeOK
<1> QED BY <1>1 DEF AnswerNow

\* Every step is a step of KeyValueStore, or a stutter.
LEMMA StoreRefines ==
  ASSUME IInv, IInv', [Next]_vars
  PROVE  [Store!Next]_(Store!vars)
<1>0. faults' = faults
  BY DEF Next, vars
<1>t. TypeOK /\ CallInv /\ LockInv /\ DeleteInv
  BY DEF IInv
<1>s. UNCHANGED <<StoreNow, call, AnswerNow>> => UNCHANGED Store!vars
  BY <1>0 DEF Store!vars
<1>r. ASSUME NEW t \in Threads,
             \/ Store!Get(t) \/ Store!Set(t) \/ Store!Refuse(t)
             \/ Store!Keep(t) \/ Store!Lose(t) \/ Store!Return(t)
      PROVE  Store!Next
  BY <1>0, <1>r DEF Store!Next
<1> USE DEF Goto, Answer, locks
<1>1. CASE UNCHANGED vars
  <2>1. \A s \in Threads : Committed(s)' <=> Committed(s)
    BY <1>1 DEF vars, Committed, Key
  <2>2. StoreNow' = StoreNow
    BY <1>1, <2>1, StoreFrame DEF vars
  <2>3. AnswerNow' = AnswerNow
    BY <1>1, <2>1 DEF vars, AnswerNow
  <2> QED BY <1>1, <1>s, <2>2, <2>3 DEF vars
<1>2. CASE Crash
  <2>1. \A t \in Threads : ~Committed(t)'
    BY <1>2 DEF Crash, Committed
  <2>2. StoreNow' = files
    BY <1>2, <2>1, StoreCasesAfter DEF Crash
  <2>3. AnswerNow' = [t \in Threads |-> Pending]
    BY <1>2, <2>1 DEF Crash, AnswerNow
  <2>4. ASSUME NEW k \in Keys
        PROVE  \/ StoreNow'[k] = StoreNow[k]
               \/ /\ \E t \in Threads : call[t] # NoCall /\ call[t].op = "set"
                                          /\ call[t].key = k
                  /\ StoreNow'[k] = Null
    <3>1. CASE \E t \in Threads : Committed(t) /\ Key(t) = k
      BY <3>1, <2>2, <1>t, CallsAssumption
         DEF Committed, Key, CallInv, Writing, Sets
    <3>2. CASE ~\E t \in Threads : Committed(t) /\ Key(t) = k
      BY <3>2, <2>2 DEF StoreNow
    <3> QED BY <3>1, <3>2
  <2>5. DOMAIN StoreNow' = Keys
    BY <2>2, <1>t DEF TypeOK
  <2>6. Store!Crash
    BY <1>2, <2>3, <2>4, <2>5 DEF Crash, Store!Crash, May
  <2> QED BY <1>0, <2>6 DEF Store!Next
<1>3. ASSUME NEW t \in Threads, NEW c \in Gets \cup Sets, Invoke(t, c)
      PROVE  Store!Next
  <2>1. /\ \A s \in Threads : Committed(s)' <=> Committed(s)
        /\ \A s \in Threads : Committed(s) => call'[s] = call[s]
    BY <1>3, <1>t DEF Invoke, Committed, Key, TypeOK
  <2>2. StoreNow' = StoreNow
    BY <1>3, <2>1, StoreFrame DEF Invoke
  <2>3. AnswerNow' = AnswerNow
    BY <1>3, <2>1 DEF Invoke, AnswerNow
  <2>4. Store!Invoke(t, c)
    BY <1>3, <1>t, <2>2, <2>3 DEF Invoke, Store!Invoke, CallInv
  <2> QED BY <1>0, <2>4 DEF Store!Next, Gets, Sets, Store!Gets, Store!Sets
<1>4. ASSUME NEW t \in Threads, NotSupported(t)
      PROVE  Store!Next
  <2>1. \A s \in Threads : Committed(s)' <=> Committed(s)
    BY <1>4, <1>t DEF NotSupported, Committed, Key, TypeOK
  <2>2. StoreNow' = StoreNow
    BY <1>4, <2>1, StoreFrame DEF NotSupported
  <2>3. ~Committed(t) /\ ~Committed(t)' /\ AnswerNow[t] = Pending
    BY <1>4, <1>t, <2>1 DEF NotSupported, Committed, AnswerNow, CallInv
  <2>4. call[t] \in Gets \cup Sets /\ call[t] # NoCall
    BY <1>4, <1>t DEF NotSupported, TypeOK, CallInv
  <2>5. CASE call[t].op = "get"
    <3>1. AnswerNow' = [AnswerNow EXCEPT ![t] = Null]
      BY <1>4, <2>1, <2>3, <2>5, AnswerFrame DEF NotSupported
    <3>2. Store!Get(t)
      BY <1>4, <2>2, <2>3, <2>4, <2>5, <3>1
         DEF NotSupported, Store!Get, Store!Busy, Store!Answer, May
    <3> QED BY <1>r, <3>2
  <2>6. CASE call[t].op = "set"
    <3>1. AnswerNow' = [AnswerNow EXCEPT ![t] = FALSE]
      BY <1>4, <2>1, <2>3, <2>6, AnswerFrame DEF NotSupported
    <3>2. Store!Refuse(t)
      BY <1>4, <2>2, <2>3, <2>4, <2>6, <3>1
         DEF NotSupported, Store!Refuse, Store!Busy, Store!Answer, May
    <3> QED BY <1>r, <3>2
  <2> QED BY <2>4, <2>5, <2>6 DEF Gets, Sets
<1>5. ASSUME NEW t \in Threads, ReadLock(t) \/ WriteLock(t) \/ Unlock(t)
      PROVE  UNCHANGED Store!vars
  <2>1. \A s \in Threads : Committed(s)' <=> Committed(s)
    BY <1>5, <1>t DEF ReadLock, WriteLock, Unlock, Committed, Key, TypeOK
  <2>2. StoreNow' = StoreNow
    BY <1>5, <2>1, StoreFrame DEF ReadLock, WriteLock, Unlock
  <2>3. AnswerNow' = AnswerNow
    BY <1>5, <2>1 DEF ReadLock, WriteLock, Unlock, AnswerNow
  <2> QED BY <1>5, <1>s, <2>2, <2>3 DEF ReadLock, WriteLock, Unlock
<1>6. ASSUME NEW t \in Threads, Read(t)
      PROVE  Store!Next
  <2>1. \A s \in Threads : ~Committed(s) /\ ~Committed(s)'
    BY <1>6, <1>t DEF Read, Committed, TypeOK, LockInv, Writing
  <2>2. StoreNow = files /\ StoreNow' = files
    BY <1>6, <2>1, StoreCases, StoreCasesAfter DEF Read
  <2>3. /\ AnswerNow[t] = Pending
        /\ call[t] \in Gets /\ call[t] # NoCall
    BY <1>6, <1>t, <2>1, CallsAssumption DEF Read, AnswerNow, CallInv
  <2>4. PICK a : /\ answer' = [answer EXCEPT ![t] = a]
                 /\ \/ a = IF files[Key(t)] = EmptyValue THEN Null ELSE files[Key(t)]
                    \/ "read" \in faults /\ a = Null
    BY <1>6 DEF Read, May
  <2>5. AnswerNow' = [AnswerNow EXCEPT ![t] = a]
    BY <2>1, <2>4, AnswerFrame
  <2>6. Store!Get(t)
    BY <1>6, <2>2, <2>3, <2>4, <2>5
       DEF Read, Store!Get, Store!Busy, Store!Answer, Gets, Key
  <2> QED BY <1>r, <2>6
<1>7. ASSUME NEW t \in Threads, CreateTemp(t) \/ CopyToTemp(t)
      PROVE  [Store!Next]_(Store!vars)
  <2>1. \A s \in Threads : Committed(s)' <=> Committed(s)
    BY <1>7, <1>t DEF CreateTemp, CopyToTemp, Committed, Key, TypeOK
  <2>2. ~Committed(t) /\ ~Committed(t)' /\ AnswerNow[t] = Pending
    BY <1>7, <1>t, <2>1
       DEF CreateTemp, CopyToTemp, Committed, AnswerNow, CallInv
  <2>3. call' = call /\ files' = files
    BY <1>7 DEF CreateTemp, CopyToTemp
  <2>4. StoreNow' = StoreNow
    BY <2>1, <2>3, StoreFrame
  <2>5. CASE answer' = answer
    <3>1. AnswerNow' = AnswerNow
      BY <2>1, <2>5 DEF AnswerNow
    <3> QED BY <1>s, <2>3, <2>4, <3>1
  <2>6. CASE answer' = [answer EXCEPT ![t] = FALSE]
    <3>1. AnswerNow' = [AnswerNow EXCEPT ![t] = FALSE]
      BY <2>1, <2>2, <2>6, AnswerFrame
    <3>2. /\ call[t] \in Sets /\ call[t] # NoCall
          /\ call[t].value # Null
      BY <1>7, <1>t, CallsAssumption
         DEF CreateTemp, CopyToTemp, CallInv, Writing
    <3>3. "copy" \in faults \/ call[t].key \in ShortKeys
      <4>1. answer[t] = Pending /\ answer'[t] = FALSE /\ Pending # FALSE
        BY <1>7, <1>t, <2>6, CallsAssumption
           DEF CreateTemp, CopyToTemp, CallInv, TypeOK
      <4> QED BY <1>7, <4>1 DEF CreateTemp, CopyToTemp, Key, May
    <3>4. Store!Refuse(t)
      BY <2>2, <2>3, <2>4, <3>1, <3>2, <3>3
         DEF Store!Refuse, Store!Busy, Store!Answer, Sets
    <3> QED BY <1>r, <3>4
  <2> QED BY <1>7, <2>5, <2>6 DEF CreateTemp, CopyToTemp
<1>8. ASSUME NEW t \in Threads, DeleteOld(t)
      PROVE  [Store!Next]_(Store!vars)
  <2>1. /\ pc[t] = "delete" /\ call' = call
        /\ call[t] \in Sets /\ call[t] # NoCall /\ Key(t) \in Keys
    BY <1>8, <1>t, CallsAssumption DEF DeleteOld, CallInv, Writing, Sets, Key
  <2>2. \A s \in Threads : ~Committed(s) /\ (s # t => ~Committed(s)')
    BY <1>8, <1>t, <2>1 DEF DeleteOld, Committed, LockInv, Writing, TypeOK
  <2>3. StoreNow = files /\ AnswerNow[t] = Pending
    BY <1>t, <2>1, <2>2, StoreCases DEF AnswerNow, CallInv
  <2>4. CASE call[t].value = Null
    <3>1. ~Committed(t)'
      BY <1>8, <1>t, <2>4 DEF DeleteOld, Committed, TypeOK
    <3>2. StoreNow' = files'
      BY <2>2, <3>1, StoreCasesAfter
    <3>3. AnswerNow' = [AnswerNow EXCEPT ![t] = TRUE]
      BY <1>8, <2>2, <2>4, <3>1, AnswerFrame DEF DeleteOld
    <3>4. CASE files' = [files EXCEPT ![Key(t)] = Null]
      <4>1. Store!Set(t)
        BY <2>1, <2>3, <2>4, <3>2, <3>3, <3>4
           DEF Store!Set, Store!Busy, Store!Answer, Sets, Key
      <4> QED BY <1>r, <4>1
    <3>5. CASE "delete" \in faults /\ files' = files
      <4>1. Store!Keep(t)
        BY <2>1, <2>3, <2>4, <3>2, <3>3, <3>5
           DEF Store!Keep, Store!Busy, Store!Answer, Sets
      <4> QED BY <1>r, <4>1
    <3> QED BY <1>8, <3>4, <3>5 DEF DeleteOld, May
  <2>5. CASE call[t].value # Null
    <3>1. pc'[t] = "rename" /\ answer' = answer
      BY <1>8, <1>t, <2>5 DEF DeleteOld, TypeOK
    <3>2. CASE files'[Key(t)] = Null
      <4>1. Committed(t)'
        BY <2>1, <3>1, <3>2 DEF Committed, Key
      <4>2. StoreNow' = [files' EXCEPT ![Key(t)] = call[t].value]
        BY <2>1, <4>1, StoreCasesAfter DEF Key
      <4>3. files' = [files EXCEPT ![Key(t)] = Null]
        BY <1>8, <1>t, <2>1, <3>2 DEF DeleteOld, TypeOK
      <4>4. StoreNow' = [StoreNow EXCEPT ![Key(t)] = call[t].value]
        BY <1>t, <2>3, <4>2, <4>3 DEF TypeOK
      <4>5. AnswerNow' = [AnswerNow EXCEPT ![t] = TRUE]
        BY <2>2, <3>1, <4>1 DEF AnswerNow
      <4>6. Store!Set(t)
        BY <2>1, <2>3, <4>4, <4>5
           DEF Store!Set, Store!Busy, Store!Answer, Sets, Key
      <4> QED BY <1>r, <4>6
    <3>3. CASE files'[Key(t)] # Null
      <4>1. files' = files
        BY <1>8, <1>t, <2>1, <3>3 DEF DeleteOld, TypeOK
      <4>2. \A s \in Threads : ~Committed(s)'
        BY <2>1, <2>2, <3>3 DEF Committed, Key
      <4>3. StoreNow' = StoreNow
        BY <2>3, <4>1, <4>2, StoreCasesAfter
      <4>4. AnswerNow' = AnswerNow
        BY <2>2, <3>1, <4>2 DEF AnswerNow
      <4> QED BY <1>s, <2>1, <4>3, <4>4
    <3> QED BY <3>2, <3>3
  <2> QED BY <2>4, <2>5
<1>9. ASSUME NEW t \in Threads, Rename(t)
      PROVE  [Store!Next]_(Store!vars)
  <2>1. /\ pc[t] = "rename" /\ call' = call
        /\ call[t] \in Sets /\ call[t] # NoCall /\ Key(t) \in Keys
        /\ call[t].value # Null /\ temp[t] = call[t].value
    BY <1>9, <1>t, CallsAssumption DEF Rename, CallInv, Writing, Sets, Key
  <2>2. \A s \in Threads : ~Committed(s)' /\ (s # t => ~Committed(s))
    BY <1>9, <1>t, <2>1 DEF Rename, Committed, LockInv, Writing, TypeOK
  <2>3. StoreNow' = files'
    BY <2>2, StoreCasesAfter
  <2>4. \A s \in Threads : AnswerNow'[s] = IF s = t THEN TRUE ELSE AnswerNow[s]
    BY <1>9, <1>t, <2>2 DEF Rename, AnswerNow, TypeOK
  <2>5. \/ files' = [files EXCEPT ![Key(t)] = call[t].value]
        \/ "rename" \in faults /\ files' = files
    BY <1>9, <2>1 DEF Rename, May
  <2>6. CASE Committed(t)
    <3>1. /\ StoreNow = [files EXCEPT ![Key(t)] = call[t].value]
          /\ files[Key(t)] = Null
      BY <2>6, StoreCases DEF Committed
    <3>2. AnswerNow[t] = TRUE /\ AnswerNow' = AnswerNow
      BY <2>4, <2>6 DEF AnswerNow
    <3>3. CASE files' = [files EXCEPT ![Key(t)] = call[t].value]
      BY <1>s, <2>1, <2>3, <3>1, <3>2, <3>3
    <3>4. CASE "rename" \in faults /\ files' = files
      <4>1. StoreNow[Key(t)] = call[t].value
        BY <1>t, <2>1, <3>1 DEF TypeOK
      <4>2. StoreNow' = [StoreNow EXCEPT ![Key(t)] = Null]
        BY <1>t, <2>1, <2>3, <3>1, <3>4 DEF TypeOK
      <4>3. Store!Lose(t)
        BY <2>1, <3>2, <3>4, <4>1, <4>2 DEF Store!Lose, Sets, Key
      <4> QED BY <1>r, <4>3
    <3> QED BY <2>5, <3>3, <3>4
  <2>7. CASE ~Committed(t)
    <3>1. StoreNow = files /\ AnswerNow[t] = Pending
      BY <1>t, <2>1, <2>2, <2>7, StoreCases DEF AnswerNow, CallInv
    <3>2. "delete" \in faults
      BY <1>t, <2>1, <2>7 DEF Committed, DeleteInv
    <3>3. AnswerNow' = [AnswerNow EXCEPT ![t] = TRUE]
      BY <2>4 DEF AnswerNow
    <3>4. CASE files' = [files EXCEPT ![Key(t)] = call[t].value]
      <4>1. Store!Set(t)
        BY <2>1, <2>3, <3>1, <3>3, <3>4
           DEF Store!Set, Store!Busy, Store!Answer, Sets, Key
      <4> QED BY <1>r, <4>1
    <3>5. CASE "rename" \in faults /\ files' = files
      <4>1. Store!Keep(t)
        BY <2>1, <2>3, <3>1, <3>2, <3>3, <3>5
           DEF Store!Keep, Store!Busy, Store!Answer, Sets
      <4> QED BY <1>r, <4>1
    <3> QED BY <2>5, <3>4, <3>5
  <2> QED BY <2>6, <2>7
<1>10. ASSUME NEW t \in Threads, Return(t)
       PROVE  Store!Next
  <2>1. /\ \A s \in Threads : Committed(s)' <=> Committed(s)
        /\ \A s \in Threads : Committed(s) => call'[s] = call[s]
    BY <1>10, <1>t DEF Return, Committed, Key, TypeOK
  <2>2. StoreNow' = StoreNow
    BY <1>10, <2>1, StoreFrame DEF Return
  <2>3. ~Committed(t) /\ ~Committed(t)' /\ AnswerNow[t] # Pending
    BY <1>10, <1>t, <2>1 DEF Return, Committed, AnswerNow, CallInv
  <2>4. AnswerNow' = [AnswerNow EXCEPT ![t] = Pending]
    BY <1>10, <2>1, <2>3, AnswerFrame DEF Return
  <2>5. Store!Return(t)
    BY <1>10, <2>2, <2>3, <2>4 DEF Return, Store!Return
  <2> QED BY <1>r, <2>5
<1> QED
  BY <1>1, <1>2, <1>3, <1>4, <1>5, <1>6, <1>7, <1>8, <1>9, <1>10 DEF Next, Run

\* Every behaviour of get and set is one of the key-value store: concurrent
\* calls take effect one at a time, and a fault breaks no more than the store
\* lets it.
THEOREM Refinement == Spec => ImplementsStore
<1>1. Init => Store!Init
  <2> SUFFICES ASSUME Init
               PROVE  Store!Init
    OBVIOUS
  <2>1. \A t \in Threads : ~Committed(t)
    BY DEF Init, Committed
  <2>2. StoreNow = [k \in Keys |-> Null] /\ AnswerNow = [t \in Threads |-> Pending]
    BY <2>1 DEF Init, StoreNow, AnswerNow
  <2> QED BY <2>2, FaultsAssumption DEF Init, Store!Init, AllFaults
<1>2. IInv /\ IInv' /\ [Next]_vars => [Store!Next]_(Store!vars)
  BY StoreRefines
<1> QED BY <1>1, <1>2, Invariance, PTL DEF Spec, ImplementsStore, Store!Spec
=============================================================================
