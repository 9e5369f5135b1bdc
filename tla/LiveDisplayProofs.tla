--------------------------- MODULE LiveDisplayProofs ---------------------------
(***************************************************************************)
(* Proofs about LiveDisplay: type correctness, exclusive use of the        *)
(* backend, pairing of its sessions, teardown after a failure, and the     *)
(* refinement of BackendSession, for any set of threads and any number of  *)
(* features.                                                               *)
(***************************************************************************)
EXTENDS LiveDisplay, TLAPS

\* The thread that runs the static initializer of the Java class.
Initializing(t) == call[t].kind = "init" /\ pc[t] # "idle"

\* Who runs what, and by which right.
OwnerInv ==
  /\ \A t \in Threads :
       /\ pc[t] = "idle" => call[t].kind = "init"
       /\ pc[t] = "publish" => call[t].kind = "init"
       /\ pc[t] \in {"acquire", "check", "op", "reset", "clear", "unlock"}
            => call[t].kind # "init"
       /\ call[t].kind # "init" => classInit = "done"
       /\ Initializing(t) => classInit = "running"
       /\ pc[t] \in InBackend \cup {"unlock"} /\ call[t].kind # "init"
            => mLock = t
  /\ \A s, t \in Threads : Initializing(s) /\ Initializing(t) => s = t

\* Connection and vendor session agree outside of connect() and reset().
Agreed == /\ mConnected <=> backend = "up"
          /\ mConnected \/ mFeatures = {}

\* What each place in the code knows of the session.
SessionInv ==
  /\ (\A t \in Threads : pc[t] \notin InBackend) => Agreed
  /\ \A t \in Threads :
       /\ pc[t] = "connect" => Agreed
       /\ pc[t] = "initialize" =>
            ~mConnected /\ backend = "down" /\ mFeatures = {}
       /\ pc[t] = "probe" => ~mConnected /\ backend = "up"
       /\ pc[t] \in {"check", "op", "reset"} => mConnected /\ backend = "up"
       /\ pc[t] = "op" => call[t].feature \in mFeatures
       /\ pc[t] = "clear" => mConnected /\ backend = "down"
       /\ rc[t] = "failed" =>
            \/ pc[t] \in {"reset", "clear"}
            \/ pc[t] = "unlock" /\ ~mConnected /\ backend = "down"

IInv == TypeOK /\ OwnerInv /\ SessionInv

-----------------------------------------------------------------------------
\* Every step keeps the variables in their types.
LEMMA TypeStep == TypeOK /\ [Next]_vars => TypeOK'
<1> SUFFICES ASSUME TypeOK, [Next]_vars
             PROVE  TypeOK'
  OBVIOUS
<1> USE ThreadsAssumption, MaxBitAssumption
        DEF TypeOK, Features, Calls, Kinds, NoCall, Labels, Goto, At,
            java, native, locals
<1>1. CASE UNCHANGED vars
  BY <1>1 DEF vars
<1>2. ASSUME NEW t \in Threads, Enter(t)
      PROVE  TypeOK'
  <2>1. CASE LoadLibrary(t)
    BY <2>1 DEF LoadLibrary
  <2>2. CASE LoadFails(t)
    BY <2>2 DEF LoadFails
  <2>3. ASSUME NEW kind \in {"status", "value"}, NEW f \in Features,
               Invoke(t, kind, f)
        PROVE  TypeOK'
    BY <2>3 DEF Invoke
  <2>4. ASSUME NEW f \in Features, Refuse(t, f)
        PROVE  TypeOK'
    BY <2>4 DEF Refuse, vars
  <2> QED BY <1>2, <2>1, <2>2, <2>3, <2>4 DEF Enter
<1>3. ASSUME NEW t \in Threads, Connect(t)
      PROVE  TypeOK'
  <2> USE DEF Resume
  <2>1. CASE ConnectAlready(t)
    BY <2>1 DEF ConnectAlready
  <2>2. CASE ConnectNoBackend(t)
    BY <2>2 DEF ConnectNoBackend
  <2>3. CASE ConnectStart(t)
    BY <2>3 DEF ConnectStart
  <2>4. CASE InitializeFails(t)
    BY <2>4 DEF InitializeFails
  <2>5. CASE InitializeOk(t)
    BY <2>5 DEF InitializeOk
  <2>6. CASE Probe(t)
    <3>1. bit[t] \in 0..MaxBit /\ bit[t] + 1 \in 0..(MaxBit + 1)
      BY <2>6 DEF Probe
    <3>2. mFeatures' \in SUBSET Features
      BY <2>6, <3>1 DEF Probe
    <3>3. bit' \in [Threads -> 0..(MaxBit + 1)]
      BY <2>6, <3>1 DEF Probe
    <3> QED BY <2>6, <3>2, <3>3 DEF Probe
  <2>7. CASE Connected(t)
    BY <2>7 DEF Connected
  <2> QED BY <1>3, <2>1, <2>2, <2>3, <2>4, <2>5, <2>6, <2>7 DEF Connect
<1>4. ASSUME NEW t \in Threads, Run(t), ~Connect(t)
      PROVE  TypeOK'
  <2>1. CASE Acquire(t)
    BY <2>1 DEF Acquire
  <2>2. CASE Check(t)
    BY <2>2 DEF Check
  <2>3. CASE OperationOk(t)
    BY <2>3 DEF OperationOk
  <2>4. CASE OperationFails(t)
    BY <2>4 DEF OperationFails
  <2>5. CASE Deinitialize(t)
    BY <2>5 DEF Deinitialize
  <2>6. CASE Clear(t)
    BY <2>6 DEF Clear
  <2>7. CASE Unlock(t)
    BY <2>7 DEF Unlock
  <2>8. CASE Publish(t)
    BY <2>8 DEF Publish
  <2> QED BY <1>4, <2>1, <2>2, <2>3, <2>4, <2>5, <2>6, <2>7, <2>8 DEF Run
<1> QED BY <1>1, <1>2, <1>3, <1>4 DEF Next

\* Before the first call every variable has its type.
LEMMA TypeInit == Init => TypeOK
<1> SUFFICES ASSUME Init
             PROVE  TypeOK
  OBVIOUS
<1>1. 0 \in 0..MaxBit /\ 0 \in 0..(MaxBit + 1)
  BY MaxBitAssumption
<1>2. NoCall \in Calls
  BY <1>1 DEF NoCall, Calls, Kinds, Features
<1>3. call \in [Threads -> Calls]
  BY <1>2 DEF Init
<1>4. bit \in [Threads -> 0..(MaxBit + 1)]
  BY <1>1 DEF Init
<1> QED BY <1>3, <1>4 DEF Init, TypeOK, Labels

\* The model is well typed: no step of any thread leaves the types.
THEOREM TypeCorrect == Spec => []TypeOK
BY TypeInit, TypeStep, PTL DEF Spec

-----------------------------------------------------------------------------
\* Ownership makes the backend exclusive: two threads inside it, or about to
\* give back mLock, would both own mLock, or both run the initializer, or one
\* would run it while the other needs it to have ended.
Section == InBackend \cup {"unlock"}

\* Two threads in the section are one thread.
LEMMA OwnersExclude ==
  ASSUME OwnerInv, NEW s \in Threads, NEW t \in Threads,
         pc[s] \in Section, pc[t] \in Section
  PROVE  s = t
<1>1. pc[s] # "idle" /\ pc[t] # "idle"
  BY DEF InBackend, Section
<1>2. CASE call[s].kind = "init" /\ call[t].kind = "init"
  BY <1>1, <1>2 DEF OwnerInv, Initializing
<1>3. CASE call[s].kind = "init" /\ call[t].kind # "init"
  <2>1. classInit = "running" /\ classInit = "done"
    BY <1>1, <1>3 DEF OwnerInv, Initializing
  <2> QED BY <2>1
<1>4. CASE call[s].kind # "init" /\ call[t].kind = "init"
  <2>1. classInit = "running" /\ classInit = "done"
    BY <1>1, <1>4 DEF OwnerInv, Initializing
  <2> QED BY <2>1
<1>5. CASE call[s].kind # "init" /\ call[t].kind # "init"
  BY <1>1, <1>5 DEF OwnerInv, Section
<1> QED BY <1>2, <1>3, <1>4, <1>5

\* Ownership is preserved.  Only entering, taking and giving back mLock and
\* ending the initializer change who owns what; every other step moves one
\* owner along.
LEMMA OwnerStep == TypeOK /\ OwnerInv /\ [Next]_vars => OwnerInv'
<1> SUFFICES ASSUME TypeOK, OwnerInv, [Next]_vars
             PROVE  OwnerInv'
  OBVIOUS
<1> USE ThreadsAssumption
        DEF TypeOK, OwnerInv, Initializing, InBackend, Labels, Goto, At,
            java, native, locals
<1>1. CASE UNCHANGED vars
  BY <1>1 DEF vars
<1>2. ASSUME NEW t \in Threads, Enter(t)
      PROVE  OwnerInv'
  <2>1. CASE LoadLibrary(t)
    BY <2>1 DEF LoadLibrary
  <2>2. CASE LoadFails(t)
    BY <2>2 DEF LoadFails
  <2>3. ASSUME NEW kind \in {"status", "value"}, NEW f \in Features,
               Invoke(t, kind, f)
        PROVE  OwnerInv'
    BY <2>3 DEF Invoke, HasNativeFeature
  <2>4. ASSUME NEW f \in Features, Refuse(t, f)
        PROVE  OwnerInv'
    BY <2>4 DEF Refuse, vars
  <2> QED BY <1>2, <2>1, <2>2, <2>3, <2>4 DEF Enter
<1>3. ASSUME NEW t \in Threads, Connect(t)
      PROVE  OwnerInv'
  <2> USE DEF Resume
  <2>1. CASE ConnectAlready(t)
    BY <2>1 DEF ConnectAlready
  <2>2. CASE ConnectNoBackend(t)
    BY <2>2 DEF ConnectNoBackend
  <2>3. CASE ConnectStart(t)
    BY <2>3 DEF ConnectStart
  <2>4. CASE InitializeFails(t)
    BY <2>4 DEF InitializeFails
  <2>5. CASE InitializeOk(t)
    BY <2>5 DEF InitializeOk
  <2>6. CASE Probe(t)
    BY <2>6 DEF Probe
  <2>7. CASE Connected(t)
    BY <2>7 DEF Connected
  <2> QED BY <1>3, <2>1, <2>2, <2>3, <2>4, <2>5, <2>6, <2>7 DEF Connect
<1>4. ASSUME NEW t \in Threads, Run(t), ~Connect(t)
      PROVE  OwnerInv'
  <2>1. CASE Acquire(t)
    BY <2>1 DEF Acquire
  <2>2. CASE Check(t)
    BY <2>2 DEF Check
  <2>3. CASE OperationOk(t)
    BY <2>3 DEF OperationOk
  <2>4. CASE OperationFails(t)
    BY <2>4 DEF OperationFails
  <2>5. CASE Deinitialize(t)
    BY <2>5 DEF Deinitialize
  <2>6. CASE Clear(t)
    BY <2>6 DEF Clear
  <2>7. CASE Unlock(t)
    BY <2>7 DEF Unlock, NoCall
  <2>8. CASE Publish(t)
    BY <2>8 DEF Publish
  <2> QED BY <1>4, <2>1, <2>2, <2>3, <2>4, <2>5, <2>6, <2>7, <2>8 DEF Run
<1> QED BY <1>1, <1>2, <1>3, <1>4 DEF Next

\* So while one thread is inside, all others are outside.
LEMMA OthersOutside ==
  ASSUME OwnerInv, NEW t \in Threads, pc[t] \in Section
  PROVE  \A u \in Threads : u # t => pc[u] \notin Section
BY OwnersExclude

\* The session is preserved: a step inside the backend speaks for the only
\* thread there, and steps outside do not touch the session.
LEMMA SessionStep == IInv /\ [Next]_vars => SessionInv'
<1> SUFFICES ASSUME IInv, [Next]_vars
             PROVE  SessionInv'
  OBVIOUS
<1> USE DEF TypeOK, SessionInv, Agreed, InBackend, Labels, Goto, At, java,
            native, locals
<1> TypeOK /\ OwnerInv /\ SessionInv
  BY DEF IInv
<1>1. CASE UNCHANGED vars
  BY <1>1 DEF vars
<1>2. ASSUME NEW t \in Threads, Enter(t)
      PROVE  SessionInv'
  <2>1. CASE LoadLibrary(t)
    <3>1. \A u \in Threads : pc[u] \notin InBackend
      BY <2>1 DEF LoadLibrary, OwnerInv, Initializing
    <3> QED BY <2>1, <3>1 DEF LoadLibrary
  <2>2. CASE LoadFails(t)
    BY <2>2 DEF LoadFails
  <2>3. ASSUME NEW kind \in {"status", "value"}, NEW f \in Features,
               Invoke(t, kind, f)
        PROVE  SessionInv'
    BY <2>3 DEF Invoke, HasNativeFeature
  <2>4. ASSUME NEW f \in Features, Refuse(t, f)
        PROVE  SessionInv'
    BY <2>4 DEF Refuse, vars
  <2> QED BY <1>2, <2>1, <2>2, <2>3, <2>4 DEF Enter
<1>3. ASSUME NEW t \in Threads, Connect(t)
      PROVE  SessionInv'
  <2> USE DEF Resume
  <2>0. \A u \in Threads : u # t => pc[u] \notin Section
    <3>1. pc[t] \in Section
      BY <1>3 DEF Connect, ConnectAlready, ConnectNoBackend, ConnectStart,
                  InitializeFails, InitializeOk, Probe, Connected, Section
    <3> QED BY <3>1, OthersOutside
  <2> USE <2>0 DEF Section
  <2>1. CASE ConnectAlready(t)
    BY <2>1 DEF ConnectAlready
  <2>2. CASE ConnectNoBackend(t)
    BY <2>2 DEF ConnectNoBackend
  <2>3. CASE ConnectStart(t)
    BY <2>3 DEF ConnectStart
  <2>4. CASE InitializeFails(t)
    BY <2>4 DEF InitializeFails
  <2>5. CASE InitializeOk(t)
    BY <2>5 DEF InitializeOk
  <2>6. CASE Probe(t)
    BY <2>6 DEF Probe
  <2>7. CASE Connected(t)
    BY <2>7 DEF Connected
  <2> QED BY <1>3, <2>1, <2>2, <2>3, <2>4, <2>5, <2>6, <2>7 DEF Connect
<1>4. CASE \E t \in Threads : Acquire(t)
  <2> PICK t \in Threads : Acquire(t)
    BY <1>4
  <2>1. \A u \in Threads : pc[u] \notin Section
    <3>1. mLock \notin Threads /\ classInit = "done"
      BY ThreadsAssumption DEF Acquire, OwnerInv
    <3> QED BY <3>1 DEF OwnerInv, Initializing, Section
  <2> QED BY <2>1 DEF Acquire, Section
<1>5. CASE \E t \in Threads : Publish(t)
  BY <1>5 DEF Publish
<1>6. ASSUME NEW t \in Threads,
             \/ Check(t) \/ OperationOk(t) \/ OperationFails(t)
             \/ Deinitialize(t) \/ Clear(t) \/ Unlock(t)
      PROVE  SessionInv'
  <2>0. \A u \in Threads : u # t => pc[u] \notin Section
    <3>1. pc[t] \in Section
      BY <1>6 DEF Check, OperationOk, OperationFails, Deinitialize, Clear,
                  Unlock, Section
    <3> QED BY <3>1, OthersOutside
  <2> USE <2>0 DEF Section
  <2>1. CASE Check(t)
    BY <2>1 DEF Check
  <2>2. CASE OperationOk(t)
    BY <2>2 DEF OperationOk
  <2>3. CASE OperationFails(t)
    BY <2>3 DEF OperationFails
  <2>4. CASE Deinitialize(t)
    BY <2>4 DEF Deinitialize
  <2>5. CASE Clear(t)
    BY <2>5 DEF Clear
  <2>6. CASE Unlock(t)
    BY <2>6 DEF Unlock
  <2> QED BY <1>6, <2>1, <2>2, <2>3, <2>4, <2>5, <2>6
<1> QED BY <1>1, <1>2, <1>3, <1>4, <1>5, <1>6 DEF Next, Run

-----------------------------------------------------------------------------
\* With every thread idle and no session the invariant holds.
LEMMA InitInv == Init => IInv
<1> SUFFICES ASSUME Init
             PROVE  IInv
  OBVIOUS
<1>1. TypeOK
  BY TypeInit
<1>2. OwnerInv /\ SessionInv
  BY DEF Init, OwnerInv, SessionInv, Agreed, Initializing, InBackend, NoCall
<1> QED BY <1>1, <1>2 DEF IInv

\* No step of any thread breaks it.
LEMMA InvStep == IInv /\ [Next]_vars => IInv'
BY TypeStep, OwnerStep, SessionStep DEF IInv

\* IInv is inductive: it holds of every state of every behaviour of the front end.
THEOREM Invariance == Spec => []IInv
BY InitInv, InvStep, PTL DEF Spec

\* At most one thread is between the entry of connect() and the end of the
\* operation or of reset(), whatever the threads do.
THEOREM ExclusiveBackend == Spec => []BackendExclusive
<1>1. IInv => BackendExclusive
  BY OwnersExclude DEF IInv, BackendExclusive, Section
<1> QED BY <1>1, Invariance, PTL

\* A backend operation runs only inside a session that has its feature.
THEOREM OperationsInSession == Spec => []OperationInSession
<1>1. IInv => OperationInSession
  BY DEF IInv, SessionInv, OperationInSession, At
<1> QED BY <1>1, Invariance, PTL

\* With no thread between connect() and reset(), the vendor library is
\* initialized exactly when the front end believes so, and a disconnected
\* front end has no features left over (LiveDisplay.cpp:52-98).
THEOREM SessionsBalanced == Spec => []SessionBalanced
<1>1. IInv => SessionBalanced
  BY DEF IInv, SessionInv, Agreed, SessionBalanced, At
<1> QED BY <1>1, Invariance, PTL

\* The library is never initialized twice, nor deinitialized when it was not
\* initialized, however connect, reset and failed operations of the threads
\* interleave (LiveDisplay.cpp:52-98).
THEOREM NoDoubleInitialization == Spec => []NoDoubleInit
<1>1. IInv => NoDoubleInit
  BY DEF IInv, SessionInv, Agreed, NoDoubleInit, At
<1> QED BY <1>1, Invariance, PTL

\* A failed status operation returns with the session gone.
THEOREM FailuresDisconnect == Spec => []FailureDisconnects
<1>1. IInv => FailureDisconnects
  BY DEF IInv, SessionInv, FailureDisconnects, At
<1> QED BY <1>1, Invariance, PTL

\* The features of a connection never change while it lasts.
THEOREM FeaturesFixed == Spec => FeaturesFixedInSession
<1>1. IInv /\ [Next]_vars => [mConnected /\ mConnected' =>
                                mFeatures' = mFeatures]_vars
  <2> SUFFICES ASSUME IInv, [Next]_vars, mConnected, mConnected'
               PROVE  mFeatures' = mFeatures
    OBVIOUS
  <2> USE DEF native, locals, java, At
  <2>1. CASE UNCHANGED vars
    BY <2>1 DEF vars
  <2>2. ASSUME NEW t \in Threads, Enter(t)
        PROVE  mFeatures' = mFeatures
    BY <2>2 DEF Enter, LoadLibrary, LoadFails, Invoke, Refuse, vars
  <2>3. ASSUME NEW t \in Threads, Connect(t)
        PROVE  mFeatures' = mFeatures
    BY <2>3 DEF IInv, SessionInv, Connect, ConnectAlready, ConnectNoBackend,
                ConnectStart, InitializeFails, InitializeOk, Probe, Connected
  <2>4. ASSUME NEW t \in Threads, Run(t), ~Connect(t)
        PROVE  mFeatures' = mFeatures
    BY <2>4 DEF Run, Acquire, Check, OperationOk, OperationFails,
                Deinitialize, Clear, Unlock, Publish
  <2> QED BY <2>1, <2>2, <2>3, <2>4 DEF Next
<1> QED BY <1>1, Invariance, PTL DEF Spec, FeaturesFixedInSession

-----------------------------------------------------------------------------
\* The front end implements BackendSession: Connected opens the session, an
\* operation begins in Check and ends with its result, Clear closes; every
\* other step leaves the abstract session alone.
Granted == IF mConnected THEN mFeatures ELSE {}
Users == {t \in Threads : At(t, "op")}

\* While a thread is inside the backend's section but in no operation, nobody is.
LEMMA NoUsersInside ==
  ASSUME OwnerInv, NEW t \in Threads, pc[t] \in InBackend, pc[t] # "op"
  PROVE  Users = {}
BY OthersOutside DEF Users, At, Section, InBackend

\* Every step is a step of BackendSession, or a stutter.
LEMMA SessionRefines == IInv /\ [Next]_vars => [Session!Next]_(Session!vars)
<1> SUFFICES ASSUME IInv, [Next]_vars
             PROVE  [Session!Next]_(Session!vars)
  OBVIOUS
<1> USE DEF java, native, locals, Goto, At
<1>t. TypeOK /\ OwnerInv /\ SessionInv
  BY DEF IInv
<1>f. UNCHANGED <<mConnected, Granted, Users>> => UNCHANGED Session!vars
  BY DEF Granted, Users, Session!vars
<1>p. ASSUME NEW t \in Threads, NEW l, pc' = [pc EXCEPT ![t] = l],
             pc[t] # "op", l # "op"
      PROVE  Users' = Users
  BY <1>t, <1>p DEF Users, TypeOK
<1>1. CASE UNCHANGED vars
  BY <1>1, <1>f DEF vars, Granted, Users
<1>2. ASSUME NEW t \in Threads, Enter(t)
      PROVE  UNCHANGED <<mConnected, Granted, Users>>
  <2>1. CASE LoadLibrary(t)
    BY <2>1, <1>p DEF LoadLibrary, Granted
  <2>2. CASE LoadFails(t)
    BY <2>2 DEF LoadFails, Granted, Users
  <2>3. ASSUME NEW kind \in {"status", "value"}, NEW f \in Features,
               Invoke(t, kind, f)
        PROVE  UNCHANGED <<mConnected, Granted, Users>>
    BY <2>3, <1>p DEF Invoke, Granted
  <2>4. ASSUME NEW f \in Features, Refuse(t, f)
        PROVE  UNCHANGED <<mConnected, Granted, Users>>
    BY <2>4 DEF Refuse, vars, Granted, Users
  <2> QED BY <1>2, <2>1, <2>2, <2>3, <2>4 DEF Enter
<1>3. ASSUME NEW t \in Threads, Connect(t), ~Connected(t)
      PROVE  UNCHANGED <<mConnected, Granted, Users>>
  <2> USE DEF Resume
  <2>1. CASE ConnectAlready(t)
    BY <2>1, <1>p DEF ConnectAlready, Granted
  <2>2. CASE ConnectNoBackend(t)
    BY <2>2, <1>p DEF ConnectNoBackend, Granted
  <2>3. CASE ConnectStart(t)
    BY <2>3, <1>p DEF ConnectStart, Granted
  <2>4. CASE InitializeFails(t)
    BY <2>4, <1>p DEF InitializeFails, Granted
  <2>5. CASE InitializeOk(t)
    BY <2>5, <1>p DEF InitializeOk, Granted
  <2>6. CASE Probe(t)
    BY <2>6, <1>t DEF Probe, Granted, Users, SessionInv
  <2> QED BY <1>3, <2>1, <2>2, <2>3, <2>4, <2>5, <2>6 DEF Connect
<1>4. ASSUME NEW t \in Threads, Connected(t)
      PROVE  Session!Next
  <2>1. Users = {} /\ Users' = {}
    <3>1. Users = {}
      BY <1>4, <1>t, NoUsersInside DEF Connected, InBackend
    <3>2. Users' = Users
      BY <1>4, <1>p DEF Connected, Resume
    <3> QED BY <3>1, <3>2
  <2>2. ~mConnected /\ mConnected' /\ mFeatures' = mFeatures
    BY <1>4, <1>t DEF Connected, SessionInv
  <2>3. Session!Open(mFeatures)
    BY <2>1, <2>2 DEF Session!Open, Users
  <2> QED BY <2>3, <1>t DEF Session!Next, TypeOK
<1>5. ASSUME NEW t \in Threads, Check(t)
      PROVE  [Session!Next]_(Session!vars)
  <2>1. UNCHANGED <<mConnected, Granted>>
    BY <1>5 DEF Check, Granted
  <2>2. CASE call[t].feature \notin mFeatures
    BY <1>5, <1>f, <1>p, <2>1, <2>2 DEF Check
  <2>3. CASE call[t].feature \in mFeatures
    <3>1. Users = {}
      BY <1>5, <1>t, NoUsersInside DEF Check, InBackend
    <3>2. Users' = {t}
      BY <1>5, <1>t, <2>3, <3>1 DEF Check, Users, TypeOK
    <3>3. mConnected
      BY <1>5, <1>t DEF Check, SessionInv
    <3>4. PICK f \in Features : f = call[t].feature
      BY <1>t DEF TypeOK, Calls
    <3>5. Session!Begin(t, f)
      BY <2>1, <2>3, <3>1, <3>2, <3>3, <3>4
         DEF Session!Begin, Granted, Users
    <3>6. Session!Next
      BY <3>5 DEF Session!Next
    <3> QED BY <3>6
  <2> QED BY <2>2, <2>3
<1>6. ASSUME NEW t \in Threads, OperationOk(t) \/ OperationFails(t)
      PROVE  Session!Next
  <2>1. \A u \in Threads : u # t => pc[u] # "op"
    BY <1>6, <1>t, OthersOutside
       DEF OperationOk, OperationFails, Section, InBackend
  <2>2. Users = {t}
    BY <1>6, <2>1 DEF OperationOk, OperationFails, Users
  <2>3. Users' = {}
    BY <1>6, <1>t, <2>1 DEF OperationOk, OperationFails, Users, TypeOK
  <2>4. Session!End(t)
    BY <1>6, <2>2, <2>3 DEF OperationOk, OperationFails, Session!End, Users
  <2> QED BY <2>4 DEF Session!Next
<1>7. ASSUME NEW t \in Threads, Clear(t)
      PROVE  Session!Next
  <2>1. Users = {} /\ Users' = Users
    BY <1>7, <1>t, <1>p, NoUsersInside DEF Clear, InBackend
  <2>2. mConnected /\ ~mConnected'
    BY <1>7, <1>t DEF Clear, SessionInv
  <2>3. Session!Close
    BY <2>1, <2>2 DEF Session!Close, Users
  <2> QED BY <2>3 DEF Session!Next
<1>8. ASSUME NEW t \in Threads,
             Acquire(t) \/ Deinitialize(t) \/ Unlock(t) \/ Publish(t)
      PROVE  UNCHANGED <<mConnected, Granted, Users>>
  BY <1>8, <1>p DEF Acquire, Deinitialize, Unlock, Publish, Granted
<1> QED
  BY <1>1, <1>2, <1>3, <1>4, <1>5, <1>6, <1>7, <1>8, <1>f DEF Next, Run

\* Every behaviour of the front end is one of the abstract session: one user
\* at a time, only inside a session, and no session opened or closed under
\* a running operation.
THEOREM Refinement == Spec => ImplementsSession
<1>1. Init => Session!Init
  BY DEF Init, Session!Init, At
<1>2. Spec => []IInv
  BY Invariance
<1> QED BY <1>1, <1>2, SessionRefines, PTL
        DEF Spec, ImplementsSession, Session!Spec
=============================================================================
