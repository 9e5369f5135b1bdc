----------------------------- MODULE LiveDisplay -----------------------------
(***************************************************************************)
(* The LiveDisplay singleton (livedisplay/src/LiveDisplay.cpp) as the Java *)
(* facade drives it: threads that call the native operations, the mutex    *)
(* mLock they serialise on, the lazy connection to a vendor backend, the   *)
(* teardown after a failed operation, and the one caller that does not     *)
(* take mLock: getSupportedFeatures(), run by the static initializer of    *)
(* LiveDisplayVendorImpl.                                                  *)
(*                                                                         *)
(* A feature is the index of its bit in mFeatures.  An operation of the    *)
(* backend is one step that succeeds or fails; the SDM module opens it up. *)
(***************************************************************************)
EXTENDS Integers

CONSTANTS Threads,    \* the threads of the process that call the facade
          NoThread,   \* the owner of mLock when it is free
          MaxBit      \* index of the bit Feature::MAX

ASSUME ThreadsAssumption == NoThread \notin Threads
ASSUME MaxBitAssumption == MaxBit \in Nat

Features == 0..MaxBit

\* The operations that report a status tear the session down when they fail;
\* those that return a value do not.  "init" is getSupportedFeatures().
Kinds == {"init", "status", "value"}
Calls == [kind : Kinds, feature : Features]
NoCall == [kind |-> "init", feature |-> 0]

VARIABLES
  classInit,   \* progress of LiveDisplayVendorImpl's static initializer
  sFeatures,   \* the feature set that initializer caches for good
  mBackend,    \* whether the constructor found a backend for the board
  mLock,       \* the owner of the mutex, or NoThread
  mConnected,
  mFeatures,
  backend,     \* the vendor library's session: "up" between init and deinit
  pc,          \* where each thread is
  call,        \* the operation it runs
  bit,         \* the loop variable of connect()
  rc           \* the status it is about to return

java == <<classInit, sFeatures>>
native == <<mConnected, mFeatures, backend>>
locals == <<call, bit, rc>>
vars == <<classInit, sFeatures, mBackend, mLock, mConnected, mFeatures,
          backend, pc, call, bit, rc>>

Labels == {"idle", "acquire", "connect", "initialize", "probe", "check",
           "op", "reset", "clear", "unlock", "publish"}

\* Where a thread reads or writes the fields of the singleton or is inside
\* the vendor library.
InBackend == {"connect", "initialize", "probe", "check", "op", "reset",
              "clear"}

TypeOK ==
  /\ classInit \in {"none", "running", "done"}
  /\ sFeatures \in SUBSET Features
  /\ mBackend \in BOOLEAN
  /\ mLock \in Threads \cup {NoThread}
  /\ mConnected \in BOOLEAN
  /\ mFeatures \in SUBSET Features
  /\ backend \in {"up", "down"}
  /\ pc \in [Threads -> Labels]
  /\ call \in [Threads -> Calls]
  /\ bit \in [Threads -> 0..(MaxBit + 1)]
  /\ rc \in [Threads -> {"NO_INIT", "OK", "failed"}]

Init ==
  /\ classInit = "none"
  /\ sFeatures = {}
  /\ mBackend \in BOOLEAN
  /\ mLock = NoThread
  /\ mConnected = FALSE
  /\ mFeatures = {}
  /\ backend = "down"
  /\ pc = [t \in Threads |-> "idle"]
  /\ call = [t \in Threads |-> NoCall]
  /\ bit = [t \in Threads |-> 0]
  /\ rc = [t \in Threads |-> "NO_INIT"]

Goto(t, label) == pc' = [pc EXCEPT ![t] = label]
At(t, label) == pc[t] = label

-----------------------------------------------------------------------------
(* The Java side: class initialization, then gated calls.                  *)

\* The first thread to touch the class runs its static initializer; the JVM
\* makes every other one wait until it has ended.
LoadLibrary(t) ==
  /\ At(t, "idle")
  /\ classInit = "none"
  /\ classInit' = "running"
  /\ Goto(t, "connect")
  /\ UNCHANGED <<sFeatures, mBackend, mLock, native, locals>>

\* System.loadLibrary throws: the class is usable and offers nothing.
LoadFails(t) ==
  /\ At(t, "idle")
  /\ classInit = "none"
  /\ classInit' = "done"
  /\ sFeatures' = {}
  /\ UNCHANGED <<mBackend, mLock, native, pc, locals>>

\* getSupportedFeatures() has returned mFeatures to the initializer.
Publish(t) ==
  /\ At(t, "publish")
  /\ sFeatures' = mFeatures
  /\ classInit' = "done"
  /\ Goto(t, "idle")
  /\ UNCHANGED <<mBackend, mLock, native, locals>>

\* A facade class calls a native operation only when the cached set has its
\* feature.
HasNativeFeature(f) == classInit = "done" /\ f \in sFeatures

Invoke(t, kind, f) ==
  /\ At(t, "idle")
  /\ HasNativeFeature(f)
  /\ call' = [call EXCEPT ![t] = [kind |-> kind, feature |-> f]]
  /\ rc' = [rc EXCEPT ![t] = "NO_INIT"]
  /\ Goto(t, "acquire")
  /\ UNCHANGED <<java, mBackend, mLock, native, bit>>

\* Otherwise it answers by itself.
Refuse(t, f) ==
  /\ At(t, "idle")
  /\ classInit = "done"
  /\ f \notin sFeatures
  /\ UNCHANGED vars

-----------------------------------------------------------------------------
(* connect(), the lock around it, and the operation it guards.             *)

\* Mutant: the operation does not wait for the mutex.
AcquireBusy(t) ==
  /\ At(t, "acquire")
  /\ mLock' = t
  /\ Goto(t, "connect")
  /\ UNCHANGED <<java, mBackend, native, locals>>

Acquire(t) ==
  /\ At(t, "acquire")
  /\ mLock = NoThread
  /\ mLock' = t
  /\ Goto(t, "connect")
  /\ UNCHANGED <<java, mBackend, native, locals>>

\* Where connect() returns to: getSupportedFeatures() ignores the answer;
\* check() looks at the features of a connection.
Resume(t, connected) ==
  Goto(t, IF call[t].kind = "init" THEN "publish"
          ELSE IF connected THEN "check" ELSE "unlock")

ConnectAlready(t) ==
  /\ At(t, "connect")
  /\ mConnected
  /\ Resume(t, TRUE)
  /\ UNCHANGED <<java, mBackend, mLock, native, locals>>

ConnectNoBackend(t) ==
  /\ At(t, "connect")
  /\ ~mConnected
  /\ ~mBackend
  /\ mFeatures' = {}
  /\ Resume(t, FALSE)
  /\ UNCHANGED <<java, mBackend, mLock, mConnected, backend, locals>>

ConnectStart(t) ==
  /\ At(t, "connect")
  /\ ~mConnected
  /\ mBackend
  /\ mFeatures' = {}
  /\ Goto(t, "initialize")
  /\ UNCHANGED <<java, mBackend, mLock, mConnected, backend, locals>>

InitializeFails(t) ==
  /\ At(t, "initialize")
  /\ Resume(t, FALSE)
  /\ UNCHANGED <<java, mBackend, mLock, native, locals>>

\* Mutant: the connection is announced before its features are known.
InitializeConnects(t) ==
  /\ At(t, "initialize")
  /\ backend' = "up"
  /\ mConnected' = TRUE
  /\ bit' = [bit EXCEPT ![t] = 0]
  /\ Goto(t, "probe")
  /\ UNCHANGED <<java, mBackend, mLock, mFeatures, call, rc>>

InitializeOk(t) ==
  /\ At(t, "initialize")
  /\ backend' = "up"
  /\ bit' = [bit EXCEPT ![t] = 0]
  /\ Goto(t, "probe")
  /\ UNCHANGED <<java, mBackend, mLock, mConnected, mFeatures, call, rc>>

\* Mutant: the loop runs one bit too far.
ProbeTooFar(t) ==
  /\ At(t, "probe")
  /\ bit[t] <= MaxBit + 1
  /\ \E has \in BOOLEAN :
       mFeatures' = IF has THEN mFeatures \cup {bit[t]} ELSE mFeatures
  /\ bit' = [bit EXCEPT ![t] = @ + 1]
  /\ UNCHANGED <<java, mBackend, mLock, mConnected, backend, pc, call, rc>>

\* Mutant: the bit is not shifted.
ProbeStuck(t) ==
  /\ At(t, "probe")
  /\ bit[t] <= MaxBit
  /\ \E has \in BOOLEAN :
       mFeatures' = IF has THEN mFeatures \cup {bit[t]} ELSE mFeatures
  /\ UNCHANGED <<java, mBackend, mLock, mConnected, backend, pc, locals>>

\* One turn of the loop: the backend answers for the feature `bit'.
Probe(t) ==
  /\ At(t, "probe")
  /\ bit[t] <= MaxBit
  /\ \E has \in BOOLEAN :
       mFeatures' = IF has THEN mFeatures \cup {bit[t]} ELSE mFeatures
  /\ bit' = [bit EXCEPT ![t] = @ + 1]
  /\ UNCHANGED <<java, mBackend, mLock, mConnected, backend, pc, call, rc>>

\* An empty feature set makes this call fail but leaves a connection behind.
Connected(t) ==
  /\ At(t, "probe")
  /\ bit[t] > MaxBit
  /\ mConnected' = TRUE
  /\ bit' = [bit EXCEPT ![t] = 0]
  /\ Resume(t, mFeatures # {})
  /\ UNCHANGED <<java, mBackend, mLock, mFeatures, backend, call, rc>>

\* Mutant: the feature is not looked up.
CheckConnectedOnly(t) ==
  /\ At(t, "check")
  /\ Goto(t, "op")
  /\ UNCHANGED <<java, mBackend, mLock, native, locals>>

\* hasFeature() reads mFeatures; the second connect() of check() then finds
\* the connection the first one made.
Check(t) ==
  /\ At(t, "check")
  /\ Goto(t, IF call[t].feature \in mFeatures THEN "op" ELSE "unlock")
  /\ UNCHANGED <<java, mBackend, mLock, native, locals>>

OperationOk(t) ==
  /\ At(t, "op")
  /\ rc' = [rc EXCEPT ![t] = "OK"]
  /\ Goto(t, "unlock")
  /\ UNCHANGED <<java, mBackend, mLock, native, call, bit>>

\* rc != OK: error() tears the session down.
OperationFails(t) ==
  /\ At(t, "op")
  /\ call[t].kind = "status"
  /\ rc' = [rc EXCEPT ![t] = "failed"]
  /\ Goto(t, "reset")
  /\ UNCHANGED <<java, mBackend, mLock, native, call, bit>>

\* Mutant: the test of mConnected is inverted.
DeinitializeInverted(t) ==
  /\ At(t, "reset")
  /\ backend' = IF ~mConnected THEN "down" ELSE backend
  /\ Goto(t, "clear")
  /\ UNCHANGED <<java, mBackend, mLock, mConnected, mFeatures, locals>>

\* reset(): deinitialize the backend, then forget the connection.
Deinitialize(t) ==
  /\ At(t, "reset")
  /\ backend' = IF mConnected THEN "down" ELSE backend
  /\ Goto(t, "clear")
  /\ UNCHANGED <<java, mBackend, mLock, mConnected, mFeatures, locals>>

\* Mutant: only the features are forgotten.
ClearFeaturesOnly(t) ==
  /\ At(t, "clear")
  /\ mFeatures' = {}
  /\ Goto(t, "unlock")
  /\ UNCHANGED <<java, mBackend, mLock, mConnected, backend, locals>>

Clear(t) ==
  /\ At(t, "clear")
  /\ mFeatures' = {}
  /\ mConnected' = FALSE
  /\ Goto(t, "unlock")
  /\ UNCHANGED <<java, mBackend, mLock, backend, locals>>

\* Mutant: a manual lock that a return without unlock leaves held.
UnlockForgotten(t) ==
  /\ At(t, "unlock")
  /\ call' = [call EXCEPT ![t] = NoCall]
  /\ rc' = [rc EXCEPT ![t] = "NO_INIT"]
  /\ Goto(t, "idle")
  /\ UNCHANGED <<java, mBackend, mLock, native, bit>>

\* ~Autolock, and the return to the facade.
Unlock(t) ==
  /\ At(t, "unlock")
  /\ mLock' = NoThread
  /\ call' = [call EXCEPT ![t] = NoCall]
  /\ rc' = [rc EXCEPT ![t] = "NO_INIT"]
  /\ Goto(t, "idle")
  /\ UNCHANGED <<java, mBackend, native, bit>>

-----------------------------------------------------------------------------
Connect(t) == \/ ConnectAlready(t) \/ ConnectNoBackend(t) \/ ConnectStart(t)
              \/ InitializeFails(t) \/ InitializeOk(t)
              \/ Probe(t) \/ Connected(t)

\* What a thread does once it has entered the native code.
Run(t) == \/ Acquire(t) \/ Connect(t) \/ Check(t)
          \/ OperationOk(t) \/ OperationFails(t)
          \/ Deinitialize(t) \/ Clear(t)
          \/ Unlock(t) \/ Publish(t)

Enter(t) == \/ LoadLibrary(t) \/ LoadFails(t)
            \/ \E kind \in {"status", "value"}, f \in Features :
                 Invoke(t, kind, f)
            \/ \E f \in Features : Refuse(t, f)

Next == \E t \in Threads : Enter(t) \/ Run(t)

\* A thread in native code keeps running and vendor calls return; nothing
\* makes a thread enter, and the mutex is not fair.
Fairness == \A t \in Threads : WF_vars(Run(t))

Spec == Init /\ [][Next]_vars
FairSpec == Spec /\ Fairness

-----------------------------------------------------------------------------
(* Properties.                                                             *)

\* At most one thread is between the entry of connect() and the end of the
\* operation or of reset(): mLock serialises the operations (LiveDisplay.cpp
\* 107-284) and the class initializer keeps the unlocked
\* getSupportedFeatures() (96-99) apart from all of them.
BackendExclusive ==
  \A s, t \in Threads :
    pc[s] \in InBackend /\ pc[t] \in InBackend => s = t

\* A backend operation runs only while the vendor session is up, connected,
\* and known to have the feature: what check() (101-103) is for.
OperationInSession ==
  \A t \in Threads :
    At(t, "op") => /\ mConnected
                   /\ backend = "up"
                   /\ call[t].feature \in mFeatures

\* With nobody inside, the front end's idea of the connection is the vendor
\* library's: every initialize() is paired with one deinitialize(), and a
\* disconnected front end has no features left over (reset(), 52-58).
SessionBalanced ==
  (\A t \in Threads : pc[t] \notin InBackend) =>
    /\ mConnected <=> backend = "up"
    /\ mConnected \/ mFeatures = {}

\* The library is never initialized twice nor closed twice.
NoDoubleInit ==
  \A t \in Threads : /\ At(t, "initialize") => backend = "down" /\ ~mConnected
                     /\ At(t, "reset") => backend = "up" /\ mConnected

\* A status operation that fails returns to its caller only after the session
\* is gone (error(), 60-67).
FailureDisconnects ==
  \A t \in Threads :
    At(t, "unlock") /\ rc[t] = "failed" => ~mConnected /\ backend = "down"

\* While a connection lasts its feature set does not change: operations of
\* one session all see the same features.
FeaturesFixedInSession ==
  [][mConnected /\ mConnected' => mFeatures' = mFeatures]_vars

\* Every native call that got mLock gives it back (~Autolock, 107-284).
LockReleased ==
  \A t \in Threads : (mLock = t) ~> (mLock # t)

\* The static initializer (LiveDisplayVendorImpl.java 38-56) ends, whether or
\* not it finds a backend, so that nobody waits for the class for ever.
ClassInitEnds == (classInit = "running") ~> (classInit = "done")

-----------------------------------------------------------------------------
Session == INSTANCE BackendSession WITH
  open <- mConnected,
  granted <- IF mConnected THEN mFeatures ELSE {},
  users <- {t \in Threads : At(t, "op")}

\* The front end implements the abstract session.
ImplementsSession == Session!Spec
=============================================================================
