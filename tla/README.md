# A model of the CyanogenMod hardware layer

TLA+ modules, TLC configurations and TLAPS proofs for
`android_hardware_cyanogen`: the LiveDisplay native layer with its Java facade,
the persistent key store, and two lights HALs. The modules follow the code
under `src/`; line numbers below and in `PROJECT.json` are those of this
repository.

    tlc -workers 2 -config LiveDisplay.cfg LiveDisplay.tla
    tlc -workers 2 -config SDM.cfg MCSDM.tla
    tlapm LiveDisplayProofs.tla     # and the other modules named ...Proofs

## Inventory

**Front end (`livedisplay/src/LiveDisplay.cpp`, `LiveDisplayVendorImpl.java`).**
A process-wide singleton. State: `mConnected`, `mFeatures`, `mBackend`, the
mutex `mLock`; on the Java side the feature set `sFeatures`, fetched once by a
static initializer. Every operation takes `mLock`, calls `check(feature)`, which
connects to the vendor library if needed, calls the backend, and on a failure
calls `error()`, which closes the session so that the next operation connects
again. `getSupportedFeatures()` takes no lock. Hard: that one unlocked caller,
teardown and reconnection, the cached feature set that outlives a session.
Correct means: one thread at a time in the backend, only in a session that has
the feature, initialize and deinitialize in pairs, the lock always returned.

**SDM backend (`livedisplay/impl/SDM.cpp`, `Utils.cpp`).** State:
`mActiveModeId`, `mDefaultPictureAdjustment`, `mCachedFOSSStatus`; outside the
process the panel, a sysfs node for one extra mode (sRGB), the file that keeps
the default mode, and the DPPS daemon. Hard: a mode change is a sequence of
vendor calls and file accesses of which any may fail, the process may die in
between, and what SDM remembers must keep up with a device it does not read
back. Correct means: the mode it believes active is on, the sRGB node is off
when it should be, the default is stored only for a mode that is on and comes
back after a crash; a reply of the daemon is put together correctly from
whatever pieces arrive.

**LegacyMM backend (`livedisplay/impl/LegacyMM.cpp`).** The same interface over
another vendor library, which keeps all state but `mLibHandle`: the active and
the default mode, the color balance, the picture adjustment. Hard: half a
`setDisplayMode`; a mode's id and its name are read by two calls; `dlopen` and
`dlsym` at each connection, functions that are missing. Correct means: a call
into the library only with the library there and its session open, an offered
feature that works, and calls that are atomic to their callers.

**JNI bridge and Java facade.** Conversion and forwarding; each facade class
gates its calls on the cached features, has an answer for a feature that is not
there, and may fall back to a sysfs node. Hard: null results that are passed on,
or dereferenced (`ColorBalance`).

**Sysfs toggles (`AutoContrast`, `ColorEnhancement`, `VibratorHW`).** One file
per call, no state.

**Persistent storage (`PersistentStorage.java`).** `get` and `set` under a
read-write lock, one file per key, replaced by way of a temporary file: copy,
delete the old one, rename. Hard: each step may fail and results are ignored,
the process may die between the delete and the rename. Correct means: atomic
get and set, no half values, an answer that is true.

**Unique device id (`UniqueDeviceId.java`).** Computed once, cached without
synchronization.

**Lights HALs (`lights/lights-qpnp.c`, `lights/lights-aw2013.c`).** State: the
last request of each of three lights that share one LED, a mutex, and what has
been written to the driver's files. Any `set_light` keeps the request, picks the
winner (attention, then notifications, then battery) and rewrites the LED's
files one by one, ignoring failures. Correct means: between updates the LED
shows the winner whatever failed before, the pattern is not changed under a
blinking or bright LED, and pulses last as long as asked.

How they interact: Java threads call the facade, which calls the JNI bridge,
which calls the front end; that calls one backend. `LiveDisplay` shows that a
backend sees one call at a time, which `SDM` and `Foss` take for granted;
`LegacyMM` puts the layers together and takes nothing for granted. The lights HALs and the persistent storage stand alone.

## Modules

| Module | Models | Role |
| --- | --- | --- |
| `BackendSession` | what the front end promises of its backend | abstract |
| `LiveDisplay` | front end and class initializer, many threads | detailed; implements `BackendSession` |
| `...Proofs` | | theorems about `LiveDisplay`, `SDM`, `LegacyMM`, `Foss`, `LightsQpnp`, `LightsAw2013`, `PersistentStorage` |
| `SDM` | display modes and picture adjustment of SDM, with connect and error | detailed |
| `Foss` | adaptive backlight and the exchange with the DPPS daemon | detailed |
| `DisplayService` | what the display classes promise their Java callers | abstract |
| `LegacyMM` | Java classes, JNI bridge, front end and LegacyMM backend, composed | detailed; instantiates `LiveDisplay`, implements `DisplayService` |
| `LightsArbiter` | what both HALs promise of the shared LED | abstract |
| `LightsQpnp`, `LightsAw2013` | the two HALs | detailed; implement `LightsArbiter` |
| `KeyValueStore` | what the persistent storage promises | abstract |
| `PersistentStorage` | get and set, step by step | detailed; implements `KeyValueStore` |
| `MC...` | instances for TLC | |

A definition whose comment begins with "Mutant" is the definition after it with
a plausible bug. No specification uses one; each shows that some property would
notice that bug.

### LiveDisplay

`pc[t]` is where a thread is: `idle`, `acquire` (waiting for `mLock`),
`connect`, `initialize` and `probe` (the parts of `connect()`, one turn of the
feature loop a step), `check`, `op` (inside the backend), `reset` and `clear`
(the halves of `reset()`), `unlock`, and `publish` (the initializer storing
`sFeatures`). The actions between two labels read and write the fields as the
code does, without assuming that the lock protects them: that is what
`BackendExclusive` says, and it holds because the JVM runs the initializer once,
before any other use of the class. `getSupportedFeatures()` is a call of kind
`init`. Operations are of two kinds: those that return a `status_t` tear the
session down on failure, those that return a value do not. `backend` is the
vendor session; the vendor's answers, and whether the board has a backend, are
nondeterministic. Features are the indices of their bits.

### SDM

One call at a time; `pc` names the next vendor call or file access, so each can
fail and the process can die before it. What may go wrong is the variable
`faults`, which `Init` picks from the constant `FaultSets` and no action changes:
one run then covers the behaviours without failures, those with some and those
with all, and a property that needs a fault to be absent says so
(`DefaultRestored`). `panel`, `srgbNode`, `pa` and
`stored` are the world outside the process; `Crash` keeps them, `Reboot` keeps
only `stored`. A fault is "library" (the library does not load or link),
"vendor" (a library call returns an error), "open"
(an `fopen` fails), "flush" (an unchecked `fclose` loses the write) and "crash".
A `setMode` may come with any id: neither the JNI bridge (`objectToDisplayMode`,
lines 70-76) nor the front end looks at it. Ids that name no mode are of two kinds,
`Bogus` and -1 (`NoMode`), because -1 is also what `mActiveModeId` holds while no
mode is on. SDM.cpp:281 compares the two before anything is looked up, so
`setMode(-1)` then answers true: `SetModeTakesEffect` names that exception.
The vendor library is external: a mode comes with a picture adjustment of its
own, and switching a mode off means the library's default mode. `Empty` is the
file between the `fopen(.., "w")` that truncates it and the write; read back it
is an error, or the id 0 when `errno` happens to be 0. `OldModeMissing` is the
null dereference at SDM.cpp:294, which `OldModeFound` allows only after a failing
call. The node of the sRGB mode is assumed to exist. A device without one is not
covered: it knows one kind of switch only, but where the vendor's modes cannot be
counted its list is empty and no error (SDM.cpp:239-240), which the model, whose
list then holds the sRGB mode, does not have.

`board`, chosen once like `faults`, says what the device supports; `Supported` is
what `hasFeature` makes of it, fall-through at SDM.cpp:468 included, and `Probe`
may lose any of it to a failing call but what a property alone decides.
`mLibHandle` and `mHandle` are the loaded library and its open session: `error()`
closes the session and keeps the library, a failed `dlsym` closes the library
again. The ranges and `setColorBalance` are requests of one kind (`Queries`): they
succeed, or fail and end the session, and nothing else depends on them.

### LegacyMM and DisplayService

`LegacyMM` composes. `FrontEnd == INSTANCE LiveDisplay` contributes the front end
and the class initializer: `Acquire`, `Check`, `OperationOk` and the others are
its actions, conjoined with what the backend and the Java side do in the same
step, so the two descriptions of the front end cannot drift apart. Where
`LiveDisplay` leaves the backend's answers open, `LegacyMM` has the code:
`Probe` is bound to `HasFeature`, a failing `initialize` is a `dlopen` or a
`disp_api_init` that failed, and inside `op` each vendor call is a step. `Ask` and
`Return` are the Java caller; `Refuse` is the answer of a facade class without its
feature; `WriteNode` and `ReadNode` are the sysfs files behind the switches (the
outdoor mode and the adaptive backlight, for which LegacyMM has no feature, and
auto contrast and color enhancement, which never have one). `answer[t]` is what
the JNI bridge makes of the result, null included. Faults: "vendor" (a call of
the library fails), "library" (`dlopen` or `System.loadLibrary` fails), "symbol"
(a function is missing, is only logged, and ends the process when it is called),
"node" and "crash".

`DisplayService` is what a caller may rely on: registers, and calls that read or
write them at one instant. `Refuse`, `Fail`, `CountFails`, `HalfSet` and `Crash`
name what each fault may do to a call; with no fault only a mode that does not
exist is refused. Under the refinement a `setMode` that has set the active mode and not yet
the default has not happened: the history variable `was` keeps the mode before,
and a caller cannot see the other since `mLock` is held. When the second vendor
call fails that is `HalfSet`, when the process dies then it is `Crash`. A getter
happens when its answer is made: it reads the id first and the name later, and
the refinement shows that nobody changes the mode in between.

### Foss

The reply is a sequence of pieces written in any portions; `read` takes what has
come and fits, `poll` is followed by another `read` when there is more or the
stream has ended. `faults` works as in `SDM`. Time is abstract: "slow" allows the 20 ms to pass although the
daemon has not finished; without it they pass only when it has.

### LightsQpnp and LightsAw2013

`todo[t]` is the list of writes a thread inside a `set_light` has still to do;
each is a step that succeeds, or fails for a file in `FailingFiles` without
anyone noticing. `faulty` only remembers whether the last update was complete,
so that the refinement can say of one that was not that it may leave any look
(`Broken`), and that the next complete one does not depend on it. `Look(s)` is
how the LED should look for a request, `Shown` how the files make it look. For the AW2013 `nearest_color` is a constant
operator: its result is one of the color table, and a color of the table is its
own nearest color. Its floating-point arithmetic is not modelled; the instances
tabulate its result for the colors they use.

### PersistentStorage

`faults` works as in `SDM`. `lock`, `read`, `create`, `copy`, `delete`, `rename`, `unlock`, `return` are the
steps of `get` and `set`. The read-write lock is `writer` and `readers`. Keys
shorter than three characters make `createTempFile` throw. `Partial` is a
temporary file being written. A fault is "unsupported" (the directory is not there,
or SHA-256 is not), "read" (an existing file cannot be opened or read: lines
95-103 catch the exception and 114 answers null), "copy" (the temporary file
cannot be made or written), "delete", "rename" and "crash". `KeyValueStore` shares
`faults` and names what each of them may break: an unsupported directory makes a
get answer null and a set false, a failing read makes a get answer null, a failing
copy refuses a set that stores a value (`Refuse`), a failing delete keeps a value
(`Keep`), a failing rename loses it
(`Lose`), a crash loses the value of a key that was being set. An instance
without a fault has none of its effects. A set takes effect in the refinement
when the old file is gone (`Committed`). In two places the code keeps less than a
map would although nothing fails, and the service names them. Short keys are
`Unstorable`. The empty array is `Unreadable`: `read()` returns -1 for its file,
`bos.write` throws and `get` answers null (PersistentStorage.java:97-98, 114). The
javadoc of `get` says otherwise, which `storage_empty` shows.

## Runs

Bounds: model values for threads, keys, modes; no counter is unbounded except
the requests' times, which come from small sets.

| Run | Checks | Instance and why it is enough |
| --- | --- | --- |
| `livedisplay` | `TypeOK`, `BackendExclusive`, `OperationInSession`, `SessionBalanced`, `NoDoubleInit`, `FailureDisconnects`, `FeaturesFixedInSession`, `ImplementsSession`, `LockReleased`, `ClassInitEnds` | 3 threads: initializer, operation, waiter; 3 features: some, none or all found. The proofs cover every size. |
| `sdm` | `TypeOK`, `ActiveModeShown`, `SetModeTakesEffect`, `OldModeFound`, `DefaultRestored`, `DefaultPictureOfMode`, `SrgbSwitchedOff`, `OnlyShownModeStored`, `CallsOnOpenHandle` | 2 vendor modes, the sRGB mode, an unknown id and the id -1 give each kind of switch in both directions; a board with everything but FOSS, one with FOSS and modes, one with FOSS alone; only crashes, then all but lost writes and a missing library, then everything |
| `legacymm` | `TypeOK`, `CallsIntoLibrary`, `OfferedFeatureWorks`, `ImplementsService` | 2 threads, of which one may lose the session the other relies on; 2 modes, 2 balances, 2 pictures, a switch with a native side and one without; a board with everything, one without modes, one whose ranges are zero; no faults, no vendor faults, all faults |
| `foss` | `TypeOK`, `CacheTrue`, `CachedOnlyWhenApplied`, `CallsEnd` | replies shorter than, as long as and longer than the buffer; a prompt daemon, then a late, refusing, dying one with crashes |
| `qpnp` | `TypeOK`, `PulseAsLongAsAsked`, `RampChangesWhileOff`, `ImplementsArbiter`, `UpdatesEnd` | 2 threads; dark, steady, a pulse longer than the ramp and one shorter, one millisecond before the next step; a file of each sort may fail |
| `aw2013` | `TypeOK`, `PatternChangesInTheDark`, `ImplementsArbiter` | 2 threads; dark, steady, blinking and hardware-flashing requests; a file of each sort may fail |
| `storage` | `TypeOK`, `NoTornValue`, `ImplementsStore` | 3 threads: a reader and two writers meet at the lock; 2 keys, one too short; one thing going wrong, or everything |

`legacymm` also bounds the requests of one behaviour: `menu`, chosen once from
`Menus`, is a set of related requests (the modes with each getter, the color
balance, the picture, the switches next to a native call). Operations of
different menus meet only in the session, which every menu reaches with failing
calls. Threads and modes are symmetric there: neither is compared but for
equality, and all its properties are safety properties.

The largest state spaces are those of `sdm` (4.3 million states), `storage`
(0.7 million) and `legacymm` (0.6 million); `qpnp` takes longest, as its liveness
property is checked with it.

### What disagrees with the documentation

Each of these runs states what a comment says of the code, and TLC shows a
behaviour that contradicts it.

| Run | Property | The code |
| --- | --- | --- |
| `sdm_default` | `SetModeMakesDefault` | SDM.cpp:281 returns before the default is stored when the mode is already active |
| `sdm_feature` | `SupportedFeatureWorks` | SDM.cpp:468 lacks a break: with FOSS the picture adjustment is reported whether it is there or not |
| `foss_slow` | `SetTakesEffect` | SDM.cpp:185 trusts the cache after a reply that was missed |
| `storage_empty` | `GetAnswersTruly` | PersistentStorage.java:98 throws for the -1 that line 97 returns for an empty file: a stored empty array reads as null |
| `storage_rename` | `SetAnswersTruly` | PersistentStorage.java:161 ignores the rename's result |

These contradict a text too and are in the models, each of them one step of one
action, without a run of its own:

- LiveDisplay.cpp:238: the getter of the picture adjustment writes the zeros it
  was given to fill in. PictureAdjustment.java:46: "This method returns the
  current picture adjustment values".
- SDM.cpp:281: `setMode` of the id -1 answers true while no mode is on.
  DisplayModeControl.java:74-76: it "selects a mode from the list of available
  modes".
- Utils.cpp:70 ignores the result of `fclose`, which does the writing: `setMode`
  of the sRGB mode may answer true with the node off.
- Utils.cpp:51 returns a stale `errno` for a file that a crash left empty; when it
  is 0, `getDefaultMode` answers the mode 0. DisplayModeControl.java:87-88: it "can
  return null if there is no default".
- SDM.cpp:201: a new process answers that the adaptive backlight is off, whatever
  the daemon has. AdaptiveBacklight.java:52-53 says true "in any other case" than
  off, unsupported or failed.
- lights-aw2013.c:92-93: black and grey are among the colors a blinking color may
  snap to, so a dim red, 96 of 255, blinks black and hides the lights below it.
  Lines 334-335: "only pick pure colors at max brightness when blinking".

Smaller ones that no text speaks of: after a failing call SDM.cpp:158 forgets the
sRGB mode and leaves its node on; going to sRGB keeps the user's picture
adjustment as the mode's default (SDM.cpp:317), and so does a read of it that
fails; on LegacyMM boards the default picture adjustment is always zeros
(LegacyMM.cpp:319) and the one in force reads as zeros and becomes so
(LiveDisplay.cpp:238); a probe that fails once hides its feature from Java for the
life of the process (LiveDisplayVendorImpl.java:51).

### Fairness

`LiveDisplay!Fairness`: weak fairness of each thread inside native code. Vendor
calls are assumed to return, threads are scheduled. No thread has to make a
call, and the mutex is not fair: a thread may wait for it for ever, so only
giving it back is claimed, not getting it. `LightsQpnp!Fairness` is the same.
`Foss!FairSpec` also assumes that the daemon, once asked, answers; the first
`read` of `sendDPPSCommand` has no time limit, so without that assumption a call
keeps `mLock` for ever. The daemon may hang up instead.

`ImplementsSession`, `ImplementsService`, `ImplementsArbiter` and
`ImplementsStore` are safety refinements. None assumes that nothing fails: the abstract specifications say
what a failure may do.

## Proofs

`LiveDisplayProofs` proves for any set of threads and any number of features
what `livedisplay` checks for three: `TypeCorrect`, `ExclusiveBackend`,
`OperationsInSession`, `SessionsBalanced`, `NoDoubleInitialization`,
`FailuresDisconnect`, `FeaturesFixed` and `Refinement`. The assumptions are those of the module: `NoThread` is not a
thread, `MaxBit` is a natural number.

The properties are not inductive: `BackendExclusive` alone allows a state in
which a thread inside the backend does not hold the lock. The inductive
invariant `IInv` is `TypeOK`, `OwnerInv` and `SessionInv`. `OwnerInv` says who
may be inside: while the initializer runs, exactly one thread, in a call of kind
`init`, and nobody has called anything else; afterwards the owner of `mLock`,
and nobody else, is past `acquire`. `SessionInv` relates `mConnected`,
`mFeatures` and `backend` to where that thread is. Each action preserves each of
them (one step per action), and the properties follow from `IInv` alone; the
refinement maps the last turn of `connect()` to `Open`, entering and leaving
`op` to `Begin` and `End`, `Clear` to `Close`, and every other step to a stutter.

`SDMProofs` proves for any vendor modes and any sets of faults what `sdm` checks
for two modes and three boards: `TypeCorrect`, `HandleOpen`, `ModeShown`,
`SetModeHonest`, `OldModeIsFound`, `Restored`, `DefaultPicture`, `NodeOff` and
`ShownModeStored`. It assumes of the constants that the sRGB mode, the unknown id
and -1 (`NoMode`) are none of the vendor's modes and that the last two differ, that
mode 0 and the vendor's default are modes of the vendor, and that what the file may
hold is told apart: no file, no id, a mode's id, -1. That the two ids differ leaves
out no request: both are among those `setMode` may come with. `SetModeHonest` says
of every id what a true answer means: for a mode that it is on, for -1 that no mode
is believed on, for the unknown id that there is no such answer.
`ActiveModeShown` speaks of the time between calls; `IInv` says of every `pc`
whether the believed mode may be relied on (`Believed`). It may not from the
moment the old mode is switched off, through a failure and `error()`, to the end
of the next `initialize()`, which forgets the mode. `IInv` also says that a set
made by `initialize()` starts with no mode, so that it has none to switch off, and
that with sRGB still believed the node is off before a vendor mode is activated;
that is where SDM.cpp:292-304 matters, and the proof fails without it.
`RestoreInv` says that `initialize()` is setting the stored mode and never stores
one, and that where there is a stored mode the board has modes. `CallInv` has the
library loaded and the session open from `default` to the end of the call, and
between calls of a connected front end; `CallsOnOpenHandle` says so only of the
steps that call the library. `PictureInv` follows the picture from the switch,
where the panel takes the new mode's, to the step that reads it.

`PersistentStorageProofs` proves for any threads, keys and values what `storage`
checks for three: `TypeCorrect`, `NeverTorn` and `Refinement`, reads that fail
included. It assumes that half a value, no value and the pending answer are told apart from values. `IInv`
says who holds the lock and that writers exclude everybody (`LockInv`), that the
temporary file holds the whole value before it is renamed (`CallInv`), and that
an old file still there at the rename is one whose delete failed (`DeleteInv`).
In the refinement a `set` happens when the old file is gone, if its value is not
null: from there to the rename the store has the new value although no file has,
and readers, kept out by the lock, cannot tell. A process that dies in between
loses the key, which `KeyValueStore` allows.

`LegacyMMProofs` proves for any threads, modes, values, boards and menus what
`legacymm` checks for two threads: `TypeCorrect`, `LibraryIsThere`,
`OfferedFeaturesWork` and `Refinement`. It assumes that the unknown id and "no
mode" are no modes, that 0 is a color balance and the zero picture a picture. The
front end inside is not proved again: `FP` is `LiveDisplayProofs` of that
instance, whose lemmas say that a step of the front end preserves its invariant;
here every step is shown to be such a step, a stutter of it, or the death of the
process, after which its initial state holds again. `IInv` adds what the two
vendor calls of one operation rely on: between them nobody else changes the mode
(`StepInv`), because `mLock` is held, so the id that was read is still the active
mode's. `FeatureInv` says that nothing is in a feature set that the library does
not have, and that where nothing is unreliable everything it has is; so a native
call is for a feature of the board (`CallInv`), which `OfferedFeaturesWork`
needs, and a refusal is one the service allows. In `Refinement` the answer
(`answer`) is when a call takes effect; a mode that is set but not yet made the
default is hidden behind `was`, unless that fails. What a lost session, a missing
library or a crash may do is in the service.

`FossProofs` proves for any buffer of at least two pieces, any replies and any
faults `TypeCorrect`, `CacheIsTrue` and `CachesWhatIsApplied`. `CacheTrue` says
nothing of the middle of an exchange; the invariant does. `Stream`, what is in
the buffer, on the wire and still with the daemon, in this order, does not change
when a piece moves (`MovePieces`), and an end of it is lost only when the socket
closes. So what `compare` looks at is a beginning of the reply, and one that
begins with success is the reply of a daemon that has applied the command
(`StreamInv`). With a prompt daemon it is also long enough to be recognized
(`PromptInv`), whence `CacheTrue`. Assumed is that a reply says success in its
first two pieces or failure in its first (`RepliesAssumption`), and that two
pieces fit in the buffer (`BufSizeAssumption`).

`LightsQpnpProofs` and `LightsAw2013Proofs` prove for any threads, requests and
failing files what `qpnp` and `aw2013` check for two threads and a few colors:
`TypeCorrect`, `Refinement`, and `RampsChangeWhileOff` and `PulsesAsLongAsAsked`,
or `PatternsChangeInTheDark`. They have one argument. An update is a program of
writes, a function of the winner: 15 writes on AW2013, 4 or 17 on QPNP. The
thread inside `g_lock`, the only one (`LockInv`), has the end of that program
still to do (`TodoInv`), and `Done` is how much of it is behind. `Holds(fs, n, s)`
says what the files are after the first `n` writes for the state `s`, and
`FilesInv` that they are so while no write has failed. One more write makes
`Holds` true of `n + 1` (`OneMore`, by the place of each write in the program,
`WhichWrite`); after the last one the LED looks as the winner asks (`AllHolds`).
`ImplementsArbiter` alone is not inductive, because it says nothing of the time
between the lock and the unlock, where all the writing is. The action properties
follow from the places: on AW2013 the lights go out in the first three writes and
come on after the patterns; on QPNP blinking goes off in the first and on in the
last. `FilesInv` starts anew with each update, whatever an earlier one left, and
that is why a failed update does not matter to the next. `PulseTakes` is the
arithmetic of a short pulse, for every time, and `DutyType` that of the duties.
Both assume that requests are of their types (`StatesAssumption`), so 8 bits a
channel; AW2013 assumes of `nearest_color` that it answers with colors of its
table and leaves those alone.

The proofs cover every invariant, action property and refinement that the runs
check. Liveness (`LockReleased`, `ClassInitEnds`, `CallsEnd`, `UpdatesEnd`) is
out of the prover's reach and stays with TLC.

## Not modelled

The unique device id: two threads may both compute it, from files that never
change, so no interleaving can be told from another. `VibratorHW`: one number
read or written per call, as in the toggles that are modelled. `rgb2lab` and
`nearest_color` as computations (floating point); closing a lights device;
the destructors of a singleton that is never destroyed; memory (the buffers
`getDisplayModes` leaks, and the count of `dlopen` references LegacyMM takes at
each connection and never gives back); a LegacyMM library that, without failing,
answers with an active id that is negative or not in its list
(LegacyMM.cpp:266 and 277); value types; the test client and the
build files. `PROJECT.json` gives the reason for each.

## Plan

1. Put `SDM` under the front end as `LegacyMM` is, with one vendor mode, so that
   its reduction to one caller at a time is itself checked.
2. State what follows of the LED from `LightsArbiter` alone, for both HALs.
