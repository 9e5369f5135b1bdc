--------------------------- MODULE DisplayService ---------------------------
(***************************************************************************)
(* What the display classes of org.cyanogenmod.hardware promise their      *)
(* callers: every call takes effect at one instant on the registers of the *)
(* display, whatever other threads do meanwhile; an offered feature is     *)
(* served; and what goes wrong has only the effects named here.            *)
(***************************************************************************)
CONSTANTS
  Threads,
  Modes,        \* the display modes
  Bogus,        \* a mode the caller made up
  Balances,     \* color balances; 0 is neutral
  Pictures,     \* picture adjustments
  ZeroPicture,  \* the one of zeros
  Switches      \* what is only on or off

Features == {"modes", "balance", "picture", "switch"}

Requests ==
  [op : {"setMode"}, id : Modes \cup {Bogus}, makeDefault : BOOLEAN] \cup
  [op : {"setBalance"}, value : Balances] \cup
  [op : {"setPicture"}, hsic : Pictures] \cup
  [op : {"setSwitch"}, switch : Switches, enabled : BOOLEAN] \cup
  [op : {"isOn"}, switch : Switches] \cup
  [op : {"getModes", "getMode", "getDefaultMode", "getBalance",
         "getBalanceRange", "getPicture", "getDefaultPicture",
         "getPictureRanges"}]
NoRequest == [op |-> "none"]

FeatureOf(op) ==
  CASE op \in {"setMode", "getModes", "getMode", "getDefaultMode"} -> "modes"
    [] op \in {"setBalance", "getBalance", "getBalanceRange"} -> "balance"
    [] op \in {"setPicture", "getPicture", "getDefaultPicture",
               "getPictureRanges"} -> "picture"
    [] op \in {"setSwitch", "isOn"} -> "switch"

\* What a call may answer, by its type.
Bool(b) == [bool |-> b]
Mode(m) == [mode |-> m]
List(ms) == [modes |-> ms]
Int(n) == [int |-> n]
Picture(p) == [hsic |-> p]
Range(lo, hi) == [range |-> <<lo, hi>>]
Null == [null |-> TRUE]
Thrown == [thrown |-> "NullPointerException"]
NoAnswer == [answer |-> "none"]

Answers == {Bool(b) : b \in BOOLEAN} \cup {Mode(m) : m \in Modes}
             \cup {List(Modes), List({}), Null, Thrown}
             \cup {Int(n) : n \in Balances} \cup {Picture(p) : p \in Pictures}
             \cup {Range("min", "max"), Range("zero", "zero")}

\* The answer for a feature the facade does not offer.
Refusal(op) ==
  CASE op \in {"setMode", "setBalance", "setPicture", "setSwitch", "isOn"} -> Bool(FALSE)
    [] op \in {"getMode", "getDefaultMode", "getPicture", "getDefaultPicture"} -> Null
    [] op = "getModes" -> List({})
    [] op = "getBalance" -> Int(0)
    [] op \in {"getBalanceRange", "getPictureRanges"} -> Range("zero", "zero")

\* The answer when the native call has failed: a null that ColorBalance
\* dereferences, and the other ranges and lists pass on.
Failure(op) ==
  CASE op \in {"setMode", "setBalance", "setPicture", "setSwitch", "isOn"} -> Bool(FALSE)
    [] op \in {"getMode", "getDefaultMode", "getModes", "getPicture",
               "getDefaultPicture", "getPictureRanges"} -> Null
    [] op = "getBalance" -> Int(0)
    [] op = "getBalanceRange" -> Thrown

VARIABLES
  faults,   \* what may go wrong; chosen once
  offered,  \* the features of the board; fixed
  active, default, balance, picture, on,  \* the registers
  asked,    \* the request of each thread, or NoRequest
  answer    \* the answer it is about to get, or NoAnswer

display == <<active, default, balance, picture, on>>
vars == <<faults, offered, active, default, balance, picture, on, asked, answer>>

Init == /\ faults \subseteq {"vendor", "library", "node", "crash", "symbol"}
        /\ active \in Modes
        /\ default \in Modes
        /\ balance \in Balances
        /\ picture \in Pictures
        /\ on \in [Switches -> BOOLEAN]
        /\ offered \in SUBSET Features
        /\ asked = [t \in Threads |-> NoRequest]
        /\ answer = [t \in Threads |-> NoAnswer]

Waiting(t) == asked[t] # NoRequest /\ answer[t] = NoAnswer
Reply(t, a) == answer' = [answer EXCEPT ![t] = a] /\ UNCHANGED asked

Ask(t, r) == /\ asked[t] = NoRequest
             /\ asked' = [asked EXCEPT ![t] = r]
             /\ UNCHANGED <<display, answer>>

Return(t) == /\ answer[t] # NoAnswer
             /\ asked' = [asked EXCEPT ![t] = NoRequest]
             /\ answer' = [answer EXCEPT ![t] = NoAnswer]
             /\ UNCHANGED display

\* The request of thread t is for `op', is waiting and may be served.
Serving(t, op) == /\ Waiting(t)
                  /\ asked[t].op = op
                  /\ FeatureOf(op) \in offered

SetMode(t) == /\ Serving(t, "setMode")
              /\ asked[t].id \in Modes
              /\ active' = asked[t].id
              /\ default' = IF asked[t].makeDefault THEN asked[t].id ELSE default
              /\ Reply(t, Bool(TRUE))
              /\ UNCHANGED <<balance, picture, on>>

SetBalance(t) == /\ Serving(t, "setBalance")
                 /\ balance' = asked[t].value
                 /\ Reply(t, Bool(TRUE))
                 /\ UNCHANGED <<active, default, picture, on>>

SetPicture(t) == /\ Serving(t, "setPicture")
                 /\ picture' = asked[t].hsic
                 /\ Reply(t, Bool(TRUE))
                 /\ UNCHANGED <<active, default, balance, on>>

\* Reading the picture adjustment sets it to zeros (LiveDisplay.cpp:238).
GetPicture(t) == /\ Serving(t, "getPicture")
                 /\ picture' = ZeroPicture
                 /\ Reply(t, Picture(ZeroPicture))
                 /\ UNCHANGED <<active, default, balance, on>>

SetSwitch(t) == /\ Serving(t, "setSwitch")
                /\ on' = [on EXCEPT ![asked[t].switch] = asked[t].enabled]
                /\ Reply(t, Bool(TRUE))
                /\ UNCHANGED <<active, default, balance, picture>>

\* What the other requests read.
Value(r) == CASE r.op = "getModes" -> List(Modes)
              [] r.op = "getMode" -> Mode(active)
              [] r.op = "getDefaultMode" -> Mode(default)
              [] r.op = "getBalance" -> Int(balance)
              [] r.op = "getDefaultPicture" -> Picture(ZeroPicture)
              [] r.op \in {"getBalanceRange", "getPictureRanges"} -> Range("min", "max")
              [] r.op = "isOn" -> Bool(on[r.switch])

Get(t) == /\ \E op \in {"getModes", "getMode", "getDefaultMode", "getBalance",
                        "getBalanceRange", "getDefaultPicture",
                        "getPictureRanges", "isOn"} : Serving(t, op)
          /\ Reply(t, Value(asked[t]))
          /\ UNCHANGED display

\* A call to the vendor's library may fail, or the library be missing.
Unreliable == faults \cap {"vendor", "library"} # {}

\* The feature is not there, or was not found.
Refuse(t) == /\ Waiting(t)
             /\ FeatureOf(asked[t].op) # "switch"
             /\ FeatureOf(asked[t].op) \notin offered \/ Unreliable
             /\ Reply(t, Refusal(asked[t].op))
             /\ UNCHANGED display

\* The call fails and changes nothing: because of a fault, or of its argument.
Fail(t) == /\ Waiting(t)
           /\ CASE FeatureOf(asked[t].op) = "switch" -> "node" \in faults
                [] asked[t].op = "setMode" -> Unreliable \/ asked[t].id = Bogus
                [] OTHER -> Unreliable
           /\ Reply(t, Failure(asked[t].op))
           /\ UNCHANGED display

\* The list of modes is empty when they cannot be counted.
CountFails(t) == /\ Serving(t, "getModes")
                 /\ "vendor" \in faults
                 /\ Reply(t, List({}))
                 /\ UNCHANGED display

\* Only one failure leaves something behind: the mode is on and could not be
\* made the default.
HalfSet(t) == /\ Serving(t, "setMode")
              /\ "vendor" \in faults
              /\ asked[t].makeDefault
              /\ asked[t].id \in Modes
              /\ active' = asked[t].id
              /\ Reply(t, Bool(FALSE))
              /\ UNCHANGED <<default, balance, picture, on>>

\* The process dies with every call in it; a mode may be left half set.
Crash == /\ faults \cap {"crash", "symbol"} # {}
         /\ active' \in {active} \cup
              {asked[t].id : t \in {u \in Threads : /\ asked[u].op = "setMode"
                                                    /\ asked[u].makeDefault
                                                    /\ asked[u].id \in Modes}}
         /\ asked' = [t \in Threads |-> NoRequest]
         /\ answer' = [t \in Threads |-> NoAnswer]
         /\ UNCHANGED <<default, balance, picture, on>>

Serve(t) == \/ SetMode(t) \/ SetBalance(t) \/ SetPicture(t) \/ GetPicture(t)
            \/ SetSwitch(t) \/ Get(t)
            \/ Refuse(t) \/ Fail(t) \/ CountFails(t) \/ HalfSet(t)

Next == /\ \/ \E t \in Threads : \/ \E r \in Requests : Ask(t, r)
                                 \/ Serve(t) \/ Return(t)
           \/ Crash
        /\ UNCHANGED <<faults, offered>>

Spec == Init /\ [][Next]_vars
=============================================================================
