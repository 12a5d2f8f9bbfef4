----------------------------- MODULE Conversation -----------------------------
(***************************************************************************)
(* What the server promises the peer of a connection, whatever happens to  *)
(* buffers, descriptors and contexts: while the connection lives, requests *)
(* are taken one at a time and each is answered, in order and once, before *)
(* the next is taken.  A request that is refused should be the last: those *)
(* behind it may be lost.  When the connection is gone an operation may    *)
(* still be run for a request that had been received, but nothing is       *)
(* answered.                                                               *)
(***************************************************************************)
EXTENDS Naturals

CONSTANT Conn

VARIABLES
    phase,      \* "new", "open" or "gone", of each connection
    asked,      \* the number of the last request taken from it
    answered,   \* the number of the last request answered in full
    refused     \* the connections whose last request was refused

vars == <<phase, asked, answered, refused>>

Init ==
    /\ phase = [c \in Conn |-> "new"]
    /\ asked = [c \in Conn |-> 0]
    /\ answered = [c \in Conn |-> 0]
    /\ refused = {}

Open(c) ==
    /\ phase[c] = "new"
    /\ phase' = [phase EXCEPT ![c] = "open"]
    /\ UNCHANGED <<asked, answered, refused>>

\* Request n is taken, and refused or not.
Ask(c, n) ==
    /\ phase[c] = "gone" \/ (phase[c] = "open" /\ asked[c] = answered[c])
    /\ n = asked[c] + 1 \/ (c \in refused /\ n > asked[c])
    /\ asked' = [asked EXCEPT ![c] = n]
    /\ refused' \in {refused \cup {c}, refused \ {c}}
    /\ UNCHANGED <<phase, answered>>

Answer(c) ==
    /\ phase[c] = "open" /\ answered[c] # asked[c]
    /\ answered' = [answered EXCEPT ![c] = asked[c]]
    /\ UNCHANGED <<phase, asked, refused>>

Leave(c) ==
    /\ phase[c] = "open"
    /\ phase' = [phase EXCEPT ![c] = "gone"]
    /\ UNCHANGED <<asked, answered, refused>>

Next == \E c \in Conn : Open(c) \/ Ask(c, asked'[c]) \/ Answer(c) \/ Leave(c)

Spec == Init /\ [][Next]_vars
==============================================================================
