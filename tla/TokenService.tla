---------------------------- MODULE TokenService ----------------------------
(***************************************************************************)
(* What getCoaToken promises its callers, without clocks, lifetimes or     *)
(* promises: a call is answered at once with the token at hand, or waits   *)
(* together with every other call that found it too old; what the one mint *)
(* they wait for comes to, all of them get, and nobody who comes later.    *)
(* CoaToken is shown to implement it.                                      *)
(***************************************************************************)
EXTENDS Integers

CONSTANTS
    Caller,
    NoToken,           \* stands for null
    EnvironmentToken   \* COA_TOKEN

VARIABLES
    generation,  \* mints started so far; a token is the number of its mint
    latest,      \* the last token minted
    waiting,     \* the calls that wait for the mint under way
    held         \* the token each call was answered with

vars == <<generation, latest, waiting, held>>

Init ==
    /\ generation = 0 /\ latest = NoToken
    /\ waiting = {}
    /\ held = [c \in Caller |-> NoToken]

Idle(c) == c \notin waiting /\ held[c] = NoToken

Answer(c) ==
    /\ Idle(c)
    /\ \E t \in {EnvironmentToken, latest} \ {NoToken} : held' = [held EXCEPT ![c] = t]
    /\ UNCHANGED <<generation, latest, waiting>>

\* The first to wait starts the mint, the others join it.
Join(c) ==
    /\ Idle(c)
    /\ waiting' = waiting \cup {c}
    /\ generation' = IF waiting = {} THEN generation + 1 ELSE generation
    /\ UNCHANGED <<latest, held>>

Succeed ==
    /\ waiting # {}
    /\ latest' = generation
    /\ held' = [c \in Caller |-> IF c \in waiting THEN generation ELSE held[c]]
    /\ waiting' = {}
    /\ UNCHANGED generation

Fail ==
    /\ waiting # {}
    /\ waiting' = {}
    /\ UNCHANGED <<generation, latest, held>>

Release(c) ==
    /\ held[c] # NoToken
    /\ held' = [held EXCEPT ![c] = NoToken]
    /\ UNCHANGED <<generation, latest, waiting>>

Next == Succeed \/ Fail \/ \E c \in Caller : Answer(c) \/ Join(c) \/ Release(c)

Spec == Init /\ [][Next]_vars
=============================================================================
