--------------------------- MODULE GrantedSessions ---------------------------
(***************************************************************************)
(* What the agents are promised of their device authorizations, without    *)
(* rows, windows, statements and devices.  A grant opens at most one       *)
(* session; of its refresh keys one works, the one the client was told     *)
(* last unless the answer was lost; what is closed stays closed.           *)
(* DeviceAuthorization implements it.                                      *)
(***************************************************************************)
EXTENDS Integers

CONSTANT Auth      \* authorizations

VARIABLES
    phase,         \* of each: none, asked, granted, live, closed
    keys,          \* the refresh keys of each that work
    known,         \* the newest key its client was told, -1 for none
    lost,          \* those with an answer that was lost
    superseded     \* those granted before a change of the password

vars == <<phase, keys, known, lost, superseded>>

Init ==
    /\ phase = [a \in Auth |-> "none"]
    /\ keys = [a \in Auth |-> {}]
    /\ known = [a \in Auth |-> -1]
    /\ lost = {}
    /\ superseded = {}

(* What a device had asked for before may close.                           *)
Ask(a) ==
    /\ phase[a] = "none"
    /\ \E A \in SUBSET {b \in Auth : phase[b] = "asked"} :
         phase' = [b \in Auth |-> IF b = a THEN "asked"
                                  ELSE IF b \in A THEN "closed" ELSE phase[b]]
    /\ UNCHANGED <<keys, known, lost, superseded>>

Grant(a) ==
    /\ phase[a] \in {"none", "asked"}
    /\ phase' = [phase EXCEPT ![a] = "granted"]
    /\ UNCHANGED <<keys, known, lost, superseded>>

(* The client is told the key n, or the answer is lost.                    *)
Reply(a, n) ==
    \/ known' = [known EXCEPT ![a] = n] /\ UNCHANGED lost
    \/ lost' = lost \cup {a} /\ UNCHANGED known

Open(a) ==
    /\ phase[a] = "granted"
    /\ phase' = [phase EXCEPT ![a] = "live"]
    /\ keys' = [keys EXCEPT ![a] = {0}]
    /\ Reply(a, 0)
    /\ UNCHANGED superseded

(* A client that asks again is told the first key, while it works.         *)
Repeat(a) ==
    /\ phase[a] = "live" /\ keys[a] = {0}
    /\ Reply(a, 0)
    /\ UNCHANGED <<phase, keys, superseded>>

(* The key that works is exchanged by a client that was told it.           *)
Rotate(a) ==
    /\ phase[a] = "live" /\ keys[a] = {known[a]}
    /\ keys' = [keys EXCEPT ![a] = {known[a] + 1}]
    /\ Reply(a, known[a] + 1)
    /\ UNCHANGED <<phase, superseded>>

Closing(A) ==
    /\ phase' = [a \in Auth |-> IF a \in A THEN "closed" ELSE phase[a]]
    /\ keys' = [a \in Auth |-> IF a \in A THEN {} ELSE keys[a]]
    /\ UNCHANGED <<known, lost>>

Close(A) ==
    /\ \A a \in A : phase[a] \in {"asked", "granted", "live"}
    /\ Closing(A)
    /\ UNCHANGED superseded

(* A change of the password by an agent closes all that was granted.       *)
Supersede ==
    LET A == {a \in Auth : phase[a] \in {"granted", "live"}}
    IN  /\ Closing(A)
        /\ \E old \in SUBSET {a \in Auth : phase[a] = "closed"} :
             superseded' = superseded \cup A \cup old

Next ==
    \/ \E a \in Auth : Ask(a) \/ Grant(a) \/ Open(a) \/ Repeat(a) \/ Rotate(a)
    \/ \E A \in SUBSET Auth : Close(A)
    \/ Supersede

Spec == Init /\ [][Next]_vars
=============================================================================
