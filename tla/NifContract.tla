---------------------------- MODULE NifContract ----------------------------
(***************************************************************************)
(* What an AGPS network interface promises to the rest of the engine,      *)
(* without queues, callbacks or clients: it is asked for when the first    *)
(* subscriber arrives, it is given back when the last one leaves, it is    *)
(* granted only while somebody waits for the answer, and losing it empties *)
(* the list.                                                               *)
(***************************************************************************)
CONSTANT Clients

VARIABLES
    nif,         \* "Released", "Pending" or "Acquired"
    subscribers  \* the clients the interface is held for

contractVars == <<nif, subscribers>>

Init == nif = "Released" /\ subscribers = {}

\* A client joins; the first one makes the interface pending.
Join(c) ==
    /\ subscribers' = subscribers \union {c}
    /\ nif' = IF nif = "Released" THEN "Pending" ELSE nif

\* A client leaves; the last one releases the interface.
Leave(c) ==
    /\ nif # "Released" /\ c \in subscribers
    /\ subscribers' = subscribers \ {c}
    /\ nif' = IF subscribers' = {} THEN "Released" ELSE nif

Grant == nif = "Pending" /\ nif' = "Acquired" /\ UNCHANGED subscribers

\* A denial or a forced release: nobody stays on the list.
Lose == nif # "Released" /\ nif' = "Released" /\ subscribers' = {}

\* The modem restarted: its clients are forgotten, the interface is kept.
Drop == subscribers' = {} /\ UNCHANGED nif

Next ==
    \/ \E c \in Clients : Join(c) \/ Leave(c)
    \/ Grant \/ Lose \/ Drop

Spec == Init /\ [][Next]_contractVars
=============================================================================
