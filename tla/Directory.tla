----------------------------- MODULE Directory -----------------------------
(***************************************************************************)
(* What the connection pool promises, without keys, locks, dials or races: *)
(* every name leads to a destination, every destination has at most one    *)
(* connection, made no later than its first use and kept for good, and a   *)
(* client that asks for a name gets the connection of its destination.     *)
(***************************************************************************)
EXTENDS Integers

CONSTANTS
    Client,      \* who asks
    Name,        \* what is asked for
    Dest,        \* where a name can lead
    Home,        \* in [Name -> Dest]: where a name leads unless it is registered
    NoConn

Conn == Nat \X Dest    \* a connection and where it goes

VARIABLES
    open,     \* names may still be registered
    to,       \* where each name leads
    bound,    \* the connection of each destination
    using     \* the name a client asked for and the connection it got

vars == <<open, to, bound, using>>

Idle == [name |-> NoConn, conn |-> NoConn]

Init ==
    /\ open = TRUE
    /\ to = Home
    /\ bound = [d \in Dest |-> NoConn]
    /\ using = [s \in Client |-> Idle]

\* A destination gets its connection: a new one, and one that goes there.
Bind(d) ==
    /\ bound[d] = NoConn
    /\ bound'[d] \in Conn /\ bound'[d][2] = d
    /\ \A e \in Dest : bound[e] # bound'[d]
    /\ bound' = [bound EXCEPT ![d] = bound'[d]]

\* A name is given a destination of its own, and that is connected.
Register(n, d) ==
    /\ open
    /\ bound[to[n]] = NoConn
    /\ to' = [to EXCEPT ![n] = d]
    /\ Bind(d)
    /\ UNCHANGED <<open, using>>

Close ==
    /\ open
    /\ open' = FALSE
    /\ UNCHANGED <<to, bound, using>>

\* A connection is made ahead of its first use.
Connect(n) ==
    /\ ~open
    /\ Bind(to[n])
    /\ UNCHANGED <<open, to, using>>

Acquire(s, n) ==
    /\ ~open
    /\ using[s] = Idle
    /\ Bind(to[n]) \/ (bound[to[n]] # NoConn /\ UNCHANGED bound)
    /\ using' = [using EXCEPT ![s] = [name |-> n, conn |-> bound'[to[n]]]]
    /\ UNCHANGED <<open, to>>

Release(s) ==
    /\ using[s] # Idle
    /\ using' = [using EXCEPT ![s] = Idle]
    /\ UNCHANGED <<open, to, bound>>

Next ==
    \/ \E n \in Name, d \in Dest : Register(n, d)
    \/ Close
    \/ \E n \in Name : Connect(n)
    \/ \E s \in Client, n \in Name : Acquire(s, n)
    \/ \E s \in Client : Release(s)

Spec == Init /\ [][Next]_vars
=============================================================================
