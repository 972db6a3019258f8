------------------------------ MODULE PortLease ------------------------------
(***************************************************************************)
(* What the daemon promises about serial ports, with nothing of how: a     *)
(* port is leased to at most one client, only the lessee has the device    *)
(* open, and the lease is given back only when the device is closed again. *)
(* SerialPort (the worker threads of serial.rs) implements it and          *)
(* SessionLifecycle (session.rs) is built on it.                           *)
(***************************************************************************)
CONSTANTS
    Clients,    \* who may lease a port: one open_serial call each
    Ports,      \* what a lease is taken on: the canonical device paths
    Nobody      \* the owner of a free port, not a client

VARIABLES
    owner,      \* owner[k]: the client that leases port k, or Nobody
    using       \* the clients that have their device open

leaseVars == <<owner, using>>

LeaseTypeOK ==
    /\ owner \in [Ports -> Clients \cup {Nobody}]
    /\ using \subseteq Clients

Leases(c) == \E k \in Ports : owner[k] = c

LeaseInit ==
    /\ owner = [k \in Ports |-> Nobody]
    /\ using = {}

Acquire(c, k) ==
    /\ owner[k] = Nobody
    /\ ~Leases(c)
    /\ owner' = [owner EXCEPT ![k] = c]
    /\ UNCHANGED using

StartUse(c) ==
    /\ Leases(c)
    /\ using' = using \cup {c}
    /\ UNCHANGED owner

StopUse(c) ==
    /\ using' = using \ {c}
    /\ UNCHANGED owner

Release(c, k) ==
    /\ owner[k] = c
    /\ c \notin using
    /\ owner' = [owner EXCEPT ![k] = Nobody]
    /\ UNCHANGED using

LeaseNext ==
    \E c \in Clients :
        \/ StartUse(c)
        \/ StopUse(c)
        \/ \E k \in Ports : Acquire(c, k) \/ Release(c, k)

LeaseSpec == LeaseInit /\ [][LeaseNext]_leaseVars
==============================================================================
