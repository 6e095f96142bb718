--------------------------- MODULE PairingLedger ---------------------------
(***************************************************************************)
(* What pairing promises, with every request an atomic step: a code issued *)
(* to a user turns into at most one host, the host belongs to the user the *)
(* code was issued to, and a removed host never comes back.  The detailed  *)
(* specification of the transaction is Pairing, which implements this one. *)
(***************************************************************************)
CONSTANTS
    Users,     \* accounts
    Codes,     \* pairing codes
    HostIds,   \* ids of the hosts that pairing requests may create
    None       \* the null of the database

VARIABLES
    holder,    \* holder[c]: the user code c was issued to, or None
    pairedTo,  \* pairedTo[c]: the host that consumed code c, or None
    keeper,    \* keeper[h]: the user who owns host h, or None if there is no h
    revoked    \* hosts whose owner removed them

vars == <<holder, pairedTo, keeper, revoked>>

Init ==
    /\ holder = [c \in Codes |-> None]
    /\ pairedTo = [c \in Codes |-> None]
    /\ keeper = [h \in HostIds |-> None]
    /\ revoked = {}

Issue(u, c) ==
    /\ holder[c] = None
    /\ holder' = [holder EXCEPT ![c] = u]
    /\ UNCHANGED <<pairedTo, keeper, revoked>>

Pair(h, c) ==
    /\ holder[c] # None
    /\ pairedTo[c] = None
    /\ keeper[h] = None
    /\ pairedTo' = [pairedTo EXCEPT ![c] = h]
    /\ keeper' = [keeper EXCEPT ![h] = holder[c]]
    /\ UNCHANGED <<holder, revoked>>

Revoke(h) ==
    /\ keeper[h] # None
    /\ revoked' = revoked \cup {h}
    /\ UNCHANGED <<holder, pairedTo, keeper>>

Next ==
    \/ \E u \in Users, c \in Codes : Issue(u, c)
    \/ \E h \in HostIds, c \in Codes : Pair(h, c)
    \/ \E h \in HostIds : Revoke(h)

Spec == Init /\ [][Next]_vars

=============================================================================
