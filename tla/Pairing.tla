------------------------------ MODULE Pairing ------------------------------
(***************************************************************************)
(* Enrolling a host: createPairingCode and removeHost                      *)
(* (src/server/actions/hosts.ts) and the transaction behind                *)
(* POST /api/agent/pair (src/app/api/agent/pair/route.ts).                 *)
(*                                                                         *)
(* A pairing request runs one READ COMMITTED transaction: it reads the     *)
(* code, inserts the host, then consumes the code with an UPDATE that is   *)
(* conditional on used_at IS NULL.  Requests run concurrently, so between  *)
(* any two statements of one the others may run theirs; the UPDATE takes   *)
(* the row lock of the code and keeps it until the transaction ends.       *)
(*                                                                         *)
(* A request inserts at most one host, so a host is named by the request   *)
(* that inserted it, and the token issued with it needs no name of its     *)
(* own: it is valid while the host is live.                                *)
(***************************************************************************)
EXTENDS Naturals

CONSTANTS
    Users,        \* accounts
    Codes,        \* the codes generateCode can return
    Requests,     \* POST /api/agent/pair requests; also the ids of hosts
    None,         \* the null of the database
    Ttl,          \* PAIRING_TTL_MS, in ticks
    MaxTime,      \* bound on the clock
    MaxAttempts   \* tries createPairingCode makes before it gives up


VARIABLES
    pairingCodes, \* the committed pairing_codes rows, by code
    hosts,        \* the committed hosts rows, by the request that inserted them
    requests,     \* what each request's handler has done so far
    attempts,     \* attempts[u]: failed inserts of u's createPairingCode call
    now           \* the clock

vars == <<pairingCodes, hosts, requests, attempts, now>>

CodeRow == [userId : Users, expiresAt : Nat, hostId : Requests \cup {None}]
HostRow == [userId : Users, live : BOOLEAN]

Answers == {"paired", "invalid", "used", "expired", "error"}

ASSUME NoneAssumption == None \notin Users \cup Requests \cup CodeRow \cup HostRow \cup Answers
ASSUME BoundsAssumption == Ttl \in Nat /\ MaxTime \in Nat /\ MaxAttempts \in Nat \ {0}

(* A handler: where it is, the code it was sent and when, the user it read *)
(* from the code's row (it puts it into the host it inserts), its answer.  *)
Handler == [pc : {"idle", "begun", "read", "inserted", "consumed", "committed", "done"},
            code : Codes \cup {None}, arrived : Nat, userId : Users \cup {None},
            answer : Answers \cup {None}]

Idle == [pc |-> "idle", code |-> None, arrived |-> 0, userId |-> None, answer |-> None]

TypeOK ==
    /\ pairingCodes \in [Codes -> CodeRow \cup {None}]
    /\ hosts \in [Requests -> HostRow \cup {None}]
    /\ requests \in [Requests -> Handler]
    /\ attempts \in [Users -> 0 .. MaxAttempts - 1]
    /\ now \in 0 .. MaxTime

Init ==
    /\ pairingCodes = [c \in Codes |-> None]
    /\ hosts = [r \in Requests |-> None]
    /\ requests = [r \in Requests |-> Idle]
    /\ attempts = [u \in Users |-> 0]
    /\ now = 0

-----------------------------------------------------------------------------
(* createPairingCode: up to MaxAttempts inserts, each of a freshly         *)
(* generated code, against the unique constraint on pairing_codes.code.    *)

(* MUTANT: an upsert, which takes over the row of a colliding code.        *)
CreatePairingCodeUpsert(u, c) ==
    /\ pairingCodes' = [pairingCodes EXCEPT ![c] =
                           [userId |-> u, expiresAt |-> now + Ttl, hostId |-> None]]
    /\ attempts' = [attempts EXCEPT ![u] = 0]
    /\ UNCHANGED <<hosts, requests, now>>

CreatePairingCode(u, c) ==
    /\ pairingCodes[c] = None
    /\ pairingCodes' = [pairingCodes EXCEPT ![c] =
                           [userId |-> u, expiresAt |-> now + Ttl, hostId |-> None]]
    /\ attempts' = [attempts EXCEPT ![u] = 0]
    /\ UNCHANGED <<hosts, requests, now>>

(* MUTANT: the attempt counter is never reset.                             *)
CreateCollidesForEver(u) ==
    /\ attempts[u] < 2 * MaxAttempts
    /\ attempts' = [attempts EXCEPT ![u] = @ + 1]
    /\ UNCHANGED <<pairingCodes, hosts, requests, now>>

(* The insert fails: the code exists, or the database is in trouble.  The  *)
(* last attempt ends the call with INTERNAL, and the next call starts over.*)
CreateCollides(u) ==
    /\ attempts' = [attempts EXCEPT ![u] = (@ + 1) % MaxAttempts]
    /\ UNCHANGED <<pairingCodes, hosts, requests, now>>

-----------------------------------------------------------------------------
(* POST /api/agent/pair.                                                   *)

Receive(r, c) ==
    /\ requests[r].pc = "idle"
    /\ requests' = [requests EXCEPT ![r] =
                       [@ EXCEPT !.pc = "begun", !.code = c, !.arrived = now]]
    /\ UNCHANGED <<pairingCodes, hosts, attempts, now>>

Answer(r, a) ==
    requests' = [requests EXCEPT ![r] = [@ EXCEPT !.pc = "done", !.answer = a]]

(* MUTANT: expires_at is not looked at.                                    *)
FindCodeForgetsExpiry(r) ==
    LET row == pairingCodes[requests[r].code]
    IN  /\ requests[r].pc = "begun"
        /\ \/ row = None /\ Answer(r, "invalid")
           \/ row # None /\ row.hostId # None /\ Answer(r, "used")
           \/ /\ row # None /\ row.hostId = None
              /\ requests' = [requests EXCEPT ![r] =
                              [@ EXCEPT !.pc = "read", !.userId = row.userId]]
        /\ UNCHANGED <<pairingCodes, hosts, attempts, now>>

(* findFirst, with the three early returns and the issue of the token.     *)
FindCode(r) ==
    LET row == pairingCodes[requests[r].code]
    IN  /\ requests[r].pc = "begun"
        /\ \/ row = None /\ Answer(r, "invalid")
           \/ row # None /\ row.hostId # None /\ Answer(r, "used")
           \/ row # None /\ row.hostId = None /\ row.expiresAt < now /\ Answer(r, "expired")
           \/ /\ row # None /\ row.hostId = None /\ row.expiresAt >= now
              /\ requests' = [requests EXCEPT ![r] =
                              [@ EXCEPT !.pc = "read", !.userId = row.userId]]
        /\ UNCHANGED <<pairingCodes, hosts, attempts, now>>

InsertHost(r) ==
    /\ requests[r].pc = "read"
    /\ requests' = [requests EXCEPT ![r].pc = "inserted"]
    /\ UNCHANGED <<pairingCodes, hosts, attempts, now>>

(* Nobody else has an uncommitted update of the row of r's code.           *)
RowUnlocked(r) ==
    \A q \in Requests \ {r} : requests[q].pc = "consumed" => requests[q].code # requests[r].code

(* MUTANT: the UPDATE has no used_at IS NULL.                              *)
ConsumeCodeAgain(r) ==
    /\ requests[r].pc = "inserted"
    /\ RowUnlocked(r)
    /\ requests' = [requests EXCEPT ![r].pc = "consumed"]
    /\ UNCHANGED <<pairingCodes, hosts, attempts, now>>

(* MUTANT: used_at is checked by a SELECT, which waits for no lock.        *)
ConsumeCodeBySelect(r) ==
    /\ requests[r].pc = "inserted"
    /\ \/ /\ pairingCodes[requests[r].code].hostId = None
          /\ requests' = [requests EXCEPT ![r].pc = "consumed"]
       \/ /\ pairingCodes[requests[r].code].hostId # None
          /\ Answer(r, "used")
    /\ UNCHANGED <<pairingCodes, hosts, attempts, now>>

(* MUTANT: a locked row is taken for a consumed one (SKIP LOCKED).         *)
ConsumeCodeSkipsLocked(r) ==
    /\ requests[r].pc = "inserted"
    /\ \/ /\ RowUnlocked(r) /\ pairingCodes[requests[r].code].hostId = None
          /\ requests' = [requests EXCEPT ![r].pc = "consumed"]
       \/ /\ ~RowUnlocked(r) \/ pairingCodes[requests[r].code].hostId # None
          /\ Answer(r, "used")
    /\ UNCHANGED <<pairingCodes, hosts, attempts, now>>

(* MUTANT: findFirst locks the row FOR SHARE, so two readers block the     *)
(* UPDATE of each other.                                                   *)
ConsumeCodeAfterShareLock(r) ==
    /\ requests[r].pc = "inserted"
    /\ \A q \in Requests \ {r} : requests[q].pc \in {"read", "inserted", "consumed"} =>
           requests[q].code # requests[r].code
    /\ \/ /\ pairingCodes[requests[r].code].hostId = None
          /\ requests' = [requests EXCEPT ![r].pc = "consumed"]
       \/ /\ pairingCodes[requests[r].code].hostId # None
          /\ Answer(r, "used")
    /\ UNCHANGED <<pairingCodes, hosts, attempts, now>>

(* UPDATE ... WHERE used_at IS NULL, once the row lock is free.  No row    *)
(* means the code was consumed meanwhile: PAIRING_CODE_RACE is thrown, the *)
(* transaction rolls back (the inserted host with it) and 409 is answered. *)
ConsumeCode(r) ==
    /\ requests[r].pc = "inserted"
    /\ RowUnlocked(r)
    /\ \/ /\ pairingCodes[requests[r].code].hostId = None
          /\ requests' = [requests EXCEPT ![r].pc = "consumed"]
       \/ /\ pairingCodes[requests[r].code].hostId # None
          /\ Answer(r, "used")
    /\ UNCHANGED <<pairingCodes, hosts, attempts, now>>

(* COMMIT publishes the host and the consumption of the code together.     *)
Commit(r) ==
    /\ requests[r].pc = "consumed"
    /\ hosts' = [hosts EXCEPT ![r] = [userId |-> requests[r].userId, live |-> TRUE]]
    /\ pairingCodes' = [pairingCodes EXCEPT ![requests[r].code] =
                           [@ EXCEPT !.hostId = r]]
    /\ requests' = [requests EXCEPT ![r].pc = "committed"]
    /\ UNCHANGED <<attempts, now>>

Respond(r) ==
    /\ requests[r].pc = "committed"
    /\ Answer(r, "paired")
    /\ UNCHANGED <<pairingCodes, hosts, attempts, now>>

(* A statement before the commit fails: the transaction rolls back, 500.   *)
StatementFails(r) ==
    /\ requests[r].pc \in {"begun", "read", "inserted", "consumed"}
    /\ Answer(r, "error")
    /\ UNCHANGED <<pairingCodes, hosts, attempts, now>>

InFlight(r) == requests[r].pc \notin {"idle", "done"}

(* The platform process dies.  Open transactions roll back, and nobody     *)
(* answers the requests: not even the ones that were committed.            *)
Crash ==
    /\ \E r \in Requests : InFlight(r)
    /\ requests' = [r \in Requests |->
                       IF InFlight(r) THEN [requests[r] EXCEPT !.pc = "done"] ELSE requests[r]]
    /\ UNCHANGED <<pairingCodes, hosts, attempts, now>>

-----------------------------------------------------------------------------
(* MUTANT: a hard delete.                                                  *)
RemoveHostRow(u, h) ==
    /\ hosts[h] # None
    /\ hosts[h].userId = u
    /\ hosts' = [hosts EXCEPT ![h] = None]
    /\ UNCHANGED <<pairingCodes, requests, attempts, now>>

(* removeHost: the UPDATE that sets deleted_at and clears the token hash   *)
(* applies to the caller's own, not yet removed host only.                 *)
RemoveHost(u, h) ==
    /\ hosts[h] # None
    /\ hosts[h].userId = u
    /\ hosts[h].live
    /\ hosts' = [hosts EXCEPT ![h] = [@ EXCEPT !.live = FALSE]]
    /\ UNCHANGED <<pairingCodes, requests, attempts, now>>

Tick ==
    /\ now < MaxTime
    /\ now' = now + 1
    /\ UNCHANGED <<pairingCodes, hosts, requests, attempts>>

HandlerStep(r) ==
    \/ FindCode(r)
    \/ InsertHost(r)
    \/ ConsumeCode(r)
    \/ Commit(r)
    \/ Respond(r)

Next ==
    \/ \E u \in Users, c \in Codes : CreatePairingCode(u, c)
    \/ \E u \in Users : CreateCollides(u)
    \/ \E r \in Requests, c \in Codes : Receive(r, c)
    \/ \E r \in Requests : HandlerStep(r) \/ StatementFails(r)
    \/ Crash
    \/ \E u \in Users, h \in Requests : RemoveHost(u, h)
    \/ Tick

Spec == Init /\ [][Next]_vars

(* The event loop and the database keep working on a request that began.   *)
FairSpec == Spec /\ \A r \in Requests : WF_vars(HandlerStep(r))

-----------------------------------------------------------------------------
(* No orphan host: each host that exists has consumed the code its request *)
(* was sent, and belongs to the user that code was issued to.              *)
NoOrphanHost ==
    \A r \in Requests : hosts[r] # None =>
        LET row == pairingCodes[requests[r].code]
        IN  row # None /\ row.hostId = r /\ row.userId = hosts[r].userId

(* Single use: a consumed code names a host that exists, and at no time do *)
(* two requests both believe they have consumed the same code.             *)
SingleUse ==
    /\ \A c \in Codes : pairingCodes[c] # None /\ pairingCodes[c].hostId # None =>
           hosts[pairingCodes[c].hostId] # None
    /\ \A q, r \in Requests :
           /\ requests[q].pc \in {"consumed", "committed"}
           /\ requests[r].pc \in {"consumed", "committed"}
           /\ requests[q].code = requests[r].code
           => q = r

(* What the agent is told is what happened: a token is handed out only for *)
(* a host that was created, every refusal leaves no host behind, and       *)
(* "already used" is never said of a code that is still free: a request    *)
(* that waited for the row lock looks again when the winner rolled back.   *)
AnswersTruthful ==
    \A r \in Requests :
        /\ requests[r].answer = "paired" => hosts[r] # None
        /\ requests[r].answer \in Answers \ {"paired"} => hosts[r] = None
        /\ requests[r].answer = "used" => pairingCodes[requests[r].code].hostId # None

(* A code that had expired when a request arrived never pairs its host.    *)
ExpiredNeverPairs ==
    \A r \in Requests : hosts[r] # None =>
        requests[r].arrived <= pairingCodes[requests[r].code].expiresAt

(* A row of pairing_codes keeps its owner and its expiry, and once it is   *)
(* consumed it keeps its host: a colliding code overwrites nobody's row.   *)
CodesAreStable ==
    [][\A c \in Codes : pairingCodes[c] # None =>
           /\ pairingCodes'[c] # None
           /\ pairingCodes'[c].userId = pairingCodes[c].userId
           /\ pairingCodes'[c].expiresAt = pairingCodes[c].expiresAt
           /\ pairingCodes[c].hostId # None => pairingCodes'[c].hostId = pairingCodes[c].hostId
      ]_vars

(* Every request is eventually over; no two wait for each other for ever.  *)
EveryRequestEnds ==
    \A r \in Requests : requests[r].pc = "begun" ~> requests[r].pc = "done"

-----------------------------------------------------------------------------
(* The promise: seen through its committed rows, pairing is a ledger.      *)
Ledger == INSTANCE PairingLedger WITH
    HostIds <- Requests,
    holder <- [c \in Codes |-> IF pairingCodes[c] = None THEN None ELSE pairingCodes[c].userId],
    pairedTo <- [c \in Codes |-> IF pairingCodes[c] = None THEN None ELSE pairingCodes[c].hostId],
    keeper <- [r \in Requests |-> IF hosts[r] = None THEN None ELSE hosts[r].userId],
    revoked <- {r \in Requests : hosts[r] # None /\ ~hosts[r].live}

(* The transaction implements the ledger's atomic step.                    *)
ImplementsLedger == Ledger!Spec

=============================================================================
