--------------------------- MODULE Pairing_proofs ---------------------------
(***************************************************************************)
(* What TLAPS proves of Pairing, for any number of users, codes and        *)
(* concurrent requests: type correctness, the safety invariants, the       *)
(* stability of codes and that the transaction implements PairingLedger.   *)
(***************************************************************************)
EXTENDS Pairing, TLAPS

(* What a handler h knows of the row it read: while it works, the row has  *)
(* the owner and the expiry it saw, and while it holds the row lock the    *)
(* code is unused.                                                         *)
HandlerKnows(h) ==
    /\ h.pc # "idle" => h.code \in Codes
    /\ h.pc \in {"read", "inserted", "consumed"} =>
           /\ pairingCodes[h.code] # None
           /\ h.userId = pairingCodes[h.code].userId
           /\ h.arrived <= pairingCodes[h.code].expiresAt
    /\ h.pc = "consumed" => pairingCodes[h.code].hostId = None
    /\ h.arrived <= now

(* The host of the request r, whose handler is h, is there from the commit *)
(* on and not before, and agrees with the row the commit consumed.         *)
HostKnows(r, h) ==
    /\ hosts[r] # None =>
           /\ h.pc \in {"committed", "done"}
           /\ pairingCodes[h.code] # None
           /\ pairingCodes[h.code].hostId = r
           /\ pairingCodes[h.code].userId = hosts[r].userId
           /\ h.arrived <= pairingCodes[h.code].expiresAt
    /\ h.pc = "committed" => hosts[r] # None

AnswerKnows(r, h) ==
    /\ h.answer # None => h.pc = "done"
    /\ h.answer = "paired" => hosts[r] # None
    /\ h.answer \in Answers \ {"paired"} => hosts[r] = None
    /\ h.answer = "used" =>
           /\ pairingCodes[h.code] # None
           /\ pairingCodes[h.code].hostId # None

OneLockHolder ==
    \A q, r \in Requests :
        /\ requests[q].pc = "consumed"
        /\ requests[r].pc = "consumed"
        /\ requests[q].code = requests[r].code
        => q = r

CodesKnow ==
    \A c \in Codes : pairingCodes[c] # None /\ pairingCodes[c].hostId # None =>
        hosts[pairingCodes[c].hostId] # None

(* The inductive invariant: the properties alone do not say why the row a  *)
(* handler read before the lock is still what it consumes under it.        *)
IInv ==
    /\ TypeOK
    /\ \A r \in Requests : HandlerKnows(requests[r])
    /\ \A r \in Requests : HostKnows(r, requests[r])
    /\ \A r \in Requests : AnswerKnows(r, requests[r])
    /\ OneLockHolder
    /\ CodesKnow

-----------------------------------------------------------------------------
(* No answer is mistaken for the lack of one.                              *)
LEMMA AnswersAreNotNull == "paired" # None /\ "used" # None
BY NoneAssumption DEF Answers

(* IInv holds initially.                                                   *)
LEMMA InitEstablishes == Init => IInv
<1> SUFFICES ASSUME Init PROVE IInv
    OBVIOUS
<1>1. TypeOK
    BY BoundsAssumption DEF Init, TypeOK, Idle, Handler
<1>2. ASSUME NEW r \in Requests
      PROVE  /\ HandlerKnows(requests[r])
             /\ HostKnows(r, requests[r])
             /\ AnswerKnows(r, requests[r])
  <2>1. requests[r] = Idle /\ hosts[r] = None /\ now = 0 /\ None \notin Answers
      BY NoneAssumption DEF Init
  <2> QED
      BY <2>1 DEF Idle, HandlerKnows, HostKnows, AnswerKnows, Answers
<1>3. OneLockHolder /\ CodesKnow
    BY DEF Init, Idle, OneLockHolder, CodesKnow
<1> QED
    BY <1>1, <1>2, <1>3 DEF IInv

(* A step that only moves the handler of r to h keeps IInv if h knows what *)
(* a handler must know, and takes the row lock only when it is free.       *)
LEMMA MovingKeeps ==
    ASSUME IInv, NEW r \in Requests, NEW h \in Handler,
           requests' = [requests EXCEPT ![r] = h],
           UNCHANGED <<pairingCodes, hosts, attempts, now>>,
           HandlerKnows(h), HostKnows(r, h), AnswerKnows(r, h),
           h.pc = "consumed" => \A q \in Requests \ {r} :
               requests[q].pc = "consumed" => requests[q].code # h.code
    PROVE  IInv'
<1>1. /\ requests'[r] = h
      /\ \A q \in Requests \ {r} : requests'[q] = requests[q]
    BY DEF IInv, TypeOK
<1>2. TypeOK'
    BY DEF IInv, TypeOK
<1>3. \A q \in Requests : HandlerKnows(requests[q])'
    BY <1>1 DEF IInv, HandlerKnows
<1>4. \A q \in Requests : HostKnows(q, requests[q])'
    BY <1>1 DEF IInv, HostKnows
<1>5. \A q \in Requests : AnswerKnows(q, requests[q])'
    BY <1>1 DEF IInv, AnswerKnows
<1>6. OneLockHolder'
    BY <1>1 DEF IInv, OneLockHolder
<1>7. CodesKnow'
    BY DEF IInv, CodesKnow
<1> QED
    BY <1>2, <1>3, <1>4, <1>5, <1>6, <1>7 DEF IInv

(* A rollback, whatever the answer a it is given: the handler is done and  *)
(* no host exists.  "used" may only be said of a used code.                *)
LEMMA RefusalKeeps ==
    ASSUME IInv, NEW r \in Requests, NEW a \in Answers \ {"paired"},
           requests[r].pc \in {"begun", "read", "inserted", "consumed"},
           a = "used" => /\ pairingCodes[requests[r].code] # None
                         /\ pairingCodes[requests[r].code].hostId # None,
           Answer(r, a),
           UNCHANGED <<pairingCodes, hosts, attempts, now>>
    PROVE  IInv'
<1> DEFINE h == [requests[r] EXCEPT !.pc = "done", !.answer = a]
<1>1. requests[r] \in Handler
    BY DEF IInv, TypeOK
<1>2. /\ h \in Handler /\ h.pc = "done" /\ h.answer = a
      /\ h.code = requests[r].code /\ h.arrived = requests[r].arrived
    BY <1>1 DEF Handler
<1>3. hosts[r] = None
    BY DEF IInv, HostKnows
<1>4. HandlerKnows(h)
    BY <1>2 DEF IInv, HandlerKnows
<1>5. HostKnows(r, h) /\ AnswerKnows(r, h)
    BY <1>2, <1>3 DEF HostKnows, AnswerKnows
<1> HIDE DEF h
<1>6. requests' = [requests EXCEPT ![r] = h]
    BY DEF Answer, h
<1> QED
    BY <1>2, <1>4, <1>5, <1>6, MovingKeeps

-----------------------------------------------------------------------------
(* One lemma per action.                                                   *)

(* A new code row is nobody's consumed code.                               *)
LEMMA CreateKeeps ==
    ASSUME IInv, NEW u \in Users, NEW c \in Codes, CreatePairingCode(u, c)
    PROVE  IInv'
<1> DEFINE row == [userId |-> u, expiresAt |-> now + Ttl, hostId |-> None]
<1>1. row \in CodeRow /\ row.hostId = None
    BY BoundsAssumption DEF IInv, TypeOK, CodeRow
<1> HIDE DEF row
<1>2. /\ pairingCodes[c] = None /\ pairingCodes'[c] = row
      /\ \A k \in Codes \ {c} : pairingCodes'[k] = pairingCodes[k]
      /\ UNCHANGED <<hosts, requests, now>>
    BY DEF IInv, TypeOK, CreatePairingCode, row
<1>3. TypeOK'
  <2>1. pairingCodes' = [pairingCodes EXCEPT ![c] = row]
      BY DEF CreatePairingCode, row
  <2>2. attempts' \in [Users -> 0 .. MaxAttempts - 1]
      BY BoundsAssumption DEF IInv, TypeOK, CreatePairingCode
  <2> QED
      BY <1>1, <1>2, <2>1, <2>2 DEF IInv, TypeOK
<1>4. \A q \in Requests : HandlerKnows(requests[q])'
    BY <1>2 DEF IInv, HandlerKnows
<1>5. \A q \in Requests : HostKnows(q, requests[q])'
    BY <1>2 DEF IInv, HandlerKnows, HostKnows
<1>6. \A q \in Requests : AnswerKnows(q, requests[q])'
    BY <1>1, <1>2, AnswersAreNotNull DEF IInv, HandlerKnows, AnswerKnows
<1>7. OneLockHolder' /\ CodesKnow'
    BY <1>1, <1>2 DEF IInv, OneLockHolder, CodesKnow
<1> QED
    BY <1>3, <1>4, <1>5, <1>6, <1>7 DEF IInv

(* A collision only counts an attempt.                                     *)
LEMMA CollideKeeps ==
    ASSUME IInv, NEW u \in Users, CreateCollides(u)
    PROVE  IInv'
<1>1. TypeOK'
    BY BoundsAssumption DEF IInv, TypeOK, CreateCollides
<1>2. UNCHANGED <<pairingCodes, hosts, requests, now>>
    BY DEF CreateCollides
<1> QED
    BY <1>1, <1>2 DEF IInv, HandlerKnows, HostKnows, AnswerKnows, OneLockHolder, CodesKnow

(* A request that arrives knows nothing yet.                               *)
LEMMA ReceiveKeeps ==
    ASSUME IInv, NEW r \in Requests, NEW c \in Codes, Receive(r, c)
    PROVE  IInv'
<1> DEFINE h == [requests[r] EXCEPT !.pc = "begun", !.code = c, !.arrived = now]
<1>1. requests[r] \in Handler /\ now \in Nat
    BY BoundsAssumption DEF IInv, TypeOK
<1>2. /\ h \in Handler /\ h.pc = "begun" /\ h.code = c
      /\ h.arrived = now /\ h.answer = requests[r].answer
    BY <1>1 DEF Handler
<1>3. hosts[r] = None /\ requests[r].answer = None
    BY DEF IInv, Receive, HostKnows, AnswerKnows
<1>4. HandlerKnows(h) /\ HostKnows(r, h) /\ AnswerKnows(r, h)
    BY <1>1, <1>2, <1>3, NoneAssumption DEF HandlerKnows, HostKnows, AnswerKnows, Answers
<1> HIDE DEF h
<1>5. requests' = [requests EXCEPT ![r] = h]
    BY DEF Receive, h
<1> QED
    BY <1>2, <1>4, <1>5, MovingKeeps DEF Receive

(* A handler that goes on has read an unused, unexpired row.               *)
LEMMA FindKeeps ==
    ASSUME IInv, NEW r \in Requests, FindCode(r)
    PROVE  IInv'
<1> DEFINE row == pairingCodes[requests[r].code]
           h == [requests[r] EXCEPT !.pc = "read", !.userId = row.userId]
<1>1. requests[r].pc = "begun" /\ UNCHANGED <<pairingCodes, hosts, attempts, now>>
    BY DEF FindCode
<1>2. CASE \/ row = None /\ Answer(r, "invalid")
           \/ row # None /\ row.hostId # None /\ Answer(r, "used")
           \/ row # None /\ row.hostId = None /\ row.expiresAt < now /\ Answer(r, "expired")
    BY <1>1, <1>2, RefusalKeeps DEF Answers
<1>3. CASE row # None /\ row.expiresAt >= now /\ requests' = [requests EXCEPT ![r] = h]
  <2>1. requests[r] \in Handler /\ requests[r].code \in Codes
      BY <1>1 DEF IInv, TypeOK, HandlerKnows
  <2>2. row \in CodeRow /\ now \in Nat
      BY <1>3, <2>1, BoundsAssumption DEF IInv, TypeOK
  <2>3. /\ h \in Handler /\ h.pc = "read" /\ h.userId = row.userId /\ h.arrived \in Nat
        /\ h.code = requests[r].code /\ h.arrived = requests[r].arrived
        /\ h.answer = requests[r].answer
      BY <2>1, <2>2 DEF Handler, CodeRow
  <2>4. hosts[r] = None /\ requests[r].answer = None /\ requests[r].arrived <= now
      BY <1>1 DEF IInv, HandlerKnows, HostKnows, AnswerKnows
  <2>5. row.expiresAt \in Nat
      BY <2>2 DEF CodeRow
  <2>6. HandlerKnows(h)
      BY <1>3, <2>1, <2>2, <2>3, <2>4, <2>5 DEF HandlerKnows
  <2>7. HostKnows(r, h) /\ AnswerKnows(r, h)
      BY <2>3, <2>4, NoneAssumption DEF HostKnows, AnswerKnows, Answers
  <2> QED
      BY <1>1, <1>3, <2>3, <2>6, <2>7, MovingKeeps
<1> QED
    BY <1>2, <1>3 DEF FindCode

(* The inserted host is not visible before the commit.                     *)
LEMMA InsertKeeps ==
    ASSUME IInv, NEW r \in Requests, InsertHost(r)
    PROVE  IInv'
<1> DEFINE h == [requests[r] EXCEPT !.pc = "inserted"]
<1>1. requests[r] \in Handler /\ requests[r].pc = "read"
    BY DEF IInv, TypeOK, InsertHost
<1>2. /\ h \in Handler /\ h.pc = "inserted" /\ h.userId = requests[r].userId
      /\ h.code = requests[r].code /\ h.arrived = requests[r].arrived
      /\ h.answer = requests[r].answer
    BY <1>1 DEF Handler
<1>3. HandlerKnows(h) /\ HostKnows(r, h) /\ AnswerKnows(r, h)
    BY <1>1, <1>2 DEF IInv, HandlerKnows, HostKnows, AnswerKnows
<1> HIDE DEF h
<1>4. requests' = [requests EXCEPT ![r] = h]
    BY DEF InsertHost, h
<1> QED
    BY <1>2, <1>3, <1>4, MovingKeeps DEF InsertHost

(* Only one handler gets the row lock, and only on an unused code.         *)
LEMMA ConsumeKeeps ==
    ASSUME IInv, NEW r \in Requests, ConsumeCode(r)
    PROVE  IInv'
<1> DEFINE row == pairingCodes[requests[r].code]
           h == [requests[r] EXCEPT !.pc = "consumed"]
<1>1. requests[r].pc = "inserted" /\ UNCHANGED <<pairingCodes, hosts, attempts, now>>
    BY DEF ConsumeCode
<1>2. requests[r] \in Handler /\ row # None
    BY <1>1 DEF IInv, TypeOK, HandlerKnows
<1>3. CASE row.hostId # None /\ Answer(r, "used")
    BY <1>1, <1>2, <1>3, RefusalKeeps DEF Answers
<1>4. CASE row.hostId = None /\ requests' = [requests EXCEPT ![r].pc = "consumed"]
  <2>1. /\ h \in Handler /\ h.pc = "consumed" /\ h.userId = requests[r].userId
        /\ h.code = requests[r].code /\ h.arrived = requests[r].arrived
        /\ h.answer = requests[r].answer
      BY <1>2 DEF Handler
  <2>2. HandlerKnows(h) /\ HostKnows(r, h) /\ AnswerKnows(r, h)
      BY <1>1, <1>4, <2>1 DEF IInv, HandlerKnows, HostKnows, AnswerKnows
  <2> QED
      BY <1>1, <1>4, <2>1, <2>2, MovingKeeps DEF ConsumeCode, RowUnlocked
<1> QED
    BY <1>3, <1>4 DEF ConsumeCode

(* Success is answered after the commit.                                   *)
LEMMA RespondKeeps ==
    ASSUME IInv, NEW r \in Requests, Respond(r)
    PROVE  IInv'
<1> DEFINE h == [requests[r] EXCEPT !.pc = "done", !.answer = "paired"]
<1>1. requests[r] \in Handler /\ requests[r].pc = "committed"
    BY DEF IInv, TypeOK, Respond
<1>2. /\ h \in Handler /\ h.pc = "done" /\ h.answer = "paired"
      /\ h.code = requests[r].code /\ h.arrived = requests[r].arrived
    BY <1>1 DEF Handler, Answers
<1>3. HandlerKnows(h) /\ HostKnows(r, h) /\ AnswerKnows(r, h)
    BY <1>1, <1>2 DEF IInv, HandlerKnows, HostKnows, AnswerKnows
<1> HIDE DEF h
<1>4. requests' = [requests EXCEPT ![r] = h]
    BY DEF Respond, Answer, h
<1> QED
    BY <1>2, <1>3, <1>4, MovingKeeps DEF Respond

(* A failed statement leaves nothing behind.                               *)
LEMMA FailKeeps ==
    ASSUME IInv, NEW r \in Requests, StatementFails(r)
    PROVE  IInv'
BY RefusalKeeps DEF StatementFails, Answers

(* The commit makes host and consumption visible at once.                  *)
LEMMA CommitKeeps ==
    ASSUME IInv, NEW r \in Requests, Commit(r)
    PROVE  IInv'
<1> DEFINE c == requests[r].code
           h == [requests[r] EXCEPT !.pc = "committed"]
           row == [pairingCodes[c] EXCEPT !.hostId = r]
           host == [userId |-> requests[r].userId, live |-> TRUE]
<1>1. /\ requests[r] \in Handler /\ requests[r].pc = "consumed" /\ c \in Codes
      /\ pairingCodes[c] \in CodeRow /\ pairingCodes[c].hostId = None
      /\ requests[r].userId = pairingCodes[c].userId /\ requests[r].answer = None
      /\ requests[r].arrived <= pairingCodes[c].expiresAt /\ hosts[r] = None
    BY DEF IInv, TypeOK, Commit, HandlerKnows, HostKnows, AnswerKnows
<1>2. /\ h \in Handler /\ h.pc = "committed" /\ h.code = c
      /\ h.arrived = requests[r].arrived /\ h.answer = None
    BY <1>1 DEF Handler
<1>3. /\ row \in CodeRow /\ row.hostId = r /\ row.userId = pairingCodes[c].userId
      /\ row.expiresAt = pairingCodes[c].expiresAt
    BY <1>1 DEF CodeRow
<1>4. host \in HostRow /\ host.userId = pairingCodes[c].userId
    BY <1>1 DEF CodeRow, HostRow
<1>5. /\ requests' = [requests EXCEPT ![r] = h]
      /\ pairingCodes' = [pairingCodes EXCEPT ![c] = row]
      /\ hosts' = [hosts EXCEPT ![r] = host]
      /\ UNCHANGED <<attempts, now>>
    BY DEF Commit
<1>6. row # None /\ host # None /\ r # None
    BY <1>3, <1>4, NoneAssumption
<1> HIDE DEF c, h, row, host
<1>7. /\ requests'[r] = h /\ \A q \in Requests \ {r} : requests'[q] = requests[q]
      /\ pairingCodes'[c] = row /\ \A k \in Codes \ {c} : pairingCodes'[k] = pairingCodes[k]
      /\ hosts'[r] = host /\ \A q \in Requests \ {r} : hosts'[q] = hosts[q]
    BY <1>1, <1>5 DEF IInv, TypeOK
<1>8. TypeOK'
    BY <1>2, <1>3, <1>4, <1>5 DEF IInv, TypeOK
<1>9. ASSUME NEW q \in Requests \ {r}
      PROVE  requests[q].pc = "consumed" => requests[q].code # c
    BY <1>1, <1>9 DEF IInv, OneLockHolder, c
<1>10. ASSUME NEW q \in Requests PROVE HandlerKnows(requests[q])'
  <2>1. CASE q = r
      BY <1>1, <1>2, <1>5, <1>7, <2>1 DEF IInv, HandlerKnows, c
  <2>2. CASE q # r
      BY <1>1, <1>3, <1>5, <1>6, <1>7, <1>9, <2>2 DEF IInv, HandlerKnows
  <2> QED
      BY <2>1, <2>2
<1>11. ASSUME NEW q \in Requests PROVE HostKnows(q, requests[q])'
  <2>1. CASE q = r
      BY <1>1, <1>2, <1>3, <1>4, <1>6, <1>7, <2>1 DEF HostKnows, c
  <2>2. CASE q # r
      BY <1>1, <1>7, <2>2, NoneAssumption DEF IInv, HandlerKnows, HostKnows, c
  <2> QED
      BY <2>1, <2>2
<1>12. ASSUME NEW q \in Requests PROVE AnswerKnows(q, requests[q])'
  <2>1. CASE q = r
      BY <1>2, <1>7, <2>1, NoneAssumption, AnswersAreNotNull DEF AnswerKnows
  <2>2. CASE q # r
      BY <1>3, <1>6, <1>7, <2>2, AnswersAreNotNull DEF IInv, AnswerKnows, HandlerKnows
  <2> QED
      BY <2>1, <2>2
<1>13. OneLockHolder'
    BY <1>2, <1>7 DEF IInv, OneLockHolder
<1>14. CodesKnow'
    BY <1>3, <1>6, <1>7 DEF IInv, TypeOK, CodeRow, CodesKnow
<1> QED
    BY <1>8, <1>10, <1>11, <1>12, <1>13, <1>14 DEF IInv

(* A crash ends requests and changes no committed row.                     *)
LEMMA CrashKeeps == ASSUME IInv, Crash PROVE IInv'
<1>1. ASSUME NEW q \in Requests
      PROVE  /\ requests'[q] \in Handler
             /\ requests'[q].pc \in {"idle", "done"}
             /\ requests[q].pc = "idle" => requests'[q].pc = "idle"
             /\ requests[q].pc # "idle" => requests'[q].pc = "done"
             /\ requests'[q].code = requests[q].code
             /\ requests'[q].arrived = requests[q].arrived
             /\ requests'[q].answer = requests[q].answer
  <2>1. requests[q] \in Handler
      BY DEF IInv, TypeOK
  <2>2. requests'[q] = IF InFlight(q) THEN [requests[q] EXCEPT !.pc = "done"] ELSE requests[q]
      BY DEF Crash
  <2> QED
      BY <2>1, <2>2 DEF Handler, InFlight
<1>2. UNCHANGED <<pairingCodes, hosts, attempts, now>>
    BY DEF Crash
<1>3. TypeOK'
    BY <1>1, <1>2 DEF IInv, TypeOK, Crash
<1>4. ASSUME NEW q \in Requests
      PROVE  /\ HandlerKnows(requests[q])'
             /\ HostKnows(q, requests[q])'
             /\ AnswerKnows(q, requests[q])'
    BY <1>1, <1>2 DEF IInv, HandlerKnows, HostKnows, AnswerKnows
<1>5. OneLockHolder' /\ CodesKnow'
    BY <1>1, <1>2 DEF IInv, OneLockHolder, CodesKnow
<1> QED
    BY <1>3, <1>4, <1>5 DEF IInv

(* Removing a host keeps its row and its code's.                           *)
LEMMA RemoveKeeps ==
    ASSUME IInv, NEW u \in Users, NEW h \in Requests, RemoveHost(u, h)
    PROVE  IInv'
<1> DEFINE host == [hosts[h] EXCEPT !.live = FALSE]
<1>1. hosts[h] \in HostRow
    BY DEF IInv, TypeOK, RemoveHost
<1>2. host \in HostRow /\ host.userId = hosts[h].userId /\ host # None
    BY <1>1, NoneAssumption DEF HostRow
<1>3. hosts' = [hosts EXCEPT ![h] = host] /\ UNCHANGED <<pairingCodes, requests, attempts, now>>
    BY DEF RemoveHost
<1> HIDE DEF host
<1>4. /\ hosts'[h] = host /\ hosts[h] # None
      /\ \A q \in Requests \ {h} : hosts'[q] = hosts[q]
    BY <1>3 DEF IInv, TypeOK, RemoveHost
<1>5. TypeOK'
    BY <1>2, <1>3 DEF IInv, TypeOK
<1>6. ASSUME NEW q \in Requests
      PROVE  HandlerKnows(requests[q])' /\ HostKnows(q, requests[q])'
    BY <1>2, <1>3, <1>4 DEF IInv, HandlerKnows, HostKnows
<1>7. ASSUME NEW q \in Requests PROVE AnswerKnows(q, requests[q])'
    BY <1>2, <1>3, <1>4 DEF IInv, HostKnows, AnswerKnows
<1>8. OneLockHolder' /\ CodesKnow'
    BY <1>2, <1>3, <1>4 DEF IInv, OneLockHolder, CodesKnow
<1> QED
    BY <1>5, <1>6, <1>7, <1>8 DEF IInv

(* Time only passes.                                                       *)
LEMMA TickKeeps == ASSUME IInv, Tick PROVE IInv'
<1>1. TypeOK' /\ now \in Nat /\ now' = now + 1
    BY BoundsAssumption DEF IInv, TypeOK, Tick
<1>2. \A r \in Requests : requests[r].arrived \in Nat
    BY DEF IInv, TypeOK, Handler
<1>3. \A r \in Requests : HandlerKnows(requests[r])'
    BY <1>1, <1>2 DEF IInv, Tick, HandlerKnows
<1> QED
    BY <1>1, <1>3 DEF IInv, Tick, HostKnows, AnswerKnows, OneLockHolder, CodesKnow

(* Every step of Pairing keeps IInv.                                       *)
LEMMA NextKeeps == IInv /\ [Next]_vars => IInv'
<1> SUFFICES ASSUME IInv, [Next]_vars PROVE IInv'
    OBVIOUS
<1>1. CASE \E u \in Users, c \in Codes : CreatePairingCode(u, c)
    BY <1>1, CreateKeeps
<1>2. CASE \E u \in Users : CreateCollides(u)
    BY <1>2, CollideKeeps
<1>3. CASE \E r \in Requests, c \in Codes : Receive(r, c)
    BY <1>3, ReceiveKeeps
<1>4. CASE \E r \in Requests : HandlerStep(r) \/ StatementFails(r)
    BY <1>4, FindKeeps, InsertKeeps, ConsumeKeeps, CommitKeeps, RespondKeeps, FailKeeps
       DEF HandlerStep
<1>5. CASE Crash
    BY <1>5, CrashKeeps
<1>6. CASE \E u \in Users, h \in Requests : RemoveHost(u, h)
    BY <1>6, RemoveKeeps
<1>7. CASE Tick
    BY <1>7, TickKeeps
<1>8. CASE UNCHANGED vars
    BY <1>8 DEF vars, IInv, TypeOK, HandlerKnows, HostKnows, AnswerKnows, OneLockHolder, CodesKnow
<1> QED
    BY <1>1, <1>2, <1>3, <1>4, <1>5, <1>6, <1>7, <1>8 DEF Next

(* The invariant holds throughout.                                         *)
LEMMA Invariance == Spec => []IInv
BY InitEstablishes, NextKeeps, PTL DEF Spec

-----------------------------------------------------------------------------
(* Type correctness: every variable of Pairing stays in its type.          *)
THEOREM TypeCorrect == Spec => []TypeOK
BY Invariance, PTL DEF IInv

(* No host exists that is not the one its code names, in the account the   *)
(* code was issued to: the race in route.ts never leaves an orphan.        *)
THEOREM NoOrphans == Spec => []NoOrphanHost
<1>1. IInv => NoOrphanHost
    BY DEF IInv, HostKnows, NoOrphanHost
<1> QED
    BY <1>1, Invariance, PTL

(* A code is consumed by one request only, however many race for it.       *)
THEOREM CodesAreSingleUse == Spec => []SingleUse
<1>1. ASSUME IInv, NEW q \in Requests, NEW r \in Requests,
             requests[q].pc = "consumed", requests[r].pc = "committed",
             requests[q].code = requests[r].code
      PROVE  FALSE
    BY <1>1, NoneAssumption DEF IInv, HandlerKnows, HostKnows
<1>2. ASSUME IInv, NEW q \in Requests, NEW r \in Requests,
             requests[q].pc = "committed", requests[r].pc = "committed",
             requests[q].code = requests[r].code
      PROVE  q = r
    BY <1>2 DEF IInv, HostKnows
<1>3. IInv => SingleUse
    BY <1>1, <1>2 DEF IInv, OneLockHolder, CodesKnow, SingleUse
<1> QED
    BY <1>3, Invariance, PTL

(* The agent is never told of a host that is not there, nor refused one    *)
(* that is, and 409 is answered only for a code that is used, for good.    *)
THEOREM AnswersAreTruthful == Spec => []AnswersTruthful
<1>1. IInv => AnswersTruthful
    BY DEF IInv, AnswerKnows, AnswersTruthful
<1> QED
    BY <1>1, Invariance, PTL

(* No host is ever paired by a request that arrived after the expiry of    *)
(* its code.                                                               *)
THEOREM ExpiryIsRespected == Spec => []ExpiredNeverPairs
<1>1. IInv => ExpiredNeverPairs
    BY DEF IInv, HostKnows, ExpiredNeverPairs
<1> QED
    BY <1>1, Invariance, PTL

-----------------------------------------------------------------------------
(* How a step changes the committed rows, which is all that stability and  *)
(* refinement depend on.                                                   *)
LEMMA OnlyThreeActionsWrite ==
    ASSUME IInv, [Next]_vars
    PROVE  \/ \E u \in Users, c \in Codes : CreatePairingCode(u, c)
           \/ \E r \in Requests : Commit(r)
           \/ \E u \in Users, h \in Requests : RemoveHost(u, h)
           \/ UNCHANGED <<pairingCodes, hosts>>
BY DEF Next, vars, HandlerStep, CreateCollides, Receive, FindCode, InsertHost, ConsumeCode,
       Respond, StatementFails, Crash, Tick

(* The commit replaces one unused row by the same row naming r.            *)
LEMMA CommitWrites ==
    ASSUME IInv, NEW r \in Requests, Commit(r)
    PROVE  LET c == requests[r].code
           IN  /\ c \in Codes /\ pairingCodes[c] # None /\ hosts[r] = None
               /\ pairingCodes[c].hostId = None
               /\ pairingCodes'[c] # None
               /\ pairingCodes'[c].userId = pairingCodes[c].userId
               /\ pairingCodes'[c].expiresAt = pairingCodes[c].expiresAt
               /\ pairingCodes'[c].hostId = r
               /\ \A k \in Codes \ {c} : pairingCodes'[k] = pairingCodes[k]
               /\ hosts'[r] # None /\ hosts'[r].live
               /\ hosts'[r].userId = pairingCodes[c].userId
               /\ \A q \in Requests \ {r} : hosts'[q] = hosts[q]
<1> DEFINE c == requests[r].code
           row == [pairingCodes[c] EXCEPT !.hostId = r]
           host == [userId |-> requests[r].userId, live |-> TRUE]
<1>1. /\ c \in Codes /\ pairingCodes[c] # None /\ pairingCodes[c] \in CodeRow
      /\ pairingCodes[c].hostId = None /\ hosts[r] = None
      /\ requests[r].userId = pairingCodes[c].userId
    BY DEF IInv, TypeOK, Commit, HandlerKnows, HostKnows
<1>2. /\ row \in CodeRow /\ row.userId = pairingCodes[c].userId
      /\ row.expiresAt = pairingCodes[c].expiresAt /\ row.hostId = r
    BY <1>1 DEF CodeRow
<1>3. host \in HostRow /\ host.live /\ host.userId = pairingCodes[c].userId
    BY <1>1 DEF CodeRow, HostRow
<1>4. row # None /\ host # None
    BY <1>2, <1>3, NoneAssumption
<1>5. pairingCodes' = [pairingCodes EXCEPT ![c] = row] /\ hosts' = [hosts EXCEPT ![r] = host]
    BY DEF Commit
<1> HIDE DEF row, host
<1> QED
    BY <1>1, <1>2, <1>3, <1>4, <1>5 DEF IInv, TypeOK

(* A removal touches one existing host and leaves it in its account.       *)
LEMMA RemoveWrites ==
    ASSUME IInv, NEW u \in Users, NEW h \in Requests, RemoveHost(u, h)
    PROVE  /\ hosts[h] # None /\ hosts[h].live /\ hosts'[h] # None /\ ~hosts'[h].live
           /\ hosts'[h].userId = hosts[h].userId
           /\ \A q \in Requests \ {h} : hosts'[q] = hosts[q]
           /\ pairingCodes' = pairingCodes
<1> DEFINE host == [hosts[h] EXCEPT !.live = FALSE]
<1>1. hosts[h] \in HostRow /\ hosts[h] # None /\ hosts[h].live
    BY DEF IInv, TypeOK, RemoveHost
<1>2. host \in HostRow /\ ~host.live /\ host.userId = hosts[h].userId
    BY <1>1 DEF HostRow
<1>3. host # None /\ hosts' = [hosts EXCEPT ![h] = host]
    BY <1>2, NoneAssumption DEF RemoveHost
<1> HIDE DEF host
<1> QED
    BY <1>1, <1>2, <1>3 DEF IInv, TypeOK, RemoveHost

(* A new row is written where there was none.                              *)
LEMMA CreateWrites ==
    ASSUME IInv, NEW u \in Users, NEW c \in Codes, CreatePairingCode(u, c)
    PROVE  /\ pairingCodes[c] = None /\ pairingCodes'[c] # None
           /\ pairingCodes'[c].userId = u /\ pairingCodes'[c].hostId = None
           /\ \A k \in Codes \ {c} : pairingCodes'[k] = pairingCodes[k]
           /\ hosts' = hosts
<1> DEFINE row == [userId |-> u, expiresAt |-> now + Ttl, hostId |-> None]
<1>1. row \in CodeRow /\ row.userId = u /\ row.hostId = None
    BY BoundsAssumption DEF IInv, TypeOK, CodeRow
<1>2. row # None /\ pairingCodes' = [pairingCodes EXCEPT ![c] = row]
    BY <1>1, NoneAssumption DEF CreatePairingCode
<1> HIDE DEF row
<1> QED
    BY <1>1, <1>2 DEF IInv, TypeOK, CreatePairingCode

(* No step takes a code's row away, changes its owner or expiry, or gives  *)
(* a consumed code to another host.                                        *)
THEOREM CodesNeverChangeHands == Spec => CodesAreStable
<1>1. ASSUME IInv, [Next]_vars, NEW c \in Codes, pairingCodes[c] # None
      PROVE  /\ pairingCodes'[c] # None
             /\ pairingCodes'[c].userId = pairingCodes[c].userId
             /\ pairingCodes'[c].expiresAt = pairingCodes[c].expiresAt
             /\ pairingCodes[c].hostId # None => pairingCodes'[c].hostId = pairingCodes[c].hostId
  <2>1. CASE \E u \in Users, k \in Codes : CreatePairingCode(u, k)
      BY <1>1, <2>1, CreateWrites
  <2>2. CASE \E r \in Requests : Commit(r)
      BY <1>1, <2>2, CommitWrites
  <2>3. CASE (\E u \in Users, h \in Requests : RemoveHost(u, h)) \/ UNCHANGED <<pairingCodes, hosts>>
      BY <1>1, <2>3, RemoveWrites
  <2> QED
      BY <1>1, <2>1, <2>2, <2>3, OnlyThreeActionsWrite
<1> DEFINE StableStep ==
        \A c \in Codes : pairingCodes[c] # None =>
            /\ pairingCodes'[c] # None
            /\ pairingCodes'[c].userId = pairingCodes[c].userId
            /\ pairingCodes'[c].expiresAt = pairingCodes[c].expiresAt
            /\ pairingCodes[c].hostId # None => pairingCodes'[c].hostId = pairingCodes[c].hostId
<1>2. IInv /\ [Next]_vars => [StableStep]_vars
    BY <1>1
<1> QED
    BY <1>2, Invariance, PTL DEF Spec, CodesAreStable

(* The transaction implements the ledger: a commit is the atomic pairing,  *)
(* and nothing else a request does can be seen in the committed rows.      *)
THEOREM PairingImplementsLedger == Spec => ImplementsLedger
<1>1. Init => Ledger!Init
    BY DEF Init, Ledger!Init
<1> DEFINE holder == [c \in Codes |-> IF pairingCodes[c] = None THEN None ELSE pairingCodes[c].userId]
           pairedTo == [c \in Codes |-> IF pairingCodes[c] = None THEN None ELSE pairingCodes[c].hostId]
           keeper == [r \in Requests |-> IF hosts[r] = None THEN None ELSE hosts[r].userId]
           revoked == {r \in Requests : hosts[r] # None /\ ~hosts[r].live}
<1>2. ASSUME IInv, [Next]_vars PROVE [Ledger!Next]_Ledger!vars
  <2>1. ASSUME NEW u \in Users, NEW c \in Codes, CreatePairingCode(u, c)
        PROVE  Ledger!Next
    <3>1. /\ pairingCodes[c] = None /\ pairingCodes'[c] # None
          /\ pairingCodes'[c].userId = u /\ pairingCodes'[c].hostId = None
          /\ \A k \in Codes \ {c} : pairingCodes'[k] = pairingCodes[k]
          /\ hosts' = hosts
        BY <1>2, <2>1, CreateWrites
    <3>2. holder[c] = None /\ holder' = [holder EXCEPT ![c] = u]
        BY <3>1
    <3>3. UNCHANGED <<pairedTo, keeper, revoked>>
        BY <3>1
    <3> QED
        BY <3>2, <3>3 DEF Ledger!Next, Ledger!Issue
  <2>2. ASSUME NEW r \in Requests, Commit(r)
        PROVE  Ledger!Next
    <3>0. PICK c \in Codes : c = requests[r].code
        BY <1>2, <2>2, CommitWrites
    <3>1. /\ pairingCodes[c] # None /\ hosts[r] = None
          /\ pairingCodes[c].hostId = None
          /\ pairingCodes'[c] # None
          /\ pairingCodes'[c].userId = pairingCodes[c].userId
          /\ pairingCodes'[c].hostId = r
          /\ \A k \in Codes \ {c} : pairingCodes'[k] = pairingCodes[k]
          /\ hosts'[r] # None /\ hosts'[r].live
          /\ hosts'[r].userId = pairingCodes[c].userId
          /\ \A q \in Requests \ {r} : hosts'[q] = hosts[q]
        BY <1>2, <2>2, <3>0, CommitWrites
    <3>2. pairingCodes[c].userId # None
        BY <1>2, <3>1, NoneAssumption DEF IInv, TypeOK, CodeRow
    <3>3. holder[c] # None /\ pairedTo[c] = None /\ keeper[r] = None
        BY <3>1, <3>2
    <3>4. pairedTo' = [pairedTo EXCEPT ![c] = r]
        BY <3>1
    <3>5. keeper' = [keeper EXCEPT ![r] = holder[c]]
      <4>1. holder[c] = pairingCodes[c].userId
          BY <3>1
      <4>2. \A q \in Requests : keeper'[q] = IF q = r THEN holder[c] ELSE keeper[q]
          BY <3>1, <4>1
      <4> HIDE DEF holder
      <4> QED
          BY <4>2
    <3>6. UNCHANGED <<holder, revoked>>
        BY <3>1
    <3> QED
        BY <3>3, <3>4, <3>5, <3>6 DEF Ledger!Next, Ledger!Pair
  <2>3. ASSUME NEW u \in Users, NEW h \in Requests, RemoveHost(u, h)
        PROVE  Ledger!Next
    <3>1. /\ hosts[h] # None /\ hosts[h].live /\ hosts'[h] # None /\ ~hosts'[h].live
          /\ hosts'[h].userId = hosts[h].userId
          /\ \A q \in Requests \ {h} : hosts'[q] = hosts[q]
          /\ pairingCodes' = pairingCodes
        BY <1>2, <2>3, RemoveWrites
    <3>2. keeper[h] # None
        BY <1>2, <3>1, NoneAssumption DEF IInv, TypeOK, HostRow
    <3>3. revoked' = revoked \cup {h}
        BY <3>1
    <3>4. UNCHANGED <<holder, pairedTo, keeper>>
        BY <3>1
    <3> QED
        BY <3>2, <3>3, <3>4 DEF Ledger!Next, Ledger!Revoke
  <2>4. CASE UNCHANGED <<pairingCodes, hosts>>
      BY <2>4 DEF Ledger!vars
  <2> QED
      BY <1>2, <2>1, <2>2, <2>3, <2>4, OnlyThreeActionsWrite
<1> QED
    BY <1>1, <1>2, Invariance, PTL DEF Spec, ImplementsLedger, Ledger!Spec

=============================================================================
