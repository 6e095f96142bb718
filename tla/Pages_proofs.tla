---------------------------- MODULE Pages_proofs ----------------------------
(***************************************************************************)
(* Proofs about the small components of MCPages: for any number of forms,  *)
(* panels, visits and runs, and for any bound, what the waiting list, the  *)
(* notices, the hourly strip, the live readings, the page of a server, the *)
(* log panels, the matcher of schedules and the dashboard promise.         *)
(***************************************************************************)
EXTENDS MCPages, OrderBy_proofs, TLAPS

(* Every step is a step of each component, or leaves it alone.             *)
LEMMA PagesStep ==
    ASSUME [PagesNext]_<<part, logVars, metVars, pageVars, prefVars, waitVars, uptimeVars,
                         fleetVars, vars>>
    PROVE  /\ [LogNext]_logVars /\ [MetNext]_metVars /\ [PageNext]_pageVars /\ [PrefNext]_prefVars
           /\ [WaitNext]_waitVars /\ [UptimeNext]_uptimeVars /\ [FleetNext]_fleetVars
           /\ [Next]_vars /\ UNCHANGED part
<1>1. CASE PagesNext
  BY <1>1, Zenon DEF PagesNext, LogPart, MetricsPart, ServerPart, PreferencesPart, WaitlistPart, UptimePart,
     FleetPart, CronPart
<1>2. CASE UNCHANGED <<part, logVars, metVars, pageVars, prefVars, waitVars, uptimeVars,
                       fleetVars, vars>>
  BY <1>2
<1> QED
  BY <1>1, <1>2

-----------------------------------------------------------------------------
(* The waiting list.                                                       *)

(* The link of a join works, or there is a reason why not.                 *)
Explained(j) == j = signup.token \/ signup.row = "confirmed" \/ j \in replaced

WaitInv ==
    /\ WaitTypeOK
    /\ WaitlistHolds
    /\ \A j \in Joins :
          /\ joining[j].pc = "mail" => signup.row # "none" /\ Explained(j)
          /\ joining[j].pc = "write" => joining[j].existing # "confirmed"
          /\ joining[j].pc = "write" /\ joining[j].existing = "pending" => signup.row # "none"
    /\ \A v \in Visits : visit[v] = "found" => signup.row # "none"

LEMMA WaitStart == WaitInit => WaitInv
  BY WaitlistAssumption DEF WaitInit, WaitInv, WaitTypeOK, WaitlistHolds, Signup, SeenRow, Explained,
     DeadLinksAreExplained, ConfirmedHasNoToken, InIsTrue

Joining == [pc : {"idle", "select", "write", "mail", "in", "error"}, existing : SeenRow]

(* The row moves on only: from none to pending to confirmed.               *)
RowGoesOn ==
    /\ signup' \in Signup /\ replaced' \subseteq Joins
    /\ (signup'.row = "pending") <=> (signup'.token # NoToken)
    /\ signup.row # "none" => signup'.row # "none"
    /\ signup.row = "confirmed" => signup'.row = "confirmed"
    /\ \A j \in Joins : Explained(j) => Explained(j)'

(* A step in which the row goes on, and one join moves to x.               *)
LEMMA JoinGoesOn ==
    ASSUME WaitInv, RowGoesOn, NEW j \in Joins, NEW x \in Joining, joining' = [joining EXCEPT ![j] = x],
           /\ x.pc = "mail" => signup'.row # "none" /\ Explained(j)'
           /\ x.pc = "write" => x.existing # "confirmed"
           /\ x.pc = "write" /\ x.existing = "pending" => signup'.row # "none"
           /\ x.pc = "in" => signup'.row # "none",
           inbox' \subseteq Joins, \A k \in inbox' : Explained(k)', visit' = visit
    PROVE  WaitInv'
<1>1. joining \in [Joins -> Joining]
  BY DEF WaitInv, WaitTypeOK, Joining
<1>2. joining' \in [Joins -> Joining] /\ \A k \in Joins : joining'[k] = IF k = j THEN x ELSE joining[k]
  BY <1>1
<1>3. WaitTypeOK'
  BY <1>2 DEF WaitInv, WaitTypeOK, RowGoesOn, Joining
<1>4. DeadLinksAreExplained' /\ ConfirmedHasNoToken'
  BY DEF DeadLinksAreExplained, ConfirmedHasNoToken, RowGoesOn, Explained
<1>5. ASSUME NEW k \in Joins
      PROVE  /\ joining'[k].pc = "mail" => signup'.row # "none" /\ Explained(k)'
             /\ joining'[k].pc = "write" => joining'[k].existing # "confirmed"
             /\ joining'[k].pc = "write" /\ joining'[k].existing = "pending" => signup'.row # "none"
             /\ joining'[k].pc = "in" => signup'.row # "none"
  <2>1. CASE k = j
    BY <1>2, <2>1
  <2>2. CASE k # j
    <3>1. joining'[k] = joining[k]
      BY <1>2, <2>2
    <3>2. Explained(k) => Explained(k)'
      BY DEF RowGoesOn
    <3> QED
      BY <3>1, <3>2 DEF WaitInv, WaitlistHolds, InIsTrue, RowGoesOn
  <2> QED
    BY <2>1, <2>2
<1>6. \A v \in Visits : /\ visit'[v] = "in" => signup'.row = "confirmed"
                        /\ visit'[v] = "found" => signup'.row # "none"
  BY DEF WaitInv, WaitlistHolds, InIsTrue, RowGoesOn
<1>7. InIsTrue'
  BY <1>5, <1>6 DEF InIsTrue
<1> QED
  BY <1>3, <1>4, <1>5, <1>6, <1>7 DEF WaitInv, WaitlistHolds

(* A step in which the row goes on, and one visit.                         *)
LEMMA VisitGoesOn ==
    ASSUME WaitInv, RowGoesOn, joining' = joining, inbox' = inbox,
           NEW v \in Visits, NEW to \in {"found", "in", "refused"}, visit' = [visit EXCEPT ![v] = to],
           to = "in" => signup'.row = "confirmed", to = "found" => signup'.row # "none"
    PROVE  WaitInv'
<1>1. WaitTypeOK'
  BY DEF WaitInv, WaitTypeOK, RowGoesOn
<1>2. DeadLinksAreExplained' /\ ConfirmedHasNoToken'
  BY DEF DeadLinksAreExplained, ConfirmedHasNoToken, RowGoesOn, Explained, WaitInv, WaitlistHolds,
     WaitTypeOK
<1>3. \A w \in Visits : /\ visit'[w] = "in" => signup'.row = "confirmed"
                        /\ visit'[w] = "found" => signup'.row # "none"
  BY DEF WaitInv, WaitlistHolds, InIsTrue, RowGoesOn, WaitTypeOK
<1>4. InIsTrue'
  BY <1>3 DEF InIsTrue, WaitInv, WaitlistHolds, RowGoesOn
<1>5. ASSUME NEW k \in Joins
      PROVE  /\ joining'[k].pc = "mail" => signup'.row # "none" /\ Explained(k)'
             /\ joining'[k].pc = "write" => joining'[k].existing # "confirmed"
             /\ joining'[k].pc = "write" /\ joining'[k].existing = "pending" => signup'.row # "none"
  BY DEF WaitInv, RowGoesOn
<1> QED
  BY <1>1, <1>2, <1>3, <1>4, <1>5 DEF WaitInv, WaitlistHolds

LEMMA RowUnchanged ==
    ASSUME WaitInv, signup' = signup, replaced' = replaced
    PROVE  RowGoesOn
  BY DEF WaitInv, WaitTypeOK, WaitlistHolds, ConfirmedHasNoToken, RowGoesOn, Explained

LEMMA JoinFields ==
    ASSUME WaitInv, NEW j \in Joins, NEW pc \in {"idle", "select", "write", "mail", "in", "error"},
           joining' = [joining EXCEPT ![j].pc = pc]
    PROVE  \E x \in Joining : /\ joining' = [joining EXCEPT ![j] = x]
                              /\ x.pc = pc /\ x.existing = joining[j].existing
<1> DEFINE x == [joining[j] EXCEPT !.pc = pc]
<1>1. joining \in [Joins -> Joining]
  BY DEF WaitInv, WaitTypeOK, Joining
<1>2. x \in Joining /\ x.pc = pc /\ x.existing = joining[j].existing
  BY <1>1 DEF Joining
<1>3. joining' = [joining EXCEPT ![j] = x]
  BY <1>1
<1> HIDE DEF x
<1> QED
  BY <1>2, <1>3

LEMMA ReissueKeeps ==
    ASSUME WaitInv, NEW j \in Joins, ReissueToken(j)
    PROVE  WaitInv'
<1>1. PICK x \in Joining : joining' = [joining EXCEPT ![j] = x] /\ x.pc = "mail"
  BY JoinFields DEF ReissueToken
<1>2. signup \in Signup /\ (signup.row = "pending" <=> signup.token # NoToken) /\ signup.row # "none"
  BY DEF WaitInv, WaitTypeOK, WaitlistHolds, ConfirmedHasNoToken, ReissueToken
<1>3. CASE signup.row = "pending"
  <2>1. signup' = [signup EXCEPT !.token = j] /\ replaced' = replaced \cup {signup.token}
    BY <1>3 DEF ReissueToken
  <2>2. signup' \in Signup /\ signup'.row = "pending" /\ signup'.token = j
    BY <1>2, <1>3, <2>1 DEF Signup
  <2>3. signup.token \in Joins
    BY <1>2, <1>3 DEF Signup
  <2>4. RowGoesOn
    BY <1>2, <1>3, <2>1, <2>2, <2>3, WaitlistAssumption DEF RowGoesOn, Explained, WaitInv, WaitTypeOK
  <2>5. Explained(j)'
    BY <2>2 DEF Explained
  <2>6. inbox' \subseteq Joins /\ visit' = visit /\ \A k \in inbox' : Explained(k)'
    BY <2>4 DEF ReissueToken, WaitInv, WaitTypeOK, WaitlistHolds, DeadLinksAreExplained, RowGoesOn,
       Explained
  <2> QED
    BY <1>1, <2>2, <2>4, <2>5, <2>6, JoinGoesOn
<1>4. CASE signup.row # "pending"
  <2>1. signup' = signup /\ replaced' = replaced /\ inbox' = inbox /\ visit' = visit
    BY <1>4 DEF ReissueToken
  <2>2. signup.row = "confirmed"
    BY <1>2, <1>4 DEF Signup, SeenRow
  <2>3. RowGoesOn
    BY <2>1, RowUnchanged
  <2>4. Explained(j)' /\ \A k \in inbox' : Explained(k)'
    BY <2>1, <2>2 DEF Explained
  <2>5. inbox' \subseteq Joins
    BY <2>1 DEF WaitInv, WaitTypeOK
  <2> QED
    BY <1>1, <2>1, <2>2, <2>3, <2>4, <2>5, JoinGoesOn
<1> QED
  BY <1>3, <1>4

LEMMA InsertKeeps ==
    ASSUME WaitInv, NEW j \in Joins, InsertSignup(j)
    PROVE  WaitInv'
<1>1. CASE signup.row = "none"
  <2>1. PICK x \in Joining : joining' = [joining EXCEPT ![j] = x] /\ x.pc = "mail"
    BY <1>1, JoinFields DEF InsertSignup
  <2>2. /\ signup' = [row |-> "pending", token |-> j] /\ signup.token = NoToken
        /\ replaced' = replaced /\ inbox' = inbox /\ visit' = visit
    BY <1>1 DEF InsertSignup, WaitInv, WaitlistHolds, ConfirmedHasNoToken
  <2>3. RowGoesOn
    BY <1>1, <2>2, WaitlistAssumption DEF RowGoesOn, Explained, WaitInv, WaitTypeOK, Signup, SeenRow
  <2>4. Explained(j)' /\ signup'.row # "none"
    BY <2>2 DEF Explained
  <2>5. inbox' \subseteq Joins /\ \A k \in inbox' : Explained(k)'
    BY <2>2, <2>3 DEF WaitInv, WaitTypeOK, WaitlistHolds, DeadLinksAreExplained, RowGoesOn, Explained
  <2> QED
    BY <2>1, <2>2, <2>3, <2>4, <2>5, JoinGoesOn
<1>2. CASE signup.row # "none"
  <2>1. PICK x \in Joining : joining' = [joining EXCEPT ![j] = x] /\ x.pc = "error"
    BY <1>2, JoinFields DEF InsertSignup
  <2>2. signup' = signup /\ replaced' = replaced /\ inbox' = inbox /\ visit' = visit
    BY <1>2 DEF InsertSignup
  <2>3. RowGoesOn
    BY <2>2, RowUnchanged
  <2>4. inbox' \subseteq Joins /\ \A k \in inbox' : Explained(k)'
    BY <2>2 DEF WaitInv, WaitTypeOK, WaitlistHolds, DeadLinksAreExplained, Explained
  <2> QED
    BY <2>1, <2>2, <2>3, <2>4, JoinGoesOn
<1> QED
  BY <1>1, <1>2

LEMMA OtherJoinsKeep ==
    ASSUME WaitInv, NEW j \in Joins,
           SubmitEmail(j) \/ FindExisting(j) \/ SendConfirmation(j) \/ JoinFails(j)
    PROVE  WaitInv'
<1>1. signup' = signup /\ replaced' = replaced /\ visit' = visit
  BY DEF SubmitEmail, FindExisting, SendConfirmation, JoinFails
<1>2. RowGoesOn
  BY <1>1, RowUnchanged
<1>3. inbox \subseteq Joins /\ \A k \in inbox : Explained(k)'
  BY <1>1 DEF WaitInv, WaitTypeOK, WaitlistHolds, DeadLinksAreExplained, Explained
<1>4. CASE SubmitEmail(j) \/ JoinFails(j)
  <2>1. PICK x \in Joining : joining' = [joining EXCEPT ![j] = x] /\ x.pc \in {"select", "error"}
    BY <1>4, JoinFields DEF SubmitEmail, JoinFails
  <2>2. inbox' = inbox
    BY <1>4 DEF SubmitEmail, JoinFails
  <2> QED
    BY <1>1, <1>2, <1>3, <2>1, <2>2, JoinGoesOn
<1>5. CASE FindExisting(j)
  <2> DEFINE x == [pc |-> IF signup.row = "confirmed" THEN "in" ELSE "write", existing |-> signup.row]
  <2>1. /\ x \in Joining /\ x.existing = signup.row
        /\ x.pc = IF signup.row = "confirmed" THEN "in" ELSE "write"
    BY DEF WaitInv, WaitTypeOK, Signup, Joining
  <2>2. joining' = [joining EXCEPT ![j] = x] /\ inbox' = inbox
    BY <1>5 DEF FindExisting
  <2> HIDE DEF x
  <2> QED
    BY <1>1, <1>2, <1>3, <2>1, <2>2, JoinGoesOn
<1>6. CASE SendConfirmation(j)
  <2>1. PICK x \in Joining : joining' = [joining EXCEPT ![j] = x] /\ x.pc = "in"
    BY <1>6, JoinFields DEF SendConfirmation
  <2>2. inbox' = inbox \cup {j} /\ signup.row # "none" /\ Explained(j)
    BY <1>6 DEF SendConfirmation, WaitInv
  <2>3. inbox' \subseteq Joins /\ \A k \in inbox' : Explained(k)'
    BY <1>1, <1>3, <2>2 DEF Explained
  <2> QED
    BY <1>1, <1>2, <2>1, <2>2, <2>3, JoinGoesOn
<1> QED
  BY <1>4, <1>5, <1>6

LEMMA VisitsKeep ==
    ASSUME WaitInv, NEW v \in Visits,
           ConfirmById(v) \/ ConfirmFails(v) \/ \E t \in Joins : FindByToken(v, t)
    PROVE  WaitInv'
<1>1. CASE ConfirmById(v)
  <2>1. /\ signup' = [row |-> "confirmed", token |-> NoToken] /\ visit' = [visit EXCEPT ![v] = "in"]
        /\ joining' = joining /\ inbox' = inbox /\ replaced' = replaced
    BY <1>1 DEF ConfirmById
  <2>2. RowGoesOn
    BY <2>1 DEF RowGoesOn, Explained, WaitInv, WaitTypeOK, Signup, SeenRow
  <2> QED
    BY <2>1, <2>2, VisitGoesOn
<1>2. CASE ConfirmFails(v)
  <2>1. /\ signup' = signup /\ visit' = [visit EXCEPT ![v] = "refused"]
        /\ joining' = joining /\ inbox' = inbox /\ replaced' = replaced
    BY <1>2 DEF ConfirmFails
  <2> QED
    BY <2>1, RowUnchanged, VisitGoesOn
<1>3. CASE \E t \in Joins : FindByToken(v, t)
  <2>1. PICK t \in Joins : FindByToken(v, t)
    BY <1>3
  <2> DEFINE to == IF signup.token # t THEN "refused"
                   ELSE IF signup.row = "confirmed" THEN "in" ELSE "found"
  <2>2. /\ signup' = signup /\ visit' = [visit EXCEPT ![v] = to]
        /\ joining' = joining /\ inbox' = inbox /\ replaced' = replaced
    BY <2>1 DEF FindByToken
  <2>3. /\ to \in {"found", "in", "refused"} /\ (to = "in" => signup.row = "confirmed")
        /\ to = "found" => signup.row # "none"
    BY WaitlistAssumption DEF WaitInv, WaitlistHolds, ConfirmedHasNoToken
  <2> HIDE DEF to
  <2> QED
    BY <2>2, <2>3, RowUnchanged, VisitGoesOn
<1> QED
  BY <1>1, <1>2, <1>3

LEMMA WaitStep == WaitInv /\ [WaitNext]_waitVars => WaitInv'
<1> SUFFICES ASSUME WaitInv, [WaitNext]_waitVars PROVE WaitInv'
  OBVIOUS
<1>1. CASE WaitNext
  BY <1>1, ReissueKeeps, InsertKeeps, OtherJoinsKeep, VisitsKeep DEF WaitNext
<1>2. CASE UNCHANGED waitVars
  BY <1>2 DEF waitVars, WaitInv, WaitTypeOK, WaitlistHolds, DeadLinksAreExplained,
     ConfirmedHasNoToken, InIsTrue, Explained
<1> QED
  BY <1>1, <1>2

(* However forms, mails and visits interleave and fail: a link that was    *)
(* mailed is good, or the address is confirmed, or a later form has        *)
(* replaced it; a confirmed address has no token again; who is told to be  *)
(* in is.                                                                  *)
THEOREM WaitlistTrue == PagesSpec => []WaitlistIsTrue
<1>1. PagesInit => WaitInv
  BY WaitStart DEF PagesInit
<1>2. WaitInv /\ [PagesNext]_<<part, logVars, metVars, pageVars, prefVars, waitVars, uptimeVars,
                               fleetVars, vars>> => WaitInv'
  BY PagesStep, WaitStep
<1>3. WaitInv => WaitlistIsTrue
  BY DEF WaitInv, WaitlistIsTrue
<1> QED
  BY <1>1, <1>2, <1>3, PTL DEF PagesSpec

-----------------------------------------------------------------------------
(* Notices and the form of their preferences.                              *)

Creating == [pc : {"idle", "load", "insert", "email"}, type : NoticeTypes \cup {NoType}, pref : Settings2]
Form == [at : {"away", "shown"}, state : [NoticeTypes -> Settings2], status : {"idle", "saved", "err"},
         saving : BOOLEAN, payload : [NoticeTypes -> Settings2]]

(* What a run has read was in force, and it has the channel it is at; what *)
(* is stored while it has not read yet is in force too.                    *)
RunHolds(x, force) ==
    /\ x.pc = "load" => x.type \in NoticeTypes /\ stored2[x.type] \in force
    /\ x.pc \in {"insert", "email"} => x.pref \in force
    /\ x.pc = "insert" => "inApp" \in x.pref
    /\ x.pc = "email" => "email" \in x.pref

(* A form that is being saved shows what was sent.                         *)
FormHolds ==
    /\ ~behind /\ prefForm.status = "saved" => prefForm.state = stored2
    /\ ~behind /\ prefForm.saving => prefForm.payload = prefForm.state

PrefInv ==
    /\ PrefTypeOK
    /\ ~unwanted
    /\ FormHolds
    /\ \A c \in Creations : RunHolds(creating[c], inForce[c])

LEMMA PrefStart == PrefInit => PrefInv
<1> SUFFICES ASSUME PrefInit PROVE PrefInv
  OBVIOUS
<1>1. NotCreating \in Creating /\ NotCreating.pc = "idle"
  BY DEF NotCreating, Creating, Settings2
<1>2. NoForm \in Form /\ NoForm.status = "idle" /\ ~NoForm.saving
  BY DEF NoForm, Form, Settings2, defaultsFor, Channels
<1>3. stored2 \in [NoticeTypes -> Settings2] /\ inForce \in [Creations -> SUBSET Settings2]
  BY DEF PrefInit, Settings2, defaultsFor, Channels
<1>4. creating \in [Creations -> Creating] /\ prefForm \in Form
  BY <1>1, <1>2 DEF PrefInit
<1>5. PrefTypeOK
  BY <1>3, <1>4 DEF PrefTypeOK, PrefInit, Creating, Form
<1>6. FormHolds /\ \A c \in Creations : RunHolds(creating[c], inForce[c])
  BY <1>1, <1>2 DEF PrefInit, FormHolds, RunHolds
<1> QED
  BY <1>5, <1>6 DEF PrefInv, PrefInit

LEMMA PrefFields ==
    ASSUME PrefInv
    PROVE  /\ stored2 \in [NoticeTypes -> Settings2] /\ creating \in [Creations -> Creating]
           /\ inForce \in [Creations -> SUBSET Settings2] /\ prefForm \in Form
           /\ prefForm.state \in [NoticeTypes -> Settings2] /\ prefForm.payload \in [NoticeTypes -> Settings2]
           /\ prefForm.saving \in BOOLEAN
           /\ \A c \in Creations : /\ creating[c].type \in NoticeTypes \cup {NoType}
                                   /\ creating[c].pref \in Settings2
  BY DEF PrefInv, PrefTypeOK, Creating, Form

(* A step of one run, to x.                                                *)
LEMMA RunGoesOn ==
    ASSUME PrefInv, NEW c \in Creations, NEW x \in Creating, NEW force \in SUBSET Settings2,
           creating' = [creating EXCEPT ![c] = x], inForce' = [inForce EXCEPT ![c] = force],
           RunHolds(x, force), unwanted' = FALSE,
           stored2' = stored2, prefForm' = prefForm, behind' = behind
    PROVE  PrefInv'
<1>1. /\ \A d \in Creations : d # c => creating'[d] = creating[d] /\ inForce'[d] = inForce[d]
      /\ creating'[c] = x /\ inForce'[c] = force
      /\ creating' \in [Creations -> Creating] /\ inForce' \in [Creations -> SUBSET Settings2]
  BY PrefFields
<1>2. PrefTypeOK'
  BY <1>1 DEF PrefInv, PrefTypeOK, Creating
<1>3. FormHolds'
  BY DEF PrefInv, FormHolds
<1>4. ASSUME NEW d \in Creations PROVE RunHolds(creating[d], inForce[d])'
  BY <1>1 DEF PrefInv, RunHolds
<1> QED
  BY <1>2, <1>3, <1>4 DEF PrefInv

LEMMA NotCreatingHolds ==
    ASSUME NEW force PROVE NotCreating \in Creating /\ RunHolds(NotCreating, force)
  BY DEF NotCreating, Creating, Settings2, RunHolds

LEMMA RaiseKeeps ==
    ASSUME PrefInv, NEW c \in Creations, NEW t \in NoticeTypes, Raise(c, t)
    PROVE  PrefInv'
<1> DEFINE x == [pc |-> "load", type |-> t, pref |-> {}]
<1>1. x \in Creating /\ RunHolds(x, {stored2[t]}) /\ {stored2[t]} \in SUBSET Settings2
  BY PrefFields DEF Creating, RunHolds, Settings2
<1>2. /\ creating' = [creating EXCEPT ![c] = x] /\ inForce' = [inForce EXCEPT ![c] = {stored2[t]}]
      /\ unwanted' = FALSE /\ stored2' = stored2 /\ prefForm' = prefForm /\ behind' = behind
  BY DEF Raise, PrefInv, PrefTypeOK
<1> HIDE DEF x
<1> QED
  BY <1>1, <1>2, RunGoesOn

(* Runs that move and leave what is in force alone.                        *)
LEMMA RunMoves ==
    ASSUME PrefInv, NEW c \in Creations, NEW x \in Creating,
           creating' = [creating EXCEPT ![c] = x], inForce' = inForce,
           RunHolds(x, inForce[c]), unwanted' = FALSE,
           stored2' = stored2, prefForm' = prefForm, behind' = behind
    PROVE  PrefInv'
<1>1. inForce' = [inForce EXCEPT ![c] = inForce[c]] /\ inForce[c] \in SUBSET Settings2
  BY PrefFields
<1> QED
  BY <1>1, RunGoesOn

LEMMA LoadPreferenceKeeps ==
    ASSUME PrefInv, NEW c \in Creations, LoadPreference(c)
    PROVE  PrefInv'
<1> DEFINE pref == stored2[creating[c].type]
           pc == IF "inApp" \in pref THEN "insert" ELSE "email"
           x == [creating[c] EXCEPT !.pref = pref, !.pc = pc]
<1>1. /\ inForce' = inForce /\ unwanted' = FALSE /\ stored2' = stored2 /\ prefForm' = prefForm
      /\ behind' = behind
  BY DEF LoadPreference, PrefInv, PrefTypeOK
<1>2. pref \in Settings2 /\ pref \in inForce[c]
  BY PrefFields DEF LoadPreference, PrefInv, RunHolds
<1>3. CASE pref = {}
  <2>1. creating' = [creating EXCEPT ![c] = NotCreating]
    BY <1>3 DEF LoadPreference
  <2> QED
    BY <1>1, <2>1, NotCreatingHolds, RunMoves
<1>4. CASE pref # {}
  <2>1. x \in Creating /\ x.pc = pc /\ x.pref = pref
    BY <1>2, PrefFields DEF Creating
  <2>2. creating' = [creating EXCEPT ![c] = x]
    BY <1>4, PrefFields DEF LoadPreference, Creating
  <2>3. "inApp" \notin pref => "email" \in pref
    BY <1>2, <1>4 DEF Settings2, Channels
  <2>4. ("inApp" \in pref /\ pc = "insert") \/ ("inApp" \notin pref /\ pc = "email")
    OBVIOUS
  <2> HIDE DEF x, pc
  <2>5. RunHolds(x, inForce[c])
    BY <1>2, <2>1, <2>3, <2>4 DEF RunHolds
  <2> HIDE DEF pref
  <2> QED
    BY <1>1, <2>1, <2>2, <2>5, RunMoves
<1> QED
  BY <1>3, <1>4

(* What a run delivers was wanted.                                         *)
LEMMA Wanted ==
    ASSUME PrefInv, NEW c \in Creations, NEW channel \in creating[c].pref,
           creating[c].pc \in {"insert", "email"}, Delivered(c, channel) \/ UNCHANGED unwanted
    PROVE  unwanted' = FALSE
  BY DEF PrefInv, PrefTypeOK, RunHolds, Delivered

LEMMA DeliverKeeps ==
    ASSUME PrefInv, NEW c \in Creations, InsertNotice(c) \/ SendEmail(c) \/ CreateFails(c)
    PROVE  PrefInv'
<1>1. stored2' = stored2 /\ inForce' = inForce /\ prefForm' = prefForm /\ behind' = behind
  BY DEF InsertNotice, SendEmail, CreateFails
<1>2. unwanted' = FALSE
  <2>1. CASE InsertNotice(c)
    <3>1. "inApp" \in creating[c].pref
      BY <2>1 DEF InsertNotice, PrefInv, RunHolds
    <3> QED
      BY <2>1, <3>1, Wanted DEF InsertNotice
  <2>2. CASE SendEmail(c)
    <3>1. "email" \in creating[c].pref
      BY <2>2 DEF SendEmail, PrefInv, RunHolds
    <3> QED
      BY <2>2, <3>1, Wanted DEF SendEmail
  <2>3. CASE CreateFails(c)
    BY <2>3 DEF CreateFails, PrefInv, PrefTypeOK
  <2> QED
    BY <2>1, <2>2, <2>3
<1>3. CASE creating' = [creating EXCEPT ![c] = NotCreating]
  BY <1>1, <1>2, <1>3, NotCreatingHolds, RunMoves
<1>4. CASE InsertNotice(c) /\ "email" \in creating[c].pref
  <2> DEFINE x == [creating[c] EXCEPT !.pc = "email"]
  <2>1. x \in Creating /\ x.pc = "email" /\ x.pref = creating[c].pref
    BY PrefFields DEF Creating
  <2>2. creating' = [creating EXCEPT ![c] = x]
    BY <1>4, PrefFields DEF InsertNotice
  <2>3. creating[c].pref \in inForce[c]
    BY <1>4 DEF InsertNotice, PrefInv, RunHolds
  <2> HIDE DEF x
  <2>4. RunHolds(x, inForce[c])
    BY <1>4, <2>1, <2>3 DEF RunHolds
  <2> QED
    BY <1>1, <1>2, <2>1, <2>2, <2>4, RunMoves
<1>5. CASE InsertNotice(c) /\ "email" \notin creating[c].pref
  <2>1. creating' = [creating EXCEPT ![c] = NotCreating]
    BY <1>5, PrefFields DEF InsertNotice
  <2> QED
    BY <1>3, <2>1
<1> QED
  BY <1>3, <1>4, <1>5 DEF SendEmail, CreateFails

(* A step of the form that stores nothing.                                 *)
LEMMA FormMoves ==
    ASSUME PrefInv, prefForm' \in Form, behind' \in BOOLEAN, FormHolds',
           stored2' = stored2, creating' = creating, inForce' = inForce, unwanted' = unwanted
    PROVE  PrefInv'
  BY DEF PrefInv, PrefTypeOK, Form, RunHolds

LEMMA OpenFormKeeps ==
    ASSUME PrefInv, OpenForm \/ LeaveForm
    PROVE  PrefInv'
<1> DEFINE shown == [NoForm EXCEPT !.at = "shown", !.state = stored2]
<1>1. NoForm \in Form /\ NoForm.status = "idle" /\ ~NoForm.saving
  BY DEF NoForm, Form, Settings2, defaultsFor, Channels
<1>2. shown \in Form /\ shown.status = "idle" /\ ~shown.saving
  BY <1>1, PrefFields DEF Form, NoForm
<1>3. prefForm' = shown \/ prefForm' = NoForm
  BY DEF OpenForm, LeaveForm
<1> HIDE DEF shown
<1>4. prefForm' \in Form /\ prefForm'.status = "idle" /\ ~prefForm'.saving
  BY <1>1, <1>2, <1>3
<1>5. FormHolds'
  BY <1>4 DEF FormHolds
<1>6. behind' \in BOOLEAN
  BY DEF OpenForm, LeaveForm, PrefInv, PrefTypeOK
<1> QED
  BY <1>4, <1>5, <1>6, FormMoves DEF OpenForm, LeaveForm

LEMMA ToggleKeeps ==
    ASSUME PrefInv, NEW t \in NoticeTypes, NEW channel \in Channels, Toggle(t, channel)
    PROVE  PrefInv'
<1> DEFINE on == prefForm.state[t]
           now == IF channel \in on THEN on \ {channel} ELSE on \cup {channel}
           state == [prefForm.state EXCEPT ![t] = now]
           x == [prefForm EXCEPT !.state = state, !.status = "idle"]
<1>1. now \in Settings2
  BY PrefFields DEF Settings2
<1> HIDE DEF now
<1>2. state \in [NoticeTypes -> Settings2]
  BY <1>1, PrefFields
<1>3. prefForm' = x
  BY PrefFields DEF Toggle, Form, now
<1> HIDE DEF state
<1>4. x \in Form /\ x.status = "idle" /\ x.saving = prefForm.saving
  BY <1>2, PrefFields DEF Form
<1> HIDE DEF x
<1>5. behind' \in BOOLEAN /\ (prefForm.saving => behind')
  BY PrefFields DEF Toggle, PrefInv, PrefTypeOK
<1>6. FormHolds'
  BY <1>3, <1>4, <1>5 DEF FormHolds
<1> QED
  BY <1>3, <1>4, <1>5, <1>6, FormMoves DEF Toggle

LEMMA SaveKeeps ==
    ASSUME PrefInv, Save \/ SaveFails
    PROVE  PrefInv'
<1>1. CASE Save
  <2> DEFINE x == [prefForm EXCEPT !.saving = TRUE, !.status = "idle", !.payload = prefForm.state]
  <2>1. x \in Form /\ x.status = "idle" /\ x.payload = x.state
    BY PrefFields DEF Form
  <2>2. prefForm' = x
    BY <1>1 DEF Save
  <2> HIDE DEF x
  <2>3. FormHolds'
    BY <2>1, <2>2 DEF FormHolds
  <2> QED
    BY <1>1, <2>1, <2>2, <2>3, FormMoves DEF Save
<1>2. CASE SaveFails
  <2> DEFINE x == [prefForm EXCEPT !.saving = FALSE, !.status = "err"]
  <2>1. x \in Form /\ x.status = "err" /\ ~x.saving
    BY PrefFields DEF Form
  <2>2. prefForm' = x
    BY <1>2 DEF SaveFails
  <2> HIDE DEF x
  <2>3. FormHolds' /\ behind' \in BOOLEAN
    BY <1>2, <2>1, <2>2 DEF FormHolds, SaveFails, PrefInv, PrefTypeOK
  <2> QED
    BY <1>2, <2>1, <2>2, <2>3, FormMoves DEF SaveFails
<1> QED
  BY <1>1, <1>2

(* What is stored is in force for every run that has not read yet.         *)
LEMMA StoreKeeps ==
    ASSUME PrefInv, NEW new \in [NoticeTypes -> Settings2], Stored(new),
           creating' = creating, unwanted' = unwanted, prefForm' \in Form, behind' \in BOOLEAN,
           FormHolds'
    PROVE  PrefInv'
<1>1. stored2' = new /\ inForce' = [c \in Creations |-> IF creating[c].pc = "load"
                                    THEN inForce[c] \cup {new[creating[c].type]} ELSE inForce[c]]
  BY DEF Stored
<1>2. ASSUME NEW c \in Creations
      PROVE  inForce'[c] \in SUBSET Settings2 /\ RunHolds(creating[c], inForce[c])'
  <2>1. CASE creating[c].pc = "load"
    <3>1. creating[c].type \in NoticeTypes /\ inForce[c] \subseteq Settings2
      BY <2>1, PrefFields DEF PrefInv, RunHolds
    <3>2. inForce'[c] = inForce[c] \cup {new[creating[c].type]}
      BY <1>1, <2>1
    <3> QED
      BY <1>1, <2>1, <3>1, <3>2 DEF RunHolds
  <2>2. CASE creating[c].pc # "load"
    <3>1. inForce'[c] = inForce[c]
      BY <1>1, <2>2
    <3> QED
      BY <2>2, <3>1, PrefFields DEF PrefInv, RunHolds
  <2> QED
    BY <2>1, <2>2
<1>3. inForce' \in [Creations -> SUBSET Settings2]
  BY <1>1, <1>2
<1>4. PrefTypeOK'
  BY <1>1, <1>3 DEF PrefInv, PrefTypeOK, Form
<1> QED
  BY <1>2, <1>4 DEF PrefInv

LEMMA SaveCommitsKeeps ==
    ASSUME PrefInv, SaveCommits
    PROVE  PrefInv'
<1> DEFINE x == [prefForm EXCEPT !.saving = FALSE, !.status = "saved"]
<1>1. x \in Form /\ ~x.saving /\ x.state = prefForm.state
  BY PrefFields DEF Form
<1>2. prefForm' = x /\ stored2' = prefForm.payload /\ behind' = behind /\ prefForm.saving
  BY DEF SaveCommits, Stored
<1> HIDE DEF x
<1>3. FormHolds'
  BY <1>1, <1>2 DEF FormHolds, PrefInv
<1>4. prefForm' \in Form /\ behind' \in BOOLEAN
  BY <1>1, <1>2 DEF PrefInv, PrefTypeOK
<1> QED
  BY <1>3, <1>4, PrefFields, StoreKeeps DEF SaveCommits

LEMMA SaveElsewhereKeeps ==
    ASSUME PrefInv, NEW new \in [NoticeTypes -> Settings2], SaveElsewhere(new)
    PROVE  PrefInv'
<1>1. FormHolds' /\ prefForm' \in Form /\ behind' \in BOOLEAN
  BY PrefFields DEF SaveElsewhere, FormHolds
<1> QED
  BY <1>1, StoreKeeps DEF SaveElsewhere

LEMMA PrefStep == PrefInv /\ [PrefNext]_prefVars => PrefInv'
<1> SUFFICES ASSUME PrefInv, [PrefNext]_prefVars PROVE PrefInv'
  OBVIOUS
<1>1. CASE PrefNext
  BY <1>1, RaiseKeeps, LoadPreferenceKeeps, DeliverKeeps, OpenFormKeeps, ToggleKeeps, SaveKeeps,
     SaveCommitsKeeps, SaveElsewhereKeeps DEF PrefNext
<1>2. CASE UNCHANGED prefVars
  BY <1>2 DEF prefVars, PrefInv, PrefTypeOK, FormHolds, RunHolds
<1> QED
  BY <1>1, <1>2

(* Whatever is saved while events are handled, a notice is delivered on a  *)
(* channel only if its type had the channel on at some time since its      *)
(* event; a form that says it is saved shows what is stored, or has been   *)
(* overtaken.                                                              *)
THEOREM NoticesWanted == PagesSpec => []NoticesAreWanted
<1>1. PagesInit => PrefInv
  BY PrefStart DEF PagesInit
<1>2. PrefInv /\ [PagesNext]_<<part, logVars, metVars, pageVars, prefVars, waitVars, uptimeVars,
                               fleetVars, vars>> => PrefInv'
  BY PagesStep, PrefStep
<1>3. PrefInv => NoticesAreWanted
  BY DEF PrefInv, NoticesAreWanted, PreferencesHold, DeliveredWasOn, SavedIsStored, FormHolds
<1> QED
  BY <1>1, <1>2, <1>3, PTL DEF PagesSpec

-----------------------------------------------------------------------------
(* The hourly strip.                                                       *)

(* The platform's time zone is whole hours from UTC.                       *)
WholeHours == ZoneOffset % 2 = 0

(* The first hour of a strip that is drawn at t.                           *)
Cutoff(t) == UtcHourBucket(t) - 2 * (WindowHours - 1)

Strip == [pc : {"away", "read", "drawn"}, presentHours : SUBSET Moments, cells : SUBSET Moments,
          present : SUBSET Moments]

UptimeInv ==
    /\ UptimeTypeOK
    /\ strip \in Strip /\ spoke \in [now : SUBSET Moments, read : SUBSET Moments]
    /\ StripIsTrue
    /\ buckets = spoke.now
    /\ strip.pc = "read" =>
          \E t \in 0 .. clock : strip.presentHours = {b \in spoke.read : b >= Cutoff(t)}

(* Hours begin later as time passes, and in zones that are whole hours     *)
(* apart they begin together.                                              *)
LEMMA Hours ==
    ASSUME NEW t \in Nat, NEW u \in Nat, t <= u
    PROVE  /\ UtcHourBucket(t) \in 0 .. t
           /\ Cutoff(t) \in Int /\ Cutoff(t) <= Cutoff(u)
           /\ WholeHours => Floor(t, ZoneOffset) = UtcHourBucket(t)
<1>1. t % 2 \in 0 .. 1 /\ u % 2 \in 0 .. 1 /\ t % 2 <= t
  OBVIOUS
<1>2. t - (t % 2) <= u - (u % 2)
  OBVIOUS
<1>3. UtcHourBucket(t) = t - (t % 2) /\ UtcHourBucket(u) = u - (u % 2)
  BY DEF UtcHourBucket, Floor
<1>4. ZoneOffset % 2 = 0 => (t + ZoneOffset) % 2 = t % 2
  BY UptimeAssumption
<1> QED
  BY <1>1, <1>2, <1>3, <1>4, UptimeAssumption DEF Cutoff, WholeHours, Floor

(* The hours of a strip that is drawn at t.                                *)
LEMMA Windows ==
    ASSUME NEW t \in 0 .. MaxClock
    PROVE  Window(t) \subseteq Moments /\ \A c \in Window(t) : c >= Cutoff(t)
<1>1. t \in Nat /\ UtcHourBucket(t) \in 0 .. t
  BY Hours, UptimeAssumption
<1>2. ASSUME NEW c \in Window(t) PROVE c \in Moments /\ c >= Cutoff(t)
  <2>1. PICK i \in 0 .. WindowHours - 1 : c = UtcHourBucket(t) - 2 * i
    BY <1>2 DEF Window
  <2> QED
    BY <1>1, <2>1, UptimeAssumption DEF Moments, Cutoff
<1> QED
  BY <1>2

LEMMA UptimeStart == UptimeInit => UptimeInv
  BY UptimeAssumption DEF UptimeInit, UptimeInv, UptimeTypeOK, StripIsTrue, NoStrip, Strip

LEMMA HalfHourKeeps ==
    ASSUME UptimeInv, HalfHour
    PROVE  UptimeInv'
<1>1. clock' \in 0 .. MaxClock /\ clock' = clock + 1 /\ clock \in Nat
  BY UptimeAssumption DEF HalfHour, UptimeInv, UptimeTypeOK
<1>2. UNCHANGED <<buckets, strip, spoke>>
  BY DEF HalfHour
<1>3. UptimeTypeOK'
  BY <1>1, <1>2 DEF UptimeInv, UptimeTypeOK
<1>4. strip.pc = "read" =>
          \E t \in 0 .. clock' : strip.presentHours = {b \in spoke.read : b >= Cutoff(t)}
  <2>1. 0 .. clock \subseteq 0 .. clock'
    BY <1>1
  <2> QED
    BY <2>1 DEF UptimeInv
<1> QED
  BY <1>2, <1>3, <1>4 DEF UptimeInv, StripIsTrue

LEMMA UpsertHourlyKeeps ==
    ASSUME WholeHours, UptimeInv, UpsertHourly
    PROVE  UptimeInv'
<1>1. clock \in Nat /\ clock <= MaxClock
  BY UptimeAssumption DEF UptimeInv, UptimeTypeOK
<1>2. Floor(clock, ZoneOffset) = UtcHourBucket(clock) /\ UtcHourBucket(clock) \in Moments
  BY <1>1, Hours, UptimeAssumption DEF Moments
<1>3. /\ buckets' = buckets \cup {UtcHourBucket(clock)} /\ clock' = clock /\ strip' = strip
      /\ spoke' = [spoke EXCEPT !.now = @ \cup {UtcHourBucket(clock)}]
  BY <1>2 DEF UpsertHourly
<1>4. /\ spoke' \in [now : SUBSET Moments, read : SUBSET Moments]
      /\ spoke'.read = spoke.read /\ spoke'.now = spoke.now \cup {UtcHourBucket(clock)}
  BY <1>2, <1>3 DEF UptimeInv
<1> QED
  BY <1>2, <1>3, <1>4 DEF UptimeInv, UptimeTypeOK, StripIsTrue

LEMMA ReadHoursKeeps ==
    ASSUME UptimeInv, ReadHours
    PROVE  UptimeInv'
<1> DEFINE hours == {b \in buckets : b >= Cutoff(clock)}
           x == [NoStrip EXCEPT !.pc = "read", !.presentHours = hours]
<1>1. clock' = clock /\ buckets' = buckets /\ clock \in 0 .. clock
  BY UptimeAssumption DEF ReadHours, UptimeInv, UptimeTypeOK
<1>2. hours \subseteq Moments
  BY DEF UptimeInv, UptimeTypeOK
<1>3. strip' = x
  BY DEF ReadHours, Cutoff
<1>4. x \in Strip /\ x.pc = "read" /\ x.presentHours = hours /\ x.cells = {} /\ x.present = {}
  BY <1>2 DEF Strip, NoStrip
<1>5. /\ spoke' \in [now : SUBSET Moments, read : SUBSET Moments]
      /\ spoke'.read = spoke.now /\ spoke'.now = spoke.now
  BY DEF UptimeInv, ReadHours
<1>6. hours = {b \in spoke'.read : b >= Cutoff(clock)}
  BY <1>5 DEF UptimeInv
<1> HIDE DEF x, hours
<1>7. UptimeTypeOK' /\ StripIsTrue'
  BY <1>1, <1>2, <1>3, <1>4, <1>5 DEF UptimeInv, UptimeTypeOK, StripIsTrue
<1>8. \E t \in 0 .. clock' : strip'.presentHours = {b \in spoke'.read : b >= Cutoff(t)}
  BY <1>1, <1>3, <1>4, <1>6
<1> QED
  BY <1>1, <1>3, <1>4, <1>5, <1>7, <1>8 DEF UptimeInv

LEMMA DrawStripKeeps ==
    ASSUME UptimeInv, DrawStrip
    PROVE  UptimeInv'
<1> DEFINE lit == {c \in Window(clock) : c \in strip.presentHours}
           x == [strip EXCEPT !.pc = "drawn", !.cells = Window(clock), !.present = lit]
<1>1. clock' = clock /\ buckets' = buckets /\ spoke' = spoke /\ strip' = x
  BY DEF DrawStrip
<1>2. clock \in Nat /\ clock \in 0 .. MaxClock /\ Window(clock) \subseteq Moments
  BY Windows, UptimeAssumption DEF UptimeInv, UptimeTypeOK
<1>3. PICK t \in 0 .. clock : strip.presentHours = {b \in spoke.read : b >= Cutoff(t)}
  BY DEF DrawStrip, UptimeInv
<1>4. \A c \in Window(clock) : c \in Int /\ c >= Cutoff(t)
  <2>1. Cutoff(t) \in Int /\ Cutoff(t) <= Cutoff(clock) /\ Cutoff(clock) \in Int
    BY <1>2, <1>3, Hours
  <2>2. \A c \in Window(clock) : c \in Int /\ c >= Cutoff(clock)
    BY <1>2, Windows DEF Moments
  <2> QED
    BY <2>1, <2>2
<1>5. lit = Window(clock) \cap spoke.read
  BY <1>3, <1>4
<1>6. x \in Strip /\ x.pc = "drawn" /\ x.cells = Window(clock) /\ x.present = lit
  BY <1>2 DEF UptimeInv, Strip
<1> HIDE DEF x, lit
<1>7. UptimeTypeOK' /\ StripIsTrue'
  BY <1>1, <1>2, <1>5, <1>6 DEF UptimeInv, UptimeTypeOK, StripIsTrue, Strip
<1> QED
  BY <1>1, <1>6, <1>7 DEF UptimeInv

LEMMA UptimeStep == WholeHours /\ UptimeInv /\ [UptimeNext]_uptimeVars => UptimeInv'
<1> SUFFICES ASSUME WholeHours, UptimeInv, [UptimeNext]_uptimeVars PROVE UptimeInv'
  OBVIOUS
<1>1. CASE UptimeNext
  BY <1>1, HalfHourKeeps, UpsertHourlyKeeps, ReadHoursKeeps, DrawStripKeeps DEF UptimeNext
<1>2. CASE UNCHANGED uptimeVars
  BY <1>2 DEF uptimeVars, UptimeInv, UptimeTypeOK, StripIsTrue
<1> QED
  BY <1>1, <1>2

(* In a time zone that is whole hours from UTC, an hour of the strip is    *)
(* lit exactly if a heartbeat was recorded in it before the rows were      *)
(* read, however many hours begin between the SELECT and the drawing.      *)
THEOREM UptimeTrue ==
    ASSUME WholeHours PROVE PagesSpec => []UptimeIsTrue
<1>1. PagesInit => UptimeInv
  BY UptimeStart DEF PagesInit
<1>2. UptimeInv /\ [PagesNext]_<<part, logVars, metVars, pageVars, prefVars, waitVars, uptimeVars,
                                 fleetVars, vars>> => UptimeInv'
  BY PagesStep, UptimeStep
<1>3. UptimeInv => UptimeIsTrue
  BY DEF UptimeInv, UptimeIsTrue
<1> QED
  BY <1>1, <1>2, <1>3, PTL DEF PagesSpec

-----------------------------------------------------------------------------
(* Live readings and the status.                                           *)

View == [pc : {"none", "check", "start", "streaming", "broken", "refused", "left"},
         status : HostStatus, metrics : Beats \cup {NoBeat}, streaming : BOOLEAN, events : Seq(Event)]

(* Once all of the events es are received, a panel that shows now will     *)
(* show value.                                                             *)
WillShow(es, type, value, now) ==
    \/ \E i \in 1 .. Len(es) : /\ es[i].type = type /\ es[i].value = value
                               /\ \A k \in i + 1 .. Len(es) : es[k].type # type
    \/ (\A k \in 1 .. Len(es) : es[k].type # type) /\ now = value

Quiet == ~overlapped /\ \A w \in Writers : writer[w] = "idle"

(* A panel with the record x, that has missed a status if gone.            *)
ViewHolds(x, gone) ==
    /\ x.pc # "streaming" => x.events = <<>>
    /\ x.pc = "streaming" /\ latest # NoBeat => WillShow(x.events, "metrics", latest, x.metrics)
    /\ x.pc \in {"check", "start", "streaming", "broken"} /\ ~gone /\ Quiet
          => WillShow(x.events, "status", hostStatus, x.status)

(* A status that is yet to be published is the row's.                      *)
WritersHold ==
    ~overlapped => \A w \in Writers : writer[w] # "idle" =>
                      writer[w] = hostStatus /\ \A u \in Writers : writer[u] # "idle" => u = w

MetInv ==
    /\ MetTypeOK
    /\ WritersHold
    /\ \A v \in Views : ViewHolds(view[v], v \in missed)

LEMMA EmptyShows ==
    ASSUME NEW type, NEW value, NEW now
    PROVE  WillShow(<<>>, type, value, now) <=> now = value
  BY DEF WillShow

LEMMA OneShows ==
    ASSUME NEW e \in Event, NEW type, NEW value, NEW now
    PROVE  WillShow(<<e>>, type, value, now) <=> IF e.type = type THEN e.value = value ELSE now = value
<1>1. Len(<<e>>) = 1 /\ <<e>>[1] = e
  OBVIOUS
<1> QED
  BY <1>1 DEF WillShow

LEMMA SentShows ==
    ASSUME NEW q \in Seq(Event), NEW e \in Event, NEW type, NEW value, NEW now,
           IF e.type = type THEN e.value = value ELSE WillShow(q, type, value, now)
    PROVE  WillShow(Append(q, e), type, value, now)
<1> DEFINE r == Append(q, e)
           n == Len(q)
<1>1. n \in Nat /\ Len(r) = n + 1 /\ r[n + 1] = e /\ \A i \in 1 .. n : r[i] = q[i]
  OBVIOUS
<1> HIDE DEF r
<1>2. CASE e.type = type
  BY <1>1, <1>2 DEF WillShow
<1>3. CASE e.type # type
  <2>1. CASE \E i \in 1 .. n : /\ q[i].type = type /\ q[i].value = value
                               /\ \A k \in i + 1 .. n : q[k].type # type
    <3>1. PICK i \in 1 .. n : /\ q[i].type = type /\ q[i].value = value
                              /\ \A k \in i + 1 .. n : q[k].type # type
      BY <2>1
    <3>2. i \in 1 .. Len(r) /\ r[i] = q[i]
      BY <1>1
    <3>3. ASSUME NEW k \in i + 1 .. Len(r) PROVE r[k].type # type
      <4>1. k \in i + 1 .. n \/ k = n + 1
        BY <1>1
      <4> QED
        BY <1>1, <1>3, <3>1, <4>1
    <3>4. r[i].type = type /\ r[i].value = value
      BY <3>1, <3>2
    <3> QED
      BY <3>2, <3>3, <3>4 DEF WillShow, r
  <2>2. CASE (\A k \in 1 .. n : q[k].type # type) /\ now = value
    <3>1. ASSUME NEW k \in 1 .. Len(r) PROVE r[k].type # type
      <4>1. k \in 1 .. n \/ k = n + 1
        BY <1>1
      <4> QED
        BY <1>1, <1>3, <2>2, <4>1
    <3> QED
      BY <2>2, <3>1 DEF WillShow
  <2> QED
    BY <1>3, <2>1, <2>2 DEF WillShow
<1> QED
  BY <1>2, <1>3 DEF r

LEMMA ReadShows ==
    ASSUME NEW q \in Seq(Event), q # <<>>, NEW type, NEW value, NEW now, WillShow(q, type, value, now)
    PROVE  WillShow(Tail(q), type, value, IF Head(q).type = type THEN Head(q).value ELSE now)
<1> DEFINE r == Tail(q)
           n == Len(r)
<1>1. n \in Nat /\ Len(q) = n + 1 /\ Head(q) = q[1] /\ \A i \in 1 .. n : r[i] = q[i + 1]
  OBVIOUS
<1> HIDE DEF r
<1>2. CASE \E i \in 1 .. Len(q) : /\ q[i].type = type /\ q[i].value = value
                                  /\ \A k \in i + 1 .. Len(q) : q[k].type # type
  <2>1. PICK i \in 1 .. Len(q) : /\ q[i].type = type /\ q[i].value = value
                                 /\ \A k \in i + 1 .. Len(q) : q[k].type # type
    BY <1>2
  <2>2. CASE i = 1
    <3>1. \A k \in 1 .. n : k + 1 \in i + 1 .. Len(q) /\ r[k].type # type
      BY <1>1, <2>1, <2>2
    <3> QED
      BY <1>1, <2>1, <2>2, <3>1 DEF WillShow, r
  <2>3. CASE i # 1
    <3>1. i - 1 \in 1 .. n /\ r[i - 1] = q[i]
      BY <1>1, <2>1, <2>3
    <3>2. \A k \in (i - 1) + 1 .. n : r[k] = q[k + 1] /\ k + 1 \in i + 1 .. Len(q)
      BY <1>1, <2>1
    <3> QED
      BY <2>1, <3>1, <3>2 DEF WillShow, r
  <2> QED
    BY <2>2, <2>3
<1>3. CASE (\A k \in 1 .. Len(q) : q[k].type # type) /\ now = value
  <2>1. \A k \in 1 .. n : k + 1 \in 1 .. Len(q) /\ r[k].type # type
    BY <1>1, <1>3
  <2>2. Head(q).type # type
    BY <1>1, <1>3
  <2> QED
    BY <1>3, <2>1, <2>2 DEF WillShow, r
<1> QED
  BY <1>2, <1>3 DEF WillShow

LEMMA MetStart == MetInit => MetInv
<1> SUFFICES ASSUME MetInit PROVE MetInv
  OBVIOUS
<1>1. NoView \in View /\ NoView.pc = "none" /\ NoView.events = <<>>
  BY DEF NoView, View, HostStatus
<1>2. MetTypeOK
  <2>1. view \in [Views -> View] /\ hostStatus \in HostStatus /\ writer \in [Writers -> HostStatus \cup {"idle"}]
    BY <1>1 DEF MetInit, HostStatus
  <2>2. beats \in 0 .. MaxBeats
    BY MetricsAssumption DEF MetInit
  <2> QED
    BY <2>1, <2>2 DEF MetInit, MetTypeOK, View
<1> QED
  BY <1>1, <1>2 DEF MetInit, MetInv, WritersHold, ViewHolds

LEMMA ViewFields ==
    ASSUME MetInv
    PROVE  /\ view \in [Views -> View] /\ writer \in [Writers -> HostStatus \cup {"idle"}]
           /\ latest \in Beats \cup {NoBeat} /\ hostStatus \in HostStatus /\ missed \subseteq Views
           /\ \A v \in Views : /\ view[v].events \in Seq(Event) /\ view[v].status \in HostStatus
                               /\ view[v].metrics \in Beats \cup {NoBeat}
  BY DEF MetInv, MetTypeOK, View

(* A step of the panel v, to x, of which the platform knows nothing.       *)
LEMMA ViewMoves ==
    ASSUME MetInv, NEW v \in Views, NEW x \in View, view' = [view EXCEPT ![v] = x],
           UNCHANGED <<hostStatus, writer, beats, latest, overlapped>>,
           missed' = missed \/ missed' = missed \cup {v},
           ViewHolds(x, v \in missed')
    PROVE  MetInv'
<1>1. view' \in [Views -> View] /\ \A u \in Views : view'[u] = IF u = v THEN x ELSE view[u]
  BY ViewFields
<1>2. MetTypeOK'
  BY <1>1 DEF MetInv, MetTypeOK, View
<1>3. WritersHold'
  BY DEF MetInv, WritersHold
<1>4. ASSUME NEW u \in Views PROVE ViewHolds(view[u], u \in missed)'
  <2>1. CASE u = v
    BY <1>1, <2>1 DEF ViewHolds, Quiet
  <2>2. CASE u # v
    <3>1. view'[u] = view[u] /\ (u \in missed' <=> u \in missed)
      BY <1>1, <2>2
    <3>2. ViewHolds(view[u], u \in missed)
      BY DEF MetInv
    <3> QED
      BY <3>1, <3>2 DEF ViewHolds, Quiet
  <2> QED
    BY <2>1, <2>2
<1> QED
  BY <1>2, <1>3, <1>4 DEF MetInv

LEMMA ViewStarts ==
    ASSUME MetInv, NEW v \in Views, MountView(v) \/ AuthorizeStream(v) \/ ReopenView(v) \/ LeaveView(v)
    PROVE  MetInv'
<1>1. UNCHANGED <<hostStatus, writer, beats, latest, overlapped, missed>>
  BY DEF MountView, AuthorizeStream, ReopenView, LeaveView
<1>2. NoView \in View /\ NoView.events = <<>>
  BY DEF NoView, View, HostStatus
<1>3. ViewHolds(view[v], v \in missed) /\ view[v] \in View
  BY ViewFields DEF MetInv
<1>4. CASE MountView(v)
  <2> DEFINE x == [NoView EXCEPT !.pc = "check", !.status = hostStatus, !.streaming = TRUE]
  <2>1. x \in View /\ x.pc = "check" /\ x.status = hostStatus /\ x.events = <<>>
    BY <1>2, ViewFields DEF NoView, View
  <2>2. view' = [view EXCEPT ![v] = x]
    BY <1>4 DEF MountView
  <2> HIDE DEF x
  <2>3. ViewHolds(x, v \in missed')
    BY <2>1, EmptyShows DEF ViewHolds
  <2> QED
    BY <1>1, <2>1, <2>2, <2>3, ViewMoves
<1>5. ASSUME NEW pc \in {"start", "check"}, view[v].pc \in {"check", "broken"},
             view' = [view EXCEPT ![v].pc = pc]
      PROVE  MetInv'
  <2> DEFINE x == [view[v] EXCEPT !.pc = pc]
  <2>1. x \in View /\ x.pc = pc /\ x.status = view[v].status /\ x.events = view[v].events
    BY <1>3 DEF View
  <2>2. view' = [view EXCEPT ![v] = x]
    BY <1>5, ViewFields
  <2> HIDE DEF x
  <2>3. ViewHolds(x, v \in missed')
    BY <1>1, <1>3, <1>5, <2>1 DEF ViewHolds
  <2> QED
    BY <1>1, <2>1, <2>2, <2>3, ViewMoves
<1>6. CASE /\ view[v].pc = "check"
           /\ view' = [view EXCEPT ![v].pc = "refused", ![v].streaming = FALSE]
  <2> DEFINE x == [view[v] EXCEPT !.pc = "refused", !.streaming = FALSE]
  <2>1. x \in View /\ x.pc = "refused" /\ x.events = view[v].events
    BY <1>3 DEF View
  <2>2. view' = [view EXCEPT ![v] = x]
    BY <1>6, ViewFields
  <2> HIDE DEF x
  <2>3. ViewHolds(x, v \in missed')
    BY <1>3, <1>6, <2>1 DEF ViewHolds
  <2> QED
    BY <1>1, <2>1, <2>2, <2>3, ViewMoves
<1>7. CASE LeaveView(v)
  <2> DEFINE x == [NoView EXCEPT !.pc = "left"]
  <2>1. x \in View /\ x.pc = "left" /\ x.events = <<>>
    BY <1>2 DEF NoView, View
  <2>2. view' = [view EXCEPT ![v] = x]
    BY <1>7 DEF LeaveView
  <2> HIDE DEF x
  <2>3. ViewHolds(x, v \in missed')
    BY <2>1 DEF ViewHolds
  <2> QED
    BY <1>1, <2>1, <2>2, <2>3, ViewMoves
<1>8. CASE AuthorizeStream(v)
  <2>1. /\ view[v].pc = "check"
        /\ \/ view' = [view EXCEPT ![v].pc = "start"]
           \/ view' = [view EXCEPT ![v].pc = "refused", ![v].streaming = FALSE]
    BY <1>8, Zenon DEF AuthorizeStream
  <2> QED
    BY <1>5, <1>6, <2>1
<1>9. CASE ReopenView(v)
  BY <1>5, <1>9 DEF ReopenView
<1> QED
  BY <1>4, <1>7, <1>8, <1>9

LEMMA StartMetricsKeeps ==
    ASSUME MetInv, NEW v \in Views, StartMetrics(v)
    PROVE  MetInv'
<1> DEFINE es == IF latest = NoBeat THEN <<>> ELSE <<[type |-> "metrics", value |-> latest]>>
           x == [view[v] EXCEPT !.pc = "streaming", !.streaming = TRUE, !.events = es]
<1>1. UNCHANGED <<hostStatus, writer, beats, latest, overlapped, missed>> /\ view[v].pc = "start"
  BY DEF StartMetrics
<1>2. ViewHolds(view[v], v \in missed) /\ view[v] \in View
  BY ViewFields DEF MetInv
<1>3. latest # NoBeat => [type |-> "metrics", value |-> latest] \in Event
  BY ViewFields DEF Event
<1>4. es \in Seq(Event)
  BY <1>3
<1>5. latest # NoBeat => WillShow(es, "metrics", latest, view[v].metrics)
  BY <1>3, OneShows
<1>6. \A value : view[v].status = value => WillShow(es, "status", value, view[v].status)
  <2>1. CASE latest = NoBeat
    BY <2>1, EmptyShows
  <2>2. CASE latest # NoBeat
    BY <1>3, <2>2, OneShows
  <2> QED
    BY <2>1, <2>2
<1>7. view' = [view EXCEPT ![v] = x]
  BY ViewFields DEF StartMetrics
<1> HIDE DEF es
<1>8. /\ x \in View /\ x.pc = "streaming" /\ x.events = es /\ x.status = view[v].status
      /\ x.metrics = view[v].metrics
  BY <1>2, <1>4 DEF View
<1> HIDE DEF x
<1>9. ~(v \in missed) /\ Quiet => view[v].status = hostStatus
  BY <1>1, <1>2, EmptyShows DEF ViewHolds
<1>10. ViewHolds(x, v \in missed')
  BY <1>1, <1>5, <1>6, <1>8, <1>9 DEF ViewHolds
<1> QED
  BY <1>1, <1>7, <1>8, <1>10, ViewMoves

LEMMA ReceiveEventKeeps ==
    ASSUME MetInv, NEW v \in Views, ReceiveEvent(v)
    PROVE  MetInv'
<1> DEFINE q == view[v].events
           e == Head(q)
           x == IF e.type = "metrics"
                THEN [view[v] EXCEPT !.metrics = e.value, !.events = Tail(q)]
                ELSE [view[v] EXCEPT !.status = e.value, !.events = Tail(q)]
<1>1. /\ UNCHANGED <<hostStatus, writer, beats, latest, overlapped, missed>>
      /\ view[v].pc = "streaming" /\ q # <<>>
  BY DEF ReceiveEvent, Listening
<1>2. ViewHolds(view[v], v \in missed) /\ view[v] \in View /\ q \in Seq(Event)
  BY ViewFields DEF MetInv
<1>3. e \in Event /\ Tail(q) \in Seq(Event)
  BY <1>1, <1>2
<1>4. \/ e.type = "metrics" /\ e.value \in Beats
      \/ e.type = "status" /\ e.value \in HostStatus
  BY <1>3 DEF Event
<1>5. view' = [view EXCEPT ![v] = x]
  BY Zenon DEF ReceiveEvent
<1>6. /\ x \in View /\ x.pc = "streaming" /\ x.events = Tail(q)
      /\ x.metrics = IF e.type = "metrics" THEN e.value ELSE view[v].metrics
      /\ x.status = IF e.type = "status" THEN e.value ELSE view[v].status
  <2>1. CASE e.type = "metrics"
    BY <1>1, <1>2, <1>3, <1>4, <2>1 DEF View
  <2>2. CASE e.type = "status"
    BY <1>1, <1>2, <1>3, <1>4, <2>2 DEF View
  <2> QED
    BY <1>4, <2>1, <2>2
<1> HIDE DEF x, e, q
<1>7. \A type, value, now : WillShow(q, type, value, now)
          => WillShow(Tail(q), type, value, IF e.type = type THEN e.value ELSE now)
  BY <1>1, <1>2, ReadShows DEF e
<1>8. latest # NoBeat => WillShow(x.events, "metrics", latest, x.metrics)
  BY <1>1, <1>2, <1>6, <1>7 DEF ViewHolds, q
<1>9. ~(v \in missed) /\ Quiet => WillShow(x.events, "status", hostStatus, x.status)
  BY <1>1, <1>2, <1>6, <1>7 DEF ViewHolds, q
<1>10. ViewHolds(x, v \in missed')
  BY <1>1, <1>6, <1>8, <1>9 DEF ViewHolds
<1> QED
  BY <1>1, <1>5, <1>6, <1>10, ViewMoves

(* A stream that breaks with no status under way loses none.               *)
LEMMA NoneLost ==
    ASSUME MetInv, NEW v \in Views, ~StatusUnderWay(v), NEW value, NEW now,
           WillShow(view[v].events, "status", value, now)
    PROVE  now = value
<1>1. \A i \in 1 .. Len(view[v].events) : view[v].events[i].type # "status"
  BY DEF StatusUnderWay, Events
<1> QED
  BY <1>1 DEF WillShow

LEMMA BreakViewKeeps ==
    ASSUME MetInv, NEW v \in Views, BreakView(v)
    PROVE  MetInv'
<1> DEFINE x == [view[v] EXCEPT !.pc = "broken", !.streaming = FALSE, !.events = <<>>]
<1>1. /\ UNCHANGED <<hostStatus, writer, beats, latest, overlapped>>
      /\ view[v].pc \in {"check", "start", "streaming"}
      /\ missed' = IF StatusUnderWay(v) THEN missed \cup {v} ELSE missed
  BY DEF BreakView
<1>2. ViewHolds(view[v], v \in missed) /\ view[v] \in View
  BY ViewFields DEF MetInv
<1>3. view' = [view EXCEPT ![v] = x]
  BY ViewFields DEF BreakView
<1>4. x \in View /\ x.pc = "broken" /\ x.events = <<>> /\ x.status = view[v].status
  <2>1. <<>> \in Seq(Event)
    OBVIOUS
  <2> QED
    BY <1>2, <2>1 DEF View
<1> HIDE DEF x
<1>5. ~(v \in missed') /\ Quiet => x.status = hostStatus
  BY <1>1, <1>2, <1>4, NoneLost DEF ViewHolds
<1>6. ViewHolds(x, v \in missed')
  BY <1>4, <1>5, EmptyShows DEF ViewHolds
<1> QED
  BY <1>1, <1>3, <1>4, <1>6, ViewMoves

-----------------------------------------------------------------------------
(* What the platform does.                                                 *)

(* Every panel that listens gets the event.                                *)
LEMMA Emitted ==
    ASSUME MetInv, NEW e \in Event, view' = Emit(e), NEW v \in Views
    PROVE  /\ view'[v] \in View /\ view'[v].pc = view[v].pc
           /\ view'[v].status = view[v].status /\ view'[v].metrics = view[v].metrics
           /\ view'[v].events = IF Listening(v) THEN Append(view[v].events, e) ELSE view[v].events
<1>1. view[v] \in View /\ view[v].events \in Seq(Event)
  BY ViewFields
<1>2. Append(view[v].events, e) \in Seq(Event)
  BY <1>1
<1>3. view'[v] = IF Listening(v) THEN [view[v] EXCEPT !.events = Append(@, e)] ELSE view[v]
  BY DEF Emit
<1>4. CASE Listening(v)
  BY <1>1, <1>2, <1>3, <1>4 DEF View
<1>5. CASE ~Listening(v)
  BY <1>1, <1>3, <1>5
<1> QED
  BY <1>4, <1>5

LEMMA BeatKeeps ==
    ASSUME MetInv, Beat
    PROVE  MetInv'
<1> DEFINE e == [type |-> "metrics", value |-> beats']
<1>1. /\ UNCHANGED <<hostStatus, writer, missed, overlapped>> /\ latest' = beats'
      /\ beats' \in Beats /\ beats' \in 0 .. MaxBeats
  BY MetricsAssumption DEF Beat, MetInv, MetTypeOK, Beats
<1>2. e \in Event /\ e.type = "metrics" /\ e.value = latest'
  BY <1>1 DEF Event
<1>3. view' = Emit(e)
  BY DEF Beat
<1> HIDE DEF e
<1>4. view' \in [Views -> View]
  BY <1>2, <1>3, Emitted DEF Emit
<1>5. MetTypeOK'
  BY <1>1, <1>4 DEF MetInv, MetTypeOK, View
<1>6. ASSUME NEW v \in Views PROVE ViewHolds(view[v], v \in missed)'
  <2>1. ViewHolds(view[v], v \in missed) /\ view[v].events \in Seq(Event)
    BY ViewFields DEF MetInv
  <2>2. /\ view'[v].pc = view[v].pc /\ view'[v].status = view[v].status
        /\ view'[v].events = IF Listening(v) THEN Append(view[v].events, e) ELSE view[v].events
    BY <1>2, <1>3, Emitted
  <2>3. CASE Listening(v)
    <3>1. WillShow(view'[v].events, "metrics", latest', view'[v].metrics)
      BY <1>2, <2>1, <2>2, <2>3, SentShows
    <3>2. ~(v \in missed) /\ Quiet => WillShow(view'[v].events, "status", hostStatus, view'[v].status)
      BY <1>2, <2>1, <2>2, <2>3, SentShows DEF ViewHolds, Listening
    <3> QED
      BY <1>1, <2>2, <2>3, <3>1, <3>2 DEF ViewHolds, Listening, Quiet
  <2>4. CASE ~Listening(v)
    BY <1>1, <2>1, <2>2, <2>4 DEF ViewHolds, Listening, Quiet
  <2> QED
    BY <2>3, <2>4
<1> QED
  BY <1>1, <1>5, <1>6 DEF MetInv, WritersHold

LEMMA WriteStatusKeeps ==
    ASSUME MetInv, NEW w \in Writers, NEW status \in HostStatus, WriteStatus(w, status)
    PROVE  MetInv'
<1>1. /\ hostStatus' = status /\ writer' = [writer EXCEPT ![w] = status]
      /\ overlapped' = (overlapped \/ \E x \in Writers : writer[x] # "idle")
      /\ UNCHANGED <<beats, latest, view, missed>>
  BY DEF WriteStatus
<1>2. writer' \in [Writers -> HostStatus \cup {"idle"}]
      /\ \A u \in Writers : writer'[u] = IF u = w THEN status ELSE writer[u]
  BY <1>1, ViewFields
<1>3. MetTypeOK'
  BY <1>1, <1>2 DEF MetInv, MetTypeOK
<1>4. WritersHold'
  BY <1>1, <1>2 DEF MetInv, WritersHold
<1>5. ~Quiet'
  <2>1. writer'[w] # "idle"
    BY <1>2 DEF HostStatus
  <2> QED
    BY <2>1 DEF Quiet
<1>6. ASSUME NEW v \in Views PROVE ViewHolds(view[v], v \in missed)'
  <2>1. ViewHolds(view[v], v \in missed)
    BY DEF MetInv
  <2> QED
    BY <1>1, <1>5, <2>1 DEF ViewHolds
<1> QED
  BY <1>3, <1>4, <1>6 DEF MetInv

LEMMA HelloWritesKeeps ==
    ASSUME MetInv, HelloWrites
    PROVE  MetInv'
<1>1. MetTypeOK' /\ overlapped' = TRUE
  BY DEF HelloWrites, MetInv, MetTypeOK, HostStatus
<1>2. ASSUME NEW v \in Views PROVE ViewHolds(view[v], v \in missed)'
  <2>1. ViewHolds(view[v], v \in missed)
    BY DEF MetInv
  <2>2. UNCHANGED <<view, latest, missed>>
    BY DEF HelloWrites
  <2> QED
    BY <1>1, <2>1, <2>2 DEF ViewHolds, Quiet
<1> QED
  BY <1>1, <1>2 DEF MetInv, WritersHold

LEMMA PublishStatusKeeps ==
    ASSUME MetInv, NEW w \in Writers, PublishStatus(w)
    PROVE  MetInv'
<1> DEFINE e == [type |-> "status", value |-> writer[w]]
<1>1. /\ writer[w] \in HostStatus /\ UNCHANGED <<hostStatus, beats, overlapped>>
      /\ writer' = [writer EXCEPT ![w] = "idle"]
      /\ missed' = missed \cup {v \in Views : ~Listening(v) /\ view[v].pc # "none"}
      /\ latest' = NoBeat \/ latest' = latest
  BY ViewFields DEF PublishStatus
<1>2. e \in Event /\ e.type = "status" /\ e.value = writer[w]
  BY <1>1 DEF Event
<1>3. view' = Emit(e)
  BY DEF PublishStatus
<1> HIDE DEF e
<1>4. view' \in [Views -> View]
  BY <1>2, <1>3, Emitted DEF Emit
<1>5. writer' \in [Writers -> HostStatus \cup {"idle"}]
      /\ \A u \in Writers : writer'[u] = IF u = w THEN "idle" ELSE writer[u]
  BY <1>1, ViewFields
<1>6. MetTypeOK'
  BY <1>1, <1>4, <1>5 DEF MetInv, MetTypeOK, View
<1>7. WritersHold' /\ (~overlapped => writer[w] = hostStatus)
  BY <1>1, <1>5 DEF MetInv, WritersHold, PublishStatus
<1>8. ASSUME NEW v \in Views PROVE ViewHolds(view[v], v \in missed)'
  <2>1. ViewHolds(view[v], v \in missed) /\ view[v].events \in Seq(Event)
    BY ViewFields DEF MetInv
  <2>2. /\ view'[v].pc = view[v].pc /\ view'[v].metrics = view[v].metrics
        /\ view'[v].events = IF Listening(v) THEN Append(view[v].events, e) ELSE view[v].events
    BY <1>2, <1>3, Emitted
  <2>3. CASE Listening(v)
    <3>1. latest' # NoBeat => WillShow(view'[v].events, "metrics", latest', view'[v].metrics)
      BY <1>1, <1>2, <2>1, <2>2, <2>3, SentShows DEF ViewHolds, Listening
    <3>2. ~overlapped => WillShow(view'[v].events, "status", hostStatus, view'[v].status)
      BY <1>2, <1>7, <2>1, <2>2, <2>3, SentShows
    <3> QED
      BY <1>1, <2>2, <2>3, <3>1, <3>2 DEF ViewHolds, Listening, Quiet
  <2>4. CASE ~Listening(v)
    BY <1>1, <2>1, <2>2, <2>4 DEF ViewHolds, Listening
  <2> QED
    BY <2>3, <2>4
<1> QED
  BY <1>6, <1>7, <1>8 DEF MetInv

LEMMA RestartPlatformKeeps ==
    ASSUME MetInv, RestartPlatform
    PROVE  MetInv'
<1>1. /\ latest' = NoBeat /\ writer' = [w \in Writers |-> "idle"]
      /\ missed' = missed \cup {v \in Views :
                        \/ StatusUnderWay(v)
                        \/ view[v].pc # "none" /\ (\E w \in Writers : writer[w] # "idle")}
      /\ UNCHANGED <<hostStatus, beats, overlapped>>
  BY DEF RestartPlatform
<1>2. ASSUME NEW v \in Views
      PROVE  view'[v] = IF view[v].pc \in {"check", "start", "streaming"}
                        THEN [view[v] EXCEPT !.pc = "broken", !.streaming = FALSE, !.events = <<>>]
                        ELSE view[v]
  BY DEF RestartPlatform
<1>3. ASSUME NEW v \in Views
      PROVE  /\ view'[v] \in View /\ view'[v].status = view[v].status
             /\ view[v].pc \in {"check", "start", "streaming"}
                   => view'[v].pc = "broken" /\ view'[v].events = <<>>
             /\ view[v].pc \notin {"check", "start", "streaming"} => view'[v] = view[v]
  <2>1. view[v] \in View
    BY ViewFields
  <2>2. CASE view[v].pc \in {"check", "start", "streaming"}
    <3> DEFINE x == [view[v] EXCEPT !.pc = "broken", !.streaming = FALSE, !.events = <<>>]
    <3>0. <<>> \in Seq(Event)
      OBVIOUS
    <3>1. x \in View /\ x.pc = "broken" /\ x.events = <<>> /\ x.status = view[v].status
      BY <2>1, <3>0 DEF View
    <3>2. view'[v] = x
      BY <1>2, <2>2
    <3> HIDE DEF x
    <3> QED
      BY <2>2, <3>1, <3>2
  <2>3. CASE view[v].pc \notin {"check", "start", "streaming"}
    BY <1>2, <2>1, <2>3
  <2> QED
    BY <2>2, <2>3
<1>4. view' \in [Views -> View]
  BY <1>3 DEF RestartPlatform
<1>5. MetTypeOK'
  BY <1>1, <1>4 DEF MetInv, MetTypeOK, View
<1>6. WritersHold'
  BY <1>1 DEF WritersHold
<1>7. ASSUME NEW v \in Views PROVE ViewHolds(view[v], v \in missed)'
  <2>1. ViewHolds(view[v], v \in missed)
    BY DEF MetInv
  <2>2. CASE view[v].pc \in {"check", "start", "streaming"}
    <3>1. view'[v].pc = "broken" /\ view'[v].events = <<>> /\ view'[v].status = view[v].status
      BY <1>3, <2>2
    <3>2. ~(v \in missed') /\ ~overlapped => view[v].status = hostStatus
      <4> SUFFICES ASSUME ~(v \in missed'), ~overlapped PROVE view[v].status = hostStatus
        OBVIOUS
      <4>1. ~StatusUnderWay(v) /\ ~(v \in missed) /\ Quiet
        BY <1>1, <2>2 DEF Quiet
      <4>2. WillShow(view[v].events, "status", hostStatus, view[v].status)
        BY <2>1, <2>2, <4>1 DEF ViewHolds
      <4> QED
        BY <4>1, <4>2, NoneLost
    <3> QED
      BY <1>1, <3>1, <3>2, EmptyShows DEF ViewHolds, Quiet
  <2>3. CASE view[v].pc = "broken"
    <3>1. view'[v] = view[v]
      BY <1>3, <2>3
    <3>2. ~(v \in missed') => ~(v \in missed) /\ \A w \in Writers : writer[w] = "idle"
      BY <1>1, <2>3
    <3> QED
      BY <1>1, <2>1, <2>3, <3>1, <3>2 DEF ViewHolds, Quiet
  <2>4. CASE view[v].pc \notin {"check", "start", "streaming", "broken"}
    BY <1>3, <2>1, <2>4 DEF ViewHolds
  <2> QED
    BY <2>2, <2>3, <2>4
<1> QED
  BY <1>5, <1>6, <1>7 DEF MetInv

LEMMA MetStep == MetInv /\ [MetNext]_metVars => MetInv'
<1> SUFFICES ASSUME MetInv, [MetNext]_metVars PROVE MetInv'
  OBVIOUS
<1>1. CASE Beat \/ RestartPlatform \/ HelloWrites
  BY <1>1, BeatKeeps, RestartPlatformKeeps, HelloWritesKeeps
<1>2. CASE \E w \in Writers : PublishStatus(w) \/ \E status \in HostStatus : WriteStatus(w, status)
  BY <1>2, PublishStatusKeeps, WriteStatusKeeps
<1>3. CASE \E v \in Views : \/ MountView(v) \/ AuthorizeStream(v) \/ StartMetrics(v) \/ ReceiveEvent(v)
                            \/ BreakView(v) \/ ReopenView(v) \/ LeaveView(v)
  BY <1>3, ViewStarts, StartMetricsKeeps, ReceiveEventKeeps, BreakViewKeeps
<1>4. CASE UNCHANGED metVars
  BY <1>4 DEF metVars, MetInv, MetTypeOK, WritersHold, ViewHolds, Quiet
<1> QED
  BY <1>1, <1>2, <1>3, <1>4 DEF MetNext

(* However connections break and streams are opened again, a panel that    *)
(* has received all there is shows the reading the bus has kept; and the   *)
(* status of the row, unless a change of status was published while it did *)
(* not listen, two were under way at once or one was not published.        *)
THEOREM MetricsFaithful == PagesSpec => []MetricsAreFaithful
<1>1. PagesInit => MetInv
  BY MetStart DEF PagesInit
<1>2. MetInv /\ [PagesNext]_<<part, logVars, metVars, pageVars, prefVars, waitVars, uptimeVars,
                              fleetVars, vars>> => MetInv'
  BY PagesStep, MetStep
<1>3. ASSUME MetInv PROVE MetricsAreLatest /\ StatusIsCurrent
  <2>1. ASSUME NEW v \in Views, Settled(v)
        PROVE  /\ latest # NoBeat => view[v].metrics = latest
               /\ v \notin missed /\ Quiet => view[v].status = hostStatus
    BY <1>3, <2>1, EmptyShows DEF MetInv, ViewHolds, Settled, Listening
  <2> QED
    BY <2>1 DEF MetricsAreLatest, StatusIsCurrent, Quiet
<1>4. MetInv => MetricsAreFaithful
  BY <1>3 DEF MetInv, MetricsAreFaithful
<1> QED
  BY <1>1, <1>2, <1>4, PTL DEF PagesSpec

-----------------------------------------------------------------------------
(* The page of a server.                                                   *)

PageRec == [at : {"away", "shown", "error"}, status : ServerStatus, online : BOOLEAN, deleting : BOOLEAN,
            list : Seq(Entry2), config : Settings, restoring : BackupIds \cup {NoBackup}]
AskRec == [pc : {"idle", "asked", "done"}, op : Operation \cup {"none"},
           id : BackupIds \cup {NoBackup}, ok : BOOLEAN]
EndedStatus == {"completed", "failed"}

(* The backup that an answer is about to put on top is newer than what the *)
(* history shows: the section was busy since it was asked for.             *)
NewOnTop(a, list) ==
    \A s \in Section : a[s].op = "backup" =>
        /\ s = "history"
        /\ a[s].pc = "done" /\ a[s].ok =>
              a[s].id \in 1 .. started /\ \A i \in 1 .. Len(list) : list[i].id < a[s].id

(* What the history shows, and what it offers to restore.                  *)
Shows(list, b) ==
    /\ \A i, j \in 1 .. Len(list) : i < j => list[i].id > list[j].id
    /\ \A i \in 1 .. Len(list) :
          list[i].id <= started /\ (list[i].status # "running" => list[i].status = backup[list[i].id])
    /\ b # NoBackup => backup[b] = "completed"

PageInv ==
    /\ PageTypeOK
    /\ \A b \in BackupIds : backup[b] = "none" <=> b > started
    /\ Shows(page.list, page.restoring)
    /\ NewOnTop(ask, page.list)
    /\ ~badRestore

LEMMA PageFaithful == PageInv => PageTypeOK /\ HistoryIsFaithful
  BY DEF PageInv, Shows, HistoryIsFaithful, NewestFirst, EndedEntriesAreTrue

LEMMA PageTypes ==
    ASSUME PageTypeOK
    PROVE  /\ page \in PageRec /\ ask \in [Section -> AskRec]
           /\ \A s \in Section : ask[s] \in AskRec
           /\ started \in Nat /\ started <= MaxBackups /\ MaxBackups \in Nat
  BY PageAssumption DEF PageTypeOK, PageRec, AskRec

LEMMA EmptyPage ==
    /\ NoPage \in PageRec /\ [s \in Section |-> NoAsk] \in [Section -> AskRec] /\ NoAsk \in AskRec
    /\ NoPage.list = <<>> /\ NoPage.restoring = NoBackup
    /\ NoAsk.pc = "idle"
<1>1. <<>> \in Seq(Entry2)
  OBVIOUS
<1>2. NoPage \in PageRec
  BY <1>1 DEF NoPage, PageRec, ServerStatus, Settings
<1>3. NoAsk \in AskRec
  BY DEF NoAsk, AskRec
<1> QED
  BY <1>2, <1>3 DEF NoPage, NoAsk

LEMMA PageStart == PageInit => PageInv
<1> SUFFICES ASSUME PageInit PROVE PageInv
  OBVIOUS
<1>2. PageTypeOK
  <2>1. page \in PageRec /\ ask \in [Section -> AskRec]
    BY EmptyPage DEF PageInit
  <2> QED
    <3>1. backup \in [BackupIds -> {"none", "running", "completed", "failed"}]
      BY DEF PageInit
    <3>2. server \in ServerStatus /\ settings \in Settings /\ started \in 0 .. MaxBackups
      BY PageAssumption DEF PageInit, ServerStatus, Settings
    <3>3. reachable \in BOOLEAN /\ badRestore \in BOOLEAN
      BY DEF PageInit
    <3> QED
      BY <2>1, <3>1, <3>2, <3>3 DEF PageTypeOK, PageRec, AskRec
<1>3. page.list = <<>> /\ page.restoring = NoBackup /\ Len(page.list) = 0
  BY DEF PageInit, NoPage
<1>4. Shows(page.list, page.restoring)
  BY <1>3 DEF Shows
<1>5. \A b \in BackupIds : backup[b] = "none" <=> b > started
  BY PageAssumption DEF PageInit, BackupIds
<1>6. NewOnTop(ask, page.list)
  BY DEF PageInit, NoAsk, NewOnTop, Section
<1> QED
  BY <1>2, <1>4, <1>5, <1>6 DEF PageInv, PageInit

(* Backups are added, and what has ended stays as it ended.                *)
BackupsGoOn ==
    /\ backup' \in [BackupIds -> {"none", "running", "completed", "failed"}]
    /\ started' \in started .. MaxBackups
    /\ \A b \in BackupIds : backup'[b] = "none" <=> b > started'
    /\ \A b \in BackupIds : backup[b] \in EndedStatus => backup'[b] = backup[b]

(* A step elsewhere, or of an action: the page is as it was.               *)
LEMMA ShowsStill ==
    ASSUME PageInv, server' \in ServerStatus, reachable' \in BOOLEAN, settings' \in Settings,
           BackupsGoOn, page' = page, badRestore' = badRestore,
           ask' \in [Section -> AskRec], NewOnTop(ask, page.list)'
    PROVE  PageInv'
<1>1. PageTypeOK'
  BY PageTypes, PageAssumption DEF PageInv, PageTypeOK, BackupsGoOn, AskRec
<1>2. /\ page \in PageRec /\ started \in Nat /\ started' \in Nat /\ started' >= started
      /\ MaxBackups \in Nat
  BY PageTypes DEF PageInv, BackupsGoOn
<1>3. ASSUME NEW i \in 1 .. Len(page.list)
      PROVE  /\ page.list[i].id <= started'
             /\ page.list[i].status # "running" => page.list[i].status = backup'[page.list[i].id]
  <2>1. page.list[i] \in Entry2
    BY <1>2 DEF PageRec
  <2>2. /\ page.list[i].id \in BackupIds /\ page.list[i].id \in Nat
        /\ page.list[i].status \in {"running", "completed", "failed"}
    BY <1>2, <2>1 DEF Entry2, BackupIds
  <2> QED
    BY <1>2, <2>2 DEF PageInv, Shows, BackupsGoOn, EndedStatus
<1>4. page.restoring # NoBackup => backup'[page.restoring] = "completed"
  BY <1>2 DEF PageInv, Shows, BackupsGoOn, EndedStatus, PageRec
<1>5. Shows(page.list, page.restoring)'
  BY <1>3, <1>4 DEF PageInv, Shows
<1> QED
  BY <1>1, <1>5 DEF PageInv, BackupsGoOn

(* A step of the page: the backups are as they were.                       *)
LEMMA PageMoves ==
    ASSUME PageInv, UNCHANGED <<server, reachable, backup, started, settings>>,
           NEW p \in PageRec, page' = p, Shows(p.list, p.restoring),
           NEW a \in [Section -> AskRec], ask' = a, NewOnTop(a, p.list),
           badRestore' = FALSE
    PROVE  PageInv'
<1>1. PageTypeOK'
  BY DEF PageInv, PageTypeOK, PageRec, AskRec
<1>2. Shows(page.list, page.restoring)' /\ NewOnTop(ask, page.list)'
  BY DEF Shows, NewOnTop
<1> QED
  BY <1>1, <1>2 DEF PageInv

LEMMA SameBackups ==
    ASSUME PageInv, backup' = backup, started' = started
    PROVE  BackupsGoOn
  BY PageTypes DEF PageInv, PageTypeOK, BackupsGoOn

(* One more backup.                                                        *)
LEMMA AnotherBackup ==
    ASSUME PageInv, started < MaxBackups, started' = started + 1,
           NEW st \in {"running", "failed"}, backup' = [backup EXCEPT ![started'] = st]
    PROVE  BackupsGoOn
<1>1. /\ started \in Nat /\ MaxBackups \in Nat /\ started' \in BackupIds
      /\ started' \in started .. MaxBackups
      /\ backup \in [BackupIds -> {"none", "running", "completed", "failed"}]
  BY PageTypes DEF PageInv, PageTypeOK, BackupIds
<1>2. \A b \in BackupIds : b \in Nat
  BY <1>1 DEF BackupIds
<1>3. backup[started'] = "none"
  BY <1>1 DEF PageInv
<1> QED
  BY <1>1, <1>2, <1>3 DEF PageInv, BackupsGoOn, EndedStatus

(* One section asks, or is answered.                                       *)
LEMMA AskMoves ==
    ASSUME PageInv, NEW s \in Section, NEW x \in AskRec, ask' = [ask EXCEPT ![s] = x],
           x.op = "backup" => s = "history" /\ (x.pc # "done" \/ ~x.ok),
           started' \in Nat, started' >= started, page' = page
    PROVE  ask' \in [Section -> AskRec] /\ NewOnTop(ask, page.list)'
<1>1. ask \in [Section -> AskRec] /\ started \in Nat
  BY PageTypes DEF PageInv
<1>2. ask' \in [Section -> AskRec] /\ \A t \in Section : ask'[t] = IF t = s THEN x ELSE ask[t]
  BY <1>1
<1> QED
  BY <1>1, <1>2 DEF NewOnTop, PageInv

LEMMA ElsewhereKeeps == ASSUME PageInv, Elsewhere PROVE PageInv'
<1>0. PageTypeOK /\ ask' = ask /\ ask \in [Section -> AskRec] /\ started \in Nat /\ "history" \in Section
  BY PageTypes DEF PageInv, Elsewhere, Section
<1>1. server' \in ServerStatus /\ reachable' \in BOOLEAN /\ settings' \in Settings
  BY DEF Elsewhere, PageInv, PageTypeOK, ServerStatus
<1>2. BackupsGoOn
  <2>1. CASE backup' = backup /\ started' = started
    BY <2>1, SameBackups
  <2>2. ASSUME NEW b \in BackupIds, backup[b] = "running", started' = started,
               NEW st \in EndedStatus, backup' = [backup EXCEPT ![b] = st]
        PROVE  BackupsGoOn
    BY <1>0, <2>2, PageTypes DEF PageInv, PageTypeOK, BackupsGoOn, EndedStatus
  <2>3. CASE started < MaxBackups /\ started' = started + 1 /\ backup' = [backup EXCEPT ![started'] = "running"]
    BY <2>3, AnotherBackup
  <2> QED
    BY <2>1, <2>2, <2>3 DEF Elsewhere, EndedStatus
<1>3. NewOnTop(ask, page.list)'
  <2>1. page' = page /\ started' \in Nat /\ started' >= started
    BY <1>0, <1>2, PageTypes DEF Elsewhere, BackupsGoOn
  <2>2. NewOnTop(ask, page.list)
    BY DEF PageInv
  <2> QED
    BY <1>0, <2>1, <2>2 DEF NewOnTop
<1> QED
  BY <1>0, <1>1, <1>2, <1>3, ShowsStill DEF Elsewhere

(* The history of a visit.                                                 *)
LEMMA Listed ==
    ASSUME PageInv
    PROVE  /\ ListBackups \in Seq(Entry2) /\ Shows(ListBackups, NoBackup)
<1>1. /\ started \in Nat /\ started <= MaxBackups /\ MaxBackups \in Nat
      /\ backup \in [BackupIds -> {"none", "running", "completed", "failed"}]
  BY PageTypes DEF PageInv, PageTypeOK
<1>2. ASSUME NEW i \in 1 .. started
      PROVE  /\ started + 1 - i \in BackupIds /\ started + 1 - i <= started
             /\ backup[started + 1 - i] \in {"running", "completed", "failed"}
  <2>1. started + 1 - i \in BackupIds /\ started + 1 - i <= started /\ ~(started + 1 - i > started)
    BY <1>1 DEF BackupIds
  <2> QED
    BY <1>1, <2>1 DEF PageInv
<1>3. ListBackups \in [1 .. started -> Entry2]
  BY <1>2 DEF ListBackups, Entry2
<1>4. ListBackups \in Seq(Entry2) /\ Len(ListBackups) = started
  BY <1>1, <1>3
<1>5. \A i \in 1 .. started : /\ ListBackups[i].id = started + 1 - i
                              /\ ListBackups[i].status = backup[started + 1 - i]
  BY DEF ListBackups
<1> HIDE DEF ListBackups
<1>6. \A i, j \in 1 .. started : i < j => ListBackups[i].id > ListBackups[j].id
  BY <1>1, <1>5
<1> QED
  BY <1>2, <1>4, <1>5, <1>6 DEF Shows

(* Nobody asks: the state of a page that has just been mounted.            *)
LEMMA NobodyAnswers ==
    ASSUME NEW list
    PROVE  NewOnTop([s \in Section |-> NoAsk], list)
  BY DEF NewOnTop, NoAsk

LEMMA NothingShown == Shows(<<>>, NoBackup)
  BY DEF Shows

LEMMA VisitKeeps == ASSUME PageInv, Visit PROVE PageInv'
<1> DEFINE a == [s \in Section |-> NoAsk]
           p == [NoPage EXCEPT !.at = "shown", !.status = server, !.online = reachable,
                               !.list = ListBackups, !.config = settings]
<1>1. PageTypeOK /\ ~badRestore
  BY DEF PageInv
<1>2. p \in PageRec /\ p.list = ListBackups /\ p.restoring = NoBackup
  BY <1>1, EmptyPage, Listed DEF PageTypeOK, PageRec, NoPage
<1>3. page' = p /\ ask' = a /\ a \in [Section -> AskRec]
  BY EmptyPage DEF Visit
<1>5. NewOnTop(a, p.list)
  BY NobodyAnswers
<1> HIDE DEF p, a
<1>4. Shows(p.list, p.restoring)
  BY <1>2, Listed
<1>6. badRestore' = FALSE /\ UNCHANGED <<server, reachable, backup, started, settings>>
  BY <1>1 DEF Visit, PageTypeOK
<1> QED
  BY <1>2, <1>3, <1>4, <1>5, <1>6, PageMoves

(* The page goes away, or its error boundary takes its place.              *)
LEMMA PageGone ==
    ASSUME PageInv, NEW at \in {"away", "error"}, page' = [NoPage EXCEPT !.at = at],
           NEW a \in [Section -> AskRec], ask' = a, NewOnTop(a, <<>>),
           UNCHANGED <<server, reachable, backup, started, settings, badRestore>>
    PROVE  PageInv'
<1> DEFINE p == [NoPage EXCEPT !.at = at]
<1>1. p \in PageRec /\ p.list = <<>> /\ p.restoring = NoBackup
  BY EmptyPage DEF PageInv, PageRec, NoPage
<1>2. page' = p /\ badRestore' = FALSE
  BY DEF PageInv, PageTypeOK
<1> HIDE DEF p
<1>3. Shows(p.list, p.restoring) /\ NewOnTop(a, p.list)
  BY <1>1, NothingShown
<1> QED
  BY <1>1, <1>2, <1>3, PageMoves

LEMMA NobodyAsks ==
    /\ [s \in Section |-> NoAsk] \in [Section -> AskRec]
    /\ NewOnTop([s \in Section |-> NoAsk], <<>>)
  BY EmptyPage, NobodyAnswers

LEMMA LeaveKeeps == ASSUME PageInv, LeavePage PROVE PageInv'
<1> DEFINE a == [s \in Section |-> NoAsk]
<1> DEFINE p == [NoPage EXCEPT !.at = "away"]
<1>1. page' = p
  <2>1. p.at = NoPage.at
    BY DEF NoPage
  <2>2. p = NoPage
    BY <2>1, EmptyPage DEF PageRec
  <2> QED
    BY <2>2 DEF LeavePage
<1>2. ask' = a /\ a \in [Section -> AskRec] /\ NewOnTop(a, <<>>)
  BY NobodyAsks DEF LeavePage
<1> HIDE DEF a
<1> QED
  BY <1>1, <1>2, PageGone DEF LeavePage

LEMMA ThrowKeeps == ASSUME PageInv, NEW s \in Section, Throw(s) PROVE PageInv'
<1> DEFINE a == [t \in Section |-> NoAsk]
<1>1. page' = [NoPage EXCEPT !.at = "error"]
  BY DEF Throw
<1>2. ask' = a /\ a \in [Section -> AskRec] /\ NewOnTop(a, <<>>)
  BY NobodyAsks DEF Throw
<1> HIDE DEF a
<1> QED
  BY <1>1, <1>2, PageGone DEF Throw

(* A section asks.                                                         *)
LEMMA Asks ==
    ASSUME PageInv, NEW s \in Section, NEW op \in Operation, NEW b \in BackupIds \cup {NoBackup},
           op = "backup" => s = "history", AskFor(s, op, b), UNCHANGED <<server, reachable, backup, started, settings, page>>,
           badRestore' = badRestore
    PROVE  PageInv'
<1> DEFINE x == [NoAsk EXCEPT !.pc = "asked", !.op = op, !.id = b]
<1>1. x \in AskRec /\ x.pc = "asked" /\ x.op = op
  BY DEF AskRec, NoAsk
<1>2. ask' = [ask EXCEPT ![s] = x]
  BY DEF AskFor
<1> HIDE DEF x
<1>3. started' \in Nat /\ started' >= started /\ page' = page
  BY PageTypes DEF PageInv
<1>4. ask' \in [Section -> AskRec] /\ NewOnTop(ask, page.list)'
  BY <1>1, <1>2, <1>3, AskMoves
<1>5. server' \in ServerStatus /\ reachable' \in BOOLEAN /\ settings' \in Settings
  BY DEF PageInv, PageTypeOK
<1> QED
  BY <1>4, <1>5, SameBackups, ShowsStill

(* A section is told what came of it.                                      *)
LEMMA Told ==
    ASSUME PageInv, NEW s \in Section, NEW ok \in BOOLEAN, NEW b \in BackupIds \cup {NoBackup},
           Result(s, ok, b), ask[s].op # "backup" \/ ~ok,
           server' \in ServerStatus, settings' \in Settings,
           UNCHANGED <<reachable, backup, started, page, badRestore>>
    PROVE  PageInv'
<1> DEFINE x == [ask[s] EXCEPT !.pc = "done", !.ok = ok, !.id = b]
<1>1. ask \in [Section -> AskRec] /\ ask[s] \in AskRec /\ started \in Nat
  BY PageTypes DEF PageInv
<1>2. x \in AskRec /\ x.op = ask[s].op /\ x.ok = ok
  BY <1>1 DEF AskRec
<1>3. ask' = [ask EXCEPT ![s] = x]
  BY <1>1 DEF Result
<1> HIDE DEF x
<1>4. ask' \in [Section -> AskRec] /\ NewOnTop(ask, page.list)'
  <2>1. started' \in Nat /\ started' >= started /\ page' = page
    BY <1>1
  <2> QED
    BY <1>2, <1>3, <2>1, AskMoves DEF PageInv, NewOnTop
<1>5. reachable' \in BOOLEAN
  BY DEF PageInv, PageTypeOK
<1> QED
  BY <1>4, <1>5, SameBackups, ShowsStill

LEMMA PageClickKeeps ==
    ASSUME PageInv,
           \/ \E op \in Lifecycle : ClickLifecycle(op)
           \/ ConfirmDelete \/ RunNow \/ SubmitForm \/ ConfirmRestore
    PROVE  PageInv'
<1>0. /\ Lifecycle \subseteq Operation /\ {"delete", "backup", "restore", "save"} \subseteq Operation
      /\ {"controls", "history", "form"} \subseteq Section /\ page \in PageRec
  BY PageTypes DEF Operation, Section, PageInv
<1>1. ASSUME NEW op \in Lifecycle, ClickLifecycle(op) PROVE PageInv'
  <2>1. op \in Operation /\ op # "backup" /\ NoBackup \in BackupIds \cup {NoBackup}
    BY DEF Operation, Lifecycle
  <2>2. AskFor("controls", op, NoBackup) /\ UNCHANGED <<server, reachable, backup, started, settings, page, badRestore>>
    BY <1>1 DEF ClickLifecycle
  <2> QED
    BY <1>0, <2>1, <2>2, Asks
<1>2. CASE ConfirmDelete
  BY <1>0, <1>2, Asks DEF ConfirmDelete
<1>3. CASE RunNow
  BY <1>0, <1>3, Asks DEF RunNow
<1>4. CASE SubmitForm
  BY <1>0, <1>4, Asks DEF SubmitForm
<1>5. CASE ConfirmRestore
  <2>1. page.restoring \in BackupIds \cup {NoBackup} /\ badRestore' = badRestore
    BY <1>0, <1>5 DEF PageRec, ConfirmRestore, PageInv, Shows, PageTypeOK
  <2> QED
    BY <1>0, <1>5, <2>1, Asks DEF ConfirmRestore
<1> QED
  BY <1>1, <1>2, <1>3, <1>4, <1>5

(* What the page offers to restore is in its history as completed.         *)
LEMMA ChooseKeeps ==
    ASSUME PageInv, ClickDelete \/ \E b \in BackupIds \cup {NoBackup} : ClickRestore(b)
    PROVE  PageInv'
<1>0. page \in PageRec /\ ask \in [Section -> AskRec]
  BY PageTypes DEF PageInv
<1>1. CASE ClickDelete
  <2> DEFINE p == [page EXCEPT !.deleting = ~page.deleting]
  <2>1. p \in PageRec /\ p.list = page.list /\ p.restoring = page.restoring
    BY <1>0 DEF PageRec
  <2>2. page' = p /\ ask' = ask /\ badRestore' = FALSE
    BY <1>1 DEF ClickDelete, PageInv, PageTypeOK
  <2> HIDE DEF p
  <2>3. Shows(p.list, p.restoring) /\ NewOnTop(ask, p.list)
    BY <2>1 DEF PageInv
  <2> QED
    BY <1>0, <1>1, <2>1, <2>2, <2>3, PageMoves DEF ClickDelete
<1>2. ASSUME NEW b \in BackupIds \cup {NoBackup}, ClickRestore(b) PROVE PageInv'
  <2> DEFINE p == [page EXCEPT !.restoring = b]
  <2>1. p \in PageRec /\ p.list = page.list /\ p.restoring = b
    BY <1>0 DEF PageRec
  <2>2. page' = p /\ ask' = ask /\ badRestore' = FALSE
    BY <1>2 DEF ClickRestore, PageInv, PageTypeOK
  <2> HIDE DEF p
  <2>3. b # NoBackup => backup[b] = "completed"
    <3>1. b # NoBackup => ShownCompleted(b)
      BY <1>2 DEF ClickRestore
    <3> QED
      BY <3>1 DEF ShownCompleted, PageInv, Shows
  <2>4. Shows(p.list, p.restoring) /\ NewOnTop(ask, p.list)
    BY <2>1, <2>3 DEF PageInv, Shows
  <2> QED
    BY <1>0, <1>2, <2>1, <2>2, <2>4, PageMoves DEF ClickRestore
<1> QED
  BY <1>1, <1>2

LEMMA DoKeeps ==
    ASSUME PageInv, DoLifecycle \/ DoDelete \/ DoRestore \/ \E ok \in BOOLEAN : DoSave(ok)
    PROVE  PageInv'
<1>0. /\ {"controls", "history", "form"} \subseteq Section
      /\ server \in ServerStatus /\ settings \in Settings /\ "deleting" \in ServerStatus
      /\ "s3" \in Settings
      /\ NoBackup \in BackupIds \cup {NoBackup}
  BY DEF Section, PageInv, PageTypeOK, ServerStatus, Settings
<1>1. CASE DoLifecycle
  <2>1. (server # "deleting" /\ reachable) \in BOOLEAN
    OBVIOUS
  <2> QED
    BY <1>0, <1>1, <2>1, Told DEF DoLifecycle, Lifecycle
<1>2. CASE DoDelete
  <2>1. (server # "deleting") \in BOOLEAN
    OBVIOUS
  <2> QED
    BY <1>0, <1>2, <2>1, Told DEF DoDelete
<1>3. CASE DoRestore
  <2> DEFINE ok == /\ server # "deleting" /\ reachable /\ settings = "s3"
                   /\ backup[ask["history"].id] = "completed"
  <2>1. ok \in BOOLEAN
    OBVIOUS
  <2>2. Result("history", ok, NoBackup) /\ ask["history"].op # "backup"
    BY <1>3 DEF DoRestore
  <2> HIDE DEF ok
  <2> QED
    BY <1>0, <1>3, <2>1, <2>2, Told DEF DoRestore
<1>4. ASSUME NEW ok \in BOOLEAN, DoSave(ok) PROVE PageInv'
  <2>1. settings' \in Settings
    BY <1>0, <1>4 DEF DoSave
  <2>2. "form" \in Section /\ ask["form"].op # "backup" /\ Result("form", ok, NoBackup)
    BY <1>0, <1>4 DEF DoSave, PageInv, NewOnTop
  <2> QED
    BY <1>0, <1>4, <2>1, <2>2, Told DEF DoSave
<1> QED
  BY <1>1, <1>2, <1>3, <1>4

(* A backup that is asked for is the newest there is.                      *)
LEMMA DoBackupKeeps == ASSUME PageInv, DoBackup PROVE PageInv'
<1>0. /\ ask \in [Section -> AskRec] /\ ask["history"] \in AskRec /\ "history" \in Section
      /\ started \in Nat /\ MaxBackups \in Nat /\ page \in PageRec
      /\ server \in ServerStatus /\ settings \in Settings /\ reachable \in BOOLEAN
  BY PageTypes DEF PageInv, PageTypeOK, Section
<1>1. CASE server # "deleting" /\ settings = "s3"
  <2>1. /\ started < MaxBackups /\ started' = started + 1 /\ started' \in BackupIds
        /\ started' \in 1 .. started'
        /\ Result("history", reachable, started')
    BY <1>0, <1>1 DEF DoBackup, BackupIds
  <2>2. BackupsGoOn
    <3>1. CASE reachable
      BY <1>1, <2>1, <3>1, AnotherBackup DEF DoBackup
    <3>2. CASE ~reachable
      BY <1>1, <2>1, <3>2, AnotherBackup DEF DoBackup
    <3> QED
      BY <3>1, <3>2
  <2> DEFINE x == [ask["history"] EXCEPT !.pc = "done", !.ok = reachable, !.id = started']
  <2>3. x \in AskRec /\ x.id = started'
    BY <1>0, <2>1 DEF AskRec
  <2>4. ask' = [ask EXCEPT !["history"] = x]
    BY <1>0, <2>1 DEF Result
  <2> HIDE DEF x
  <2>5. /\ ask' \in [Section -> AskRec] /\ ask'["history"].id = started'
        /\ \A s \in Section : s # "history" => ask'[s] = ask[s]
    BY <1>0, <2>3, <2>4
  <2>6. \A i \in 1 .. Len(page.list) : page.list[i].id < started'
    <3> SUFFICES ASSUME NEW i \in 1 .. Len(page.list) PROVE page.list[i].id < started'
      OBVIOUS
    <3>1. page.list[i] \in Entry2
      BY <1>0 DEF PageRec
    <3>2. page.list[i].id \in Nat /\ page.list[i].id <= started
      BY <1>0, <3>1 DEF Entry2, BackupIds, PageInv, Shows
    <3> QED
      BY <1>0, <2>1, <3>2
  <2>7. page' = page /\ badRestore' = badRestore /\ UNCHANGED <<server, reachable, settings>>
    BY DEF DoBackup
  <2>8. NewOnTop(ask, page.list)'
    BY <2>1, <2>5, <2>6, <2>7 DEF NewOnTop, PageInv
  <2> QED
    BY <1>0, <2>2, <2>5, <2>7, <2>8, ShowsStill
<1>2. CASE ~(server # "deleting" /\ settings = "s3")
  <2>1. Result("history", FALSE, NoBackup) /\ UNCHANGED <<backup, started>>
    BY <1>2 DEF DoBackup
  <2> QED
    BY <1>0, <2>1, Told DEF DoBackup
<1> QED
  BY <1>1, <1>2

(* The page renders again, over a history that holds.                      *)
LEMMA Renders ==
    ASSUME PageInv, NEW p \in PageRec, Shows(p.list, p.restoring)
    PROVE  \E q \in PageRec : /\ Refresh(p) = q /\ Shows(q.list, q.restoring)
                             /\ (q.list = p.list \/ q.list = <<>>)
<1>1. CASE server = "deleting"
  <2> DEFINE q == [NoPage EXCEPT !.at = "away"]
  <2>1. q \in PageRec /\ q.list = <<>> /\ q.restoring = NoBackup
    BY EmptyPage DEF PageRec, NoPage
  <2>2. Refresh(p) = q
    BY <1>1 DEF Refresh
  <2> HIDE DEF q
  <2> QED
    BY <2>1, <2>2, NothingShown
<1>2. CASE server # "deleting"
  <2> DEFINE q == [p EXCEPT !.status = server, !.online = reachable]
  <2>1. q \in PageRec /\ q.list = p.list /\ q.restoring = p.restoring
    BY DEF PageInv, PageTypeOK, PageRec
  <2>2. Refresh(p) = q
    BY <1>2 DEF Refresh
  <2> HIDE DEF q
  <2> QED
    BY <2>1, <2>2
<1> QED
  BY <1>1, <1>2

(* The entry that stands for a backup until the page is visited again.     *)
LEMMA OnTop ==
    ASSUME PageInv, NEW b \in 1 .. started, \A i \in 1 .. Len(page.list) : page.list[i].id < b
    PROVE  LET list == <<Optimistic(b)>> \o page.list
           IN  list \in Seq(Entry2) /\ Shows(list, page.restoring)
<1> DEFINE list == <<Optimistic(b)>> \o page.list
<1>0. /\ page.list \in Seq(Entry2) /\ started \in Nat /\ MaxBackups \in Nat /\ b \in BackupIds
      /\ b <= started
  BY PageTypes DEF PageInv, PageRec, BackupIds
<1>1. Optimistic(b) \in Entry2 /\ Optimistic(b).id = b /\ Optimistic(b).status = "running"
  BY <1>0 DEF Optimistic, Entry2
<1>2. /\ list \in Seq(Entry2) /\ Len(list) = Len(page.list) + 1 /\ list[1] = Optimistic(b)
      /\ \A i \in 1 .. Len(list) : i # 1 => i - 1 \in 1 .. Len(page.list) /\ list[i] = page.list[i - 1]
  BY <1>0, <1>1
<1> HIDE DEF list
<1>3. \A i, j \in 1 .. Len(list) : i < j => list[i].id > list[j].id
  <2> SUFFICES ASSUME NEW i \in 1 .. Len(list), NEW j \in 1 .. Len(list), i < j
               PROVE  list[i].id > list[j].id
    OBVIOUS
  <2>1. j # 1 /\ j - 1 \in 1 .. Len(page.list) /\ list[j] = page.list[j - 1]
    BY <1>0, <1>2
  <2>2. CASE i = 1
    <3>1. page.list[j - 1].id < b /\ page.list[j - 1] \in Entry2
      BY <1>0, <2>1
    <3> QED
      BY <1>0, <1>1, <1>2, <2>1, <2>2, <3>1 DEF Entry2, BackupIds
  <2>3. CASE i # 1
    <3>1. i - 1 \in 1 .. Len(page.list) /\ list[i] = page.list[i - 1] /\ i - 1 < j - 1
      BY <1>0, <1>2, <2>3
    <3> QED
      BY <2>1, <3>1 DEF PageInv, Shows
  <2> QED
    BY <2>2, <2>3
<1>4. ASSUME NEW i \in 1 .. Len(list)
      PROVE  list[i].id <= started /\ (list[i].status # "running" => list[i].status = backup[list[i].id])
  <2>1. CASE i = 1
    BY <1>0, <1>1, <1>2, <2>1
  <2>2. CASE i # 1
    BY <1>2, <2>2 DEF PageInv, Shows
  <2> QED
    BY <2>1, <2>2
<1>5. Shows(list, page.restoring)
  BY <1>3, <1>4 DEF PageInv, Shows
<1> QED
  BY <1>2, <1>5 DEF list

(* Whatever the answer, the page that takes it shows what is true.         *)
LEMMA AnswerKeeps == ASSUME PageInv, NEW s \in Section, Answer2(s) PROVE PageInv'
<1>0. /\ page \in PageRec /\ ask \in [Section -> AskRec] /\ ask[s] \in AskRec /\ "history" \in Section
      /\ Shows(page.list, page.restoring)
      /\ badRestore' = FALSE /\ UNCHANGED <<server, reachable, backup, started, settings>>
  BY PageTypes DEF PageInv, Section, Answer2, PageTypeOK
<1> DEFINE a == [ask EXCEPT ![s] = NoAsk]
<1>1. ask' = a /\ a \in [Section -> AskRec]
  BY <1>0, EmptyPage DEF Answer2
<1>2. \A t \in Section : a[t] = IF t = s THEN NoAsk ELSE ask[t]
  BY <1>0
<1> HIDE DEF a
<1>3. ASSUME NEW list, list = page.list \/ list = <<>>
      PROVE  NewOnTop(a, list)
  BY <1>2, <1>3 DEF PageInv, NewOnTop, NoAsk
<1>4. ASSUME NEW p \in PageRec, Shows(p.list, p.restoring), page' = Refresh(p),
             \A list : list = p.list \/ list = <<>> => NewOnTop(a, list)
      PROVE  PageInv'
  <2>1. PICK q \in PageRec : /\ Refresh(p) = q /\ Shows(q.list, q.restoring)
                            /\ (q.list = p.list \/ q.list = <<>>)
    BY <1>4, Renders, Zenon
  <2>2. NewOnTop(a, q.list)
    BY <1>4, <2>1
  <2>3. page' = q
    BY <1>4, <2>1
  <2> QED
    BY <1>0, <1>1, <2>1, <2>2, <2>3, PageMoves
<1>5. CASE ~ask[s].ok
  <2>1. page' = page
    BY <1>5 DEF Answer2
  <2> QED
    BY <1>0, <1>1, <1>3, <2>1, PageMoves
<1>6. CASE ask[s].ok /\ ask[s].op = "delete"
  <2>1. page' = [NoPage EXCEPT !.at = "away"]
    BY <1>6 DEF Answer2, Lifecycle
  <2> QED
    BY <1>0, <1>1, <1>3, <2>1, PageGone DEF Answer2
<1>7. CASE ask[s].ok /\ ask[s].op = "restore"
  <2> DEFINE p == [page EXCEPT !.restoring = NoBackup]
  <2>1. page' = Refresh(p)
    BY <1>7 DEF Answer2, Lifecycle
  <2>2. p \in PageRec /\ p.list = page.list /\ p.restoring = NoBackup
    BY <1>0 DEF PageRec
  <2> HIDE DEF p
  <2> QED
    BY <1>0, <1>3, <1>4, <2>1, <2>2 DEF Shows
<1>8. CASE ask[s].ok /\ ask[s].op \notin {"delete", "restore", "backup"}
  <2>1. page' = Refresh(page)
    BY <1>8 DEF Answer2, Lifecycle
  <2> QED
    BY <1>0, <1>3, <1>4, <2>1
<1>9. CASE ask[s].ok /\ ask[s].op = "backup"
  <2> DEFINE b == ask[s].id
             list == <<Optimistic(b)>> \o page.list
             p == [page EXCEPT !.list = list]
  <2>1. s = "history" /\ b \in 1 .. started /\ \A i \in 1 .. Len(page.list) : page.list[i].id < b
    BY <1>9 DEF Answer2, PageInv, NewOnTop
  <2>2. page' = Refresh(p)
    BY <1>9 DEF Answer2, Lifecycle
  <2>3. list \in Seq(Entry2) /\ Shows(list, page.restoring)
    BY <2>1, OnTop
  <2> HIDE DEF list
  <2>4. p \in PageRec /\ p.list = list /\ p.restoring = page.restoring
    BY <1>0, <2>3 DEF PageRec
  <2> HIDE DEF p, b
  <2>5. \A q : NewOnTop(a, q)
    BY <1>2, <2>1 DEF PageInv, NewOnTop, NoAsk
  <2> QED
    BY <1>4, <2>2, <2>3, <2>4, <2>5
<1> QED
  BY <1>5, <1>6, <1>7, <1>8, <1>9

LEMMA PageKeeps == PageInv /\ [PageNext]_pageVars => PageInv'
<1> SUFFICES ASSUME PageInv, [PageNext]_pageVars PROVE PageInv'
  OBVIOUS
<1>1. CASE UNCHANGED pageVars
  BY <1>1 DEF pageVars, PageInv, PageTypeOK, Shows, NewOnTop
<1>2. ASSUME NEW s \in Section, Answer2(s) \/ Throw(s) PROVE PageInv'
  BY <1>2, AnswerKeeps, ThrowKeeps
<1> QED
  BY <1>1, <1>2, ElsewhereKeeps, VisitKeeps, LeaveKeeps, PageClickKeeps, ChooseKeeps, DoKeeps,
     DoBackupKeeps DEF PageNext

(* The history of a page shows a backup at most once and the newest first, *)
(* what it calls completed or failed is, and nothing is restored that is   *)
(* not completed: with any number of backups, whatever ends, begins or is  *)
(* rendered between a click and its answer.                                *)
THEOREM ServerPageFaithful == PagesSpec => []ServerPageHolds
<1>1. PagesInit => PageInv
  BY PageStart DEF PagesInit
<1>2. PageInv /\ [PagesNext]_<<part, logVars, metVars, pageVars, prefVars, waitVars, uptimeVars,
                             fleetVars, vars>> => PageInv'
  BY PagesStep, PageKeeps
<1>3. PageInv => ServerPageHolds
  BY PageFaithful DEF ServerPageHolds
<1> QED
  BY <1>1, <1>2, <1>3, PTL DEF PagesSpec

-----------------------------------------------------------------------------
(* The log panels.                                                         *)

ReqRec == [pc : {"none", "check", "select", "start", "streaming", "refused"},
           tab : Tabs \cup {NoSource}, aborted : BOOLEAN, recent : Seq(Lines)]
TabRec == [state : {"none", "mounted", "left"}, source : Requests \cup {NoSource}, lines : Seq(Lines)]

Rising(s) == \A i, j \in 1 .. Len(s) : i < j => s[i] < s[j]
In(s, n) == \E i \in 1 .. Len(s) : s[i] = n
Count(s, n) == Cardinality({i \in 1 .. Len(s) : s[i] = n})
Newer(n) == Cardinality({m \in stored : m > n})

(* A panel's request is its own and goes on; only such a request has       *)
(* something under way, and it listens on the bus once it streams.         *)
RequestHolds(r) ==
    /\ request[r].pc = "none" => request[r] = NoRequest
    /\ r \in subscribed => request[r].pc = "streaming"
    /\ request[r].pc = "streaming" /\ ~request[r].aborted => r \in subscribed
    /\ stream[r] # <<>> => request[r].pc = "streaming"
    /\ Rising(request[r].recent)

SourceHolds(t) ==
    LET r == tab[t].source IN
    r # NoSource => request[r].tab = t /\ ~request[r].aborted /\ request[r].pc # "none"

(* What is to be replayed, and was not published since.                    *)
ReplayHolds(r) ==
    request[r].pc = "start" =>
        \A n \in stored : line[n] = "done" =>
            In(request[r].recent, n) \/ n \in gap[r] \/ Newer(n) >= ReplayLimit

(* Unless the ring is full, a line is in the panel or under way to it.     *)
PanelShows(t) ==
    LET r == tab[t].source IN
    r # NoSource /\ request[r].pc = "streaming" /\ Len(tab[t].lines) < RingLimit =>
        \A n \in stored : line[n] = "done" =>
            \/ In(tab[t].lines, n) \/ In(stream[r], n)
            \/ n \in gap[r] \/ Newer(n) >= ReplayLimit

(* A line comes to a panel once when it is published, and once more with   *)
(* each replay.                                                            *)
UnderWay(t) == IF tab[t].source = NoSource THEN <<>> ELSE stream[tab[t].source]
Replays(t, n) == {r \in Requests : /\ request[r].tab = t /\ request[r].pc = "streaming"
                                   /\ In(request[r].recent, n)}
Published(n) == IF line[n] = "done" THEN 1 ELSE 0
CountHolds(t, n) ==
    Count(tab[t].lines, n) + Count(UnderWay(t), n) <= Published(n) + Cardinality(Replays(t, n))

LogInv ==
    /\ LogTypeOK
    /\ \A n \in stored : line[n] \in {"publish", "done"}
    /\ \A r \in Requests : RequestHolds(r) /\ ReplayHolds(r)
    /\ \A t \in Tabs : SourceHolds(t) /\ PanelShows(t) /\ \A n \in Lines : CountHolds(t, n)

LEMMA LogTypes ==
    LogTypeOK <=>
    /\ line \in [Lines -> {"unsent", "find", "insert", "publish", "done"}]
    /\ stored \subseteq Lines
    /\ request \in [Requests -> ReqRec]
    /\ stream \in [Requests -> Seq(Lines)]
    /\ subscribed \subseteq Requests
    /\ gap \in [Requests -> SUBSET Lines]
    /\ tab \in [Tabs -> TabRec]
    /\ \A t \in Tabs : Len(tab[t].lines) <= RingLimit
    /\ \A r \in Requests : Len(request[r].recent) <= ReplayLimit
  BY DEF LogTypeOK, ReqRec, TabRec

LEMMA LineNumbers ==
    /\ Lines \subseteq Nat /\ Requests \subseteq Nat
    /\ IsFiniteSet(Lines) /\ IsFiniteSet(Requests)
    /\ NoSource \notin Requests /\ NoSource \notin Tabs
    /\ ReplayLimit \in Nat /\ ReplayLimit > 0 /\ RingLimit \in Nat /\ RingLimit > 0
<1>1. MaxLines \in Nat /\ MaxRequests \in Nat
  BY LogAssumption
<1>2. IsFiniteSet(1 .. MaxLines) /\ IsFiniteSet(1 .. MaxRequests)
  BY <1>1, FS_Interval
<1> QED
  BY <1>1, <1>2, LogAssumption DEF Lines, Requests

(* How often a number is in a sequence.                                    *)
LEMMA CountOfNone == \A n : Count(<<>>, n) = 0
<1>1. \A n : {i \in 1 .. Len(<<>>) : <<>>[i] = n} = {}
  OBVIOUS
<1> QED
  BY <1>1, FS_EmptySet DEF Count

LEMMA CountIsNat ==
    ASSUME NEW S, NEW s \in Seq(S), NEW n
    PROVE  Count(s, n) \in Nat /\ IsFiniteSet({i \in 1 .. Len(s) : s[i] = n})
<1>1. Len(s) \in Nat
  OBVIOUS
<1>2. IsFiniteSet(1 .. Len(s))
  BY <1>1, FS_Interval
<1>3. {i \in 1 .. Len(s) : s[i] = n} \in SUBSET (1 .. Len(s))
  OBVIOUS
<1>4. IsFiniteSet({i \in 1 .. Len(s) : s[i] = n})
  BY <1>2, <1>3, FS_Subset
<1> QED
  BY <1>4, FS_CardinalityType DEF Count

LEMMA CountAppended ==
    ASSUME NEW S, NEW s \in Seq(S), NEW m \in S, NEW n
    PROVE  Count(Append(s, m), n) = Count(s, n) + (IF m = n THEN 1 ELSE 0)
<1> DEFINE A == {i \in 1 .. Len(s) : s[i] = n}
           B == {i \in 1 .. Len(Append(s, m)) : Append(s, m)[i] = n}
           k == Len(s)
<1>1. k \in Nat /\ Len(Append(s, m)) = k + 1 /\ Append(s, m)[k + 1] = m
      /\ \A i \in 1 .. k : Append(s, m)[i] = s[i]
  OBVIOUS
<1>2. IsFiniteSet(A) /\ Count(s, n) = Cardinality(A) /\ Count(Append(s, m), n) = Cardinality(B)
      /\ Cardinality(A) \in Nat
  BY CountIsNat DEF Count
<1>3. B = IF m = n THEN A \cup {k + 1} ELSE A
  BY <1>1
<1>4. k + 1 \notin A
  BY <1>1
<1> HIDE DEF A, B
<1>5. CASE m = n
  <2>1. Cardinality(A \cup {k + 1}) = Cardinality(A) + 1
    BY <1>2, <1>4, FS_AddElement
  <2> QED
    BY <1>2, <1>3, <1>5, <2>1
<1>6. CASE m # n
  BY <1>2, <1>3, <1>6
<1> QED
  BY <1>5, <1>6

(* Taking sequences apart: into a first part and the rest.                 *)
LEMMA CountShifted ==
    ASSUME NEW S, NEW s \in Seq(S), NEW u \in Seq(S), NEW d \in Nat, NEW n,
           Len(s) = Len(u) + d, \A i \in 1 .. Len(u) : u[i] = s[i + d]
    PROVE  Count(u, n) = Cardinality({i \in d + 1 .. Len(s) : s[i] = n})
<1> DEFINE A == {i \in 1 .. Len(u) : u[i] = n}
           B == {i \in d + 1 .. Len(s) : s[i] = n}
           f == [i \in A |-> i + d]
<1>1. Len(u) \in Nat /\ Len(s) \in Nat
  OBVIOUS
<1>2. f \in [A -> B]
  BY <1>1
<1>3. \A i, j \in A : f[i] = f[j] => i = j
  BY <1>1
<1>4. ASSUME NEW j \in B PROVE \E i \in A : f[i] = j
  <2>1. j - d \in 1 .. Len(u) /\ (j - d) + d = j /\ s[j] = n
    BY <1>1
  <2>2. u[j - d] = n
    BY <2>1
  <2>3. j - d \in A /\ f[j - d] = j
    BY <2>1, <2>2
  <2> QED
    BY <2>3
<1>5. IsFiniteSet(A) /\ Count(u, n) = Cardinality(A)
  BY CountIsNat DEF Count
<1> HIDE DEF A, B, f
<1>6. f \in Bijection(A, B)
  BY <1>2, <1>3, <1>4 DEF Bijection, Injection, Surjection, IsInjective
<1>7. ExistsBijection(A, B)
  BY <1>6 DEF ExistsBijection
<1>8. Cardinality(B) = Cardinality(A)
  BY <1>5, <1>7, FS_Bijection
<1> QED
  BY <1>5, <1>8 DEF B

LEMMA CountTaken ==
    ASSUME NEW S, NEW s \in Seq(S), s # <<>>, NEW n
    PROVE  Count(s, n) = Count(Tail(s), n) + (IF Head(s) = n THEN 1 ELSE 0)
<1> DEFINE A == {i \in 1 .. Len(s) : s[i] = n}
           B == {i \in 1 + 1 .. Len(s) : s[i] = n}
<1>1. /\ Tail(s) \in Seq(S) /\ Len(s) \in Nat /\ Len(s) = Len(Tail(s)) + 1 /\ Head(s) = s[1]
      /\ \A i \in 1 .. Len(Tail(s)) : Tail(s)[i] = s[i + 1]
  OBVIOUS
<1>2. Count(Tail(s), n) = Cardinality(B)
  <2>1. PICK u \in Seq(S) : u = Tail(s)
    BY <1>1
  <2>2. Len(s) = Len(u) + 1 /\ \A i \in 1 .. Len(u) : u[i] = s[i + 1]
    BY <1>1, <2>1
  <2>3. Count(u, n) = Cardinality(B)
    BY <2>2, CountShifted
  <2> QED
    BY <2>1, <2>3
<1>3. IsFiniteSet(A) /\ Count(s, n) = Cardinality(A)
  BY CountIsNat DEF Count
<1>4. B = A \ {1} /\ (1 \in A <=> Head(s) = n)
  <2>1. \A i \in 1 .. Len(s) : i \in 1 + 1 .. Len(s) <=> i # 1
    BY <1>1
  <2>2. 1 \in 1 .. Len(s)
    BY <1>1
  <2>3. \A i \in 1 + 1 .. Len(s) : i \in 1 .. Len(s)
    BY <1>1
  <2> QED
    BY <1>1, <2>1, <2>2, <2>3
<1> HIDE DEF A, B
<1>5. Cardinality(A) \in Nat
  BY <1>3, FS_CardinalityType
<1>6. Cardinality(B) = IF 1 \in A THEN Cardinality(A) - 1 ELSE Cardinality(A)
  BY <1>3, <1>4, FS_RemoveElement
<1> QED
  BY <1>2, <1>3, <1>4, <1>5, <1>6

LEMMA CountRising ==
    ASSUME NEW S \in SUBSET Nat, NEW s \in Seq(S), Rising(s), NEW n
    PROVE  Count(s, n) <= 1 /\ (~In(s, n) => Count(s, n) = 0)
<1> DEFINE A == {i \in 1 .. Len(s) : s[i] = n}
<1>1. IsFiniteSet(A) /\ Count(s, n) = Cardinality(A)
  BY CountIsNat DEF Count
<1>2. CASE A = {}
  BY <1>1, <1>2, FS_EmptySet
<1>3. CASE A # {}
  <2>1. PICK i \in A : TRUE
    BY <1>3
  <2>2. ASSUME NEW j \in A PROVE j = i
    <3>1. i \in 1 .. Len(s) /\ j \in 1 .. Len(s) /\ s[i] = s[j] /\ i \in Nat /\ j \in Nat /\ s[i] \in S
      OBVIOUS
    <3>2. s[i] \in Nat
      BY <3>1, Zenon
    <3>3. ~ (i < j) /\ ~ (j < i)
      BY <3>1, <3>2 DEF Rising
    <3> QED
      BY <3>1, <3>3
  <2>3. A = {i}
    BY <2>1, <2>2
  <2>4. Cardinality(A) = 1
    BY <2>3, FS_Singleton
  <2> QED
    BY <1>1, <1>3, <2>4 DEF In
<1> QED
  BY <1>2, <1>3

(* A ring that takes one more line.                                        *)
LEMMA PushedLine ==
    ASSUME NEW s \in Seq(Lines), Len(s) <= RingLimit, NEW m \in Lines
    PROVE  /\ Push(s, m) \in Seq(Lines) /\ Len(Push(s, m)) <= RingLimit
           /\ Len(Push(s, m)) < RingLimit => /\ Len(s) < RingLimit /\ In(Push(s, m), m)
                                             /\ \A n : In(s, n) => In(Push(s, m), n)
           /\ \A n : Count(Push(s, m), n) <= Count(s, n) + (IF m = n THEN 1 ELSE 0)
<1>0. Len(s) \in Nat /\ RingLimit \in Nat /\ RingLimit > 0
  BY LineNumbers
<1>1. CASE Len(s) >= RingLimit
  <2> DEFINE u == SubSeq(s, Len(s) - RingLimit + 2, Len(s))
  <2>1. Len(s) = RingLimit /\ Len(s) - RingLimit + 2 = 2 /\ Push(s, m) = Append(u, m)
    BY <1>0, <1>1 DEF Push
  <2>2. u = SubSeq(s, 2, Len(s))
    BY <2>1
  <2>3. u \in Seq(Lines) /\ Len(s) = Len(u) + 1 /\ \A i \in 1 .. Len(u) : u[i] = s[i + 1]
    BY <1>0, <2>1, <2>2
  <2> HIDE DEF u
  <2>4. Append(u, m) \in Seq(Lines) /\ Len(Append(u, m)) = RingLimit
    BY <1>0, <2>1, <2>3
  <2>5. ASSUME NEW n PROVE Count(Append(u, m), n) <= Count(s, n) + (IF m = n THEN 1 ELSE 0)
    <3> DEFINE A == {i \in 1 .. Len(s) : s[i] = n}
               B == {i \in 1 + 1 .. Len(s) : s[i] = n}
    <3>1. Count(u, n) = Cardinality(B)
      BY <2>3, CountShifted
    <3>2. IsFiniteSet(A) /\ Count(s, n) = Cardinality(A)
      BY CountIsNat DEF Count
    <3>3. B \in SUBSET A
      BY <1>0
    <3> HIDE DEF A, B
    <3>4. Cardinality(B) <= Cardinality(A)
      BY <3>2, <3>3, FS_Subset
    <3>5. Count(Append(u, m), n) = Count(u, n) + (IF m = n THEN 1 ELSE 0)
      BY <2>3, CountAppended
    <3>6. Count(u, n) \in Nat /\ Count(s, n) \in Nat
      BY <2>3, CountIsNat
    <3> QED
      BY <3>1, <3>2, <3>4, <3>5, <3>6
  <2> QED
    BY <1>0, <2>1, <2>4, <2>5
<1>2. CASE Len(s) < RingLimit
  <2>1. Push(s, m) = Append(s, m)
    BY <1>0, <1>2 DEF Push
  <2>2. /\ Append(s, m) \in Seq(Lines) /\ Len(Append(s, m)) = Len(s) + 1 /\ Append(s, m)[Len(s) + 1] = m
        /\ \A i \in 1 .. Len(s) : Append(s, m)[i] = s[i]
    OBVIOUS
  <2>3. In(Append(s, m), m) /\ \A n : In(s, n) => In(Append(s, m), n)
    BY <1>0, <2>2 DEF In
  <2>5. ASSUME NEW n PROVE Count(Append(s, m), n) <= Count(s, n) + (IF m = n THEN 1 ELSE 0)
    <3>1. Count(Append(s, m), n) = Count(s, n) + (IF m = n THEN 1 ELSE 0)
      BY CountAppended
    <3>2. Count(s, n) \in Nat
      BY CountIsNat
    <3> QED
      BY <3>1, <3>2
  <2> QED
    BY <1>0, <1>2, <2>1, <2>2, <2>3, <2>5
<1> QED
  BY <1>0, <1>1, <1>2

(* The replay: the newest rows, in order; a row that is not in it has as   *)
(* many newer ones as it goes back.                                        *)
LEMMA NewestRows ==
    ASSUME stored \subseteq Lines
    PROVE  /\ NewestStored \in Seq(Lines) /\ Len(NewestStored) <= ReplayLimit /\ Rising(NewestStored)
           /\ \A n \in stored : In(NewestStored, n) \/ Newer(n) >= ReplayLimit
<1> DEFINE k == Cardinality(stored)
           all == Ascending(stored)
<1>1. stored \in SUBSET Nat /\ IsFiniteSet(stored)
  BY LineNumbers, FS_Subset
<1>2. /\ k \in Nat /\ all \in [1 .. k -> stored]
      /\ \A i, j \in 1 .. k : i < j => all[i] < all[j]
      /\ \A n \in stored : \E i \in 1 .. k : all[i] = n
  BY <1>1, AscendingRows
<1>a. all \in [1 .. k -> Lines]
  BY <1>2
<1>3. all \in Seq(Lines) /\ Len(all) = k /\ ReplayLimit \in Nat /\ ReplayLimit > 0
  BY <1>2, <1>a, LineNumbers
<1>4. NewestStored = IF k > ReplayLimit THEN SubSeq(all, k - ReplayLimit + 1, k) ELSE all
  BY <1>3 DEF NewestStored
<1> HIDE DEF k, all
<1>5. CASE ~ (k > ReplayLimit)
  <2>1. NewestStored = all /\ k <= ReplayLimit
    BY <1>2, <1>3, <1>4, <1>5
  <2> QED
    BY <1>2, <1>3, <2>1 DEF Rising, In
<1>6. CASE k > ReplayLimit
  <2> DEFINE d == k - ReplayLimit
             u == SubSeq(all, d + 1, k)
  <2>1. d \in Nat /\ k = ReplayLimit + d /\ NewestStored = u
    BY <1>2, <1>3, <1>4, <1>6
  <2>2. u \in Seq(Lines) /\ Len(u) = ReplayLimit /\ \A i \in 1 .. ReplayLimit : u[i] = all[i + d]
    BY <1>2, <1>3, <2>1
  <2> HIDE DEF d, u
  <2>3. Rising(u)
    <3> SUFFICES ASSUME NEW i \in 1 .. ReplayLimit, NEW j \in 1 .. ReplayLimit, i < j PROVE u[i] < u[j]
      BY <2>2 DEF Rising
    <3>1. i + d \in 1 .. k /\ j + d \in 1 .. k /\ i + d < j + d
      BY <1>3, <2>1
    <3> QED
      BY <1>2, <2>2, <3>1
  <2>4. ASSUME NEW n \in stored, ~In(u, n) PROVE Newer(n) >= ReplayLimit
    <3> DEFINE I == d + 1 .. k
               N == {m \in stored : m > n}
               f == [i \in I |-> all[i]]
    <3>1. PICK j \in 1 .. k : all[j] = n
      BY <1>2
    <3>2. j <= d
      <4> SUFFICES ASSUME j > d PROVE FALSE
        BY <1>2, <2>1
      <4>1. j - d \in 1 .. ReplayLimit /\ (j - d) + d = j
        BY <1>2, <1>3, <2>1
      <4>2. u[j - d] = n
        BY <2>2, <3>1, <4>1
      <4> QED
        BY <2>2, <2>4, <4>1, <4>2 DEF In
    <3>3. \A i \in I : i \in 1 .. k /\ j < i
      BY <1>2, <2>1, <3>2
    <3>4. n \in Nat /\ \A i \in 1 .. k : all[i] \in stored /\ all[i] \in Nat
      BY <1>1, <1>2
    <3>5. \A i \in I : all[i] \in N
      BY <1>2, <3>1, <3>3, <3>4
    <3>6. \A i, h \in I : all[i] = all[h] => i = h
      <4> SUFFICES ASSUME NEW i \in I, NEW h \in I, all[i] = all[h] PROVE i = h
        OBVIOUS
      <4>1. i \in 1 .. k /\ h \in 1 .. k /\ i \in Nat /\ h \in Nat /\ all[i] \in Nat
        BY <1>2, <3>3, <3>4
      <4>2. ~ (i < h) /\ ~ (h < i)
        BY <1>2, <3>4, <4>1
      <4> QED
        BY <4>1, <4>2
    <3>7. IsFiniteSet(I) /\ Cardinality(I) = ReplayLimit
      <4>1. d + 1 \in Int /\ k \in Int /\ ~ (d + 1 > k) /\ k - (d + 1) + 1 = ReplayLimit
        BY <1>2, <1>3, <2>1
      <4> QED
        BY <4>1, FS_Interval
    <3>8. N \in SUBSET stored
      OBVIOUS
    <3>9. IsFiniteSet(N) /\ Newer(n) = Cardinality(N) /\ Cardinality(N) \in Nat
      BY <1>1, <3>8, FS_Subset, FS_CardinalityType DEF Newer
    <3> HIDE DEF I, N
    <3>10. f \in Injection(I, N)
      BY <3>5, <3>6 DEF Injection, IsInjective
    <3>11. Cardinality(I) <= Cardinality(N)
      BY <3>9, <3>10, FS_Injection
    <3> QED
      BY <1>3, <3>7, <3>9, <3>11
  <2> QED
    BY <1>3, <2>1, <2>2, <2>3, <2>4
<1> QED
  BY <1>5, <1>6

(* More rows, more newer ones.                                             *)
LEMMA NewerGrows ==
    ASSUME stored \subseteq Lines, stored' \subseteq Lines, stored \subseteq stored', NEW n
    PROVE  Newer(n) <= Newer(n)' /\ Newer(n) \in Nat /\ Newer(n)' \in Nat
<1> DEFINE A == {m \in stored : m > n}
           B == {m \in stored' : m > n}
<1>1. IsFiniteSet(stored') /\ IsFiniteSet(stored)
  BY LineNumbers, FS_Subset
<1>2. A \in SUBSET B /\ B \in SUBSET stored' /\ A \in SUBSET stored
  OBVIOUS
<1>3. IsFiniteSet(B) /\ IsFiniteSet(A)
  BY <1>1, <1>2, FS_Subset
<1>4. Newer(n) = Cardinality(A) /\ Newer(n)' = Cardinality(B)
  BY DEF Newer
<1> HIDE DEF A, B
<1> QED
  BY <1>2, <1>3, <1>4, FS_Subset, FS_CardinalityType

LEMMA LogStart == LogInit => LogInv
<1> SUFFICES ASSUME LogInit PROVE LogInv
  OBVIOUS
<1>1. <<>> \in Seq(Lines) /\ Len(<<>>) = 0 /\ \A n : Count(<<>>, n) = 0
  BY CountOfNone
<1>2. NoRequest \in ReqRec /\ NoRequest.pc = "none" /\ NoRequest.recent = <<>>
  BY <1>1 DEF NoRequest, ReqRec
<1>3. NoTab \in TabRec /\ NoTab.source = NoSource /\ NoTab.lines = <<>>
  BY <1>1 DEF NoTab, TabRec
<1>4. /\ \A r \in Requests : request[r] = NoRequest /\ stream[r] = <<>>
      /\ \A t \in Tabs : tab[t] = NoTab
      /\ stored = {} /\ subscribed = {}
  BY DEF LogInit
<1>5. LogTypeOK
  <2>1. /\ request \in [Requests -> ReqRec] /\ stream \in [Requests -> Seq(Lines)] /\ tab \in [Tabs -> TabRec]
        /\ \A t \in Tabs : Len(tab[t].lines) <= RingLimit
        /\ \A r \in Requests : Len(request[r].recent) <= ReplayLimit
    BY <1>1, <1>2, <1>3, LineNumbers DEF LogInit
  <2>2. /\ line \in [Lines -> {"unsent", "find", "insert", "publish", "done"}]
        /\ gap \in [Requests -> SUBSET Lines] /\ stored \subseteq Lines /\ subscribed \subseteq Requests
    BY DEF LogInit
  <2> QED
    BY <2>1, <2>2, LogTypes
<1>6. ASSUME NEW r \in Requests PROVE RequestHolds(r) /\ ReplayHolds(r)
  BY <1>1, <1>2, <1>4 DEF RequestHolds, ReplayHolds, Rising
<1>7. ASSUME NEW t \in Tabs PROVE SourceHolds(t) /\ PanelShows(t)
  BY <1>3, <1>4 DEF SourceHolds, PanelShows
<1>8. ASSUME NEW t \in Tabs, NEW n \in Lines PROVE CountHolds(t, n)
  <2>1. Count(tab[t].lines, n) = 0 /\ Count(UnderWay(t), n) = 0
    BY <1>1, <1>3, <1>4 DEF UnderWay
  <2>2. Replays(t, n) = {}
    BY <1>2, <1>4 DEF Replays
  <2>3. Published(n) = 0 /\ Cardinality(Replays(t, n)) = 0
    BY <2>2, FS_EmptySet DEF Published, LogInit
  <2> QED
    BY <2>1, <2>3 DEF CountHolds
<1> QED
  BY <1>4, <1>5, <1>6, <1>7, <1>8 DEF LogInv

(* What the invariant says of one request and of one panel.                *)
LEMMA LogKnows ==
    ASSUME LogInv
    PROVE  /\ LogTypeOK
           /\ line \in [Lines -> {"unsent", "find", "insert", "publish", "done"}]
           /\ stored \subseteq Lines /\ subscribed \subseteq Requests
           /\ request \in [Requests -> ReqRec] /\ stream \in [Requests -> Seq(Lines)]
           /\ gap \in [Requests -> SUBSET Lines] /\ tab \in [Tabs -> TabRec]
           /\ \A r \in Requests : /\ request[r] \in ReqRec /\ request[r].recent \in Seq(Lines)
                                  /\ Len(request[r].recent) <= ReplayLimit /\ stream[r] \in Seq(Lines)
                                  /\ RequestHolds(r) /\ ReplayHolds(r)
           /\ \A t \in Tabs : /\ tab[t] \in TabRec /\ tab[t].source \in Requests \cup {NoSource}
                              /\ tab[t].lines \in Seq(Lines) /\ Len(tab[t].lines) <= RingLimit
                              /\ SourceHolds(t) /\ PanelShows(t) /\ \A n \in Lines : CountHolds(t, n)
           /\ \A n \in stored : line[n] \in {"publish", "done"}
<1>1. /\ LogTypeOK /\ \A n \in stored : line[n] \in {"publish", "done"}
      /\ \A r \in Requests : RequestHolds(r) /\ ReplayHolds(r)
      /\ \A t \in Tabs : SourceHolds(t) /\ PanelShows(t) /\ \A n \in Lines : CountHolds(t, n)
  BY DEF LogInv
<1>2. /\ line \in [Lines -> {"unsent", "find", "insert", "publish", "done"}]
      /\ stored \subseteq Lines /\ subscribed \subseteq Requests
      /\ request \in [Requests -> ReqRec] /\ stream \in [Requests -> Seq(Lines)]
      /\ gap \in [Requests -> SUBSET Lines] /\ tab \in [Tabs -> TabRec]
      /\ \A t \in Tabs : Len(tab[t].lines) <= RingLimit
      /\ \A r \in Requests : Len(request[r].recent) <= ReplayLimit
  BY <1>1, LogTypes
<1>3. ASSUME NEW r \in Requests
      PROVE  request[r] \in ReqRec /\ request[r].recent \in Seq(Lines) /\ stream[r] \in Seq(Lines)
  BY <1>2 DEF ReqRec
<1>4. ASSUME NEW t \in Tabs
      PROVE  tab[t] \in TabRec /\ tab[t].source \in Requests \cup {NoSource} /\ tab[t].lines \in Seq(Lines)
  BY <1>2 DEF TabRec
<1> QED
  BY <1>1, <1>2, <1>3, <1>4

LEMMA UnderWayTypes ==
    ASSUME LogInv, NEW t \in Tabs, NEW n
    PROVE  /\ UnderWay(t) \in Seq(Lines) /\ Count(tab[t].lines, n) \in Nat /\ Count(UnderWay(t), n) \in Nat
           /\ IsFiniteSet(Replays(t, n)) /\ Cardinality(Replays(t, n)) \in Nat
<1>1. UnderWay(t) \in Seq(Lines) /\ tab[t].lines \in Seq(Lines)
  BY LogKnows DEF UnderWay
<1>2. Replays(t, n) \in SUBSET Requests
  BY DEF Replays
<1>3. IsFiniteSet(Replays(t, n))
  BY <1>2, LineNumbers, FS_Subset
<1> QED
  BY <1>1, <1>3, CountIsNat, FS_CardinalityType

(* A line comes to a panel once more, if it has been published or replayed *)
(* once more.                                                              *)
LEMMA CountStep ==
    ASSUME LogInv, NEW t \in Tabs, NEW n \in Lines, NEW d \in {0, 1},
           tab'[t].lines \in Seq(Lines), UnderWay(t)' \in Seq(Lines),
           Count(tab'[t].lines, n) + Count(UnderWay(t)', n) <= Count(tab[t].lines, n) + Count(UnderWay(t), n) + d,
           IsFiniteSet(Replays(t, n)'),
           Published(n) + Cardinality(Replays(t, n)) + d <= Published(n)' + Cardinality(Replays(t, n)')
    PROVE  CountHolds(t, n)'
<1>1. /\ Count(tab[t].lines, n) \in Nat /\ Count(UnderWay(t), n) \in Nat /\ Cardinality(Replays(t, n)) \in Nat
  BY UnderWayTypes
<1>2. Count(tab'[t].lines, n) \in Nat /\ Count(UnderWay(t)', n) \in Nat
  BY CountIsNat
<1>3. Cardinality(Replays(t, n)') \in Nat
  BY FS_CardinalityType
<1>4. Published(n) \in Nat /\ Published(n)' \in Nat
  BY DEF Published
<1>5. Count(tab[t].lines, n) + Count(UnderWay(t), n) <= Published(n) + Cardinality(Replays(t, n))
  BY LogKnows DEF CountHolds
<1>6. \A a, b, c, e, f, g, h, i \in Nat :
          a + b <= c + e + d /\ c + e <= f + g /\ f + g + d <= h + i => a + b <= h + i
  OBVIOUS
<1>7. Count(tab'[t].lines, n) + Count(UnderWay(t)', n) <= Published(n)' + Cardinality(Replays(t, n)')
  BY <1>1, <1>2, <1>3, <1>4, <1>5, <1>6
<1> QED
  BY <1>7 DEF CountHolds

(* A panel to which nothing happens.                                       *)
LEMMA CountStays ==
    ASSUME LogInv, NEW t \in Tabs, NEW n \in Lines, tab'[t].lines = tab[t].lines,
           UnderWay(t)' = UnderWay(t) \/ UnderWay(t)' = <<>>,
           \A r \in Requests :
              \/ /\ request'[r].tab = request[r].tab /\ request'[r].pc = request[r].pc
                 /\ request'[r].recent = request[r].recent
              \/ request[r].pc # "streaming" /\ request'[r].pc # "streaming",
           line[n] = "done" => line'[n] = "done"
    PROVE  CountHolds(t, n)'
<1>1. /\ UnderWay(t) \in Seq(Lines) /\ Count(tab[t].lines, n) \in Nat /\ Count(UnderWay(t), n) \in Nat
      /\ IsFiniteSet(Replays(t, n)) /\ Cardinality(Replays(t, n)) \in Nat /\ tab[t].lines \in Seq(Lines)
  BY UnderWayTypes, LogKnows
<1>2. Replays(t, n)' = Replays(t, n)
  BY DEF Replays
<1>3. UnderWay(t)' \in Seq(Lines) /\ Count(UnderWay(t)', n) <= Count(UnderWay(t), n)
      /\ Count(UnderWay(t)', n) \in Nat
  <2>1. CASE UnderWay(t)' = UnderWay(t)
    BY <1>1, <2>1
  <2>2. CASE UnderWay(t)' = <<>>
    BY <1>1, <2>2, CountOfNone
  <2> QED
    BY <2>1, <2>2
<1>4. Published(n) <= Published(n)' /\ Published(n) \in Nat /\ Published(n)' \in Nat
  BY DEF Published
<1>5. Count(tab'[t].lines, n) + Count(UnderWay(t)', n) <= Count(tab[t].lines, n) + Count(UnderWay(t), n) + 0
  BY <1>1, <1>3
<1>6. Published(n) + Cardinality(Replays(t, n)) + 0 <= Published(n)' + Cardinality(Replays(t, n)')
  BY <1>1, <1>2, <1>4
<1>7. 0 \in {0, 1} /\ IsFiniteSet(Replays(t, n)') /\ tab'[t].lines \in Seq(Lines)
  BY <1>1, <1>2
<1> QED
  BY <1>3, <1>5, <1>6, <1>7, CountStep

LEMMA ReplayStays ==
    ASSUME LogInv, NEW r \in Requests, request'[r].pc = request[r].pc, request'[r].recent = request[r].recent,
           gap[r] \subseteq gap'[r], stored \subseteq stored', stored' \subseteq Lines,
           \A n \in stored' : line'[n] = "done" =>
               \/ n \in stored /\ line[n] = "done"
               \/ request[r].pc = "start" => n \in gap'[r]
    PROVE  ReplayHolds(r)'
<1> SUFFICES ASSUME request[r].pc = "start", NEW n \in stored', line'[n] = "done", n \notin gap'[r]
             PROVE  In(request[r].recent, n) \/ Newer(n)' >= ReplayLimit
  BY DEF ReplayHolds
<1>1. n \in stored /\ line[n] = "done" /\ n \notin gap[r]
  OBVIOUS
<1>2. In(request[r].recent, n) \/ Newer(n) >= ReplayLimit
  BY <1>1, LogKnows DEF ReplayHolds
<1>3. Newer(n) <= Newer(n)' /\ Newer(n) \in Nat /\ Newer(n)' \in Nat
  BY LogKnows, NewerGrows
<1>4. ReplayLimit \in Nat
  BY LineNumbers
<1> QED
  BY <1>2, <1>3, <1>4

LEMMA PanelStays ==
    ASSUME LogInv, NEW t \in Tabs, tab'[t] = tab[t], stored \subseteq stored', stored' \subseteq Lines,
           \A r \in Requests :
              tab[t].source = r =>
                 /\ request'[r].pc = "streaming" => request[r].pc = "streaming"
                 /\ gap[r] \subseteq gap'[r]
                 /\ \A n : In(stream[r], n) => In(stream'[r], n)
                 /\ request[r].pc = "streaming" =>
                       \A n \in stored' : line'[n] = "done" =>
                           (n \in stored /\ line[n] = "done") \/ In(stream'[r], n)
    PROVE  PanelShows(t)'
<1> DEFINE r == tab[t].source
<1> SUFFICES ASSUME r # NoSource, request'[r].pc = "streaming", Len(tab[t].lines) < RingLimit,
                    NEW n \in stored', line'[n] = "done"
             PROVE  \/ In(tab[t].lines, n) \/ In(stream'[r], n)
                    \/ n \in gap'[r] \/ Newer(n)' >= ReplayLimit
  BY DEF PanelShows
<1>1. r \in Requests
  BY LogKnows
<1>2. /\ request[r].pc = "streaming" /\ gap[r] \subseteq gap'[r]
      /\ \A m : In(stream[r], m) => In(stream'[r], m)
      /\ (n \in stored /\ line[n] = "done") \/ In(stream'[r], n)
  BY <1>1
<1>3. CASE n \in stored /\ line[n] = "done"
  <2>1. \/ In(tab[t].lines, n) \/ In(stream[r], n)
        \/ n \in gap[r] \/ Newer(n) >= ReplayLimit
    BY <1>2, <1>3, LogKnows DEF PanelShows
  <2>2. Newer(n) <= Newer(n)' /\ Newer(n) \in Nat /\ Newer(n)' \in Nat
    BY LogKnows, NewerGrows
  <2>3. ReplayLimit \in Nat
    BY LineNumbers
  <2>4. Newer(n) >= ReplayLimit => Newer(n)' >= ReplayLimit
    BY <2>2, <2>3
  <2> QED
    BY <1>2, <2>1, <2>4
<1> QED
  BY <1>2, <1>3

(* The agent's lines, up to the moment they are published.                 *)
LEMMA LineStep ==
    ASSUME LogInv, UNCHANGED <<request, stream, subscribed, gap, tab>>,
           line' \in [Lines -> {"unsent", "find", "insert", "publish", "done"}],
           stored' \subseteq Lines, stored \subseteq stored',
           \A n \in stored' : line'[n] \in {"publish", "done"},
           \A n \in stored' : line'[n] = "done" => n \in stored /\ line[n] = "done",
           \A n \in Lines : line[n] = "done" => line'[n] = "done"
    PROVE  LogInv'
<1>1. LogTypeOK'
  BY LogKnows DEF LogTypeOK
<1>2. ASSUME NEW r \in Requests PROVE RequestHolds(r)' /\ ReplayHolds(r)'
  <2>1. RequestHolds(r)'
    BY LogKnows DEF RequestHolds
  <2> QED
    BY <2>1, ReplayStays
<1>3. ASSUME NEW t \in Tabs PROVE SourceHolds(t)' /\ PanelShows(t)'
  <2>1. SourceHolds(t)'
    BY LogKnows DEF SourceHolds
  <2> QED
    BY <2>1, PanelStays
<1>4. ASSUME NEW t \in Tabs, NEW n \in Lines PROVE CountHolds(t, n)'
  <2>1. UnderWay(t)' = UnderWay(t)
    BY DEF UnderWay
  <2> QED
    BY <2>1, CountStays
<1> QED
  BY <1>1, <1>2, <1>3, <1>4 DEF LogInv

LEMMA ArrivesKeeps ==
    ASSUME LogInv, NEW n \in Lines, LogArrives(n) \/ FindOwner(n) \/ StoreLine(n)
    PROVE  LogInv'
<1>0. /\ line \in [Lines -> {"unsent", "find", "insert", "publish", "done"}] /\ stored \subseteq Lines
      /\ \A m \in stored : line[m] \in {"publish", "done"}
  BY LogKnows
<1>1. CASE LogArrives(n) \/ FindOwner(n)
  <2>1. PICK to \in {"find", "insert", "done"} : line' = [line EXCEPT ![n] = to]
    BY <1>1 DEF LogArrives, FindOwner
  <2>2. n \notin stored /\ line[n] # "done" /\ UNCHANGED <<stored, request, stream, subscribed, gap, tab>>
    BY <1>0, <1>1 DEF LogArrives, FindOwner
  <2>3. /\ line' \in [Lines -> {"unsent", "find", "insert", "publish", "done"}]
        /\ \A m \in Lines : line'[m] = IF m = n THEN to ELSE line[m]
    BY <1>0, <2>1
  <2>4. /\ \A m \in stored' : line'[m] \in {"publish", "done"}
        /\ \A m \in stored' : line'[m] = "done" => m \in stored /\ line[m] = "done"
        /\ \A m \in Lines : line[m] = "done" => line'[m] = "done"
    BY <1>0, <2>2, <2>3
  <2> QED
    BY <1>0, <2>2, <2>3, <2>4, LineStep
<1>2. CASE StoreLine(n)
  <2>1. /\ stored' \subseteq stored \cup {n} /\ stored \subseteq stored' /\ line' = [line EXCEPT ![n] = "publish"]
        /\ line[n] = "insert" /\ UNCHANGED <<request, stream, subscribed, gap, tab>>
    BY <1>2 DEF StoreLine
  <2>2. /\ line' \in [Lines -> {"unsent", "find", "insert", "publish", "done"}]
        /\ \A m \in Lines : line'[m] = IF m = n THEN "publish" ELSE line[m]
    BY <1>0, <2>1
  <2>3. /\ stored' \subseteq Lines
        /\ \A m \in stored' : line'[m] \in {"publish", "done"}
        /\ \A m \in stored' : line'[m] = "done" => m \in stored /\ line[m] = "done"
        /\ \A m \in Lines : line[m] = "done" => line'[m] = "done"
    BY <1>0, <2>1, <2>2
  <2> QED
    BY <2>1, <2>2, <2>3, LineStep
<1> QED
  BY <1>1, <1>2

(* A line is published to all that listen; those that are between their    *)
(* SELECT and their subscription miss it.                                  *)
LEMMA PublishKeeps ==
    ASSUME LogInv, NEW n \in Lines, Publish(n)
    PROVE  LogInv'
<1>0. /\ line' = [line EXCEPT ![n] = "done"] /\ line[n] = "publish" /\ UNCHANGED <<stored, request, subscribed, tab>>
      /\ stream' = [r \in Requests |-> IF r \in subscribed /\ ~request[r].aborted
                                       THEN Append(stream[r], n) ELSE stream[r]]
      /\ gap' = [r \in Requests |-> IF request[r].pc = "start" THEN gap[r] \cup {n} ELSE gap[r]]
  BY DEF Publish
<1>1. /\ LogTypeOK /\ stored \subseteq Lines
      /\ line \in [Lines -> {"unsent", "find", "insert", "publish", "done"}]
      /\ gap \in [Requests -> SUBSET Lines] /\ stream \in [Requests -> Seq(Lines)]
      /\ \A m \in stored : line[m] \in {"publish", "done"}
  BY LogKnows
<1>2. /\ line' \in [Lines -> {"unsent", "find", "insert", "publish", "done"}]
      /\ \A m \in Lines : line'[m] = IF m = n THEN "done" ELSE line[m]
  BY <1>0, <1>1
<1>3. ASSUME NEW r \in Requests
      PROVE  /\ gap'[r] \in SUBSET Lines /\ gap[r] \subseteq gap'[r]
             /\ request[r].pc = "start" => n \in gap'[r]
             /\ stream'[r] \in Seq(Lines)
             /\ stream'[r] = IF r \in subscribed /\ ~request[r].aborted
                             THEN Append(stream[r], n) ELSE stream[r]
             /\ \A m : In(stream[r], m) => In(stream'[r], m)
             /\ r \in subscribed /\ ~request[r].aborted => In(stream'[r], n)
  <2>1. stream[r] \in Seq(Lines) /\ gap[r] \in SUBSET Lines
    BY <1>1
  <2>2. stream'[r] = IF r \in subscribed /\ ~request[r].aborted
                     THEN Append(stream[r], n) ELSE stream[r]
    BY <1>0
  <2>3. gap'[r] = IF request[r].pc = "start" THEN gap[r] \cup {n} ELSE gap[r]
    BY <1>0
  <2>4. /\ Append(stream[r], n) \in Seq(Lines) /\ Len(stream[r]) \in Nat
        /\ Len(Append(stream[r], n)) = Len(stream[r]) + 1 /\ Append(stream[r], n)[Len(stream[r]) + 1] = n
        /\ \A i \in 1 .. Len(stream[r]) : Append(stream[r], n)[i] = stream[r][i]
    BY <2>1
  <2>5. In(Append(stream[r], n), n) /\ \A m : In(stream[r], m) => In(Append(stream[r], n), m)
    BY <2>4 DEF In
  <2> QED
    BY <2>1, <2>2, <2>3, <2>4, <2>5
<1>4. LogTypeOK'
  <2>1. gap' \in [Requests -> SUBSET Lines] /\ stream' \in [Requests -> Seq(Lines)]
    BY <1>0, <1>3
  <2> QED
    BY <1>0, <1>1, <1>2, <2>1 DEF LogTypeOK
<1>5. ASSUME NEW r \in Requests PROVE RequestHolds(r)' /\ ReplayHolds(r)'
  <2>1. RequestHolds(r)'
    BY <1>0, <1>3, LogKnows DEF RequestHolds
  <2>2. \A m \in stored' : line'[m] = "done" =>
            \/ m \in stored /\ line[m] = "done"
            \/ request[r].pc = "start" => m \in gap'[r]
    BY <1>0, <1>1, <1>2, <1>3
  <2> QED
    BY <1>0, <1>1, <1>3, <2>1, <2>2, ReplayStays
<1>6. ASSUME NEW t \in Tabs PROVE SourceHolds(t)' /\ PanelShows(t)'
  <2>1. SourceHolds(t)'
    BY <1>0, LogKnows DEF SourceHolds
  <2>2. ASSUME NEW r \in Requests, tab[t].source = r, request[r].pc = "streaming"
        PROVE  In(stream'[r], n)
    <3>1. ~request[r].aborted
      BY <2>2, LogKnows, LineNumbers DEF SourceHolds
    <3>2. r \in subscribed
      BY <2>2, <3>1, LogKnows DEF RequestHolds
    <3> QED
      BY <1>3, <3>1, <3>2
  <2>3. \A r \in Requests : tab[t].source = r /\ request[r].pc = "streaming" =>
            \A m \in stored' : line'[m] = "done" =>
                (m \in stored /\ line[m] = "done") \/ In(stream'[r], m)
    BY <1>0, <1>1, <1>2, <2>2
  <2> QED
    BY <1>0, <1>1, <1>3, <2>1, <2>3, PanelStays
<1>7. ASSUME NEW t \in Tabs, NEW m \in Lines PROVE CountHolds(t, m)'
  <2>1. /\ tab'[t].lines = tab[t].lines /\ tab[t].lines \in Seq(Lines)
        /\ tab[t].source \in Requests \cup {NoSource}
    BY <1>0, LogKnows
  <2>2. UnderWay(t)' = UnderWay(t) \/ UnderWay(t)' = Append(UnderWay(t), n)
    BY <1>0, <1>3, <2>1 DEF UnderWay
  <2>3. CASE m # n \/ UnderWay(t)' = UnderWay(t)
    <3>1. /\ UnderWay(t) \in Seq(Lines) /\ UnderWay(t)' \in Seq(Lines)
      BY <2>2, UnderWayTypes
    <3>2. Count(UnderWay(t)', m) = Count(UnderWay(t), m)
      <4>1. CASE UnderWay(t)' = UnderWay(t)
        BY <4>1
      <4>2. CASE UnderWay(t)' = Append(UnderWay(t), n) /\ m # n
        <5>1. Count(Append(UnderWay(t), n), m) = Count(UnderWay(t), m) + 0
          BY <3>1, <4>2, CountAppended
        <5> QED
          BY <4>2, <5>1, UnderWayTypes
      <4> QED
        BY <2>2, <2>3, <4>1, <4>2
    <3>3. Replays(t, m)' = Replays(t, m)
      BY <1>0 DEF Replays
    <3>4. Published(m) <= Published(m)' /\ Published(m) \in Nat /\ Published(m)' \in Nat
      BY <1>1, <1>2 DEF Published
    <3>5. /\ Count(tab[t].lines, m) \in Nat /\ Count(UnderWay(t), m) \in Nat
          /\ IsFiniteSet(Replays(t, m)) /\ Cardinality(Replays(t, m)) \in Nat
      BY UnderWayTypes
    <3>6. /\ Count(tab'[t].lines, m) + Count(UnderWay(t)', m) <= Count(tab[t].lines, m) + Count(UnderWay(t), m) + 0
          /\ Published(m) + Cardinality(Replays(t, m)) + 0 <= Published(m)' + Cardinality(Replays(t, m)')
          /\ 0 \in {0, 1} /\ IsFiniteSet(Replays(t, m)')
      BY <2>1, <3>2, <3>3, <3>4, <3>5
    <3> QED
      BY <2>1, <3>1, <3>6, CountStep
  <2>4. CASE m = n /\ UnderWay(t)' = Append(UnderWay(t), n)
    <3>1. UnderWay(t) \in Seq(Lines) /\ UnderWay(t)' \in Seq(Lines)
      BY <2>4, UnderWayTypes
    <3>2. Count(UnderWay(t)', m) = Count(UnderWay(t), m) + 1
      BY <2>4, <3>1, CountAppended
    <3>3. Replays(t, m)' = Replays(t, m)
      BY <1>0 DEF Replays
    <3>4. Published(m) = 0 /\ Published(m)' = 1
      BY <1>0, <1>1, <1>2, <2>4 DEF Published
    <3>5. /\ Count(tab[t].lines, m) \in Nat /\ Count(UnderWay(t), m) \in Nat
          /\ IsFiniteSet(Replays(t, m)) /\ Cardinality(Replays(t, m)) \in Nat
      BY UnderWayTypes
    <3>6. /\ Count(tab'[t].lines, m) + Count(UnderWay(t)', m) <= Count(tab[t].lines, m) + Count(UnderWay(t), m) + 1
          /\ Published(m) + Cardinality(Replays(t, m)) + 1 <= Published(m)' + Cardinality(Replays(t, m)')
          /\ 1 \in {0, 1} /\ IsFiniteSet(Replays(t, m)')
      BY <2>1, <3>2, <3>3, <3>4, <3>5
    <3> QED
      BY <2>1, <3>1, <3>6, CountStep
  <2> QED
    BY <2>2, <2>3, <2>4
<1>8. \A m \in stored' : line'[m] \in {"publish", "done"}
  BY <1>0, <1>1, <1>2
<1> QED
  BY <1>4, <1>5, <1>6, <1>7, <1>8 DEF LogInv

(* The route, up to the moment the stream starts.                          *)
LEMMA RouteStep ==
    ASSUME LogInv, NEW r \in Requests, NEW x \in ReqRec, request' = [request EXCEPT ![r] = x],
           UNCHANGED <<line, stored, stream, subscribed, gap, tab>>,
           request[r].pc \notin {"none", "streaming"}, x.pc \notin {"none", "streaming"},
           x.tab = request[r].tab, x.aborted = request[r].aborted,
           Len(x.recent) <= ReplayLimit, Rising(x.recent),
           x.pc = "start" => \A n \in stored : In(x.recent, n) \/ Newer(n) >= ReplayLimit
    PROVE  LogInv'
<1>0. /\ request' \in [Requests -> ReqRec] /\ \A q \in Requests : request'[q] = IF q = r THEN x ELSE request[q]
      /\ stored \subseteq Lines
  BY LogKnows
<1>1. LogTypeOK'
  <2>1. \A q \in Requests : Len(request'[q].recent) <= ReplayLimit
    BY <1>0, LogKnows
  <2> QED
    BY <1>0, <2>1, LogKnows DEF LogTypeOK, ReqRec
<1>2. ASSUME NEW q \in Requests PROVE RequestHolds(q)' /\ ReplayHolds(q)'
  <2>1. CASE q = r
    <3>1. RequestHolds(q)'
      BY <1>0, <2>1, LogKnows DEF RequestHolds
    <3>2. ReplayHolds(q)'
      <4>1. \A n : Newer(n)' = Newer(n)
        BY DEF Newer
      <4> QED
        BY <1>0, <2>1, <4>1 DEF ReplayHolds
    <3> QED
      BY <3>1, <3>2
  <2>2. CASE q # r
    <3>1. RequestHolds(q)'
      BY <1>0, <2>2, LogKnows DEF RequestHolds
    <3> QED
      BY <1>0, <2>2, <3>1, ReplayStays
  <2> QED
    BY <2>1, <2>2
<1>3. ASSUME NEW t \in Tabs PROVE SourceHolds(t)' /\ PanelShows(t)'
  <2>1. SourceHolds(t)'
    BY <1>0, LogKnows DEF SourceHolds
  <2> QED
    BY <1>0, <2>1, PanelStays
<1>4. ASSUME NEW t \in Tabs, NEW n \in Lines PROVE CountHolds(t, n)'
  <2>1. UnderWay(t)' = UnderWay(t)
    BY DEF UnderWay
  <2> QED
    BY <1>0, <2>1, CountStays
<1> QED
  BY <1>1, <1>2, <1>3, <1>4, LogKnows DEF LogInv

LEMMA RouteKeeps ==
    ASSUME LogInv, NEW r \in Requests, CheckRequest(r) \/ SelectRecent(r)
    PROVE  LogInv'
<1>0. /\ request \in [Requests -> ReqRec] /\ request[r] \in ReqRec /\ stored \subseteq Lines
      /\ Len(request[r].recent) <= ReplayLimit /\ Rising(request[r].recent)
  BY LogKnows DEF RequestHolds
<1>1. CASE CheckRequest(r)
  <2>1. PICK to \in {"select", "refused"} : request' = [request EXCEPT ![r].pc = to]
    BY <1>1 DEF CheckRequest
  <2> DEFINE x == [request[r] EXCEPT !.pc = to]
  <2>2. x \in ReqRec /\ x.pc = to /\ x.tab = request[r].tab /\ x.aborted = request[r].aborted
        /\ x.recent = request[r].recent
    BY <1>0 DEF ReqRec
  <2>3. request' = [request EXCEPT ![r] = x] /\ request[r].pc = "check"
        /\ UNCHANGED <<line, stored, stream, subscribed, gap, tab>>
    BY <1>1, <2>1 DEF CheckRequest
  <2> HIDE DEF x
  <2> QED
    BY <1>0, <2>2, <2>3, RouteStep
<1>2. CASE SelectRecent(r)
  <2> DEFINE x == [request[r] EXCEPT !.recent = NewestStored, !.pc = "start"]
  <2>1. /\ NewestStored \in Seq(Lines) /\ Len(NewestStored) <= ReplayLimit /\ Rising(NewestStored)
        /\ \A n \in stored : In(NewestStored, n) \/ Newer(n) >= ReplayLimit
    BY <1>0, NewestRows
  <2>2. x \in ReqRec /\ x.pc = "start" /\ x.tab = request[r].tab /\ x.aborted = request[r].aborted
        /\ x.recent = NewestStored
    BY <1>0, <2>1 DEF ReqRec
  <2>3. request' = [request EXCEPT ![r] = x] /\ request[r].pc = "select"
        /\ UNCHANGED <<line, stored, stream, subscribed, gap, tab>>
    BY <1>0, <1>2 DEF SelectRecent
  <2> HIDE DEF x
  <2> QED
    BY <2>1, <2>2, <2>3, RouteStep
<1> QED
  BY <1>1, <1>2

(* The replay is sent and the subscription begins: each line that is       *)
(* replayed comes once more.                                               *)
LEMMA StartKeeps ==
    ASSUME LogInv, NEW r \in Requests, StartStream(r)
    PROVE  LogInv'
<1> DEFINE x == [request[r] EXCEPT !.pc = "streaming"]
<1>0. /\ request[r].pc = "start" /\ request' = [request EXCEPT ![r] = x]
      /\ stream' = [stream EXCEPT ![r] = IF request[r].aborted THEN <<>> ELSE request[r].recent]
      /\ subscribed' = subscribed \cup {r} /\ UNCHANGED <<line, stored, gap, tab>>
  BY LogKnows DEF StartStream
<1>1. /\ LogTypeOK /\ request \in [Requests -> ReqRec] /\ request[r] \in ReqRec
      /\ stream \in [Requests -> Seq(Lines)] /\ request[r].recent \in Seq(Lines) /\ stored \subseteq Lines
      /\ \A q \in Requests : RequestHolds(q) /\ ReplayHolds(q)
  BY LogKnows
<1>2. /\ x \in ReqRec /\ x.pc = "streaming" /\ x.tab = request[r].tab /\ x.aborted = request[r].aborted
      /\ x.recent = request[r].recent
  BY <1>1 DEF ReqRec
<1> HIDE DEF x
<1>3. /\ request' \in [Requests -> ReqRec] /\ \A q \in Requests : request'[q] = IF q = r THEN x ELSE request[q]
  BY <1>0, <1>1, <1>2
<1>4. <<>> \in Seq(Lines) /\ stream[r] = <<>>
  BY <1>0, <1>1 DEF RequestHolds
<1>5. /\ stream' \in [Requests -> Seq(Lines)]
      /\ \A q \in Requests \ {r} : stream'[q] = stream[q]
      /\ stream'[r] = IF request[r].aborted THEN <<>> ELSE request[r].recent
  BY <1>0, <1>1, <1>4
<1>6. LogTypeOK'
  <2>1. \A q \in Requests : Len(request'[q].recent) <= ReplayLimit
    BY <1>2, <1>3, LogKnows
  <2>2. subscribed' \subseteq Requests
    BY <1>0, LogKnows
  <2> QED
    BY <1>0, <1>1, <1>3, <1>5, <2>1, <2>2 DEF LogTypeOK, ReqRec
<1>7. ASSUME NEW q \in Requests PROVE RequestHolds(q)' /\ ReplayHolds(q)'
  <2>1. CASE q = r
    <3>1. Rising(x.recent)
      BY <1>1, <1>2 DEF RequestHolds
    <3>2. RequestHolds(q)'
      BY <1>0, <1>2, <1>3, <2>1, <3>1 DEF RequestHolds
    <3> QED
      BY <1>2, <1>3, <2>1, <3>2 DEF ReplayHolds
  <2>2. CASE q # r
    <3>1. RequestHolds(q)'
      BY <1>0, <1>1, <1>3, <1>5, <2>2 DEF RequestHolds
    <3> QED
      BY <1>0, <1>1, <1>3, <2>2, <3>1, ReplayStays
  <2> QED
    BY <2>1, <2>2
<1>8. ASSUME NEW t \in Tabs PROVE SourceHolds(t)' /\ PanelShows(t)'
  <2>1. tab[t].source = r => ~request[r].aborted /\ request[r].tab = t
    BY LogKnows, LineNumbers DEF SourceHolds
  <2>2. SourceHolds(t)'
    BY <1>0, <1>2, <1>3, LogKnows DEF SourceHolds
  <2>3. CASE tab[t].source = r
    <3>1. stream'[r] = request[r].recent
      BY <1>5, <2>1, <2>3
    <3>2. \A n : Newer(n)' = Newer(n)
      BY <1>0 DEF Newer
    <3>3. \A n \in stored : line[n] = "done" =>
              In(request[r].recent, n) \/ n \in gap[r] \/ Newer(n) >= ReplayLimit
      BY <1>0, <1>1 DEF ReplayHolds
    <3> QED
      BY <1>0, <2>2, <2>3, <3>1, <3>2, <3>3 DEF PanelShows
  <2>4. CASE tab[t].source # r
    <3>1. \A q \in Requests : tab[t].source = q =>
              request'[q] = request[q] /\ stream'[q] = stream[q]
      BY <1>3, <1>5, <2>4
    <3> QED
      BY <1>0, <1>1, <2>2, <3>1, PanelStays
  <2> QED
    BY <2>2, <2>3, <2>4
<1>9. ASSUME NEW t \in Tabs, NEW n \in Lines PROVE CountHolds(t, n)'
  <2>1. /\ tab'[t].lines = tab[t].lines /\ tab[t].lines \in Seq(Lines)
        /\ tab[t].source \in Requests \cup {NoSource} /\ tab' = tab
        /\ tab[t].source = r => ~request[r].aborted /\ request[r].tab = t
    BY <1>0, LogKnows, LineNumbers DEF SourceHolds
  <2>2. /\ Count(tab[t].lines, n) \in Nat /\ Count(UnderWay(t), n) \in Nat
        /\ IsFiniteSet(Replays(t, n)) /\ Cardinality(Replays(t, n)) \in Nat
    BY UnderWayTypes
  <2>3. Published(n)' = Published(n) /\ Published(n) \in Nat
    BY <1>0 DEF Published
  <2>4. CASE request[r].tab = t /\ In(request[r].recent, n)
    <3>1. Replays(t, n)' = Replays(t, n) \cup {r} /\ r \notin Replays(t, n)
      BY <1>0, <1>2, <1>3, <2>4 DEF Replays
    <3>2. IsFiniteSet(Replays(t, n)') /\ Cardinality(Replays(t, n)') = Cardinality(Replays(t, n)) + 1
      BY <2>2, <3>1, FS_AddElement
    <3>3. UnderWay(t)' \in Seq(Lines) /\ Count(UnderWay(t)', n) <= Count(UnderWay(t), n) + 1
          /\ Count(UnderWay(t)', n) \in Nat
      <4>1. CASE tab[t].source = r
        <5>1. UnderWay(t)' = request[r].recent
          BY <1>5, <2>1, <4>1, LineNumbers DEF UnderWay
        <5>2. Count(request[r].recent, n) <= 1 /\ Count(request[r].recent, n) \in Nat
          BY <1>1, LineNumbers, CountRising, CountIsNat DEF RequestHolds
        <5> QED
          BY <1>1, <2>2, <5>1, <5>2
      <4>2. CASE tab[t].source # r
        <5>1. UnderWay(t)' = UnderWay(t)
          BY <1>5, <2>1, <4>2 DEF UnderWay
        <5>2. UnderWay(t) \in Seq(Lines)
          BY UnderWayTypes
        <5> QED
          BY <2>2, <5>1, <5>2
      <4> QED
        BY <4>1, <4>2
    <3>4. /\ Count(tab'[t].lines, n) + Count(UnderWay(t)', n) <= Count(tab[t].lines, n) + Count(UnderWay(t), n) + 1
          /\ Published(n) + Cardinality(Replays(t, n)) + 1 <= Published(n)' + Cardinality(Replays(t, n)')
          /\ 1 \in {0, 1}
      BY <2>1, <2>2, <2>3, <3>2, <3>3
    <3> QED
      BY <2>1, <3>2, <3>3, <3>4, CountStep
  <2>5. CASE ~ (request[r].tab = t /\ In(request[r].recent, n))
    <3>1. Replays(t, n)' = Replays(t, n)
      BY <1>0, <1>2, <1>3, <2>5 DEF Replays
    <3>2. UnderWay(t)' \in Seq(Lines) /\ Count(UnderWay(t)', n) <= Count(UnderWay(t), n)
          /\ Count(UnderWay(t)', n) \in Nat
      <4>1. CASE tab[t].source = r
        <5>1. UnderWay(t)' = request[r].recent
          BY <1>5, <2>1, <4>1, LineNumbers DEF UnderWay
        <5>2. Count(request[r].recent, n) = 0
          BY <1>1, <2>1, <2>5, <4>1, LineNumbers, CountRising DEF RequestHolds
        <5> QED
          BY <1>1, <2>2, <5>1, <5>2
      <4>2. CASE tab[t].source # r
        <5>1. UnderWay(t)' = UnderWay(t)
          BY <1>5, <2>1, <4>2 DEF UnderWay
        <5>2. UnderWay(t) \in Seq(Lines)
          BY UnderWayTypes
        <5> QED
          BY <2>2, <5>1, <5>2
      <4> QED
        BY <4>1, <4>2
    <3>3. /\ Count(tab'[t].lines, n) + Count(UnderWay(t)', n) <= Count(tab[t].lines, n) + Count(UnderWay(t), n) + 0
          /\ Published(n) + Cardinality(Replays(t, n)) + 0 <= Published(n)' + Cardinality(Replays(t, n)')
          /\ 0 \in {0, 1} /\ IsFiniteSet(Replays(t, n)')
      BY <2>1, <2>2, <2>3, <3>1, <3>2
    <3> QED
      BY <2>1, <3>2, <3>3, CountStep
  <2> QED
    BY <2>4, <2>5
<1> QED
  BY <1>0, <1>6, <1>7, <1>8, <1>9, LogKnows DEF LogInv

(* A panel asks for a stream.                                              *)
LEMMA GetStep ==
    ASSUME LogInv, NEW t \in Tabs, NEW r \in Requests, Get(r, t), tab[t].source = NoSource,
           NEW y \in TabRec, tab' = [tab EXCEPT ![t] = y], y.source = r, y.lines = tab[t].lines,
           UNCHANGED <<line, stored, stream, subscribed, gap>>
    PROVE  LogInv'
<1> DEFINE x == [request[r] EXCEPT !.pc = "check", !.tab = t]
<1>1. /\ LogTypeOK /\ request \in [Requests -> ReqRec] /\ tab \in [Tabs -> TabRec] /\ stored \subseteq Lines
      /\ \A q \in Requests : RequestHolds(q) /\ ReplayHolds(q)
      /\ \A u \in Tabs : SourceHolds(u) /\ Len(tab[u].lines) <= RingLimit
  BY LogKnows
<1>2. request[r] = NoRequest /\ request[r].pc = "none" /\ request' = [request EXCEPT ![r] = x]
  <2>1. request[r] = NoRequest /\ NoRequest.pc = "none"
    BY DEF Get, NoRequest
  <2>2. request' = [request EXCEPT ![r] = x]
    BY <1>1 DEF Get
  <2> QED
    BY <2>1, <2>2
<1>3. x \in ReqRec /\ x.pc = "check" /\ x.tab = t /\ ~x.aborted /\ x.recent = <<>>
  <2>1. ~NoRequest.aborted /\ NoRequest.recent = <<>> /\ request[r] \in ReqRec
    BY <1>1 DEF NoRequest
  <2>2. x \in ReqRec /\ x.pc = "check" /\ x.tab = t
    BY <2>1 DEF ReqRec
  <2>3. x.aborted = request[r].aborted /\ x.recent = request[r].recent
    BY <2>1 DEF ReqRec
  <2> QED
    BY <1>2, <2>1, <2>2, <2>3
<1> HIDE DEF x
<1>4. /\ request' \in [Requests -> ReqRec] /\ \A q \in Requests : request'[q] = IF q = r THEN x ELSE request[q]
      /\ tab' \in [Tabs -> TabRec] /\ \A u \in Tabs : tab'[u] = IF u = t THEN y ELSE tab[u]
  BY <1>1, <1>2, <1>3
<1>5. r \notin subscribed /\ stream[r] = <<>>
  BY <1>1, <1>2 DEF RequestHolds
<1>6. LogTypeOK'
  <2>1. Len(<<>>) <= ReplayLimit
    BY LineNumbers
  <2>2. \A q \in Requests : Len(request'[q].recent) <= ReplayLimit
    BY <1>3, <1>4, <2>1, LogKnows
  <2>3. \A u \in Tabs : Len(tab'[u].lines) <= RingLimit
    BY <1>1, <1>4
  <2> QED
    BY <1>1, <1>4, <2>2, <2>3 DEF LogTypeOK, ReqRec, TabRec
<1>7. ASSUME NEW q \in Requests PROVE RequestHolds(q)' /\ ReplayHolds(q)'
  <2>1. CASE q = r
    <3>1. Rising(<<>>)
      BY DEF Rising
    <3>2. RequestHolds(q)'
      BY <1>3, <1>4, <1>5, <2>1, <3>1 DEF RequestHolds
    <3> QED
      BY <1>3, <1>4, <2>1, <3>2 DEF ReplayHolds
  <2>2. CASE q # r
    <3>1. RequestHolds(q)'
      BY <1>1, <1>4, <2>2 DEF RequestHolds
    <3> QED
      BY <1>1, <1>4, <2>2, <3>1, ReplayStays
  <2> QED
    BY <2>1, <2>2
<1>8. \A u \in Tabs : tab[u].source # r
  BY <1>1, <1>2, LineNumbers DEF SourceHolds
<1>9. ASSUME NEW u \in Tabs PROVE SourceHolds(u)' /\ PanelShows(u)'
  <2>1. CASE u = t
    BY <1>3, <1>4, <2>1 DEF SourceHolds, PanelShows
  <2>2. CASE u # t
    <3>1. tab'[u] = tab[u] /\ \A q \in Requests : tab[u].source = q => request'[q] = request[q]
      BY <1>4, <1>8, <2>2
    <3>2. SourceHolds(u)'
      BY <1>1, <3>1, LogKnows DEF SourceHolds
    <3> QED
      BY <1>1, <3>1, <3>2, PanelStays
  <2> QED
    BY <2>1, <2>2
<1>10. ASSUME NEW u \in Tabs, NEW n \in Lines PROVE CountHolds(u, n)'
  <2>1. UnderWay(u)' = UnderWay(u) \/ UnderWay(u)' = <<>>
    <3>1. CASE u = t
      BY <1>4, <1>5, <3>1, LineNumbers DEF UnderWay
    <3>2. CASE u # t
      BY <1>4, <3>2 DEF UnderWay
    <3> QED
      BY <3>1, <3>2
  <2>2. tab'[u].lines = tab[u].lines
    BY <1>4
  <2>3. \A q \in Requests :
            \/ /\ request'[q].tab = request[q].tab /\ request'[q].pc = request[q].pc
               /\ request'[q].recent = request[q].recent
            \/ request[q].pc # "streaming" /\ request'[q].pc # "streaming"
    BY <1>2, <1>3, <1>4
  <2> QED
    BY <2>1, <2>2, <2>3, CountStays
<1> QED
  BY <1>6, <1>7, <1>9, <1>10, LogKnows DEF LogInv

(* A panel's stream breaks or is left, and its request is aborted.         *)
LEMMA QuitStep ==
    ASSUME LogInv, NEW t \in Tabs, NEW y \in TabRec, tab' = [tab EXCEPT ![t] = y],
           y.source = NoSource, y.lines = tab[t].lines, UNCHANGED <<line, stored, gap>>,
           \/ tab[t].source = NoSource /\ UNCHANGED <<subscribed, request, stream>>
           \/ tab[t].source # NoSource /\ Abort(tab[t].source)
    PROVE  LogInv'
<1>1. /\ LogTypeOK /\ request \in [Requests -> ReqRec] /\ tab \in [Tabs -> TabRec] /\ stored \subseteq Lines
      /\ subscribed \subseteq Requests /\ stream \in [Requests -> Seq(Lines)]
      /\ \A q \in Requests : RequestHolds(q) /\ ReplayHolds(q)
      /\ \A u \in Tabs : SourceHolds(u) /\ Len(tab[u].lines) <= RingLimit
      /\ tab[t].source \in Requests \cup {NoSource}
  BY LogKnows
<1>2. tab' \in [Tabs -> TabRec] /\ \A u \in Tabs : tab'[u] = IF u = t THEN y ELSE tab[u]
  BY <1>1
<1>3. \A u \in Tabs : Len(tab'[u].lines) <= RingLimit
  BY <1>1, <1>2
<1>4. /\ request' \in [Requests -> ReqRec] /\ stream' \in [Requests -> Seq(Lines)] /\ subscribed' \subseteq Requests
      /\ \A q \in Requests :
            /\ request'[q].pc = request[q].pc /\ request'[q].tab = request[q].tab
            /\ request'[q].recent = request[q].recent
            /\ q # tab[t].source => /\ request'[q] = request[q] /\ stream'[q] = stream[q]
                                    /\ q \in subscribed' <=> q \in subscribed
            /\ q = tab[t].source => /\ request'[q].aborted /\ stream'[q] = <<>>
                                    /\ q \in subscribed' => q \in subscribed /\ request[q].pc # "streaming"
  <2>1. CASE tab[t].source = NoSource
    BY <1>1, <2>1, LineNumbers DEF Abort
  <2>2. CASE tab[t].source # NoSource
    <3> DEFINE x == [request[tab[t].source] EXCEPT !.aborted = TRUE]
    <3>1. /\ tab[t].source \in Requests /\ request' = [request EXCEPT ![tab[t].source] = x]
          /\ stream' = [stream EXCEPT ![tab[t].source] = <<>>]
          /\ subscribed' = IF request[tab[t].source].pc = "streaming"
                           THEN subscribed \ {tab[t].source} ELSE subscribed
      BY <1>1, <2>2 DEF Abort, Cleanup
    <3>2. request[tab[t].source] \in ReqRec
      BY <1>1, <3>1
    <3>3. /\ x \in ReqRec /\ x.aborted /\ x.pc = request[tab[t].source].pc
          /\ x.tab = request[tab[t].source].tab /\ x.recent = request[tab[t].source].recent
      BY <3>2 DEF ReqRec
    <3> HIDE DEF x
    <3>4. /\ request' \in [Requests -> ReqRec]
          /\ \A q \in Requests : request'[q] = IF q = tab[t].source THEN x ELSE request[q]
      BY <1>1, <3>1, <3>3
    <3>5. <<>> \in Seq(Lines)
      OBVIOUS
    <3>6. /\ stream' \in [Requests -> Seq(Lines)]
          /\ \A q \in Requests : stream'[q] = IF q = tab[t].source THEN <<>> ELSE stream[q]
      BY <1>1, <3>1, <3>5
    <3> QED
      BY <1>1, <3>1, <3>3, <3>4, <3>6
  <2> QED
    BY <2>1, <2>2
<1>5. LogTypeOK'
  <2>1. \A q \in Requests : Len(request'[q].recent) <= ReplayLimit
    BY <1>4, LogKnows
  <2> QED
    BY <1>1, <1>2, <1>3, <1>4, <2>1 DEF LogTypeOK, ReqRec, TabRec
<1>6. ASSUME NEW q \in Requests PROVE RequestHolds(q)' /\ ReplayHolds(q)'
  <2>1. ReplayHolds(q)'
    BY <1>1, <1>4, ReplayStays
  <2>2. CASE q = tab[t].source
    <3>1. request[q].pc # "none"
      BY <1>1, <2>2, LineNumbers DEF SourceHolds
    <3>2. RequestHolds(q)'
      BY <1>1, <1>4, <2>2, <3>1 DEF RequestHolds
    <3> QED
      BY <2>1, <3>2
  <2>3. CASE q # tab[t].source
    BY <1>1, <1>4, <2>1, <2>3 DEF RequestHolds
  <2> QED
    BY <2>2, <2>3
<1>7. \A u \in Tabs \ {t} : tab[u].source # NoSource => tab[u].source # tab[t].source
  BY <1>1 DEF SourceHolds
<1>8. ASSUME NEW u \in Tabs PROVE SourceHolds(u)' /\ PanelShows(u)'
  <2>1. CASE u = t
    BY <1>2, <2>1 DEF SourceHolds, PanelShows
  <2>2. CASE u # t
    <3>1. tab'[u] = tab[u] /\ \A q \in Requests : tab[u].source = q =>
                                  request'[q] = request[q] /\ stream'[q] = stream[q]
      BY <1>2, <1>4, <1>7, <2>2, LineNumbers
    <3>2. SourceHolds(u)'
      BY <1>1, <3>1, LogKnows DEF SourceHolds
    <3> QED
      BY <1>1, <3>1, <3>2, PanelStays
  <2> QED
    BY <2>1, <2>2
<1>9. ASSUME NEW u \in Tabs, NEW n \in Lines PROVE CountHolds(u, n)'
  <2>1. UnderWay(u)' = UnderWay(u) \/ UnderWay(u)' = <<>>
    <3>1. CASE u = t
      BY <1>2, <3>1 DEF UnderWay
    <3>2. CASE u # t
      <4>1. tab'[u].source = tab[u].source /\ tab[u].source \in Requests \cup {NoSource}
        BY <1>2, <3>2, LogKnows
      <4> QED
        BY <1>4, <1>7, <3>2, <4>1 DEF UnderWay
    <3> QED
      BY <3>1, <3>2
  <2>2. tab'[u].lines = tab[u].lines
    BY <1>2
  <2> QED
    BY <1>4, <2>1, <2>2, CountStays
<1> QED
  BY <1>5, <1>6, <1>8, <1>9, LogKnows DEF LogInv

(* A line arrives: from the stream to the panel's ring.                    *)
LEMMA ReceiveKeeps ==
    ASSUME LogInv, NEW t \in Tabs, ReceiveLine(t)
    PROVE  LogInv'
<1>0. PICK r : r = tab[t].source
  OBVIOUS
<1>1. /\ LogTypeOK /\ request \in [Requests -> ReqRec] /\ tab \in [Tabs -> TabRec] /\ stored \subseteq Lines
      /\ stream \in [Requests -> Seq(Lines)] /\ r \in Requests /\ r # NoSource
      /\ \A q \in Requests : RequestHolds(q) /\ ReplayHolds(q)
      /\ \A u \in Tabs : SourceHolds(u) /\ PanelShows(u) /\ Len(tab[u].lines) <= RingLimit
      /\ tab[t].lines \in Seq(Lines) /\ stream[r] \in Seq(Lines) /\ tab[t] \in TabRec
  BY <1>0, LogKnows DEF ReceiveLine
<1>2. PICK m \in Lines : /\ m = Head(stream[r]) /\ stream[r] # <<>> /\ stream[r][1] = m
                         /\ tab' = [tab EXCEPT ![t].lines = Push(tab[t].lines, m)]
                         /\ stream' = [stream EXCEPT ![r] = Tail(stream[r])]
                         /\ UNCHANGED <<line, stored, request, subscribed, gap>>
  <2>1. stream[r] # <<>>
    BY <1>0 DEF ReceiveLine
  <2>2. Head(stream[r]) \in Lines /\ stream[r][1] = Head(stream[r])
    BY <1>1, <2>1
  <2> QED
    BY <1>0, <1>1, <2>1, <2>2 DEF ReceiveLine
<1>3. PICK lines \in Seq(Lines) :
          /\ lines = Push(tab[t].lines, m) /\ Len(lines) <= RingLimit
          /\ Len(lines) < RingLimit => /\ Len(tab[t].lines) < RingLimit /\ In(lines, m)
                                       /\ \A n : In(tab[t].lines, n) => In(lines, n)
          /\ \A n : Count(lines, n) <= Count(tab[t].lines, n) + (IF m = n THEN 1 ELSE 0)
  BY <1>1, PushedLine
<1> DEFINE y == [tab[t] EXCEPT !.lines = lines]
<1>4. y \in TabRec /\ y.lines = lines /\ y.source = r /\ tab' = [tab EXCEPT ![t] = y]
  BY <1>0, <1>1, <1>2, <1>3 DEF TabRec
<1> HIDE DEF y
<1>5. tab' \in [Tabs -> TabRec] /\ \A u \in Tabs : tab'[u] = IF u = t THEN y ELSE tab[u]
  BY <1>1, <1>4
<1>6. /\ Tail(stream[r]) \in Seq(Lines) /\ stream' \in [Requests -> Seq(Lines)]
      /\ \A q \in Requests : stream'[q] = IF q = r THEN Tail(stream[r]) ELSE stream[q]
      /\ \A n : In(stream[r], n) => n = m \/ In(Tail(stream[r]), n)
  <2>1. /\ Tail(stream[r]) \in Seq(Lines) /\ Len(stream[r]) \in Nat /\ Len(Tail(stream[r])) = Len(stream[r]) - 1
        /\ \A i \in 1 .. Len(stream[r]) - 1 : Tail(stream[r])[i] = stream[r][i + 1]
    BY <1>1, <1>2
  <2>2. ASSUME NEW n, In(stream[r], n) PROVE n = m \/ In(Tail(stream[r]), n)
    <3>1. PICK i \in 1 .. Len(stream[r]) : stream[r][i] = n
      BY <2>2 DEF In
    <3>2. CASE i = 1
      BY <1>2, <3>1, <3>2
    <3>3. CASE i # 1
      <4>1. i - 1 \in 1 .. Len(stream[r]) - 1 /\ (i - 1) + 1 = i
        BY <2>1, <3>3
      <4>2. Tail(stream[r])[i - 1] = n /\ i - 1 \in 1 .. Len(Tail(stream[r]))
        BY <2>1, <3>1, <4>1
      <4> QED
        BY <4>2 DEF In
    <3> QED
      BY <3>2, <3>3
  <2>3. /\ stream' \in [Requests -> Seq(Lines)]
        /\ \A q \in Requests : stream'[q] = IF q = r THEN Tail(stream[r]) ELSE stream[q]
    BY <1>1, <1>2, <2>1
  <2> QED
    BY <2>1, <2>2, <2>3
<1>7. LogTypeOK'
  <2>1. \A u \in Tabs : Len(tab'[u].lines) <= RingLimit
    BY <1>1, <1>3, <1>4, <1>5
  <2> QED
    BY <1>1, <1>2, <1>5, <1>6, <2>1 DEF LogTypeOK, TabRec
<1>8. ASSUME NEW q \in Requests PROVE RequestHolds(q)' /\ ReplayHolds(q)'
  <2>1. ReplayHolds(q)'
    BY <1>1, <1>2, ReplayStays
  <2>2. stream'[q] # <<>> => stream[q] # <<>>
    BY <1>2, <1>6
  <2>3. RequestHolds(q)'
    BY <1>1, <1>2, <2>2 DEF RequestHolds
  <2> QED
    BY <2>1, <2>3
<1>9. \A u \in Tabs \ {t} : tab[u].source # r
  BY <1>0, <1>1 DEF SourceHolds
<1>10. ASSUME NEW u \in Tabs PROVE SourceHolds(u)' /\ PanelShows(u)'
  <2>1. CASE u = t
    <3>1. SourceHolds(u)'
      BY <1>0, <1>1, <1>2, <1>4, <1>5, <2>1 DEF SourceHolds
    <3>2. \A n : Newer(n)' = Newer(n)
      BY <1>2 DEF Newer
    <3>3. ASSUME request[r].pc = "streaming", Len(lines) < RingLimit, NEW n \in stored, line[n] = "done"
          PROVE  \/ In(lines, n) \/ In(Tail(stream[r]), n) \/ n \in gap[r] \/ Newer(n) >= ReplayLimit
      <4>1. \/ In(tab[t].lines, n) \/ In(stream[r], n) \/ n \in gap[r] \/ Newer(n) >= ReplayLimit
        BY <1>0, <1>1, <1>3, <3>3 DEF PanelShows
      <4> QED
        BY <1>3, <1>6, <3>3, <4>1
    <3>4. tab'[u].source = r /\ tab'[u].lines = lines /\ stream'[r] = Tail(stream[r])
      BY <1>1, <1>4, <1>5, <1>6, <2>1
    <3>5. PanelShows(u)'
      BY <1>2, <3>2, <3>3, <3>4 DEF PanelShows
    <3> QED
      BY <3>1, <3>5
  <2>2. CASE u # t
    <3>1. tab'[u] = tab[u] /\ \A q \in Requests : tab[u].source = q => stream'[q] = stream[q]
      BY <1>5, <1>6, <1>9, <2>2
    <3>2. SourceHolds(u)'
      BY <1>1, <1>2, <3>1 DEF SourceHolds
    <3> QED
      BY <1>1, <1>2, <3>1, <3>2, PanelStays
  <2> QED
    BY <2>1, <2>2
<1>11. ASSUME NEW u \in Tabs, NEW n \in Lines PROVE CountHolds(u, n)'
  <2>1. CASE u = t
    <3>1. UnderWay(u) = stream[r] /\ UnderWay(u)' = Tail(stream[r]) /\ tab'[u].lines = lines
      BY <1>0, <1>1, <1>4, <1>5, <1>6, <2>1 DEF UnderWay
    <3>2. Count(stream[r], n) = Count(Tail(stream[r]), n) + (IF m = n THEN 1 ELSE 0)
      BY <1>1, <1>2, CountTaken
    <3>3. Count(lines, n) <= Count(tab[u].lines, n) + (IF m = n THEN 1 ELSE 0)
      BY <1>3, <2>1
    <3>4. /\ Count(tab[u].lines, n) \in Nat /\ Count(stream[r], n) \in Nat
          /\ IsFiniteSet(Replays(u, n)) /\ Cardinality(Replays(u, n)) \in Nat
      BY <3>1, UnderWayTypes
    <3>5. Count(Tail(stream[r]), n) \in Nat /\ Count(lines, n) \in Nat
      BY <1>3, <1>6, CountIsNat
    <3>6. Count(lines, n) + Count(Tail(stream[r]), n) <= Count(tab[u].lines, n) + Count(stream[r], n)
      BY <3>2, <3>3, <3>4, <3>5
    <3>7. Replays(u, n)' = Replays(u, n) /\ Published(n)' = Published(n) /\ Published(n) \in Nat
      BY <1>2 DEF Replays, Published
    <3>8. /\ Count(tab'[u].lines, n) + Count(UnderWay(u)', n) <= Count(tab[u].lines, n) + Count(UnderWay(u), n) + 0
          /\ Published(n) + Cardinality(Replays(u, n)) + 0 <= Published(n)' + Cardinality(Replays(u, n)')
          /\ 0 \in {0, 1} /\ IsFiniteSet(Replays(u, n)')
      BY <3>1, <3>4, <3>5, <3>6, <3>7
    <3> QED
      BY <1>3, <1>6, <3>1, <3>8, CountStep
  <2>2. CASE u # t
    <3>1. tab'[u] = tab[u] /\ tab[u].source \in Requests \cup {NoSource}
      BY <1>5, <2>2, LogKnows
    <3>2. UnderWay(u)' = UnderWay(u)
      BY <1>6, <1>9, <2>2, <3>1 DEF UnderWay
    <3> QED
      BY <1>2, <3>1, <3>2, CountStays
  <2> QED
    BY <2>1, <2>2
<1> QED
  BY <1>2, <1>7, <1>8, <1>10, <1>11, LogKnows DEF LogInv

LEMMA LogKeeps == LogInv /\ [LogNext]_logVars => LogInv'
<1> SUFFICES ASSUME LogInv, [LogNext]_logVars PROVE LogInv'
  OBVIOUS
<1>0. /\ request \in [Requests -> ReqRec] /\ tab \in [Tabs -> TabRec]
      /\ \A t \in Tabs : tab[t] \in TabRec /\ tab[t].lines \in Seq(Lines)
  BY LogKnows
<1>1. ASSUME NEW n \in Lines, LogArrives(n) \/ HandleLog(n) PROVE LogInv'
  BY <1>1, ArrivesKeeps, PublishKeeps DEF HandleLog
<1>2. ASSUME NEW r \in Requests, Route(r) PROVE LogInv'
  BY <1>2, RouteKeeps, StartKeeps DEF Route
<1>3. ASSUME NEW t \in Tabs, ReceiveLine(t) PROVE LogInv'
  BY <1>3, ReceiveKeeps
<1>4. ASSUME NEW t \in Tabs, BreakStream(t) PROVE LogInv'
  <2> DEFINE y == [tab[t] EXCEPT !.source = NoSource]
  <2>1. y \in TabRec /\ y.source = NoSource /\ y.lines = tab[t].lines
    BY <1>0 DEF TabRec
  <2>2. /\ tab' = [tab EXCEPT ![t] = y] /\ tab[t].source # NoSource /\ Abort(tab[t].source)
        /\ UNCHANGED <<line, stored, gap>>
    BY <1>4 DEF BreakStream
  <2> HIDE DEF y
  <2> QED
    BY <2>1, <2>2, QuitStep
<1>5. ASSUME NEW t \in Tabs, LeaveTab(t) PROVE LogInv'
  <2> DEFINE y == [tab[t] EXCEPT !.state = "left", !.source = NoSource]
  <2>1. y \in TabRec /\ y.source = NoSource /\ y.lines = tab[t].lines
    BY <1>0 DEF TabRec
  <2>2. /\ tab' = [tab EXCEPT ![t] = y] /\ UNCHANGED <<line, stored, gap>>
        /\ \/ tab[t].source = NoSource /\ UNCHANGED <<subscribed, request, stream>>
           \/ tab[t].source # NoSource /\ Abort(tab[t].source)
    BY <1>0, <1>5 DEF LeaveTab
  <2> HIDE DEF y
  <2> QED
    BY <2>1, <2>2, QuitStep
<1>6. ASSUME NEW t \in Tabs, NEW r \in Requests, MountTab(t, r) PROVE LogInv'
  <2> DEFINE y == [state |-> "mounted", source |-> r, lines |-> <<>>]
  <2>1. <<>> \in Seq(Lines)
    OBVIOUS
  <2>2. y \in TabRec /\ y.source = r /\ y.lines = <<>>
    BY <2>1 DEF TabRec
  <2>3. tab[t].source = NoSource /\ tab[t].lines = <<>>
    BY <1>6 DEF MountTab, NoTab
  <2>4. Get(r, t) /\ tab' = [tab EXCEPT ![t] = y] /\ UNCHANGED <<line, stored, stream, subscribed, gap>>
    BY <1>6 DEF MountTab
  <2> HIDE DEF y
  <2> QED
    BY <2>2, <2>3, <2>4, GetStep
<1>7. ASSUME NEW t \in Tabs, NEW r \in Requests, Reopen(t, r) PROVE LogInv'
  <2> DEFINE y == [tab[t] EXCEPT !.source = r]
  <2>1. y \in TabRec /\ y.source = r /\ y.lines = tab[t].lines
    BY <1>0 DEF TabRec
  <2>2. /\ Get(r, t) /\ tab' = [tab EXCEPT ![t] = y] /\ UNCHANGED <<line, stored, stream, subscribed, gap>>
        /\ tab[t].source = NoSource
    BY <1>7 DEF Reopen
  <2> HIDE DEF y
  <2> QED
    BY <2>1, <2>2, GetStep
<1>8. CASE UNCHANGED logVars
  <2>1. UNCHANGED <<line, stored, request, stream, subscribed, gap, tab>>
    BY <1>8 DEF logVars
  <2> QED
    BY <2>1, LineStep, LogKnows
<1> QED
  BY <1>1, <1>2, <1>3, <1>4, <1>5, <1>6, <1>7, <1>8 DEF LogNext

LEMMA LogFacts == LogInv => LogTypeOK /\ MissedOnlyInTheGap /\ RepeatsAreReplays
<1> SUFFICES ASSUME LogInv PROVE LogTypeOK /\ MissedOnlyInTheGap /\ RepeatsAreReplays
  OBVIOUS
<1>1. ASSUME NEW t \in Tabs, NEW r \in Requests, NEW n \in Lines, CaughtUp(t, r),
             Len(tab[t].lines) < RingLimit, n \in stored, line[n] = "done"
      PROVE  \/ InPanel(t, n) \/ n \in gap[r]
             \/ Cardinality({m \in stored : m > n}) >= ReplayLimit
  <2>1. tab[t].source = r /\ r # NoSource /\ request[r].pc = "streaming" /\ stream[r] = <<>>
    BY <1>1, LineNumbers DEF CaughtUp
  <2>2. In(tab[t].lines, n) \/ In(stream[r], n) \/ n \in gap[r] \/ Newer(n) >= ReplayLimit
    BY <1>1, <2>1, LogKnows DEF PanelShows
  <2>3. ~In(<<>>, n)
    BY DEF In
  <2> QED
    BY <2>1, <2>2, <2>3 DEF In, InPanel, Newer
<1>2. ASSUME NEW t \in Tabs, NEW n \in Lines
      PROVE  Cardinality({i \in 1 .. Len(tab[t].lines) : tab[t].lines[i] = n})
             <= 1 + Cardinality({r \in RequestsOf(t) : \E i \in 1 .. Len(request[r].recent) :
                                                           request[r].recent[i] = n})
  <2> DEFINE R == {r \in RequestsOf(t) : \E i \in 1 .. Len(request[r].recent) : request[r].recent[i] = n}
  <2>1. R \in SUBSET Requests /\ Replays(t, n) \in SUBSET R
    BY DEF RequestsOf, Replays, In
  <2> HIDE DEF R
  <2>2. IsFiniteSet(R) /\ Cardinality(R) \in Nat /\ Cardinality(Replays(t, n)) <= Cardinality(R)
    BY <2>1, LineNumbers, FS_Subset, FS_CardinalityType
  <2>3. /\ Count(tab[t].lines, n) \in Nat /\ Count(UnderWay(t), n) \in Nat
        /\ Cardinality(Replays(t, n)) \in Nat
    BY UnderWayTypes
  <2>4. Count(tab[t].lines, n) + Count(UnderWay(t), n) <= Published(n) + Cardinality(Replays(t, n))
    BY LogKnows DEF CountHolds
  <2>5. Published(n) \in {0, 1}
    BY DEF Published
  <2>6. Count(tab[t].lines, n) <= 1 + Cardinality(R)
    BY <2>2, <2>3, <2>4, <2>5
  <2> QED
    BY <2>6 DEF R, Count
<1> QED
  BY <1>1, <1>2, LogKnows DEF MissedOnlyInTheGap, RepeatsAreReplays

(* Unless its ring is full, a log panel with nothing under way has every   *)
(* stored line that was published, but for the lines published between a   *)
(* SELECT and the subscription and those the replay does not go back to;   *)
(* and a line is in it at most once more than it was replayed to it: with  *)
(* any number of panels, requests and lines, whatever breaks or is left    *)
(* between two of the steps, and for any limit of the replay and the ring. *)
THEOREM LogsFaithful == PagesSpec => []LogsAreFaithful
<1>1. PagesInit => LogInv
  BY LogStart DEF PagesInit
<1>2. LogInv /\ [PagesNext]_<<part, logVars, metVars, pageVars, prefVars, waitVars, uptimeVars,
                            fleetVars, vars>> => LogInv'
  BY PagesStep, LogKeeps
<1>3. LogInv => LogsAreFaithful
  BY LogFacts DEF LogsAreFaithful
<1> QED
  BY <1>1, <1>2, <1>3, PTL DEF PagesSpec

-----------------------------------------------------------------------------
(* The cron matcher.                                                       *)

(* Whole steps, counted and divided.                                       *)
LEMMA WholeSteps ==
    ASSUME NEW a \in Nat, NEW s \in Nat \ {0}
    PROVE  a % s = 0 <=> \E n \in 0 .. a : n * s = a
<1>0. \A x \in Nat, y \in Nat \ {0} : x = y * (x \div y) + (x % y) /\ x % y \in 0 .. y - 1 /\ x \div y \in Nat
  OBVIOUS
<1>a. a = s * (a \div s) + (a % s) /\ a % s \in 0 .. s - 1 /\ a \div s \in Nat
  BY <1>0, Zenon
<1>1. PICK q \in Nat, r \in 0 .. s - 1 : r = a % s /\ a = s * q + r
  BY <1>a, Zenon
<1>2. ASSUME r = 0 PROVE \E n \in 0 .. a : n * s = a
  <2>1. q * s = a /\ q <= a
    BY <1>1, <1>2
  <2> QED
    BY <1>1, <2>1
<1>3. ASSUME NEW n \in 0 .. a, n * s = a PROVE r = 0
  <2>1. PICK d \in Int : d = n - q
    OBVIOUS
  <2>2. d * s = r /\ r \in Int /\ r >= 0 /\ r < s
    BY <1>1, <1>3, <2>1
  <2>3. CASE d >= 1
    <3>1. d * s >= s
      BY <2>3
    <3> QED
      BY <2>2, <3>1
  <2>4. CASE d <= -1
    <3>1. d * s <= -s
      BY <2>4
    <3> QED
      BY <2>2, <3>1
  <2>5. CASE d = 0
    BY <2>2, <2>5
  <2> QED
    BY <2>3, <2>4, <2>5
<1> QED
  BY <1>1, <1>2, <1>3

(* A part that is not rejected: the loop meets what the part denotes.      *)
LEMMA PartMeets ==
    ASSUME NEW part0 \in Parts, NEW min \in Int, NEW max \in Int, ~Rejected(part0, min, max),
           NEW value \in Int
    PROVE  StepsMeet(part0, value, min, max) <=> value \in Denotes(part0, min, max)
<1> DEFINE lo == Lo(part0, min)
           hi == Hi(part0, max)
           step == Step(part0)
<1>1. step \in Nat \ {0}
  <2>1. part0.step \in Int \cup {NaN, NoStep}
    BY DEF Parts, Numbers
  <2>2. part0.step # NaN /\ ~(part0.step \notin {NaN, NoStep} /\ part0.step <= 0)
    BY DEF Rejected
  <2> QED
    BY <2>1, <2>2 DEF Step
<1>2. lo \in Int /\ hi \in Int
  <2>1. CASE part0.range = Whole
    BY <2>1 DEF Lo, Hi
  <2>2. CASE part0.range # Whole
    <3>1. part0.range \in Seq(Numbers) /\ Len(part0.range) \in {1, 2}
      BY <2>2 DEF Parts
    <3>2. \A i \in DOMAIN part0.range : part0.range[i] # NaN
      BY <2>2 DEF Rejected
    <3>3. \A i \in 1 .. Len(part0.range) : part0.range[i] \in Int
      BY <3>1, <3>2 DEF Numbers
    <3>4. 1 \in 1 .. Len(part0.range) /\ Len(part0.range) \in 1 .. Len(part0.range)
      BY <3>1
    <3> QED
      BY <2>2, <3>3, <3>4 DEF Lo, Hi
  <2> QED
    BY <2>1, <2>2
<1> HIDE DEF lo, hi, step
<1>3. ASSUME NEW n \in 0 .. hi - lo, lo + n * step = value, value <= hi
      PROVE  value \in lo .. hi /\ (value - lo) % step = 0
  <2>1. n \in Nat /\ n * step \in Nat /\ n <= n * step
    BY <1>1, <1>2, <1>3
  <2>2. value - lo = n * step /\ value >= lo /\ n \in 0 .. value - lo /\ value - lo \in Nat
    BY <1>2, <1>3, <2>1
  <2> QED
    BY <1>1, <1>2, <1>3, <2>2, WholeSteps
<1>4. ASSUME value \in lo .. hi, (value - lo) % step = 0
      PROVE  \E n \in 0 .. hi - lo : lo + n * step = value /\ value <= hi
  <2>1. value - lo \in Nat /\ value - lo <= hi - lo
    BY <1>2, <1>4
  <2>2. PICK n \in 0 .. value - lo : n * step = value - lo
    BY <1>1, <1>4, <2>1, WholeSteps
  <2>3. n \in 0 .. hi - lo /\ lo + n * step = value /\ value <= hi
    BY <1>2, <1>4, <2>1, <2>2
  <2> QED
    BY <2>3
<1>5. StepsMeet(part0, value, min, max) <=> \E n \in 0 .. hi - lo : lo + n * step = value /\ value <= hi
  BY DEF StepsMeet, lo, hi, step
<1>6. value \in Denotes(part0, min, max) <=> value \in lo .. hi /\ (value - lo) % step = 0
  BY DEF Denotes, lo, hi, step
<1> QED
  BY <1>3, <1>4, <1>5, <1>6

(* The parts are tried in turn: one that matches comes before any that is  *)
(* malformed.                                                              *)
MeetsAt(field, value, min, max, k) ==
    (\A j \in 1 .. k : ~Rejected(field[j], min, max)) /\ StepsMeet(field[k], value, min, max)

LEMMA FieldMeets ==
    ASSUME NEW field \in Seq(Parts), NEW value, NEW min, NEW max
    PROVE  FieldMatches(field, value, min, max) <=> \E k \in 1 .. Len(field) : MeetsAt(field, value, min, max, k)
<1> DEFINE n == Len(field)
           bad(i) == Rejected(field[i], min, max)
           meets(i) == StepsMeet(field[i], value, min, max)
           from == CHOOSE f : f = [i \in 1 .. n + 1 |-> /\ i <= n
                                                        /\ ~bad(i)
                                                        /\ meets(i) \/ f[i + 1]]
           ends(i) == \E k \in i .. n : (\A j \in i .. k : ~bad(j)) /\ meets(k)
           g == [i \in 1 .. n + 1 |-> ends(i)]
<1>1. n \in Nat
  OBVIOUS
<1>2. FieldMatches(field, value, min, max) = from[1]
  BY DEF FieldMatches
<1> HIDE DEF n, bad, meets
<1>3. ASSUME NEW i \in 1 .. n + 1
      PROVE  ends(i) <=> (/\ i <= n
                          /\ ~bad(i)
                          /\ meets(i) \/ ends(i + 1))
  <2>1. ASSUME ends(i) PROVE i <= n /\ ~bad(i) /\ (meets(i) \/ ends(i + 1))
    <3>1. PICK k \in i .. n : (\A j \in i .. k : ~bad(j)) /\ meets(k)
      BY <2>1
    <3>2. i <= n /\ i \in i .. k
      BY <1>1, <3>1
    <3>3. CASE k = i
      BY <3>1, <3>2, <3>3
    <3>4. CASE k # i
      <4>1. k \in i + 1 .. n /\ \A j \in i + 1 .. k : j \in i .. k
        BY <1>1, <3>1, <3>4
      <4>2. ends(i + 1)
        BY <3>1, <4>1
      <4> QED
        BY <3>1, <3>2, <4>2
    <3> QED
      BY <3>3, <3>4
  <2>2. ASSUME i <= n, ~bad(i), meets(i) \/ ends(i + 1) PROVE ends(i)
    <3>1. CASE meets(i)
      <4>1. i \in i .. n /\ \A j \in i .. i : j = i
        BY <1>1, <2>2
      <4> QED
        BY <2>2, <3>1, <4>1
    <3>2. CASE ends(i + 1)
      <4>1. PICK k \in i + 1 .. n : (\A j \in i + 1 .. k : ~bad(j)) /\ meets(k)
        BY <3>2
      <4>2. k \in i .. n /\ \A j \in i .. k : j = i \/ j \in i + 1 .. k
        BY <1>1, <4>1
      <4> QED
        BY <2>2, <4>1, <4>2
    <3> QED
      BY <2>2, <3>1, <3>2
  <2> HIDE DEF ends
  <2> QED
    BY <2>1, <2>2
<1> HIDE DEF ends
<1>4. \A i \in 1 .. n : i + 1 \in 1 .. n + 1
  BY <1>1
<1>5. g = [i \in 1 .. n + 1 |-> /\ i <= n
                                /\ ~bad(i)
                                /\ meets(i) \/ g[i + 1]]
  <2>1. ASSUME NEW i \in 1 .. n + 1
        PROVE  ends(i) = (/\ i <= n
                          /\ ~bad(i)
                          /\ meets(i) \/ g[i + 1])
    <3>1. i <= n => g[i + 1] = ends(i + 1)
      BY <1>1
    <3>2. ends(i) <=> (/\ i <= n
                       /\ ~bad(i)
                       /\ meets(i) \/ g[i + 1])
      BY <1>3, <3>1
    <3> QED
      BY <3>2, Zenon DEF ends
  <2> QED
    BY <2>1
<1>6. from = [i \in 1 .. n + 1 |-> /\ i <= n
                                   /\ ~bad(i)
                                   /\ meets(i) \/ from[i + 1]]
  BY <1>5
<1> HIDE DEF from, g
<1>7. \A i \in 1 .. n + 1 : from[i] <=> ends(i)
  <2> DEFINE W == {i \in 1 .. n + 1 : ~(from[i] <=> ends(i))}
  <2> SUFFICES ASSUME W # {} PROVE FALSE
    OBVIOUS
  <2>1. W \in SUBSET Nat /\ IsFiniteSet(W)
    <3>1. IsFiniteSet(1 .. n + 1) /\ W \in SUBSET (1 .. n + 1)
      BY <1>1, FS_Interval
    <3> QED
      BY <1>1, <3>1, FS_Subset
  <2>2. PICK i \in W : \A j \in W : j <= i
    BY <2>1, Greatest
  <2>3. i \in 1 .. n + 1 /\ ~(from[i] <=> ends(i))
    BY <2>2
  <2>4. from[i] <=> (/\ i <= n
                     /\ ~bad(i)
                     /\ meets(i) \/ from[i + 1])
    BY <1>6, <2>3
  <2>5. i <= n => (from[i + 1] <=> ends(i + 1))
    BY <1>1, <2>2
  <2> HIDE DEF W
  <2> QED
    BY <1>3, <2>3, <2>4, <2>5
<1>8. from[1] <=> ends(1)
  BY <1>1, <1>7
<1> QED
  BY <1>2, <1>8 DEF ends, n, bad, meets, MeetsAt

CronInv == schedule \in Schedules /\ when \in Times

LEMMA CronFields ==
    ASSUME CronInv, NEW i \in DOMAIN Names
    PROVE  /\ schedule[Names[i]] \in Seq(Parts) /\ when[Names[i]] \in Int
           /\ Lowest[Names[i]] \in Int /\ Highest[Names[i]] \in Int
<1>1. i \in {1, 2, 3, 4, 5} /\ Names[i] \in {"minute", "hour", "dom", "mon", "dow"}
  BY DEF Names
<1>2. /\ Lowest[Names[i]] \in Int /\ Highest[Names[i]] \in Int
  BY <1>1 DEF Lowest, Highest
<1> QED
  BY <1>2, CronAssumption DEF CronInv

(* A field matches by its first part that is met, and no part up to it is  *)
(* malformed.                                                              *)
LEMMA NameMatches ==
    ASSUME CronInv, NEW i \in DOMAIN Names
    PROVE  Matches(Names[i]) <=>
               \E k \in 1 .. Len(schedule[Names[i]]) :
                   /\ \A j \in 1 .. k : ~Rejected(schedule[Names[i]][j], Lowest[Names[i]], Highest[Names[i]])
                   /\ when[Names[i]] \in Denotes(schedule[Names[i]][k], Lowest[Names[i]], Highest[Names[i]])
<1> DEFINE field == schedule[Names[i]]
           value == when[Names[i]]
           min == Lowest[Names[i]]
           max == Highest[Names[i]]
<1>1. field \in Seq(Parts) /\ value \in Int /\ min \in Int /\ max \in Int
  BY CronFields
<1>2. Matches(Names[i]) <=> \E k \in 1 .. Len(field) : MeetsAt(field, value, min, max, k)
  <2>1. Matches(Names[i]) <=> FieldMatches(field, value, min, max)
    BY DEF Matches
  <2> HIDE DEF field, value, min, max
  <2> QED
    BY <1>1, <2>1, FieldMeets
<1> HIDE DEF field, value, min, max
<1>3. ASSUME NEW k \in 1 .. Len(field)
      PROVE  MeetsAt(field, value, min, max, k) <=>
                 /\ \A j \in 1 .. k : ~Rejected(field[j], min, max)
                 /\ value \in Denotes(field[k], min, max)
  <2>1. field[k] \in Parts /\ k \in 1 .. k
    BY <1>1
  <2>2. ~Rejected(field[k], min, max) =>
            (StepsMeet(field[k], value, min, max) <=> value \in Denotes(field[k], min, max))
    BY <1>1, <2>1, PartMeets
  <2> QED
    BY <2>1, <2>2 DEF MeetsAt
<1> QED
  BY <1>2, <1>3 DEF field, value, min, max

LEMMA CronFacts == CronInv => MatchesWhatIsDenoted /\ MalformedNeverWidens
<1> SUFFICES ASSUME CronInv PROVE MatchesWhatIsDenoted /\ MalformedNeverWidens
  OBVIOUS
<1>1. ASSUME Formed, NEW i \in DOMAIN Names PROVE Matches(Names[i]) <=> InField(Names[i])
  <2> DEFINE field == schedule[Names[i]]
             min == Lowest[Names[i]]
             max == Highest[Names[i]]
  <2>1. field \in Seq(Parts)
    BY CronFields
  <2>2. \A j \in DOMAIN field : ~Rejected(field[j], min, max)
    BY <1>1 DEF Formed, WellFormed
  <2>3. DOMAIN field = 1 .. Len(field) /\ \A k \in 1 .. Len(field) : \A j \in 1 .. k : j \in 1 .. Len(field)
    BY <2>1
  <2>4. InField(Names[i]) <=> \E k \in DOMAIN field : when[Names[i]] \in Denotes(field[k], min, max)
    BY DEF InField, Values
  <2>5. Matches(Names[i]) <=> \E k \in 1 .. Len(field) :
            /\ \A j \in 1 .. k : ~Rejected(field[j], min, max)
            /\ when[Names[i]] \in Denotes(field[k], min, max)
    BY NameMatches
  <2> HIDE DEF field, min, max
  <2> QED
    BY <2>2, <2>3, <2>4, <2>5
<1>2. ASSUME CronMatches, NEW i \in DOMAIN Names
      PROVE  \E k \in DOMAIN schedule[Names[i]] :
                 /\ WellFormed(SubSeq(schedule[Names[i]], 1, k), Lowest[Names[i]], Highest[Names[i]])
                 /\ when[Names[i]] \in Denotes(schedule[Names[i]][k], Lowest[Names[i]], Highest[Names[i]])
  <2> DEFINE field == schedule[Names[i]]
             min == Lowest[Names[i]]
             max == Highest[Names[i]]
  <2>1. field \in Seq(Parts)
    BY CronFields
  <2>2. PICK k \in 1 .. Len(field) :
            /\ \A j \in 1 .. k : ~Rejected(field[j], min, max)
            /\ when[Names[i]] \in Denotes(field[k], min, max)
    <3>1. Matches(Names[i])
      BY <1>2 DEF CronMatches
    <3> QED
      BY <3>1, NameMatches
  <2> HIDE DEF field, min, max
  <2>3. /\ DOMAIN SubSeq(field, 1, k) = 1 .. k /\ \A j \in 1 .. k : SubSeq(field, 1, k)[j] = field[j]
        /\ k \in DOMAIN field
    BY <2>1
  <2>4. WellFormed(SubSeq(field, 1, k), min, max)
    BY <2>2, <2>3 DEF WellFormed
  <2> QED
    BY <2>2, <2>3, <2>4 DEF field, min, max
<1>3. MatchesWhatIsDenoted
  BY <1>1 DEF MatchesWhatIsDenoted, CronMatches
<1>4. MalformedNeverWidens
  BY <1>2 DEF MalformedNeverWidens
<1> QED
  BY <1>3, <1>4

(* Any schedule that is well-formed matches exactly the times its lists,   *)
(* ranges and steps denote, and a malformed part never makes one match     *)
(* more, whatever the numbers in its fields are and however many parts     *)
(* they have.                                                              *)
THEOREM CronIsFaithful == PagesSpec => []CronIsRight
<1> DEFINE I == part = "cron" => CronInv
<1>1. PagesInit => I
  BY DEF PagesInit, Init, CronInv
<1>2. I /\ [PagesNext]_<<part, logVars, metVars, pageVars, prefVars, waitVars, uptimeVars,
                         fleetVars, vars>> => I'
  <2> SUFFICES ASSUME I, [PagesNext]_<<part, logVars, metVars, pageVars, prefVars, waitVars, uptimeVars,
                                       fleetVars, vars>>
               PROVE  I'
    OBVIOUS
  <2>1. [Next]_vars /\ UNCHANGED part
    BY PagesStep
  <2> QED
    BY <2>1 DEF Next, vars, CronInv
<1>3. I => CronIsRight
  BY CronFacts DEF CronIsRight
<1> HIDE DEF I
<1> QED
  BY <1>1, <1>2, <1>3, PTL DEF PagesSpec

-----------------------------------------------------------------------------
(* Sums over a finite set, by induction over the set.                      *)

Total(w, S) == MapThenSumSet(LAMBDA x : w[x], S)

Some(s) == CHOOSE x \in s : TRUE

(* The equation of the fold.                                               *)
Adds(f, w, S) ==
    f = [s \in SUBSET S |-> IF s = {} THEN 0 ELSE w[CHOOSE x \in s : TRUE] + f[s \ {CHOOSE x \in s : TRUE}]]

LEMMA SomeIn == \A s : s # {} => Some(s) \in s
  BY DEF Some

LEMMA AddsAt ==
    ASSUME NEW S, NEW w, NEW f, Adds(f, w, S), NEW s \in SUBSET S
    PROVE  f[s] = IF s = {} THEN 0 ELSE w[Some(s)] + f[s \ {Some(s)}]
  BY Zenon DEF Adds, Some

(* There is only one such function.                                        *)
LEMMA AddsSame ==
    ASSUME NEW S, NEW T, IsFiniteSet(S), NEW w, NEW f, NEW g, Adds(f, w, S), Adds(g, w, T),
           NEW s \in SUBSET S, s \in SUBSET T
    PROVE  f[s] = g[s]
<1> DEFINE F == {u \in SUBSET s : f[u] # g[u]}
<1> SUFFICES ASSUME F # {} PROVE FALSE
  OBVIOUS
<1>1. IsFiniteSet(s)
  BY FS_Subset
<1>2. Family(F, s)
  BY DEF Family
<1> HIDE DEF F
<1>3. PICK u \in F : \A v \in F : v \subseteq u => v = u
  BY <1>1, <1>2, SmallestOf
<1>4. u \in SUBSET s /\ u \in SUBSET S /\ u \in SUBSET T /\ f[u] # g[u]
  BY <1>3 DEF F
<1>5. f[u] = (IF u = {} THEN 0 ELSE w[Some(u)] + f[u \ {Some(u)}])
  BY <1>4, AddsAt, Adds(f, w, S), Adds(g, w, T)
<1>6. g[u] = (IF u = {} THEN 0 ELSE w[Some(u)] + g[u \ {Some(u)}])
  BY <1>4, AddsAt, Adds(f, w, S), Adds(g, w, T)
<1>7. u # {} /\ Some(u) \in u
  BY <1>4, <1>5, <1>6, SomeIn
<1>8. f[u \ {Some(u)}] = g[u \ {Some(u)}]
  BY <1>3, <1>4, <1>7 DEF F
<1> QED
  BY <1>4, <1>5, <1>6, <1>7, <1>8

LEMMA AddsExists ==
    ASSUME NEW S, IsFiniteSet(S), NEW w
    PROVE  \E f : Adds(f, w, S)
<1> DEFINE F == {T \in SUBSET S : ~ \E f : Adds(f, w, T)}
<1> SUFFICES ASSUME F # {} PROVE FALSE
  OBVIOUS
<1>1. Family(F, S)
  BY DEF Family
<1>2. PICK T \in F : \A U \in F : U \subseteq T => U = T
  BY <1>1, SmallestOf
<1>3. T \in SUBSET S /\ ~ \E f : Adds(f, w, T)
  BY <1>2
<1> DEFINE G(u) == CHOOSE f : Adds(f, w, u)
           h == [s \in SUBSET T |-> IF s = {} THEN 0
                                    ELSE w[Some(s)] + G(s \ {Some(s)})[s \ {Some(s)}]]
<1>4. ASSUME NEW u \in SUBSET T, u # T PROVE Adds(G(u), w, u) /\ IsFiniteSet(u)
  <2>1. u \in SUBSET S /\ u \notin F
    BY <1>2, <1>3, <1>4
  <2>2. \E f : Adds(f, w, u)
    BY <2>1
  <2> QED
    BY <2>1, <2>2, FS_Subset
<1> HIDE DEF F, G
<1>5. ASSUME NEW s \in SUBSET T, s # {} PROVE G(s \ {Some(s)})[s \ {Some(s)}] = h[s \ {Some(s)}]
  <2> DEFINE u == s \ {Some(s)}
  <2>1. u \in SUBSET T /\ u # T
    BY <1>5, SomeIn
  <2>2. Adds(G(u), w, u) /\ IsFiniteSet(u)
    BY <1>4, <2>1
  <2>3. h[u] = (IF u = {} THEN 0 ELSE w[Some(u)] + G(u \ {Some(u)})[u \ {Some(u)}])
    BY <2>1
  <2> HIDE DEF u, h
  <2>4. G(u)[u] = (IF u = {} THEN 0 ELSE w[Some(u)] + G(u)[u \ {Some(u)}])
    BY <2>2, AddsAt
  <2>5. CASE u = {}
    BY <2>3, <2>4, <2>5 DEF u
  <2>6. CASE u # {}
    <3> DEFINE v == u \ {Some(u)}
    <3>1. v \in SUBSET T /\ v # T /\ v \in SUBSET u /\ v \in SUBSET v
      BY <2>1, <2>6, SomeIn
    <3> HIDE DEF v
    <3>2. Adds(G(v), w, v)
      BY <1>4, <3>1
    <3>3. G(u)[v] = G(v)[v]
      BY <2>2, <3>1, <3>2, AddsSame
    <3> QED
      BY <2>3, <2>4, <2>6, <3>3 DEF u, v
  <2> QED
    BY <2>5, <2>6
<1>6. ASSUME NEW s \in SUBSET T
      PROVE  h[s] = IF s = {} THEN 0 ELSE w[Some(s)] + h[s \ {Some(s)}]
  BY <1>5
<1>7. \E d : h = [s \in SUBSET T |-> d[s]]
  <2>1. h = [s \in SUBSET T |-> h[s]]
    OBVIOUS
  <2> QED
    BY <2>1
<1> HIDE DEF h
<1>8. Adds(h, w, T)
  <2>1. h = [s \in SUBSET T |-> IF s = {} THEN 0 ELSE w[Some(s)] + h[s \ {Some(s)}]]
    BY <1>6, <1>7
  <2> QED
    BY <2>1, Zenon DEF Adds, Some
<1> QED
  BY <1>3, <1>8

(* A function with the equation of the fold has the sum.                   *)
LEMMA TotalIs ==
    ASSUME NEW S, IsFiniteSet(S), NEW w, NEW f, Adds(f, w, S), NEW s \in SUBSET S
    PROVE  f[s] = Total(w, s)
<1> DEFINE g == CHOOSE e : Adds(e, w, s)
<1>1. IsFiniteSet(s)
  BY FS_Subset
<1>2. Adds(g, w, s)
  BY <1>1, AddsExists
<1>3. Total(w, s) = g[s]
  BY DEF Total, MapThenSumSet, MapThenFoldSet, Adds
<1> HIDE DEF g
<1> QED
  BY <1>2, <1>3, AddsSame

LEMMA TotalEmpty == ASSUME NEW w PROVE Total(w, {}) = 0
<1>1. IsFiniteSet({}) /\ {} \in SUBSET {}
  BY FS_EmptySet
<1>2. PICK f : Adds(f, w, {})
  BY <1>1, AddsExists
<1>3. f[{}] = Total(w, {})
  BY <1>1, <1>2, TotalIs
<1>4. f[{}] = 0
  BY <1>1, <1>2, AddsAt
<1> QED
  BY <1>3, <1>4

LEMMA TotalSome ==
    ASSUME NEW S, IsFiniteSet(S), NEW w, S # {}
    PROVE  Total(w, S) = w[Some(S)] + Total(w, S \ {Some(S)})
<1>1. PICK f : Adds(f, w, S)
  BY AddsExists
<1>2. S \in SUBSET S /\ S \ {Some(S)} \in SUBSET S
  OBVIOUS
<1>3. f[S] = w[Some(S)] + f[S \ {Some(S)}]
  BY <1>1, <1>2, AddsAt
<1>4. f[S] = Total(w, S) /\ f[S \ {Some(S)}] = Total(w, S \ {Some(S)})
  BY <1>1, <1>2, TotalIs
<1> QED
  BY <1>3, <1>4

Weighs(w, S) == \A x \in S : w[x] \in Nat

LEMMA TotalNat ==
    ASSUME NEW S, IsFiniteSet(S), NEW w, Weighs(w, S)
    PROVE  Total(w, S) \in Nat
<1> DEFINE F == {T \in SUBSET S : Total(w, T) \notin Nat}
<1> SUFFICES ASSUME F # {} PROVE FALSE
  OBVIOUS
<1>1. Family(F, S)
  BY DEF Family
<1> HIDE DEF F
<1>2. PICK T \in F : \A U \in F : U \subseteq T => U = T
  BY <1>1, SmallestOf
<1>3. T \in SUBSET S /\ Total(w, T) \notin Nat
  BY <1>2 DEF F
<1>4. T # {}
  BY <1>3, TotalEmpty
<1>5. IsFiniteSet(T) /\ Some(T) \in T /\ Some(T) \in S
  BY <1>3, <1>4, SomeIn, FS_Subset
<1>6. Total(w, T) = w[Some(T)] + Total(w, T \ {Some(T)})
  BY <1>4, <1>5, TotalSome
<1>7. Total(w, T \ {Some(T)}) \in Nat
  BY <1>2, <1>3, <1>5 DEF F
<1> QED
  BY <1>3, <1>5, <1>6, <1>7 DEF Weighs

(* Whichever element is counted last.                                      *)
LEMMA TotalWithout ==
    ASSUME NEW S, IsFiniteSet(S), NEW w, Weighs(w, S), NEW x \in S
    PROVE  Total(w, S) = w[x] + Total(w, S \ {x})
<1> DEFINE F == {T \in SUBSET S : \E y \in T : Total(w, T) # w[y] + Total(w, T \ {y})}
<1> SUFFICES ASSUME F # {} PROVE FALSE
  <2>1. S \in SUBSET S
    OBVIOUS
  <2> QED
    BY <2>1
<1>1. Family(F, S)
  BY DEF Family
<1> HIDE DEF F
<1>2. PICK T \in F : \A U \in F : U \subseteq T => U = T
  BY <1>1, SmallestOf
<1>3. PICK y \in T : Total(w, T) # w[y] + Total(w, T \ {y})
  BY <1>2 DEF F
<1> DEFINE c == Some(T)
           V == (T \ {c}) \ {y}
<1>4. T \in SUBSET S /\ IsFiniteSet(T) /\ c \in T /\ c \in S /\ y \in S
  <2>1. T \in SUBSET S
    BY <1>2 DEF F
  <2> QED
    BY <1>3, <2>1, SomeIn, FS_Subset
<1>5. Total(w, T) = w[c] + Total(w, T \ {c})
  BY <1>3, <1>4, TotalSome
<1>6. c # y
  BY <1>3, <1>5
<1>7. V = (T \ {y}) \ {c} /\ V \in SUBSET S /\ IsFiniteSet(V)
  <2>1. V = (T \ {y}) \ {c} /\ V \in SUBSET S
    BY <1>4
  <2> QED
    BY <2>1, FS_Subset
<1>8. Total(w, T \ {c}) = w[y] + Total(w, V)
  <2>1. T \ {c} \notin F /\ T \ {c} \in SUBSET S /\ y \in T \ {c}
    BY <1>2, <1>3, <1>4, <1>6
  <2> QED
    BY <2>1 DEF F
<1>9. Total(w, T \ {y}) = w[c] + Total(w, V)
  <2>1. T \ {y} \notin F /\ T \ {y} \in SUBSET S /\ c \in T \ {y}
    BY <1>2, <1>3, <1>4, <1>6
  <2> QED
    BY <1>7, <2>1 DEF F
<1>10. w[c] \in Nat /\ w[y] \in Nat /\ Total(w, V) \in Nat
  BY <1>4, <1>7, TotalNat DEF Weighs
<1> HIDE DEF c, V
<1> QED
  BY <1>3, <1>5, <1>8, <1>9, <1>10

LEMMA TotalSame ==
    ASSUME NEW S, IsFiniteSet(S), NEW w, NEW v, \A x \in S : w[x] = v[x]
    PROVE  Total(w, S) = Total(v, S)
<1>1. PICK f : Adds(f, w, S)
  BY AddsExists
<1>2. \A s \in SUBSET S : s # {} => w[Some(s)] = v[Some(s)]
  BY SomeIn
<1>3. \A s \in SUBSET S : s # {} => w[CHOOSE x \in s : TRUE] = v[CHOOSE x \in s : TRUE]
  BY <1>2 DEF Some
<1>4. Adds(f, v, S)
  BY <1>1, <1>3 DEF Adds
<1>5. S \in SUBSET S
  OBVIOUS
<1>6. f[S] = Total(w, S) /\ f[S] = Total(v, S)
  BY <1>1, <1>4, <1>5, TotalIs
<1> QED
  BY <1>6

(* Something counts, or nothing does.                                      *)
LEMMA TotalPositive ==
    ASSUME NEW S, IsFiniteSet(S), NEW w, Weighs(w, S), NEW x \in S, w[x] # 0
    PROVE  Total(w, S) # 0
<1>1. IsFiniteSet(S \ {x}) /\ Weighs(w, S \ {x})
  BY FS_Subset DEF Weighs
<1>2. Total(w, S) = w[x] + Total(w, S \ {x})
  BY TotalWithout
<1>3. w[x] \in Nat /\ Total(w, S \ {x}) \in Nat
  BY <1>1, TotalNat DEF Weighs
<1> QED
  BY <1>2, <1>3

LEMMA TotalNone ==
    ASSUME NEW S, IsFiniteSet(S), NEW w, \A x \in S : w[x] = 0
    PROVE  Total(w, S) = 0
<1> DEFINE F == {T \in SUBSET S : Total(w, T) # 0}
<1> SUFFICES ASSUME F # {} PROVE FALSE
  OBVIOUS
<1>1. Family(F, S)
  BY DEF Family
<1> HIDE DEF F
<1>2. PICK T \in F : \A U \in F : U \subseteq T => U = T
  BY <1>1, SmallestOf
<1>3. T \in SUBSET S /\ Total(w, T) # 0
  BY <1>2 DEF F
<1>4. T # {}
  BY <1>3, TotalEmpty
<1>5. IsFiniteSet(T) /\ Some(T) \in T /\ Some(T) \in S
  BY <1>3, <1>4, SomeIn, FS_Subset
<1>6. Total(w, T) = w[Some(T)] + Total(w, T \ {Some(T)})
  BY <1>4, <1>5, TotalSome
<1>7. Total(w, T \ {Some(T)}) = 0
  BY <1>2, <1>3, <1>5 DEF F
<1> QED
  BY <1>3, <1>5, <1>6, <1>7

LEMMA TotalOnes ==
    ASSUME NEW S, IsFiniteSet(S), NEW w, \A x \in S : w[x] = 1
    PROVE  Total(w, S) = Cardinality(S)
<1> DEFINE F == {T \in SUBSET S : Total(w, T) # Cardinality(T)}
<1> SUFFICES ASSUME F # {} PROVE FALSE
  OBVIOUS
<1>1. Family(F, S)
  BY DEF Family
<1> HIDE DEF F
<1>2. PICK T \in F : \A U \in F : U \subseteq T => U = T
  BY <1>1, SmallestOf
<1>3. T \in SUBSET S /\ Total(w, T) # Cardinality(T)
  BY <1>2 DEF F
<1>4. T # {}
  BY <1>3, TotalEmpty, FS_EmptySet
<1>5. IsFiniteSet(T) /\ Some(T) \in T /\ Some(T) \in S
  BY <1>3, <1>4, SomeIn, FS_Subset
<1>6. Total(w, T) = w[Some(T)] + Total(w, T \ {Some(T)})
  BY <1>4, <1>5, TotalSome
<1>7. Total(w, T \ {Some(T)}) = Cardinality(T \ {Some(T)})
  BY <1>2, <1>3, <1>5 DEF F
<1>8. Cardinality(T \ {Some(T)}) = Cardinality(T) - 1 /\ Cardinality(T) \in Nat
  BY <1>5, FS_RemoveElement, FS_CardinalityType
<1> QED
  BY <1>3, <1>5, <1>6, <1>7, <1>8

(* What is counted group by group is counted once, if what is in no group  *)
(* counts for nothing.                                                     *)
Group(key, R, k) == {r \in R : key[r] = k}
Subtotals(w, key, R, K) == [k \in K |-> Total(w, Group(key, R, k))]

LEMMA SubtotalsWeigh ==
    ASSUME NEW R, IsFiniteSet(R), NEW w, Weighs(w, R), NEW key, NEW K
    PROVE  Weighs(Subtotals(w, key, R, K), K)
<1>1. ASSUME NEW k \in K PROVE Total(w, Group(key, R, k)) \in Nat
  <2>1. Group(key, R, k) \in SUBSET R
    BY DEF Group
  <2>2. IsFiniteSet(Group(key, R, k)) /\ Weighs(w, Group(key, R, k))
    BY <2>1, FS_Subset DEF Weighs
  <2> QED
    BY <2>2, TotalNat
<1> QED
  BY <1>1 DEF Weighs, Subtotals

LEMMA TotalByGroup ==
    ASSUME NEW R, IsFiniteSet(R), NEW w, Weighs(w, R), NEW K, IsFiniteSet(K), NEW key,
           \A r \in R : key[r] \in K \/ w[r] = 0
    PROVE  Total(Subtotals(w, key, R, K), K) = Total(w, R)
<1> DEFINE F == {T \in SUBSET R : Total(Subtotals(w, key, T, K), K) # Total(w, T)}
<1> SUFFICES ASSUME F # {} PROVE FALSE
  <2>1. R \in SUBSET R
    OBVIOUS
  <2> QED
    BY <2>1
<1>1. Family(F, R)
  BY DEF Family
<1> HIDE DEF F
<1>2. PICK T \in F : \A U \in F : U \subseteq T => U = T
  BY <1>1, SmallestOf
<1>3. T \in SUBSET R /\ Total(Subtotals(w, key, T, K), K) # Total(w, T)
  BY <1>2 DEF F
<1>4. T # {}
  <2> SUFFICES ASSUME T = {} PROVE FALSE
    OBVIOUS
  <2>1. \A k \in K : Group(key, T, k) = {}
    BY DEF Group
  <2>2. \A k \in K : Subtotals(w, key, T, K)[k] = 0
    BY <2>1, TotalEmpty DEF Subtotals
  <2> QED
    BY <1>3, <2>2, TotalEmpty, TotalNone
<1>5. PICK r \in T : r \in R
  BY <1>3, <1>4
<1> DEFINE V == T \ {r}
           a == Subtotals(w, key, T, K)
           b == Subtotals(w, key, V, K)
<1>6. IsFiniteSet(T) /\ IsFiniteSet(V) /\ Weighs(w, T) /\ Weighs(w, V) /\ V \in SUBSET R
  <2>1. V \in SUBSET R
    BY <1>3
  <2> QED
    BY <1>3, <2>1, FS_Subset DEF Weighs
<1>7. Total(w, T) = w[r] + Total(w, V) /\ w[r] \in Nat /\ Total(w, V) \in Nat
  BY <1>6, TotalWithout, TotalNat DEF Weighs
<1>8. Total(b, K) = Total(w, V)
  BY <1>2, <1>3, <1>5, <1>6 DEF F
<1>9. ASSUME NEW k \in K, k # key[r] PROVE a[k] = b[k]
  <2>1. Group(key, T, k) = Group(key, V, k)
    BY <1>9 DEF Group
  <2> QED
    BY <2>1 DEF Subtotals
<1>10. Weighs(a, K) /\ Weighs(b, K)
  BY <1>6, SubtotalsWeigh
<1>11. CASE key[r] \notin K
  <2>1. \A k \in K : a[k] = b[k]
    BY <1>9, <1>11
  <2> HIDE DEF a, b, V
  <2>2. Total(a, K) = Total(b, K)
    BY <2>1, TotalSame
  <2>3. w[r] = 0
    BY <1>5, <1>11
  <2> QED
    BY <1>3, <1>7, <1>8, <2>2, <2>3 DEF a
<1>12. CASE key[r] \in K
  <2> DEFINE k0 == key[r]
  <2>1. a[k0] = w[r] + b[k0]
    <3>1. /\ Group(key, T, k0) \in SUBSET T /\ r \in Group(key, T, k0)
          /\ Group(key, T, k0) \ {r} = Group(key, V, k0)
      BY <1>5 DEF Group
    <3>2. IsFiniteSet(Group(key, T, k0)) /\ Weighs(w, Group(key, T, k0))
      BY <1>6, <3>1, FS_Subset DEF Weighs
    <3>3. ASSUME NEW U, IsFiniteSet(U), Weighs(w, U), r \in U PROVE Total(w, U) = w[r] + Total(w, U \ {r})
      BY <3>3, TotalWithout
    <3>4. Total(w, Group(key, T, k0)) = w[r] + Total(w, Group(key, V, k0))
      <4> HIDE DEF V, k0
      <4> QED
        BY <3>1, <3>2, <3>3
    <3> QED
      BY <1>12, <3>4 DEF Subtotals
  <2>2. \A k \in K \ {k0} : a[k] = b[k]
    BY <1>9
  <2> HIDE DEF a, b, V, k0
  <2>3. k0 \in K
    BY <1>12 DEF k0
  <2>4. IsFiniteSet(K \ {k0}) /\ Weighs(b, K \ {k0})
    BY <1>10, FS_Subset DEF Weighs
  <2>5. Total(a, K \ {k0}) = Total(b, K \ {k0})
    BY <2>2, <2>4, TotalSame
  <2>6. Total(a, K) = a[k0] + Total(a, K \ {k0}) /\ Total(b, K) = b[k0] + Total(b, K \ {k0})
    BY <1>10, <2>3, TotalWithout
  <2>7. b[k0] \in Nat /\ Total(b, K \ {k0}) \in Nat
    BY <1>10, <2>3, <2>4, TotalNat DEF Weighs
  <2>8. Total(a, K) = Total(w, T)
    BY <1>7, <1>8, <2>1, <2>5, <2>6, <2>7
  <2> QED
    BY <1>3, <2>8 DEF a
<1> QED
  BY <1>11, <1>12

-----------------------------------------------------------------------------
(* The dashboard's sums as totals of functions.                            *)

LEMMA PlayersOfRows ==
    ASSUME NEW T, IsFiniteSet(T), NEW w, \A r \in T : w[r] = r.playerCount
    PROVE  MapThenSumSet(LAMBDA r : r.playerCount, T) = Total(w, T)
<1> DEFINE Eq(f) == f = [s \in SUBSET T |-> IF s = {} THEN 0
                            ELSE (CHOOSE x \in s : TRUE).playerCount + f[s \ {CHOOSE x \in s : TRUE}]]
           g == CHOOSE f : Eq(f)
<1>1. MapThenSumSet(LAMBDA r : r.playerCount, T) = g[T]
  BY DEF MapThenSumSet, MapThenFoldSet
<1>2. \A s \in SUBSET T : s # {} => w[Some(s)] = Some(s).playerCount
  BY SomeIn
<1>3. \A s \in SUBSET T : s # {} => w[CHOOSE x \in s : TRUE] = (CHOOSE x \in s : TRUE).playerCount
  BY <1>2 DEF Some
<1>4. \A f : Adds(f, w, T) <=> Eq(f)
  BY <1>3 DEF Adds
<1> HIDE DEF Eq
<1>5. Adds(g, w, T)
  BY <1>4, AddsExists
<1>6. T \in SUBSET T
  OBVIOUS
<1> HIDE DEF g
<1> QED
  BY <1>1, <1>5, <1>6, TotalIs

LEMMA ServersOfRows ==
    ASSUME NEW T, IsFiniteSet(T), NEW w, \A r \in T : w[r] = ServerCount(r)
    PROVE  MapThenSumSet(ServerCount, T) = Total(w, T)
<1> DEFINE Eq(f) == f = [s \in SUBSET T |-> IF s = {} THEN 0
                            ELSE ServerCount(CHOOSE x \in s : TRUE) + f[s \ {CHOOSE x \in s : TRUE}]]
           g == CHOOSE f : Eq(f)
<1>1. MapThenSumSet(ServerCount, T) = g[T]
  BY DEF MapThenSumSet, MapThenFoldSet
<1>2. \A s \in SUBSET T : s # {} => w[Some(s)] = ServerCount(Some(s))
  BY SomeIn
<1>3. \A s \in SUBSET T : s # {} => w[CHOOSE x \in s : TRUE] = ServerCount(CHOOSE x \in s : TRUE)
  BY <1>2 DEF Some
<1>4. \A f : Adds(f, w, T) <=> Eq(f)
  BY <1>3 DEF Adds
<1> HIDE DEF Eq
<1>5. Adds(g, w, T)
  BY <1>4, AddsExists
<1>6. T \in SUBSET T
  OBVIOUS
<1> HIDE DEF g
<1> QED
  BY <1>1, <1>5, <1>6, TotalIs

LEMMA PlayersOfColumn ==
    ASSUME NEW agg, NEW K, IsFiniteSet(K), K = DOMAIN agg, NEW w, \A k \in K : w[k] = agg[k].players
    PROVE  SumOf(agg, LAMBDA a : a.players) = Total(w, K)
<1> DEFINE Eq(f) == f = [s \in SUBSET K |-> IF s = {} THEN 0
                            ELSE agg[CHOOSE x \in s : TRUE].players + f[s \ {CHOOSE x \in s : TRUE}]]
           g == CHOOSE f : Eq(f)
<1>1. SumOf(agg, LAMBDA a : a.players) = g[K]
  BY DEF SumOf, MapThenSumSet, MapThenFoldSet
<1>2. \A s \in SUBSET K : s # {} => w[Some(s)] = agg[Some(s)].players
  BY SomeIn
<1>3. \A s \in SUBSET K : s # {} => w[CHOOSE x \in s : TRUE] = agg[CHOOSE x \in s : TRUE].players
  BY <1>2 DEF Some
<1>4. \A f : Adds(f, w, K) <=> Eq(f)
  BY <1>3 DEF Adds
<1> HIDE DEF Eq
<1>5. Adds(g, w, K)
  BY <1>4, AddsExists
<1>6. K \in SUBSET K
  OBVIOUS
<1> HIDE DEF g
<1> QED
  BY <1>1, <1>5, <1>6, TotalIs

LEMMA ServersOfColumn ==
    ASSUME NEW agg, NEW K, IsFiniteSet(K), K = DOMAIN agg, NEW w, \A k \in K : w[k] = agg[k].servers
    PROVE  SumOf(agg, LAMBDA a : a.servers) = Total(w, K)
<1> DEFINE Eq(f) == f = [s \in SUBSET K |-> IF s = {} THEN 0
                            ELSE agg[CHOOSE x \in s : TRUE].servers + f[s \ {CHOOSE x \in s : TRUE}]]
           g == CHOOSE f : Eq(f)
<1>1. SumOf(agg, LAMBDA a : a.servers) = g[K]
  BY DEF SumOf, MapThenSumSet, MapThenFoldSet
<1>2. \A s \in SUBSET K : s # {} => w[Some(s)] = agg[Some(s)].servers
  BY SomeIn
<1>3. \A s \in SUBSET K : s # {} => w[CHOOSE x \in s : TRUE] = agg[CHOOSE x \in s : TRUE].servers
  BY <1>2 DEF Some
<1>4. \A f : Adds(f, w, K) <=> Eq(f)
  BY <1>3 DEF Adds
<1> HIDE DEF Eq
<1>5. Adds(g, w, K)
  BY <1>4, AddsExists
<1>6. K \in SUBSET K
  OBVIOUS
<1> HIDE DEF g
<1> QED
  BY <1>1, <1>5, <1>6, TotalIs

-----------------------------------------------------------------------------
(* The dashboard: rows.                                                    *)

LEMMA FleetKeeps == FleetTypeOK /\ [FleetNext]_fleetVars => FleetTypeOK'
<1> SUFFICES ASSUME FleetTypeOK, [FleetNext]_fleetVars PROVE FleetTypeOK'
  OBVIOUS
<1> USE DEF FleetTypeOK
<1>1. ASSUME NEW s \in FleetServers, NEW h \in HostIds \cap {1, 2}, NEW g \in Games, Deploy(s, h, g)
      PROVE  FleetTypeOK'
  <2>1. [host |-> h, game |-> g, status |-> "other", players |-> 0] \in World
    BY FleetAssumption DEF World
  <2> HIDE DEF FleetTypeOK
  <2>2. hostSet \subseteq HostIds /\ world \in [FleetServers -> World \cup {NoServer}]
    BY DEF FleetTypeOK
  <2> QED
    BY <1>1, <2>1, <2>2 DEF Deploy, FleetTypeOK
<1>2. ASSUME NEW s \in FleetServers, NEW status \in {"running", "other"}, NEW players \in 0 .. MaxPlayers,
             Report(s, status, players)
      PROVE  FleetTypeOK'
  <2>1. world[s] \in World
    BY <1>2 DEF Report
  <2>2. [[world[s] EXCEPT !.status = status] EXCEPT !.players = players] \in World
    BY <2>1 DEF World
  <2>3. world' = [world EXCEPT ![s] = [[world[s] EXCEPT !.status = status] EXCEPT !.players = players]]
    BY <1>2 DEF Report
  <2> QED
    BY <1>2, <2>2, <2>3 DEF Report
<1>3. ASSUME NEW s \in FleetServers, DeleteWorld(s) PROVE FleetTypeOK'
  <2>1. world[s] \in World
    BY <1>3 DEF DeleteWorld
  <2>2. [world[s] EXCEPT !.status = "deleted"] \in World
    BY <2>1 DEF World
  <2> QED
    BY <1>3, <2>2 DEF DeleteWorld
<1>4. ASSUME NEW h \in hostSet, RemoveHost(h) PROVE FleetTypeOK'
  BY <1>4 DEF RemoveHost
<1>5. CASE UNCHANGED fleetVars
  BY <1>5 DEF fleetVars
<1> QED
  BY <1>1, <1>2, <1>3, <1>4, <1>5 DEF FleetNext

(* What the SELECT gives.                                                  *)
RowOfSelect(r) ==
    /\ r.hostId \in hostSet /\ r.playerCount \in Nat
    /\ \/ LiveOn(r.hostId) = {} /\ r = EmptyRow(r.hostId)
       \/ /\ r.serverId \in LiveOn(r.hostId) /\ r = RowOf(r.hostId, r.serverId)
          /\ r.serverId # NoServer /\ r.gameId \in Games /\ r.gameId # NoGame

LEMMA RowsOfSelect == FleetTypeOK => \A r \in FlowRows : RowOfSelect(r)
<1> SUFFICES ASSUME FleetTypeOK, NEW r \in FlowRows PROVE RowOfSelect(r)
  OBVIOUS
<1>1. PICK h \in hostSet : r \in IF LiveOn(h) = {} THEN {EmptyRow(h)} ELSE {RowOf(h, s) : s \in LiveOn(h)}
  BY DEF FlowRows
<1>2. CASE LiveOn(h) = {}
  BY <1>1, <1>2 DEF RowOfSelect, EmptyRow
<1>3. CASE LiveOn(h) # {}
  <2>1. PICK s \in LiveOn(h) : r = RowOf(h, s)
    BY <1>1, <1>3
  <2>2. s \in FleetServers /\ world[s] \in World /\ s # NoServer
    BY FleetAssumption DEF LiveOn, FleetTypeOK
  <2>3. r.hostId = h /\ r.serverId = s /\ r.playerCount = world[s].players /\ r.gameId = world[s].game
    BY <2>1 DEF RowOf
  <2>4. world[s].players \in Nat /\ world[s].game \in Games /\ world[s].game # NoGame
    BY <2>2, FleetAssumption DEF World
  <2> QED
    BY <2>1, <2>2, <2>3, <2>4 DEF RowOfSelect
<1> QED
  BY <1>2, <1>3

LEMMA RowsOfHost ==
    FleetTypeOK => \A h \in hostSet :
        {r \in FlowRows : r.hostId = h} = IF LiveOn(h) = {} THEN {EmptyRow(h)} ELSE {RowOf(h, s) : s \in LiveOn(h)}
<1> SUFFICES ASSUME FleetTypeOK, NEW h \in hostSet
             PROVE  {r \in FlowRows : r.hostId = h}
                    = IF LiveOn(h) = {} THEN {EmptyRow(h)} ELSE {RowOf(h, s) : s \in LiveOn(h)}
  OBVIOUS
<1>1. ASSUME NEW k, NEW r \in IF LiveOn(k) = {} THEN {EmptyRow(k)} ELSE {RowOf(k, s) : s \in LiveOn(k)}
      PROVE  r.hostId = k
  BY DEF EmptyRow, RowOf
<1>2. \A r : r \in FlowRows <=> \E k \in hostSet :
          r \in IF LiveOn(k) = {} THEN {EmptyRow(k)} ELSE {RowOf(k, s) : s \in LiveOn(k)}
  BY DEF FlowRows
<1> DEFINE Of(k) == IF LiveOn(k) = {} THEN {EmptyRow(k)} ELSE {RowOf(k, s) : s \in LiveOn(k)}
<1>3. \A k : \A r \in Of(k) : r.hostId = k
  BY <1>1
<1>4. \A r : r \in FlowRows <=> \E k \in hostSet : r \in Of(k)
  BY <1>2
<1> HIDE DEF Of
<1>5. {r \in FlowRows : r.hostId = h} = Of(h)
  BY <1>3, <1>4
<1> QED
  BY <1>5 DEF Of

LEMMA RowsAreFinite == FleetTypeOK => IsFiniteSet(FlowRows) /\ IsFiniteSet(hostSet)
<1> SUFFICES ASSUME FleetTypeOK PROVE IsFiniteSet(FlowRows) /\ IsFiniteSet(hostSet)
  OBVIOUS
<1> DEFINE f == [r \in FlowRows |-> <<r.hostId, r.serverId>>]
           C == HostIds \X (FleetServers \cup {NoServer})
<1>1. IsFiniteSet(HostIds)
  BY FS_Interval, FleetAssumption DEF HostIds
<1>2. IsFiniteSet(FleetServers \cup {NoServer})
  BY FS_AddElement, FleetAssumption
<1>3. IsFiniteSet(C)
  BY <1>1, <1>2, FS_Product
<1>4. ASSUME NEW r \in FlowRows
      PROVE  /\ r.hostId \in HostIds /\ r.serverId \in FleetServers \cup {NoServer}
             /\ r = IF r.serverId = NoServer THEN EmptyRow(r.hostId) ELSE RowOf(r.hostId, r.serverId)
  <2>1. RowOfSelect(r)
    BY RowsOfSelect
  <2>2. r.hostId \in HostIds
    BY <2>1 DEF RowOfSelect, FleetTypeOK
  <2>3. CASE r = EmptyRow(r.hostId)
    BY <2>2, <2>3 DEF EmptyRow
  <2>4. CASE r.serverId \in LiveOn(r.hostId) /\ r = RowOf(r.hostId, r.serverId) /\ r.serverId # NoServer
    BY <2>2, <2>4 DEF LiveOn
  <2> QED
    BY <2>1, <2>3, <2>4 DEF RowOfSelect
<1>5. f \in [FlowRows -> C]
  BY <1>4
<1>6. \A r, q \in FlowRows : f[r] = f[q] => r = q
  <2> SUFFICES ASSUME NEW r \in FlowRows, NEW q \in FlowRows, f[r] = f[q] PROVE r = q
    OBVIOUS
  <2>1. r.hostId = q.hostId /\ r.serverId = q.serverId
    OBVIOUS
  <2> QED
    BY <2>1, <1>4
<1>7. f \in Injection(FlowRows, C)
  <2> HIDE DEF f
  <2> QED
    BY <1>5, <1>6 DEF Injection, IsInjective
<1>8. IsFiniteSet(FlowRows)
  <2> HIDE DEF f, C
  <2> QED
    BY <1>3, <1>7, FS_Injection
<1> QED
  BY <1>1, <1>8, FS_Subset DEF FleetTypeOK

-----------------------------------------------------------------------------
(* The dashboard: the diagram of the rows.                                 *)

PlayersOf(R) == [r \in R |-> r.playerCount]
ServersOf(R) == [r \in R |-> ServerCount(r)]
HostOf(R) == [r \in R |-> r.hostId]
GameOf(R) == [r \in R |-> r.gameId]

LEMMA AggregateIs ==
    ASSUME NEW R, IsFiniteSet(R), NEW T \in SUBSET R
    PROVE  Aggregate(T) = [players |-> Total(PlayersOf(R), T), servers |-> Total(ServersOf(R), T)]
<1>1. IsFiniteSet(T)
  BY FS_Subset
<1>2. \A r \in T : PlayersOf(R)[r] = r.playerCount /\ ServersOf(R)[r] = ServerCount(r)
  BY DEF PlayersOf, ServersOf
<1>3. MapThenSumSet(LAMBDA r : r.playerCount, T) = Total(PlayersOf(R), T)
  BY <1>1, <1>2, PlayersOfRows
<1>4. MapThenSumSet(ServerCount, T) = Total(ServersOf(R), T)
  BY <1>1, <1>2, ServersOfRows
<1> QED
  BY <1>3, <1>4 DEF Aggregate

LEMMA RowsWeigh ==
    FleetTypeOK => /\ Weighs(PlayersOf(FlowRows), FlowRows) /\ Weighs(ServersOf(FlowRows), FlowRows)
                   /\ \A r \in FlowRows : /\ HostOf(FlowRows)[r] \in hostSet
                                          /\ \/ r.gameId # NoGame /\ ServersOf(FlowRows)[r] = 1
                                             \/ /\ r.gameId = NoGame /\ ~r.running
                                                /\ PlayersOf(FlowRows)[r] = 0 /\ ServersOf(FlowRows)[r] = 0
<1> SUFFICES ASSUME FleetTypeOK, NEW r \in FlowRows
             PROVE  /\ r.playerCount \in Nat /\ ServerCount(r) \in Nat /\ r.hostId \in hostSet
                    /\ \/ r.gameId # NoGame /\ ServerCount(r) = 1
                       \/ r.gameId = NoGame /\ ~r.running /\ r.playerCount = 0 /\ ServerCount(r) = 0
  BY DEF Weighs, PlayersOf, ServersOf, HostOf
<1>1. RowOfSelect(r)
  BY RowsOfSelect
<1>2. r.playerCount \in Nat /\ ServerCount(r) \in Nat /\ r.hostId \in hostSet
  BY <1>1 DEF RowOfSelect, ServerCount
<1>3. CASE r = EmptyRow(r.hostId)
  BY <1>2, <1>3 DEF EmptyRow, ServerCount
<1>4. CASE r.serverId # NoServer /\ r.gameId # NoGame
  BY <1>2, <1>4 DEF ServerCount
<1> QED
  BY <1>1, <1>2, <1>3, <1>4 DEF RowOfSelect

LEMMA HostsOfRows == FleetTypeOK => {r.hostId : r \in FlowRows} = hostSet
<1> SUFFICES ASSUME FleetTypeOK PROVE {r.hostId : r \in FlowRows} = hostSet
  OBVIOUS
<1>1. \A r \in FlowRows : r.hostId \in hostSet
  BY RowsOfSelect DEF RowOfSelect
<1>2. ASSUME NEW h \in hostSet PROVE \E r \in FlowRows : r.hostId = h
  <2>1. {r \in FlowRows : r.hostId = h} = IF LiveOn(h) = {} THEN {EmptyRow(h)} ELSE {RowOf(h, s) : s \in LiveOn(h)}
    BY RowsOfHost
  <2>2. (IF LiveOn(h) = {} THEN {EmptyRow(h)} ELSE {RowOf(h, s) : s \in LiveOn(h)}) # {}
    OBVIOUS
  <2> QED
    BY <2>1, <2>2
<1> QED
  BY <1>1, <1>2

Conserves(w, R, H, G) ==
    /\ Total(Subtotals(w, HostOf(R), R, H), H) = Total(w, R)
    /\ Total(Subtotals(w, GameOf(R), R, G), G) = Total(w, R)

LEMMA RowsConserve ==
    FleetTypeOK => /\ IsFiniteSet(GamesOf(FlowRows))
                   /\ Conserves(PlayersOf(FlowRows), FlowRows, hostSet, GamesOf(FlowRows))
                   /\ Conserves(ServersOf(FlowRows), FlowRows, hostSet, GamesOf(FlowRows))
<1> SUFFICES ASSUME FleetTypeOK
             PROVE  /\ IsFiniteSet(GamesOf(FlowRows))
                    /\ Conserves(PlayersOf(FlowRows), FlowRows, hostSet, GamesOf(FlowRows))
                    /\ Conserves(ServersOf(FlowRows), FlowRows, hostSet, GamesOf(FlowRows))
  OBVIOUS
<1> DEFINE R == FlowRows
           G == GamesOf(R)
           P == PlayersOf(R)
           N == ServersOf(R)
<1>1. IsFiniteSet(R) /\ IsFiniteSet(hostSet)
  BY RowsAreFinite
<1>2. /\ Weighs(P, R) /\ Weighs(N, R)
      /\ \A r \in R : HostOf(R)[r] \in hostSet /\ (r.gameId # NoGame \/ (P[r] = 0 /\ N[r] = 0))
  BY RowsWeigh
<1>3. \A r \in R : GameOf(R)[r] \in G \/ (P[r] = 0 /\ N[r] = 0)
  BY <1>2 DEF GameOf, GamesOf
<1>4. IsFiniteSet(G)
  <2> DEFINE A == {r.gameId : r \in R}
             f == [r \in R |-> r.gameId]
  <2>1. f \in [R -> A] /\ \A a \in A : \E r \in R : f[r] = a
    OBVIOUS
  <2> HIDE DEF f, A, R
  <2>2. f \in Surjection(R, A)
    BY <2>1 DEF Surjection
  <2>3. IsFiniteSet(A)
    BY <1>1, <2>2, FS_Surjection
  <2>4. G = A \ {NoGame}
    BY DEF A, GamesOf
  <2> QED
    BY <2>3, <2>4, FS_RemoveElement
<1> HIDE DEF R, G, P, N
<1>5. Conserves(P, R, hostSet, G)
  BY <1>1, <1>2, <1>3, <1>4, TotalByGroup DEF Conserves
<1>6. Conserves(N, R, hostSet, G)
  BY <1>1, <1>2, <1>3, <1>4, TotalByGroup DEF Conserves
<1> QED
  BY <1>4, <1>5, <1>6 DEF R, G, P, N

LEMMA DiagramIs ==
    FleetTypeOK => LET d == Diagram
                       R == FlowRows
                       G == GamesOf(R) IN
        d.hasFlow =>
            /\ DOMAIN d.hosts = hostSet /\ DOMAIN d.games = G
            /\ \A h \in hostSet : /\ d.hosts[h].players = Total(PlayersOf(R), Group(HostOf(R), R, h))
                                  /\ d.hosts[h].servers = Total(ServersOf(R), Group(HostOf(R), R, h))
            /\ \A g \in G : /\ d.games[g].players = Total(PlayersOf(R), Group(GameOf(R), R, g))
                            /\ d.games[g].servers = Total(ServersOf(R), Group(GameOf(R), R, g))
            /\ d.players = Total(PlayersOf(R), R)
            /\ d.total <=> (Total(PlayersOf(R), R) # 0 \/ Total(ServersOf(R), R) # 0)
            /\ d.links = {<<<<r.hostId, "host">>, <<r.gameId, "game">>>> : r \in {q \in R : q.gameId # NoGame}}
                         \cup {<<<<g, "game">>, <<NoGame, "players">>>> : g \in G}
<1> DEFINE d == Diagram
           R == FlowRows
           G == GamesOf(R)
<1> SUFFICES ASSUME FleetTypeOK, d.hasFlow
             PROVE  /\ DOMAIN d.hosts = hostSet /\ DOMAIN d.games = G
                    /\ \A h \in hostSet : /\ d.hosts[h].players = Total(PlayersOf(R), Group(HostOf(R), R, h))
                                          /\ d.hosts[h].servers = Total(ServersOf(R), Group(HostOf(R), R, h))
                    /\ \A g \in G : /\ d.games[g].players = Total(PlayersOf(R), Group(GameOf(R), R, g))
                                    /\ d.games[g].servers = Total(ServersOf(R), Group(GameOf(R), R, g))
                    /\ d.players = Total(PlayersOf(R), R)
                    /\ d.total <=> (Total(PlayersOf(R), R) # 0 \/ Total(ServersOf(R), R) # 0)
                    /\ d.links = {<<<<r.hostId, "host">>, <<r.gameId, "game">>>> : r \in {q \in R : q.gameId # NoGame}}
                                 \cup {<<<<g, "game">>, <<NoGame, "players">>>> : g \in G}
  OBVIOUS
<1>1. IsFiniteSet(R) /\ {r.hostId : r \in R} = hostSet
  BY RowsAreFinite, HostsOfRows
<1> DEFINE A(T) == [players |-> Total(PlayersOf(R), T), servers |-> Total(ServersOf(R), T)]
           games == [g \in G |-> Aggregate({r \in R : r.gameId = g})]
           hosts == [h \in hostSet |-> Aggregate({r \in R : r.hostId = h})]
           all == Aggregate(R)
           links == {<<<<r.hostId, "host">>, <<r.gameId, "game">>>> : r \in {q \in R : q.gameId # NoGame}}
                       \cup {<<<<g, "game">>, <<NoGame, "players">>>> : g \in G}
           flow == [hasFlow |-> TRUE, hosts |-> hosts, games |-> games, players |-> all.players,
                    total |-> all.players # 0 \/ all.servers # 0, links |-> links]
<1>2. d = IF hostSet = {} \/ (G = {} /\ all.servers = 0) THEN NoDiagram ELSE flow
  BY <1>1 DEF Diagram, ComputeLayout
<1>3. ~NoDiagram.hasFlow
  BY DEF NoDiagram
<1>4. d = flow
  BY <1>2, <1>3
<1>5. \A T \in SUBSET R : Aggregate(T) = A(T)
  <2> HIDE DEF R
  <2> QED
    BY <1>1, AggregateIs
<1>6. \A k : {r \in R : r.hostId = k} = Group(HostOf(R), R, k) /\ {r \in R : r.gameId = k} = Group(GameOf(R), R, k)
  BY DEF Group, HostOf, GameOf
<1> HIDE DEF d, R, G
<1>7. \A k : Group(HostOf(R), R, k) \in SUBSET R /\ Group(GameOf(R), R, k) \in SUBSET R
  BY DEF Group
<1>8. all = A(R)
  BY <1>5
<1>9. \A h \in hostSet : hosts[h] = A(Group(HostOf(R), R, h))
  BY <1>5, <1>6, <1>7
<1>10. \A g \in G : games[g] = A(Group(GameOf(R), R, g))
  BY <1>5, <1>6, <1>7
<1>11. DOMAIN hosts = hostSet /\ DOMAIN games = G
  OBVIOUS
<1> HIDE DEF hosts, games, all, links
<1>12. /\ d.hosts = hosts /\ d.games = games /\ d.players = all.players /\ d.links = links
       /\ d.total <=> (all.players # 0 \/ all.servers # 0)
  BY <1>4
<1> QED
  BY <1>8, <1>9, <1>10, <1>11, <1>12 DEF links

(* A host's servers are counted one by one.                                *)
LEMMA ServersOfHost ==
    FleetTypeOK => \A h \in hostSet :
        Total(ServersOf(FlowRows), Group(HostOf(FlowRows), FlowRows, h)) = Cardinality(LiveOn(h))
<1> SUFFICES ASSUME FleetTypeOK, NEW h \in hostSet
             PROVE  Total(ServersOf(FlowRows), Group(HostOf(FlowRows), FlowRows, h)) = Cardinality(LiveOn(h))
  OBVIOUS
<1> DEFINE R == FlowRows
           T == Group(HostOf(R), R, h)
           N == ServersOf(R)
<1>1. T = {r \in R : r.hostId = h} /\ T \in SUBSET R
  BY DEF Group, HostOf
<1>2. T = IF LiveOn(h) = {} THEN {EmptyRow(h)} ELSE {RowOf(h, s) : s \in LiveOn(h)}
  BY <1>1, RowsOfHost
<1>3. \A r \in T : N[r] = ServerCount(r)
  BY <1>1 DEF ServersOf
<1>4. IsFiniteSet(T)
  BY <1>1, RowsAreFinite, FS_Subset
<1>5. CASE LiveOn(h) = {}
  <2>1. \A r \in T : N[r] = 0
    <3> HIDE DEF T, N
    <3>1. T = {EmptyRow(h)}
      BY <1>2, <1>5
    <3>2. ServerCount(EmptyRow(h)) = 0
      BY DEF EmptyRow, ServerCount
    <3> QED
      BY <1>3, <3>1, <3>2
  <2> HIDE DEF T, N
  <2>2. Total(N, T) = 0
    BY <1>4, <2>1, TotalNone
  <2> QED
    BY <1>5, <2>2, FS_EmptySet DEF T, N, R
<1>6. CASE LiveOn(h) # {}
  <2>1. \A s \in LiveOn(h) : s # NoServer
    BY FleetAssumption DEF LiveOn
  <2>2. \A r \in T : N[r] = 1
    BY <1>2, <1>3, <1>6, <2>1 DEF RowOf, ServerCount
  <2> DEFINE f == [s \in LiveOn(h) |-> RowOf(h, s)]
  <2>3. /\ f \in [LiveOn(h) -> T] /\ \A r \in T : \E s \in LiveOn(h) : f[s] = r
        /\ \A s, q \in LiveOn(h) : f[s] = f[q] => s = q
    <3>1. \A s \in LiveOn(h) : RowOf(h, s).serverId = s
      BY DEF RowOf
    <3>2. T = {RowOf(h, s) : s \in LiveOn(h)}
      BY <1>2, <1>6
    <3> HIDE DEF T
    <3> QED
      BY <3>1, <3>2
  <2> HIDE DEF f, T, N
  <2>4. f \in Bijection(LiveOn(h), T)
    BY <2>3 DEF Bijection, Injection, Surjection, IsInjective
  <2>5. IsFiniteSet(LiveOn(h))
    <3>1. LiveOn(h) \in SUBSET FleetServers
      BY DEF LiveOn
    <3> QED
      BY <3>1, FleetAssumption, FS_Subset
  <2>6. Cardinality(T) = Cardinality(LiveOn(h))
    BY <2>4, <2>5, FS_Bijection DEF ExistsBijection
  <2>7. Total(N, T) = Cardinality(T)
    BY <1>4, <2>2, TotalOnes
  <2> QED
    BY <2>6, <2>7 DEF T, N, R
<1> QED
  BY <1>5, <1>6

LEMMA DashboardConserves == FleetTypeOK => FlowConserves
<1> DEFINE d == Diagram
           R == FlowRows
           G == GamesOf(R)
           P == PlayersOf(R)
           N == ServersOf(R)
<1> SUFFICES ASSUME FleetTypeOK, d.hasFlow
             PROVE  /\ SumOf(d.hosts, LAMBDA a : a.players) = d.players
                    /\ SumOf(d.games, LAMBDA a : a.players) = d.players
                    /\ SumOf(d.hosts, LAMBDA a : a.servers) = SumOf(d.games, LAMBDA a : a.servers)
                    /\ \A h \in hostSet : d.hosts[h].servers = Cardinality(LiveOn(h))
  BY DEF FlowConserves
<1>1. /\ DOMAIN d.hosts = hostSet /\ DOMAIN d.games = G /\ d.players = Total(P, R)
      /\ \A h \in hostSet : /\ d.hosts[h].players = Total(P, Group(HostOf(R), R, h))
                            /\ d.hosts[h].servers = Total(N, Group(HostOf(R), R, h))
      /\ \A g \in G : /\ d.games[g].players = Total(P, Group(GameOf(R), R, g))
                      /\ d.games[g].servers = Total(N, Group(GameOf(R), R, g))
  BY DiagramIs
<1>2. /\ IsFiniteSet(hostSet) /\ IsFiniteSet(G)
      /\ Conserves(P, R, hostSet, G) /\ Conserves(N, R, hostSet, G)
  BY RowsAreFinite, RowsConserve
<1>3. \A h \in hostSet : Total(N, Group(HostOf(R), R, h)) = Cardinality(LiveOn(h))
  BY ServersOfHost
<1> HIDE DEF d, R, G, P, N
<1>4. \A h \in hostSet : /\ Subtotals(P, HostOf(R), R, hostSet)[h] = d.hosts[h].players
                         /\ Subtotals(N, HostOf(R), R, hostSet)[h] = d.hosts[h].servers
  BY <1>1 DEF Subtotals
<1>5. \A g \in G : /\ Subtotals(P, GameOf(R), R, G)[g] = d.games[g].players
                   /\ Subtotals(N, GameOf(R), R, G)[g] = d.games[g].servers
  BY <1>1 DEF Subtotals
<1>6. SumOf(d.hosts, LAMBDA a : a.players) = Total(Subtotals(P, HostOf(R), R, hostSet), hostSet)
  BY <1>1, <1>2, <1>4, PlayersOfColumn
<1>7. SumOf(d.games, LAMBDA a : a.players) = Total(Subtotals(P, GameOf(R), R, G), G)
  BY <1>1, <1>2, <1>5, PlayersOfColumn
<1>8. SumOf(d.hosts, LAMBDA a : a.servers) = Total(Subtotals(N, HostOf(R), R, hostSet), hostSet)
  BY <1>1, <1>2, <1>4, ServersOfColumn
<1>9. SumOf(d.games, LAMBDA a : a.servers) = Total(Subtotals(N, GameOf(R), R, G), G)
  BY <1>1, <1>2, <1>5, ServersOfColumn
<1> QED
  BY <1>1, <1>2, <1>3, <1>6, <1>7, <1>8, <1>9 DEF Conserves

LEMMA DashboardLinks == FleetTypeOK => LinksHaveEnds
<1> DEFINE d == Diagram
           R == FlowRows
           G == GamesOf(R)
           P == PlayersOf(R)
           N == ServersOf(R)
<1> SUFFICES ASSUME FleetTypeOK
             PROVE  /\ \A link \in d.links : link[1] \in Nodes(d) /\ link[2] \in Nodes(d)
                    /\ d.hasFlow => DOMAIN d.hosts = hostSet
                    /\ Worlds # {} => d.hasFlow
  BY DEF LinksHaveEnds
<1>1. d.hasFlow =>
          /\ DOMAIN d.hosts = hostSet /\ DOMAIN d.games = G
          /\ d.total <=> (Total(P, R) # 0 \/ Total(N, R) # 0)
          /\ d.links = {<<<<r.hostId, "host">>, <<r.gameId, "game">>>> : r \in {q \in R : q.gameId # NoGame}}
                       \cup {<<<<g, "game">>, <<NoGame, "players">>>> : g \in G}
  BY DiagramIs
<1>2. IsFiniteSet(R) /\ Weighs(N, R)
      /\ \A r \in R : r.hostId \in hostSet /\ (r.gameId # NoGame => N[r] = 1) /\ (r.running => r.gameId # NoGame)
  BY RowsAreFinite, RowsWeigh, RowsOfSelect DEF RowOfSelect
<1>3. \A r \in R : r.gameId # NoGame => r.gameId \in G
  BY DEF GamesOf
<1>4. \A g \in G : \E r \in R : r.gameId = g /\ g # NoGame
  BY DEF GamesOf
<1>5. ~d.hasFlow => d = NoDiagram
  BY DEF Diagram, ComputeLayout
<1>6. G # {} => d.hasFlow
  BY HostsOfRows, <1>4 DEF Diagram, ComputeLayout
<1>7. Worlds # {} => \E r \in R : r.running
  BY DEF Worlds
<1>8. ASSUME d.hasFlow, NEW link \in d.links PROVE link[1] \in Nodes(d) /\ link[2] \in Nodes(d)
  <2> HIDE DEF d, R, G, P, N
  <2>1. /\ \A h \in hostSet : <<h, "host">> \in Nodes(d)
        /\ \A g \in G : <<g, "game">> \in Nodes(d)
        /\ d.total => <<NoGame, "players">> \in Nodes(d)
    BY <1>1, <1>8 DEF Nodes
  <2>2. CASE \E r \in R : r.gameId # NoGame /\ link = <<<<r.hostId, "host">>, <<r.gameId, "game">>>>
    BY <1>2, <1>3, <2>1, <2>2
  <2>3. ASSUME NEW g \in G, link = <<<<g, "game">>, <<NoGame, "players">>>>
        PROVE  link[1] \in Nodes(d) /\ link[2] \in Nodes(d)
    <3>1. PICK r \in R : r.gameId = g /\ g # NoGame
      BY <1>4
    <3>2. N[r] # 0
      BY <1>2, <3>1
    <3>3. Total(N, R) # 0
      BY <1>2, <3>2, TotalPositive
    <3> QED
      BY <1>1, <1>8, <2>1, <2>3, <3>3
  <2> QED
    BY <1>1, <1>8, <2>2, <2>3
<1>9. ~d.hasFlow => d.links = {}
  BY <1>5 DEF NoDiagram
<1> HIDE DEF d, R, G, P, N
<1> QED
  BY <1>1, <1>2, <1>3, <1>6, <1>7, <1>8, <1>9

-----------------------------------------------------------------------------
(* The dashboard: a column.                                                *)

LEMMA ColumnAlwaysFits == \A n \in Nat : ColumnFits(n)
<1> SUFFICES ASSUME NEW n \in Nat PROVE ColumnFits(n)
  OBVIOUS
<1> USE DEF Unit, TopMargin, Height, UsableH, NodePad, LabelY
<1>1. TotalPad(n) \in Int
  BY DEF TotalPad
<1>2. BaseH(n) \in Int
  BY <1>1 DEF BaseH, Most, Least
<1>3. StartY(n) \in Int
  <2>1. TotalH(n) \in Int
    BY <1>1, <1>2 DEF TotalH
  <2>2. UsableH * Unit(n) - TotalH(n) \in Int
    BY <2>1
  <2>3. \A x \in Int : x \div 2 \in Int
    OBVIOUS
  <2> QED
    BY <2>2, <2>3 DEF StartY
<1>4. ASSUME NEW i \in 1 .. n - 1 PROVE NodeY(n, i) + BaseH(n) < NodeY(n, i + 1)
  <2>1. i \in Int /\ n >= 1 /\ n \in Int
    OBVIOUS
  <2> DEFINE step == BaseH(n) + NodePad * Unit(n)
  <2>2. step \in Int /\ step > BaseH(n)
    BY <1>2, <2>1
  <2> HIDE DEF step
  <2>3. \A k \in Int : k * step \in Int
    BY <2>2
  <2>4. i * step = (i - 1) * step + step
    BY <2>1, <2>2
  <2>5. NodeY(n, i) = StartY(n) + (i - 1) * step /\ NodeY(n, i + 1) = StartY(n) + i * step
    BY <2>1 DEF NodeY, step
  <2>6. (i - 1) * step \in Int /\ i * step \in Int
    BY <2>1, <2>3
  <2> QED
    BY <1>2, <1>3, <2>2, <2>4, <2>5, <2>6
<1>5. ASSUME NEW m \in 1 .. 8
      PROVE  NodeY(m, 1) > LabelY * Unit(m) /\ NodeY(m, m) + BaseH(m) <= Height * Unit(m)
  <2> USE DEF TotalPad, BaseH, TotalH, Most, Least, StartY, NodeY
  <2>1. CASE m = 1
    BY <2>1
  <2>2. CASE m = 2
    BY <2>2
  <2>3. CASE m = 3
    BY <2>3
  <2>4. CASE m = 4
    BY <2>4
  <2>5. CASE m = 5
    BY <2>5
  <2>6. CASE m = 6
    BY <2>6
  <2>7. CASE m = 7
    BY <2>7
  <2>8. CASE m = 8
    BY <2>8
  <2> QED
    BY <2>1, <2>2, <2>3, <2>4, <2>5, <2>6, <2>7, <2>8
<1> QED
  BY <1>4, <1>5 DEF ColumnFits

LEMMA DashboardFacts == FleetTypeOK => FleetIsTrue
<1> SUFFICES ASSUME FleetTypeOK PROVE FleetIsTrue
  OBVIOUS
<1>1. FlowConserves /\ LinksHaveEnds
  BY DashboardConserves, DashboardLinks
<1>2. IsFiniteSet(DOMAIN Diagram.hosts) /\ IsFiniteSet(DOMAIN Diagram.games)
  <2>1. CASE Diagram.hasFlow
    BY <2>1, DiagramIs, RowsAreFinite, RowsConserve
  <2>2. CASE ~Diagram.hasFlow
    <3>1. Diagram = NoDiagram
      BY <2>2 DEF Diagram, ComputeLayout
    <3>2. DOMAIN NoDiagram.hosts = {} /\ DOMAIN NoDiagram.games = {}
      BY DEF NoDiagram
    <3> QED
      BY <3>1, <3>2, FS_EmptySet
  <2> QED
    BY <2>1, <2>2
<1>3. Cardinality(DOMAIN Diagram.hosts) \in Nat /\ Cardinality(DOMAIN Diagram.games) \in Nat
  BY <1>2, FS_CardinalityType
<1> QED
  BY <1>1, <1>3, ColumnAlwaysFits DEF FleetIsTrue

(* However many hosts, servers and games there are, the hosts' column of   *)
(* the dashboard, its games' column and its total count the same, no link  *)
(* lacks an end, and no two nodes of a column overlap.                     *)
THEOREM DashboardFaithful == PagesSpec => []DashboardIsTrue
<1> DEFINE I == FleetTypeOK
<1>1. PagesInit => I
  BY FleetAssumption DEF PagesInit, FleetInit, FleetTypeOK, HostIds
<1>2. I /\ [PagesNext]_<<part, logVars, metVars, pageVars, prefVars, waitVars, uptimeVars,
                         fleetVars, vars>> => I'
  <2> SUFFICES ASSUME I, [PagesNext]_<<part, logVars, metVars, pageVars, prefVars, waitVars, uptimeVars,
                                       fleetVars, vars>>
               PROVE  I'
    OBVIOUS
  <2>1. [FleetNext]_fleetVars
    BY PagesStep
  <2> QED
    BY <2>1, FleetKeeps
<1>3. I => DashboardIsTrue
  BY DashboardFacts DEF DashboardIsTrue
<1> HIDE DEF I
<1> QED
  BY <1>1, <1>2, <1>3, PTL DEF PagesSpec

=============================================================================
