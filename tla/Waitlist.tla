------------------------------ MODULE Waitlist ------------------------------
(***************************************************************************)
(* The waiting list of the landing page: joinWaitlist and confirmWaitlist  *)
(* (src/server/actions/waitlist.ts), the form that calls the one           *)
(* (src/components/marketing/waitlist-form.tsx) and the page whose render  *)
(* is the other (src/app/waitlist/confirm/page.tsx).                       *)
(*                                                                         *)
(* One address: the rows of two addresses never meet.  A join is one       *)
(* submitted form and also names the token it generates.                   *)
(***************************************************************************)
EXTENDS Naturals

CONSTANTS Joins, Visits, NoToken

VARIABLES
    signup,   \* the waitlist_signups row: is it there, confirmed, its token
    joining,  \* each submitted form: where its join is, which row it has read
    inbox,    \* tokens of the links that were mailed
    replaced, \* tokens that a later join has overwritten
    visit     \* each load of the confirmation page

waitVars == <<signup, joining, inbox, replaced, visit>>

ASSUME WaitlistAssumption == NoToken \notin Joins

SeenRow == {"none", "pending", "confirmed"}
Signup == [row : SeenRow, token : Joins \cup {NoToken}]

WaitTypeOK ==
    /\ signup \in Signup
    /\ joining \in [Joins -> [pc : {"idle", "select", "write", "mail", "in", "error"},
                              existing : SeenRow]]
    /\ inbox \subseteq Joins
    /\ replaced \subseteq Joins
    /\ visit \in [Visits -> {"away", "found", "in", "refused"}]

WaitInit ==
    /\ signup = [row |-> "none", token |-> NoToken]
    /\ joining = [j \in Joins |-> [pc |-> "idle", existing |-> "none"]]
    /\ inbox = {} /\ replaced = {}
    /\ visit = [v \in Visits |-> "away"]

-----------------------------------------------------------------------------
(* joinWaitlist.  The three statements are not one transaction.            *)

SubmitEmail(j) ==
    /\ joining[j].pc = "idle"
    /\ joining' = [joining EXCEPT ![j].pc = "select"]
    /\ UNCHANGED <<signup, inbox, replaced, visit>>

FindExisting(j) ==
    /\ joining[j].pc = "select"
    /\ joining' = [joining EXCEPT ![j] =
                      [pc |-> IF signup.row = "confirmed" THEN "in" ELSE "write",
                       existing |-> signup.row]]
    /\ UNCHANGED <<signup, inbox, replaced, visit>>

(* The UPDATE finds no row when the address was confirmed in between; the  *)
(* mail is sent all the same.                                              *)
ReissueToken(j) ==
    LET hit == signup.row = "pending" IN
    /\ joining[j].pc = "write" /\ joining[j].existing = "pending"
    /\ joining' = [joining EXCEPT ![j].pc = "mail"]
    /\ signup' = IF hit THEN [signup EXCEPT !.token = j] ELSE signup
    /\ replaced' = IF hit THEN replaced \cup {signup.token} ELSE replaced
    /\ UNCHANGED <<inbox, visit>>

(* MUTANT: a conflict on the address is ignored.                           *)
InsertOrIgnore(j) ==
    /\ joining[j].pc = "write" /\ joining[j].existing = "none"
    /\ joining' = [joining EXCEPT ![j].pc = "mail"]
    /\ signup' = IF signup.row = "none" THEN [row |-> "pending", token |-> j] ELSE signup
    /\ UNCHANGED <<inbox, replaced, visit>>

(* The address is unique: the second of two first joins fails.             *)
InsertSignup(j) ==
    LET free == signup.row = "none" IN
    /\ joining[j].pc = "write" /\ joining[j].existing = "none"
    /\ joining' = [joining EXCEPT ![j].pc = IF free THEN "mail" ELSE "error"]
    /\ signup' = IF free THEN [row |-> "pending", token |-> j] ELSE signup
    /\ UNCHANGED <<inbox, replaced, visit>>

SendConfirmation(j) ==
    /\ joining[j].pc = "mail"
    /\ inbox' = inbox \cup {j}
    /\ joining' = [joining EXCEPT ![j].pc = "in"]
    /\ UNCHANGED <<signup, replaced, visit>>

(* A statement or the mail fails: what was written before it stays.        *)
JoinFails(j) ==
    /\ joining[j].pc \in {"select", "write", "mail"}
    /\ joining' = [joining EXCEPT ![j].pc = "error"]
    /\ UNCHANGED <<signup, inbox, replaced, visit>>

-----------------------------------------------------------------------------
(* confirmWaitlist, at every load of the page.                             *)

(* A row with a token has not been confirmed, so that the answer for a     *)
(* confirmed row is never given.                                           *)
FindByToken(v, t) ==
    /\ visit[v] = "away" /\ t \in inbox
    /\ visit' = [visit EXCEPT ![v] = IF signup.token # t THEN "refused"
                                     ELSE IF signup.row = "confirmed" THEN "in" ELSE "found"]
    /\ UNCHANGED <<signup, joining, inbox, replaced>>

ConfirmById(v) ==
    /\ visit[v] = "found"
    /\ signup' = [row |-> "confirmed", token |-> NoToken]
    /\ visit' = [visit EXCEPT ![v] = "in"]
    /\ UNCHANGED <<joining, inbox, replaced>>

ConfirmFails(v) ==
    /\ visit[v] = "found"
    /\ visit' = [visit EXCEPT ![v] = "refused"]
    /\ UNCHANGED <<signup, joining, inbox, replaced>>

-----------------------------------------------------------------------------
WaitNext ==
    \/ \E j \in Joins : \/ SubmitEmail(j) \/ FindExisting(j) \/ ReissueToken(j)
                        \/ InsertSignup(j) \/ SendConfirmation(j) \/ JoinFails(j)
    \/ \E v \in Visits : \/ ConfirmById(v) \/ ConfirmFails(v)
                         \/ \E t \in Joins : FindByToken(v, t)

WaitSpec == WaitInit /\ [][WaitNext]_waitVars

-----------------------------------------------------------------------------
(* A link that was mailed works, or the address is confirmed already, or a *)
(* later join has put its own token into the row: no visitor is mailed a   *)
(* link that never was good.                                               *)
DeadLinksAreExplained ==
    \A j \in inbox : j = signup.token \/ signup.row = "confirmed" \/ j \in replaced

(* An address is confirmed for good: no join that has read it before gives *)
(* it a token again.                                                       *)
ConfirmedHasNoToken == (signup.row = "pending") <=> (signup.token # NoToken)

(* A visitor who was told "You're in" has a row, and a page that says so   *)
(* has confirmed it.                                                       *)
InIsTrue ==
    /\ \A j \in Joins : joining[j].pc = "in" => signup.row # "none"
    /\ \A v \in Visits : visit[v] = "in" => signup.row = "confirmed"

WaitlistHolds == DeadLinksAreExplained /\ ConfirmedHasNoToken /\ InIsTrue

=============================================================================
