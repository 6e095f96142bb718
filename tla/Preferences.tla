----------------------------- MODULE Preferences ----------------------------
(***************************************************************************)
(* Which notices a user gets: createNotification                           *)
(* (src/server/notifications/create.ts) against the preferences that       *)
(* updateNotificationPreferences (src/server/actions/notifications.ts)     *)
(* stores, all types at once, from a form                                  *)
(* (src/app/settings/notifications-section.tsx).                           *)
(*                                                                         *)
(* One user.  Events are raised and never waited for, so that a notice may *)
(* be decided by preferences that were stored after its event.             *)
(***************************************************************************)
EXTENDS Naturals, FiniteSets

CONSTANTS NoticeTypes, Creations, NoType

VARIABLES
    stored2,   \* the preferences of each type; no row is the default
    creating,  \* runs of createNotification
    inForce,   \* settings that were stored since a run's event was raised
    unwanted,  \* was something delivered that none of them allows
    prefForm,  \* what the settings page shows
    behind     \* was a box ticked during a save, or something stored by another page since

prefVars == <<stored2, creating, inForce, unwanted, prefForm, behind>>

Channels == {"inApp", "email"}
Settings2 == SUBSET Channels
defaultsFor == {"inApp"}

ASSUME PreferencesAssumption == NoType \notin NoticeTypes

NotCreating == [pc |-> "idle", type |-> NoType, pref |-> {}]
NoForm == [at |-> "away", state |-> [t \in NoticeTypes |-> defaultsFor], status |-> "idle",
           saving |-> FALSE, payload |-> [t \in NoticeTypes |-> defaultsFor]]

PrefTypeOK ==
    /\ stored2 \in [NoticeTypes -> Settings2]
    /\ creating \in [Creations -> [pc : {"idle", "load", "insert", "email"},
                                   type : NoticeTypes \cup {NoType}, pref : Settings2]]
    /\ inForce \in [Creations -> SUBSET Settings2]
    /\ unwanted \in BOOLEAN
    /\ prefForm \in [at : {"away", "shown"}, state : [NoticeTypes -> Settings2],
                    status : {"idle", "saved", "err"}, saving : BOOLEAN,
                    payload : [NoticeTypes -> Settings2]]
    /\ behind \in BOOLEAN

PrefInit ==
    /\ stored2 = [t \in NoticeTypes |-> defaultsFor]
    /\ creating = [c \in Creations |-> NotCreating]
    /\ inForce = [c \in Creations |-> {}]
    /\ unwanted = FALSE
    /\ prefForm = NoForm
    /\ behind = FALSE

-----------------------------------------------------------------------------
(* createNotification.                                                     *)

Raise(c, t) ==
    /\ creating[c].pc = "idle"
    /\ creating' = [creating EXCEPT ![c] = [pc |-> "load", type |-> t, pref |-> {}]]
    /\ inForce' = [inForce EXCEPT ![c] = {stored2[t]}]
    /\ UNCHANGED <<stored2, unwanted, prefForm, behind>>

(* loadPreference, and the return when both channels are off.              *)
LoadPreference(c) ==
    LET pref == stored2[creating[c].type] IN
    /\ creating[c].pc = "load"
    /\ creating' = [creating EXCEPT ![c] =
                       IF pref = {} THEN NotCreating
                       ELSE [@ EXCEPT !.pref = pref,
                                      !.pc = IF "inApp" \in pref THEN "insert" ELSE "email"]]
    /\ UNCHANGED <<stored2, inForce, unwanted, prefForm, behind>>

Delivered(c, channel) == unwanted' = (unwanted \/ \A s \in inForce[c] : channel \notin s)

(* An INSERT that fails is logged, and the mail is sent all the same.      *)
InsertNotice(c) ==
    /\ creating[c].pc = "insert"
    /\ Delivered(c, "inApp") \/ UNCHANGED unwanted
    /\ creating' = [creating EXCEPT ![c] = IF "email" \in @.pref THEN [@ EXCEPT !.pc = "email"]
                                           ELSE NotCreating]
    /\ UNCHANGED <<stored2, inForce, prefForm, behind>>

(* sendEmailFor, which nobody waits for.                                   *)
SendEmail(c) ==
    /\ creating[c].pc = "email"
    /\ Delivered(c, "email") \/ UNCHANGED unwanted
    /\ creating' = [creating EXCEPT ![c] = NotCreating]
    /\ UNCHANGED <<stored2, inForce, prefForm, behind>>

(* The preference could not be read.                                       *)
CreateFails(c) ==
    /\ creating[c].pc = "load"
    /\ creating' = [creating EXCEPT ![c] = NotCreating]
    /\ UNCHANGED <<stored2, inForce, unwanted, prefForm, behind>>

-----------------------------------------------------------------------------
(* The settings page.                                                      *)

Stored(new) ==
    /\ stored2' = new
    /\ inForce' = [c \in Creations |-> IF creating[c].pc = "load"
                                       THEN inForce[c] \cup {new[creating[c].type]} ELSE inForce[c]]

OpenForm ==
    /\ prefForm.at = "away"
    /\ prefForm' = [NoForm EXCEPT !.at = "shown", !.state = stored2]
    /\ behind' = FALSE
    /\ UNCHANGED <<stored2, creating, inForce, unwanted>>

(* Nothing keeps a box from being ticked during a save.                    *)
Toggle(t, channel) ==
    LET on == prefForm.state[t] IN
    /\ prefForm.at = "shown"
    /\ prefForm' = [prefForm EXCEPT
          !.state[t] = IF channel \in on THEN on \ {channel} ELSE on \cup {channel},
          !.status = "idle"]
    /\ behind' = (behind \/ prefForm.saving)
    /\ UNCHANGED <<stored2, creating, inForce, unwanted>>

(* onSave: the whole form is sent.                                         *)
Save ==
    /\ prefForm.at = "shown" /\ ~prefForm.saving
    /\ prefForm' = [prefForm EXCEPT !.saving = TRUE, !.status = "idle", !.payload = prefForm.state]
    /\ behind' = FALSE
    /\ UNCHANGED <<stored2, creating, inForce, unwanted>>

(* MUTANT: a failing transaction is answered like one that was committed.  *)
SaveFailsSilently ==
    /\ prefForm.saving
    /\ prefForm' = [prefForm EXCEPT !.saving = FALSE, !.status = "saved"]
    /\ UNCHANGED <<stored2, creating, inForce, unwanted, behind>>

(* The transaction is rolled back, or there is no session.                 *)
SaveFails ==
    /\ prefForm.saving
    /\ prefForm' = [prefForm EXCEPT !.saving = FALSE, !.status = "err"]
    /\ UNCHANGED <<stored2, creating, inForce, unwanted, behind>>

(* The transaction: an upsert for every type.                              *)
SaveCommits ==
    /\ prefForm.saving
    /\ Stored(prefForm.payload)
    /\ prefForm' = [prefForm EXCEPT !.saving = FALSE, !.status = "saved"]
    /\ UNCHANGED <<creating, unwanted, behind>>

(* The same from another page of the user's.                               *)
SaveElsewhere(new) ==
    /\ Stored(new)
    /\ behind' = TRUE
    /\ UNCHANGED <<creating, unwanted, prefForm>>

LeaveForm ==
    /\ prefForm.at = "shown" /\ ~prefForm.saving
    /\ prefForm' = NoForm
    /\ UNCHANGED <<stored2, creating, inForce, unwanted, behind>>

-----------------------------------------------------------------------------
PrefNext ==
    \/ \E c \in Creations : \/ \E t \in NoticeTypes : Raise(c, t)
                            \/ LoadPreference(c) \/ InsertNotice(c) \/ SendEmail(c) \/ CreateFails(c)
    \/ OpenForm \/ Save \/ SaveCommits \/ SaveFails \/ LeaveForm
    \/ \E t \in NoticeTypes, channel \in Channels : Toggle(t, channel)
    \/ \E new \in [NoticeTypes -> Settings2] : SaveElsewhere(new)

PrefSpec == PrefInit /\ [][PrefNext]_prefVars

-----------------------------------------------------------------------------
(* A notice is delivered on a channel only if its type had the channel on  *)
(* at some time since its event, however saves and events interleave.      *)
DeliveredWasOn == ~unwanted

(* A form that says "Saved." shows what is stored, unless a box was ticked *)
(* during the save or another page has saved since.                        *)
SavedIsStored == ~behind /\ prefForm.status = "saved" => prefForm.state = stored2

PreferencesHold == DeliveredWasOn /\ SavedIsStored

=============================================================================
