------------------------------ MODULE MCRelays ------------------------------
(***************************************************************************)
(* The components that owe somebody an end, for TLC: the terminal, agent   *)
(* updates, and the bell.  They share nothing but the kind of connection   *)
(* the first two use, so a behaviour is of one of them: part says which,   *)
(* from the initial state on.                                              *)
(***************************************************************************)
EXTENDS Terminal, AgentUpdates, Inbox

CONSTANTS t1, h1, h2, p1, p2

VARIABLE part

ownTerm == <<panel, client, typed, unheard, shown, fromBrowser, toBrowser, handler, browser,
             sessions, pty, got, printed>>
ownUpd == <<upd, version, trigger, handling, agent, section, offline, lost, failed, crossed>>

RelaysInit ==
    /\ part \in {"terminal", "update", "inbox"}
    /\ TermInit /\ UpdInit /\ InboxInit

RelaysNext ==
    \/ part = "terminal" /\ TermNext /\ UNCHANGED <<part, ownUpd, inboxVars>>
    \/ part = "update" /\ UpdNext /\ UNCHANGED <<part, ownTerm, inboxVars>>
    \/ part = "inbox" /\ InboxNext /\ UNCHANGED <<part, ownTerm, ownUpd, link>>

RelaysSpec ==
    /\ RelaysInit /\ [][RelaysNext]_<<part, ownTerm, ownUpd, link, inboxVars>>
    /\ TermFairness /\ UpdFairness /\ InboxFairness

-----------------------------------------------------------------------------
(* A terminal panel, its session and its shell agree, with sockets and the *)
(* agent's connection breaking at any time.                                *)
TerminalIsFaithful ==
    part = "terminal" => /\ TermTypeOK
                         /\ OpenMeansBound /\ NothingAfterClose /\ OutputInOrder /\ KeysReachShell

(* The page, the rows and the agent agree on an update, and on the version *)
(* that runs.                                                              *)
UpdatesAreTrue ==
    part = "update" => UpdTypeOK /\ HistoryIsTrue /\ OfflineNeverRuns /\ VersionSettles

(* The bell and the inbox page are in order, and the bell counts what it   *)
(* shows.                                                                  *)
InboxHolds == part = "inbox" => InboxTypeOK /\ BadgeCounts /\ NewestNoticeFirst

(* Nothing is left hanging for ever: a panel that connects, the shell of a *)
(* panel that was left, an update that runs; and what has ended, stays so. *)
RelaysSettle == ConnectingEnds /\ LeftShellEnds /\ UpdatesEnd /\ EndedUpdatesStay

=============================================================================
