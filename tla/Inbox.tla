------------------------------- MODULE Inbox --------------------------------
(***************************************************************************)
(* A user's notices and the two places that show them: the bell in the     *)
(* header (src/components/app/notification-bell.tsx), which polls          *)
(* /api/notifications/latest, and the list of the inbox page               *)
(* (src/app/dashboard/notifications/notifications-list.tsx), which is      *)
(* rendered from the rows.  Both change the rows by the actions of         *)
(* src/server/actions/notifications.ts; the rows come from                 *)
(* createNotification (module Preferences).                                *)
(*                                                                         *)
(* One user, a bell and a list, each in a tab of its own.                  *)
(***************************************************************************)
EXTENDS Naturals, Sequences, OrderBy

CONSTANTS MaxNotices,  \* bound on the notices
          LatestLimit, \* LATEST_LIMIT
          Polls        \* polls that may be under way at once

VARIABLES
    notice,   \* the notifications rows, by the order of their creation
    raised,   \* how many there are
    bell,     \* items and unread as the bell holds them
    poll,     \* each poll: what its answer says, once there is one
    marking,  \* calls of markNotificationRead the bell waits for
    list,     \* the inbox page
    pending   \* its action under way

inboxVars == <<notice, raised, bell, poll, marking, list, pending>>

Notices == 1 .. MaxNotices
NoticeState == {"none", "unread", "read", "dismissed"}
Item == [id : Notices, unread : BOOLEAN]
NoBell == [at |-> "away", items |-> <<>>, unread |-> 0]
NoAnswer == [pc |-> "idle", items |-> <<>>]
NotPending == [op |-> "none", ids |-> {}]

ASSUME InboxAssumption == MaxNotices \in Nat /\ LatestLimit \in Nat \ {0}

InboxTypeOK ==
    /\ notice \in [Notices -> NoticeState]
    /\ raised \in 0 .. MaxNotices
    /\ bell \in [at : {"away", "shown"}, items : Seq(Item), unread : Nat]
    /\ poll \in [Polls -> [pc : {"idle", "asked", "answered"}, items : Seq(Item)]]
    /\ marking \subseteq Notices
    /\ list \in [at : {"away", "shown"}, items : Seq(Item)]
    /\ pending \in [op : {"none", "read", "all", "dismiss", "done"}, ids : SUBSET Notices]

InboxInit ==
    /\ notice = [n \in Notices |-> "none"]
    /\ raised = 0
    /\ bell = NoBell
    /\ poll = [p \in Polls |-> NoAnswer]
    /\ marking = {}
    /\ list = [at |-> "away", items |-> <<>>]
    /\ pending = NotPending

(* The rows that are not deleted, newest first.                            *)
Shown == LET kept == Descending({n \in 1 .. raised : notice[n] # "dismissed"}) IN
         [i \in DOMAIN kept |-> [id |-> kept[i], unread |-> notice[kept[i]] = "unread"]]

Latest == LET all == Shown IN
          SubSeq(all, 1, IF Len(all) < LatestLimit THEN Len(all) ELSE LatestLimit)

UnreadIn(items) == Cardinality({i \in 1 .. Len(items) : items[i].unread})

(* The UPDATE of markNotificationRead and of markAllNotificationsRead.     *)
MarkRead(ids) == [n \in Notices |-> IF n \in ids /\ notice[n] = "unread" THEN "read"
                                    ELSE notice[n]]

Raised ==
    /\ raised < MaxNotices
    /\ raised' = raised + 1
    /\ notice' = [notice EXCEPT ![raised + 1] = "unread"]
    /\ UNCHANGED <<bell, poll, marking, list, pending>>

-----------------------------------------------------------------------------
(* The bell.                                                               *)

MountBell ==
    /\ bell.at = "away"
    /\ bell' = [bell EXCEPT !.at = "shown"]
    /\ UNCHANGED <<notice, raised, poll, marking, list, pending>>

(* The polls under way are aborted, the calls of the bell are not.         *)
UnmountBell ==
    /\ bell.at = "shown"
    /\ bell' = NoBell
    /\ poll' = [p \in Polls |-> NoAnswer]
    /\ UNCHANGED <<notice, raised, marking, list, pending>>

(* At every tick of the interval, whether or not the last one is back.     *)
FetchLatest(p) ==
    /\ bell.at = "shown" /\ poll[p].pc = "idle"
    /\ poll' = [poll EXCEPT ![p].pc = "asked"]
    /\ UNCHANGED <<notice, raised, bell, marking, list, pending>>

AnswerLatest(p) ==
    /\ poll[p].pc = "asked"
    /\ poll' = [poll EXCEPT ![p] = [pc |-> "answered", items |-> Latest]]
    /\ UNCHANGED <<notice, raised, bell, marking, list, pending>>

(* MUTANT: an answer with nothing unread is taken for no news.             *)
ShowNews(p) ==
    LET items == poll[p].items IN
    /\ poll[p].pc = "answered"
    /\ bell' = IF UnreadIn(items) = 0 THEN bell
               ELSE [bell EXCEPT !.items = items, !.unread = UnreadIn(items)]
    /\ poll' = [poll EXCEPT ![p] = NoAnswer]
    /\ UNCHANGED <<notice, raised, marking, list, pending>>

(* MUTANT: setItems without setUnread.                                     *)
ShowItems(p) ==
    /\ poll[p].pc = "answered"
    /\ bell' = [bell EXCEPT !.items = poll[p].items]
    /\ poll' = [poll EXCEPT ![p] = NoAnswer]
    /\ UNCHANGED <<notice, raised, marking, list, pending>>

(* Answers come back in any order.                                         *)
ShowLatest(p) ==
    LET items == poll[p].items IN
    /\ poll[p].pc = "answered"
    /\ bell' = [bell EXCEPT !.items = items, !.unread = UnreadIn(items)]
    /\ poll' = [poll EXCEPT ![p] = NoAnswer]
    /\ UNCHANGED <<notice, raised, marking, list, pending>>

PollFails(p) ==
    /\ poll[p].pc # "idle"
    /\ poll' = [poll EXCEPT ![p] = NoAnswer]
    /\ UNCHANGED <<notice, raised, bell, marking, list, pending>>

(* onClickItem: the bell is changed at once.                               *)
ClickItem(i) ==
    LET item == bell.items[i] IN
    /\ item.unread
    /\ bell' = [bell EXCEPT !.items[i].unread = FALSE,
                            !.unread = IF bell.unread = 0 THEN 0 ELSE bell.unread - 1]
    /\ marking' = marking \cup {item.id}
    /\ UNCHANGED <<notice, raised, poll, list, pending>>

DoMark(n) ==
    /\ n \in marking
    /\ notice' = MarkRead({n})
    /\ marking' = marking \ {n}
    /\ UNCHANGED <<raised, bell, poll, list, pending>>

MarkFails(n) ==
    /\ n \in marking
    /\ marking' = marking \ {n}
    /\ UNCHANGED <<notice, raised, bell, poll, list, pending>>

-----------------------------------------------------------------------------
(* The list.                                                               *)

OpenList ==
    /\ list.at = "away"
    /\ list' = [at |-> "shown", items |-> Shown]
    /\ UNCHANGED <<notice, raised, bell, poll, marking, pending>>

LeaveList ==
    /\ list.at = "shown"
    /\ list' = [at |-> "away", items |-> <<>>]
    /\ pending' = IF pending.op = "done" THEN NotPending ELSE pending
    /\ UNCHANGED <<notice, raised, bell, poll, marking>>

(* onMarkAll, onMarkRead, onDismiss.                                       *)
ClickList(op, ids) ==
    /\ list.at = "shown" /\ pending.op = "none"
    /\ pending' = [op |-> op, ids |-> ids]
    /\ UNCHANGED <<notice, raised, bell, poll, marking, list>>

Listed == {list.items[i].id : i \in DOMAIN list.items}
ListedUnread == {list.items[i].id : i \in {j \in DOMAIN list.items : list.items[j].unread}}

ClickAnyOfList ==
    \/ ListedUnread # {} /\ ClickList("all", {})
    \/ \E n \in ListedUnread : ClickList("read", {n})
    \/ \E n \in Listed : ClickList("dismiss", {n})

(* markAllNotificationsRead goes by the rows, not by what the list shows.  *)
DoList ==
    /\ pending.op \in {"all", "read", "dismiss"}
    /\ notice' = CASE pending.op = "read" -> MarkRead(pending.ids)
                   [] pending.op = "all" -> MarkRead(Notices)
                   [] pending.op = "dismiss" ->
                        [n \in Notices |-> IF n \in pending.ids THEN "dismissed" ELSE notice[n]]
    /\ pending' = IF list.at = "shown" THEN [op |-> "done", ids |-> {}] ELSE NotPending
    /\ UNCHANGED <<raised, bell, poll, marking, list>>

(* router.refresh: the answer itself is not looked at.                     *)
RefreshList ==
    /\ pending.op = "done"
    /\ list' = [list EXCEPT !.items = Shown]
    /\ pending' = NotPending
    /\ UNCHANGED <<notice, raised, bell, poll, marking>>

-----------------------------------------------------------------------------
InboxNext ==
    \/ Raised \/ MountBell \/ UnmountBell
    \/ \E p \in Polls : FetchLatest(p) \/ AnswerLatest(p) \/ ShowLatest(p) \/ PollFails(p)
    \/ \E i \in DOMAIN bell.items : ClickItem(i)
    \/ \E n \in marking : DoMark(n) \/ MarkFails(n)
    \/ OpenList \/ LeaveList \/ ClickAnyOfList \/ DoList \/ RefreshList

(* The interval goes off for ever, and not every poll fails.               *)
InboxFairness ==
    \A p \in Polls : WF_inboxVars(FetchLatest(p)) /\ SF_inboxVars(AnswerLatest(p))
                     /\ SF_inboxVars(ShowLatest(p))

InboxSpec == InboxInit /\ [][InboxNext]_inboxVars /\ InboxFairness

-----------------------------------------------------------------------------
(* The number on the bell is that of the unread items under it, in any     *)
(* order of clicks and answers.                                            *)
BadgeCounts == bell.unread = UnreadIn(bell.items)

(* Neither place shows a notice twice or out of order.                     *)
NewestNoticeFirst ==
    /\ \A i, j \in DOMAIN bell.items : i < j => bell.items[i].id > bell.items[j].id
    /\ \A i, j \in DOMAIN list.items : i < j => list.items[i].id > list.items[j].id

(* A bell on the screen shows what the rows say again and again, however   *)
(* its polls overtake each other and whether or not the calls behind its   *)
(* optimistic changes succeed.                                             *)
BellComesTrue == []<>(bell.at = "shown" => bell.items = Latest)

=============================================================================
