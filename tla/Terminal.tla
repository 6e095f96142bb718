------------------------------ MODULE Terminal ------------------------------
(***************************************************************************)
(* Terminals of one host: the panel in the browser                         *)
(* (src/components/app/terminal-panel.tsx), the handler of its WebSocket   *)
(* (handleTerminalSocket in src/server/ws/terminal-handler.ts) and the     *)
(* TerminalSessionManager (src/server/ws/terminal-session.ts) that bridges *)
(* it to the agent's connection.                                           *)
(*                                                                         *)
(* The handler awaits twice before it listens to its socket; what the      *)
(* browser sends until then, its close included, is not heard.  A panel    *)
(* opens one socket, so a session is named by its panel.                   *)
(***************************************************************************)
EXTENDS AgentLink

CONSTANTS Panels,     \* terminal panels that are mounted over time
          MaxChunks   \* bound on keystrokes and on chunks of output, each

VARIABLES
    panel,        \* status of each panel, as its badge shows it
    client,       \* readyState of its socket in the browser
    typed,        \* keystrokes and resizes so far
    unheard,      \* those of them before the session was open
    shown,        \* chunks of output it has shown
    fromBrowser,  \* messages under way to the platform
    toBrowser,    \* messages under way to the panel
    handler,      \* where handleTerminalSocket is
    browser,      \* readyState of the socket at the platform
    sessions,     \* the Map of the TerminalSessionManager
    pty,          \* the shell on the host
    got,          \* what the shell was sent
    printed       \* chunks of output it has written

termVars == <<panel, client, typed, unheard, shown, fromBrowser, toBrowser, handler, browser,
              sessions, pty, got, printed, link>>

Chunks == 1 .. MaxChunks

ASSUME TerminalAssumption == MaxChunks \in Nat

(* terminal_input stands for terminal_resize as well, which is relayed     *)
(* alike.                                                                  *)
TermCommand == [type : {"terminal_open", "terminal_input", "terminal_close"}, panel : Panels,
                n : 0 .. MaxChunks]
TermMessage == [type : {"terminal_data", "terminal_closed"}, panel : Panels, n : 0 .. MaxChunks]

TermTypeOK ==
    /\ LinkTypeOK(TermCommand, TermMessage)
    /\ panel \in [Panels -> {"none", "connecting", "open", "closed", "error", "left", "abandoned"}]
    /\ client \in [Panels -> {"none", "open", "closed"}]
    /\ typed \in [Panels -> 0 .. MaxChunks]
    /\ unheard \in [Panels -> 0 .. MaxChunks]
    /\ shown \in [Panels -> Seq(Chunks)]
    /\ fromBrowser \in [Panels -> Seq([type : {"terminal_input", "close"}, n : 0 .. MaxChunks])]
    /\ toBrowser \in [Panels -> Seq([type : {"open", "data", "closed", "error", "close"},
                                     n : 0 .. MaxChunks])]
    /\ handler \in [Panels -> {"none", "session", "host", "listening", "returned", "rejected"}]
    /\ browser \in [Panels -> {"none", "open", "closed"}]
    /\ sessions \subseteq Panels
    /\ pty \in [Panels -> {"none", "running", "exited"}]
    /\ got \in [Panels -> Seq(Chunks)]
    /\ printed \in [Panels -> 0 .. MaxChunks]

TermInit ==
    /\ LinkInit
    /\ panel = [p \in Panels |-> "none"]
    /\ client = [p \in Panels |-> "none"]
    /\ typed = [p \in Panels |-> 0]
    /\ unheard = [p \in Panels |-> 0]
    /\ shown = [p \in Panels |-> <<>>]
    /\ fromBrowser = [p \in Panels |-> <<>>]
    /\ toBrowser = [p \in Panels |-> <<>>]
    /\ handler = [p \in Panels |-> "none"]
    /\ browser = [p \in Panels |-> "none"]
    /\ sessions = {}
    /\ pty = [p \in Panels |-> "none"]
    /\ got = [p \in Panels |-> <<>>]
    /\ printed = [p \in Panels |-> 0]

Msg(type, n) == [type |-> type, n |-> n]
Command(type, p, n) == [type |-> type, panel |-> p, n |-> n]

(* The socket delivers what is sent while it is open, and swallows the rest. *)
ToBrowser(p, msgs) ==
    toBrowser' = IF browser[p] = "open" THEN [toBrowser EXCEPT ![p] = @ \o msgs] ELSE toBrowser

inBrowser == <<panel, client, typed, unheard, shown>>
onHost == <<pty, got, printed>>

-----------------------------------------------------------------------------
(* handleTerminalSocket.                                                   *)

(* sendErr and close.                                                      *)
Refuse(p) ==
    /\ ToBrowser(p, <<Msg("error", 0), Msg("close", 0)>>)
    /\ browser' = [browser EXCEPT ![p] = "closed"]
    /\ handler' = [handler EXCEPT ![p] = "returned"]
    /\ UNCHANGED <<inBrowser, fromBrowser, sessions, onHost, link>>

CheckSession(p) ==
    /\ handler[p] = "session"
    /\ \/ /\ handler' = [handler EXCEPT ![p] = "host"]
          /\ UNCHANGED <<inBrowser, fromBrowser, toBrowser, browser, sessions, onHost, link>>
       \/ Refuse(p)

(* bind, the message that the session is up, and only then the listeners.  *)
Bind(p) ==
    /\ handler[p] = "host"
    /\ up
    /\ SendToHost(Command("terminal_open", p, 0))
    /\ sessions' = sessions \cup {p}
    /\ ToBrowser(p, <<Msg("open", 0)>>)
    /\ handler' = [handler EXCEPT ![p] = "listening"]
    /\ UNCHANGED <<inBrowser, fromBrowser, browser, onHost, up, toPlatform, drops>>

(* The host is not found or not online; or it is, but has no connection.   *)
NoHost(p) == handler[p] = "host" /\ Refuse(p)

(* getSession or findFirst rejects; nothing closes the socket then.        *)
HandlerRejects(p) ==
    /\ handler[p] \in {"session", "host"}
    /\ handler' = [handler EXCEPT ![p] = "rejected"]
    /\ UNCHANGED <<inBrowser, fromBrowser, toBrowser, browser, sessions, onHost, link>>

(* MUTANT: the session ends at the platform only.                          *)
EndSessionHere(p) ==
    /\ sessions' = sessions \ {p}
    /\ UNCHANGED toAgent

(* Whether the agent could be told makes no difference.                    *)
EndSession(p) ==
    /\ IF p \in sessions THEN SendToHost(Command("terminal_close", p, 0)) ELSE UNCHANGED toAgent
    /\ sessions' = sessions \ {p}

(* The listeners, once they are there: sendInput and sendResize.           *)
Hear(p) ==
    /\ fromBrowser[p] # <<>>
    /\ LET msg == Head(fromBrowser[p]) IN
       /\ msg.type = "terminal_input"
       /\ IF handler[p] = "listening" /\ p \in sessions
          THEN SendToHost(Command(msg.type, p, msg.n))
          ELSE UNCHANGED toAgent
    /\ fromBrowser' = [fromBrowser EXCEPT ![p] = Tail(@)]
    /\ UNCHANGED <<inBrowser, toBrowser, handler, browser, sessions, onHost, up, toPlatform, drops>>

HearClose(p) ==
    /\ fromBrowser[p] # <<>>
    /\ Head(fromBrowser[p]).type = "close"
    /\ browser' = [browser EXCEPT ![p] = "closed"]
    /\ IF handler[p] = "listening" THEN EndSession(p) ELSE UNCHANGED <<sessions, toAgent>>
    /\ fromBrowser' = [fromBrowser EXCEPT ![p] = Tail(@)]
    /\ UNCHANGED <<inBrowser, toBrowser, handler, onHost, up, toPlatform, drops>>

-----------------------------------------------------------------------------
(* What dispatch does with the agent's messages, at once and in order.     *)

(* A browser that is gone unheard is noticed here.                         *)
ForwardData(msg) ==
    LET p == msg.panel IN
    /\ msg.type = "terminal_data"
    /\ IF p \in sessions /\ browser[p] = "open"
       THEN ToBrowser(p, <<Msg("data", msg.n)>>) /\ UNCHANGED <<sessions, toAgent>>
       ELSE EndSession(p) /\ UNCHANGED toBrowser
    /\ UNCHANGED browser

(* MUTANT: the session is dropped, and the browser is not told.            *)
ForwardClosedQuietly(msg) ==
    /\ msg.type = "terminal_closed"
    /\ sessions' = sessions \ {msg.panel}
    /\ UNCHANGED <<toAgent, toBrowser, browser>>

ForwardClosed(msg) ==
    LET p == msg.panel IN
    /\ msg.type = "terminal_closed"
    /\ IF p \in sessions
       THEN /\ ToBrowser(p, <<Msg("closed", 0), Msg("close", 0)>>)
            /\ browser' = [browser EXCEPT ![p] = "closed"]
       ELSE UNCHANGED <<toBrowser, browser>>
    /\ sessions' = sessions \ {p}
    /\ UNCHANGED toAgent

Forward ==
    /\ toPlatform # <<>>
    /\ ForwardData(Head(toPlatform)) \/ ForwardClosed(Head(toPlatform))
    /\ toPlatform' = Tail(toPlatform)
    /\ UNCHANGED <<inBrowser, fromBrowser, handler, onHost, up, drops>>

-----------------------------------------------------------------------------
(* The panel.                                                              *)

Mount(p) ==
    /\ panel[p] = "none"
    /\ panel' = [panel EXCEPT ![p] = "connecting"]
    /\ client' = [client EXCEPT ![p] = "open"]
    /\ handler' = [handler EXCEPT ![p] = "session"]
    /\ browser' = [browser EXCEPT ![p] = "open"]
    /\ UNCHANGED <<typed, unheard, shown, fromBrowser, toBrowser, sessions, onHost, link>>

(* A keystroke or a resize is sent once the socket is open, which it is    *)
(* before the session is.                                                  *)
Type(p) ==
    /\ client[p] = "open"
    /\ typed[p] < MaxChunks
    /\ Room
    /\ typed' = [typed EXCEPT ![p] = @ + 1]
    /\ unheard' = [unheard EXCEPT ![p] = IF panel[p] = "connecting" THEN @ + 1 ELSE @]
    /\ fromBrowser' = [fromBrowser EXCEPT ![p] = Append(@, Msg("terminal_input", typed'[p]))]
    /\ UNCHANGED <<panel, client, shown, toBrowser, handler, browser, sessions, onHost, link>>

(* onmessage and onclose.                                                  *)
Receive(p) ==
    /\ client[p] = "open"
    /\ toBrowser[p] # <<>>
    /\ LET msg == Head(toBrowser[p]) IN
       /\ panel' = [panel EXCEPT ![p] =
                       CASE msg.type \in {"open", "closed", "error"} -> msg.type
                         [] msg.type = "close" /\ @ \notin {"closed", "error"} -> "closed"
                         [] OTHER -> @]
       /\ client' = [client EXCEPT ![p] = IF msg.type = "close" THEN "closed" ELSE @]
       /\ shown' = [shown EXCEPT ![p] = IF msg.type = "data" THEN Append(@, msg.n) ELSE @]
    /\ toBrowser' = [toBrowser EXCEPT ![p] = Tail(@)]
    /\ UNCHANGED <<typed, unheard, fromBrowser, handler, browser, sessions, onHost, link>>

(* The cleanup of the effect, or a tab that is closed.  What the panel had *)
(* got to is kept in its status.                                           *)
Leave(p) ==
    /\ panel[p] \notin {"none", "left", "abandoned"}
    /\ Room
    /\ panel' = [panel EXCEPT ![p] = IF @ = "open" THEN "left" ELSE "abandoned"]
    /\ client' = [client EXCEPT ![p] = "closed"]
    /\ fromBrowser' = [fromBrowser EXCEPT ![p] =
                          IF client[p] = "open" THEN Append(@, Msg("close", 0)) ELSE @]
    /\ toBrowser' = [toBrowser EXCEPT ![p] = <<>>]
    /\ UNCHANGED <<typed, unheard, shown, handler, browser, sessions, onHost, link>>

(* The connection to the browser breaks: onerror or onclose there, a close *)
(* at the platform.                                                        *)
BreakSocket(p) ==
    /\ client[p] = "open"
    /\ Room
    /\ \/ panel' = [panel EXCEPT ![p] = "error"]
       \/ panel' = [panel EXCEPT ![p] = IF @ \in {"closed", "error"} THEN @ ELSE "closed"]
    /\ client' = [client EXCEPT ![p] = "closed"]
    /\ fromBrowser' = [fromBrowser EXCEPT ![p] = Append(@, Msg("close", 0))]
    /\ toBrowser' = [toBrowser EXCEPT ![p] = <<>>]
    /\ UNCHANGED <<typed, unheard, shown, handler, browser, sessions, onHost, link>>

-----------------------------------------------------------------------------
(* The agent, as far as the platform relies on it.                         *)

Shell ==
    /\ toAgent # <<>>
    /\ LET msg == Head(toAgent)  p == msg.panel IN
       /\ msg \in TermCommand
       /\ pty' = [pty EXCEPT ![p] = CASE msg.type = "terminal_open" -> "running"
                                      [] msg.type = "terminal_close" /\ @ = "running" -> "exited"
                                      [] OTHER -> @]
       /\ got' = [got EXCEPT ![p] = IF msg.type = "terminal_input" /\ pty[p] = "running"
                                    THEN Append(@, msg.n) ELSE @]
    /\ toAgent' = Tail(toAgent)
    /\ UNCHANGED <<inBrowser, fromBrowser, toBrowser, handler, browser, sessions, printed, up,
                   toPlatform, drops>>

Output(p) ==
    /\ pty[p] = "running"
    /\ printed[p] < MaxChunks
    /\ Room
    /\ printed' = [printed EXCEPT ![p] = @ + 1]
    /\ Tell([type |-> "terminal_data", panel |-> p, n |-> printed'[p]])
    /\ UNCHANGED <<inBrowser, fromBrowser, toBrowser, handler, browser, sessions, pty, got, up,
                   toAgent, drops>>

Exit(p) ==
    /\ pty[p] = "running"
    /\ Room
    /\ pty' = [pty EXCEPT ![p] = "exited"]
    /\ Tell([type |-> "terminal_closed", panel |-> p, n |-> 0])
    /\ UNCHANGED <<inBrowser, fromBrowser, toBrowser, handler, browser, sessions, got, printed, up,
                   toAgent, drops>>

(* The sessions stay; the shells do, unless the agent started anew.        *)
TermDrop == Drop /\ UNCHANGED <<inBrowser, fromBrowser, toBrowser, handler, browser, sessions, onHost>>

TermReconnect ==
    /\ Reconnect
    /\ pty' \in {pty, [p \in Panels |-> IF pty[p] = "running" THEN "exited" ELSE pty[p]]}
    /\ UNCHANGED <<inBrowser, fromBrowser, toBrowser, handler, browser, sessions, got, printed>>

-----------------------------------------------------------------------------
Handler(p) == CheckSession(p) \/ Bind(p) \/ NoHost(p)

TermNext ==
    \/ \E p \in Panels :
          \/ Handler(p) \/ HandlerRejects(p) \/ Hear(p) \/ HearClose(p)
          \/ Mount(p) \/ Type(p) \/ Receive(p) \/ Leave(p) \/ BreakSocket(p) \/ Output(p) \/ Exit(p)
    \/ Forward \/ Shell \/ TermDrop \/ TermReconnect

(* The handler's awaits end, sockets deliver, the agent obeys.             *)
TermFairness ==
    /\ \A p \in Panels : /\ WF_termVars(Handler(p)) /\ WF_termVars(Receive(p))
                         /\ WF_termVars(Hear(p) \/ HearClose(p))
    /\ WF_termVars(Forward) /\ WF_termVars(Shell)

TermSpec == TermInit /\ [][TermNext]_termVars /\ TermFairness

-----------------------------------------------------------------------------
(* A panel that is open, with nothing under way to it, is bound to a       *)
(* session: every way to end a session has a word for the browser.         *)
OpenMeansBound ==
    \A p \in Panels : panel[p] = "open" /\ toBrowser[p] = <<>> => p \in sessions

(* Of a session the agent hears nothing more after terminal_close, and the *)
(* browser nothing after its socket was closed.                            *)
NothingAfterClose ==
    /\ \A i, j \in 1 .. Len(toAgent) :
          toAgent[i].type = "terminal_close" /\ toAgent[i].panel = toAgent[j].panel => j <= i
    /\ \A p \in Panels : \A i \in 1 .. Len(toBrowser[p]) :
          toBrowser[p][i].type = "close" => i = Len(toBrowser[p])

(* A panel shows the output in order and without repetition, and without a *)
(* gap as long as the agent's connection has held.                         *)
OutputInOrder ==
    \A p \in Panels : \A i \in 1 .. Len(shown[p]) :
        /\ i > 1 => shown[p][i] > shown[p][i - 1]
        /\ drops = 0 => shown[p][i] = i

(* What was typed after the panel showed that the session is open reaches  *)
(* the shell in the order it was typed, and, as long as the connection has *)
(* held, without a gap; what was typed earlier may be lost.                *)
KeysReachShell ==
    \A p \in Panels : \A i \in 1 .. Len(got[p]) :
        /\ i > 1 => got[p][i] > got[p][i - 1]
        /\ drops = 0 /\ got[p][i] > unheard[p] + 1 => i > 1 /\ got[p][i - 1] = got[p][i] - 1

(* A panel does not say "connecting" for ever, unless the handler's        *)
(* promise was rejected.                                                   *)
ConnectingEnds ==
    \A p \in Panels : panel[p] = "connecting" ~> (panel[p] # "connecting" \/ handler[p] = "rejected")

(* The shell of a panel that has been open and is left is ended, unless    *)
(* the connection to its agent broke.                                      *)
LeftShellEnds == \A p \in Panels : panel[p] = "left" ~> (pty[p] # "running" \/ drops > 0)

=============================================================================
