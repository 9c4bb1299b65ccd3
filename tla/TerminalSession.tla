---------------------------- MODULE TerminalSession ----------------------------
(***************************************************************************)
(* One terminal view of a browser page and the Hub's terminals behind it:    *)
(* TerminalConnection in terminalConnection.ts, the ticket route of the Hub, *)
(* and TerminalHandler, over the sessions, memberships and devices of        *)
(* Accounts.  An attempt of the view asks for a ticket, dials a WebSocket    *)
(* with it and waits for output; the Hub keeps checking the grant behind an  *)
(* open terminal.  The stream to the device is TerminalStream's: here it     *)
(* opens, delivers and ends.  The page may be hidden and shown again, and a  *)
(* hidden one sends no heartbeat.  Backoff delays are left out: a timer that *)
(* is set may fire.                                                          *)
(***************************************************************************)
EXTENDS Accounts

CONSTANTS
  Page,         \* the pages a behaviour may start with: [session, device]
  MaxAttempts   \* bound on the attempts of the view

ASSUME PageAssumption == Page \subseteq [session : Session, device : Device] /\ MaxAttempts \in Nat \ {0}

Attempt == 1..MaxAttempts
Timer   == {"ticket", "handshake", "firstByte", "ping", "probe", "retry"}

VARIABLES
  page,     \* the login session and the device of the view
  visible,  \* document.visibilityState
  view,     \* its ConnectionState, and "disposed"
  cur,      \* the current attempt, 0 when it was dropped
  timers,   \* the timers that are set
  ask,      \* where the ticket request of each attempt is
  sock,     \* the WebSocket of each attempt, as the browser sees it
  term,     \* the ticket of each attempt and the terminal it opens, at the Hub
  end,      \* how the Hub ended the socket of each attempt
  broken    \* the path of the current attempt delivers nothing any more

browser  == <<view, cur, timers, broken>>
terminal == <<page, visible, browser, ask, sock, term, end>>
hub      == <<accounts, terminal>>

TerminalTypeOK ==
  /\ page \in Page /\ visible \in BOOLEAN
  /\ view \in {"connecting", "live", "retrying", "stopped", "disposed"}
  /\ cur \in 0..MaxAttempts
  /\ timers \subseteq Timer
  /\ ask \in [Attempt -> {"none", "sent", "authed", "allowed", "ticket", "denied", "error", "done"}]
  /\ sock \in [Attempt -> {"none", "connecting", "open", "closed"}]
  /\ term \in [Attempt -> {"none", "ticket", "void", "expired", "opening", "open", "closed"}]
  /\ end \in [Attempt -> {"none", "1008", "final", "other"}]
  /\ broken \in BOOLEAN

Made == {a \in Attempt : ask[a] # "none"}
Next1 == Cardinality(Made) + 1

\* A page whose user is logged in shows its view, and start() runs the first connect().
TerminalInit ==
  /\ Init
  /\ page \in Page /\ visible = TRUE
  /\ LET shown == session[page.session].state = "live" IN
       /\ view = IF shown THEN "connecting" ELSE "disposed"
       /\ cur = IF shown THEN 1 ELSE 0
       /\ timers = IF shown THEN {"ticket"} ELSE {}
       /\ ask = [a \in Attempt |-> IF shown /\ a = 1 THEN "sent" ELSE "none"]
  /\ sock = [a \in Attempt |-> "none"]
  /\ term = [a \in Attempt |-> "none"]
  /\ end = [a \in Attempt |-> "none"]
  /\ broken = FALSE

-------------------------------------------------------------------------------
(* The browser. *)

Usable(a) == sock[a] \in {"connecting", "open"}

\* drop(): the current attempt is abandoned and its socket closed.
Dropped == [a \in Attempt |-> IF Usable(a) THEN "closed" ELSE sock[a]]

Drop(newView, newTimers) ==
  /\ view' = newView /\ cur' = 0 /\ timers' = newTimers /\ broken' = FALSE
  /\ sock' = Dropped

Stop == Drop("stopped", {})
Fail == Drop("retrying", {"retry"})

Connect ==
  /\ Next1 \in Attempt
  /\ view' = "connecting" /\ cur' = Next1 /\ timers' = {"ticket"} /\ broken' = FALSE
  /\ ask' = [ask EXCEPT ![Next1] = "sent"]
  /\ sock' = Dropped
  /\ UNCHANGED <<page, term, end>>

\* Mutant: the answer is used although a later attempt has begun.
LateAnswered(a) ==
  /\ ask[a] \in {"ticket", "denied", "error"} /\ (a = cur => ~broken)
  /\ ask' = [ask EXCEPT ![a] = "done"]
  /\ \/ /\ ask[a] = "ticket"
        /\ sock' = [sock EXCEPT ![a] = "connecting"]
        /\ timers' = {"handshake"}
        /\ UNCHANGED <<view, cur, broken>>
     \/ ask[a] = "denied" /\ Stop
     \/ ask[a] = "error" /\ Fail
  /\ UNCHANGED <<page, term, end>>

\* The answer to the ticket request; a later attempt may have taken this one's place.
TicketAnswered(a) ==
  /\ ask[a] \in {"ticket", "denied", "error"} /\ (a = cur => ~broken)
  /\ ask' = [ask EXCEPT ![a] = "done"]
  /\ \/ a # cur /\ UNCHANGED <<browser, sock>>
     \/ /\ a = cur /\ ask[a] = "ticket"
        /\ sock' = [sock EXCEPT ![a] = "connecting"]
        /\ timers' = {"handshake"}
        /\ UNCHANGED <<view, cur, broken>>
     \/ a = cur /\ ask[a] = "denied" /\ Stop
     \/ a = cur /\ ask[a] = "error" /\ Fail
  /\ UNCHANGED <<page, term, end>>

\* Mutant: no time limit for the first output.
UntimedOpened(a) ==
  /\ a = cur /\ sock[a] = "connecting" /\ term[a] \in {"opening", "open"} /\ ~broken
  /\ sock' = [sock EXCEPT ![a] = "open"]
  /\ timers' = {}
  /\ UNCHANGED <<page, view, cur, ask, term, end, broken>>

Opened(a) ==
  /\ a = cur /\ sock[a] = "connecting" /\ term[a] \in {"opening", "open"} /\ ~broken
  /\ sock' = [sock EXCEPT ![a] = "open"]
  /\ timers' = {"firstByte"}
  /\ UNCHANGED <<page, view, cur, ask, term, end, broken>>

\* The first output makes the view live and starts the heartbeat.
Output(a) ==
  /\ a = cur /\ view # "live"
  /\ sock[a] = "open" /\ term[a] = "open" /\ ~broken
  /\ view' = "live" /\ timers' = {"ping"}
  /\ UNCHANGED <<page, cur, ask, sock, term, end, broken>>

\* Output or a pong after a probe: its timer will find the connection alive.
Answered(a) ==
  /\ a = cur /\ "probe" \in timers
  /\ sock[a] = "open" /\ term[a] = "open" /\ ~broken
  /\ timers' = timers \ {"probe"}
  /\ UNCHANGED <<page, view, cur, ask, sock, term, end, broken>>

Closed(a) ==
  /\ a = cur /\ Usable(a) /\ end[a] # "none" /\ ~broken
  /\ IF end[a] \in {"1008", "final"} THEN Stop ELSE Fail
  /\ UNCHANGED <<page, ask, term, end>>

Probe == timers' = timers \cup {"probe"} /\ UNCHANGED <<page, view, cur, ask, sock, term, end, broken>>

\* The heartbeat of a page that can be seen probes the connection.
Ping == "ping" \in timers /\ "probe" \notin timers /\ visible /\ Probe

\* A page that comes back, or the network: probe the connection, or do not wait for the retry.
ProbeNow == \/ view = "live" /\ Probe
            \/ view = "retrying" /\ Connect

\* visibilitychange: a page that is shown again probes now.
Hide == /\ visible /\ visible' = FALSE /\ view # "disposed"
        /\ UNCHANGED <<page, browser, ask, sock, term, end>>
Show == /\ ~visible /\ visible' = TRUE /\ view # "disposed"
        /\ \/ ProbeNow
           \/ /\ view \notin {"live", "retrying"}
              /\ UNCHANGED <<page, browser, ask, sock, term, end>>

\* A timer fires: the time of the phase is up, or the backoff.
TimeUp ==
  /\ timers \cap {"ticket", "handshake", "firstByte", "probe"} # {}
  /\ Fail
  /\ UNCHANGED <<page, ask, term, end>>

Retry == "retry" \in timers /\ Connect

ReconnectNow == view # "disposed" /\ Connect

Dispose ==
  /\ view # "disposed" /\ Drop("disposed", {})
  /\ UNCHANGED <<page, ask, term, end>>

-------------------------------------------------------------------------------
(* The Hub. *)

PageUser == session[page.session].user
PageRole == LET d == device[page.device] IN
            IF d.state = "live" THEN role[d.space][PageUser] ELSE "none"

\* TerminalAllowed: the session, the membership and the device in one query.
GrantAllowed == session[page.session].state = "live" /\ Allowed(PageRole, "input")

Asked(a, step) == ask' = [ask EXCEPT ![a] = step] /\ UNCHANGED <<page, browser, sock, end>>

\* The middleware of the ticket route: Require, then Device("input").
TicketAuthed(a) ==
  /\ ask[a] = "sent"
  /\ Asked(a, IF session[page.session].state = "live" THEN "authed" ELSE "denied")
  /\ UNCHANGED term

TicketAllowed(a) ==
  /\ ask[a] = "authed"
  /\ Asked(a, IF Allowed(PageRole, "input") THEN "allowed" ELSE "denied")
  /\ UNCHANGED term

\* The handler reads the space again; without it the ticket's grant is never valid.
IssueTicket(a) ==
  /\ ask[a] = "allowed"
  /\ Asked(a, "ticket")
  /\ term' = [term EXCEPT ![a] = IF PageRole = "none" THEN "void" ELSE "ticket"]

\* The device is offline, or the request or its answer is lost; a failing database is answered
\* like a refusal.
TicketFails(a) ==
  /\ ask[a] \in {"sent", "authed", "allowed"}
  /\ Asked(a, "error") \/ Asked(a, "denied")
  /\ UNCHANGED term

Term(a, step) == term' = [term EXCEPT ![a] = step] /\ UNCHANGED <<page, browser, ask, sock>>
TermEnds(a, how) ==
  Term(a, "closed") /\ end' = [end EXCEPT ![a] = IF Usable(a) THEN how ELSE "none"]

TicketExpires(a) == term[a] \in {"ticket", "void"} /\ Term(a, "expired") /\ UNCHANGED end

\* The handshake consumes the ticket, and validates its grant before it accepts the socket;
\* a validation that times out refuses it.  The browser may have gone meanwhile.
Accept(a) ==
  /\ sock[a] # "none" /\ term[a] \in {"ticket", "void", "expired"}
  /\ \/ term[a] = "ticket" /\ GrantAllowed /\ Term(a, "opening") /\ UNCHANGED end
     \/ TermEnds(a, "other")

OpenStream(a) == term[a] = "opening" /\ Term(a, "open") /\ UNCHANGED end

\* The stream cannot be opened, its device ends it, the Hub's ping or a write to the browser
\* fails, or the browser has closed the socket.
StreamEnds(a) ==
  /\ term[a] \in {"opening", "open"}
  /\ \E how \in {"final", "other"} : (how = "final" => term[a] = "open") /\ TermEnds(a, how)

\* Mutant: watchGrant starts when the stream has been opened.
OpenWatched(a) == term[a] = "open"

\* watchGrant runs from before the stream is opened.  The 1008 may not reach the browser.
Watched(a) == term[a] \in {"opening", "open"}

GrantFails(a) ==
  /\ Watched(a) /\ ~GrantAllowed
  /\ \E how \in {"1008", "other"} : TermEnds(a, how)

\* Mutant: the refusal closes the socket with a status the view does not know.
UnknownTimesOut(a) == Watched(a) /\ GrantAllowed /\ TermEnds(a, "1011")

\* A validation that takes two seconds counts as a refusal, whatever the database answers.
GrantTimesOut(a) == Watched(a) /\ GrantAllowed /\ TermEnds(a, "1008")

PathBreaks ==
  /\ view \in {"connecting", "live"} /\ ~broken /\ broken' = TRUE
  /\ UNCHANGED <<page, view, cur, timers, ask, sock, term, end>>

\* The Hub's tickets and terminals are in its memory, its sockets end with it.
TerminalsLost ==
  /\ ask' = [a \in Attempt |-> IF ask[a] \in {"sent", "authed", "allowed"} THEN "error" ELSE ask[a]]
  /\ term' = [a \in Attempt |-> CASE term[a] \in {"ticket", "void"} -> "expired"
                                 [] Watched(a)                    -> "closed"
                                 [] OTHER                         -> term[a]]
  /\ end' = [a \in Attempt |-> IF Usable(a) /\ Watched(a) THEN "other" ELSE end[a]]
  /\ UNCHANGED <<page, visible, browser, sock>>

Timeout == Ping \/ TimeUp \/ Retry
Grants  == \E a \in Attempt : GrantFails(a)

PageStep ==
  \/ Timeout \/ ProbeNow \/ ReconnectNow \/ Dispose \/ PathBreaks
  \/ \E a \in Attempt :
       \/ TicketAnswered(a) \/ Opened(a) \/ Output(a) \/ Answered(a) \/ Closed(a)
       \/ TicketAuthed(a) \/ TicketAllowed(a) \/ IssueTicket(a) \/ TicketFails(a)
       \/ TicketExpires(a) \/ Accept(a) \/ OpenStream(a) \/ StreamEnds(a)
       \/ GrantFails(a) \/ GrantTimesOut(a)

TerminalStep == Hide \/ Show \/ (PageStep /\ UNCHANGED visible)

TerminalNext ==
  \/ Serve /\ UNCHANGED terminal
  \/ Restart /\ TerminalsLost
  \/ TerminalStep /\ UNCHANGED accounts

\* The browser's timers fire and the Hub's grant check ticks; nothing else is sure to happen,
\* and no page need ever be shown.
TerminalFairness ==
  /\ WF_hub(Timeout /\ UNCHANGED <<accounts, visible>>)
  /\ WF_hub(Grants /\ UNCHANGED <<accounts, visible>>)

TerminalSpec == TerminalInit /\ [][TerminalNext]_hub /\ Fairness /\ TerminalFairness

-------------------------------------------------------------------------------
(* Properties. *)

\* One socket at a time: a ticket, a handshake or an output that comes late for an abandoned
\* attempt leaves no socket behind the view.  (terminalConnection.ts: connect, drop)
OneSocket == \A a \in Attempt : Usable(a) => a = cur /\ view \in {"connecting", "live"}

\* The view never waits for ever for a Hub or a path that is silent: it leaves every phase of
\* an attempt, and notices that a live connection has died, unless from some time on its page
\* is never seen again.  (terminalConnection.ts: timer, startHeartbeat, onVisibility)
Dead    == view = "live" /\ (term[cur] = "closed" \/ broken)
Waiting == view = "connecting" \/ Dead

NeverStuck == Waiting ~> (~Waiting \/ (Dead /\ []~visible))

\* A terminal whose session, membership or device was taken away is closed, from the moment
\* its stream is being opened, unless the grant becomes valid again.  (terminal.go: watchGrant)
RevokedTerminalsClose ==
  ~GrantAllowed ~> (GrantAllowed \/ \A a \in Attempt : term[a] \notin {"opening", "open"})
===============================================================================
