---------------------------- MODULE ScreencastHost ----------------------------
(***************************************************************************)
(* The browser screencasts that a desktop streams to its phone.  A cast is *)
(* one subscription on one connection.  The desktop admits one cast per    *)
(* connection and one per page; a newcomer cancels what is there and       *)
(* awaits its end, in three loops one after the other.  Code between two   *)
(* awaits runs to its end, so a step is one such stretch.                  *)
(***************************************************************************)
EXTENDS Naturals, SequencesExt

CONSTANTS Streams,   \* subscriptions of the phone, numbered in the order it makes them
          Sockets,   \* connections, numbered in the order the phone dials them
          PagesOf    \* the pages that each subscription may ask for

ASSUME CastAssumption ==
    /\ Streams \subseteq Nat \ {0} /\ IsFiniteSet(Streams)
    /\ Sockets \subseteq Nat \ {0} /\ 1 \in Sockets
    /\ Streams \subseteq DOMAIN PagesOf

Casts == Streams \X Sockets
NoCast == <<0, 0>>
NoPage == "no page"
Pages == {NoPage} \cup UNION {PagesOf[i] : i \in Streams}

VARIABLES
    cast,      \* each cast: its place, its page, what it awaits, what was done to it
    waiters,   \* the casts in an await, in the order they began it
    hostEnd,   \* the desktop's end of each connection
    rs,        \* readyState of the phone's end
    dead,      \* connections that carry nothing any more
    up, down   \* what is on its way to the desktop, and to the phone

hostVars == <<cast, waiters, down>>

\* In activeBrowserScreencastsByConnection; in activeBrowserScreencastsByPage; in
\* activeScreencastsByPageId, the table of debugger sessions.
Registered == {"resolving", "session", "launching", "running", "ending", "dropping"}
OnPage == {"running", "ending"}
OnDebugger == {"launching", "running", "ending", "dropping"}

Places == {"none", "page", "connection", "over"} \cup Registered
Marks == {"cancelled", "stopped", "ended", "told", "late"}

Stream(q) == q[1]
Socket(q) == q[2]

\* The state that the stretches below compute with.
Host == [cast |-> cast, waiters |-> waiters, down |-> down]
Becomes(h) == cast' = h.cast /\ waiters' = h.waiters /\ down' = h.down

Mark(h, q, m) == [h EXCEPT !.cast[q].marks = @ \cup {m}]
Move(h, q, place) == [h EXCEPT !.cast[q].at = place]

\* reply and emit: nothing is sent on a connection that is closed, and nothing
\* more reaches a phone that closes it.
Post(h, s, kind, i) ==
    IF hostEnd[s] # "closed" /\ rs[s] = "open" /\ s \notin dead
    THEN [h EXCEPT !.down[s] = Append(@, <<kind, i>>)] ELSE h
Tell(h, q, kind) == Mark(Post(h, Socket(q), kind, Stream(q)), q, "told")

----------------------------------------------------------------------------
(* Cancelling.                                                             *)

Aborted(q) == hostEnd[Socket(q)] = "closed"

\* `cancel`: before its session exists a cast is only marked; after that, `end`.
Cancel(h, q, emitEnd) ==
    LET here == h.cast[q]
        g == Mark(Move(h, q, "ending"), q, "ended")
    IN CASE here.at \in {"resolving", "session", "launching"} -> Mark(h, q, "cancelled")
         [] here.at \in OnPage /\ "ended" \notin here.marks ->
              IF emitEnd THEN Tell(g, q, "end") ELSE g
         [] OTHER -> h

\* `active.stop` of the page's debugger session.
Stop(h, q) ==
    CASE h.cast[q].at = "launching" -> Mark(h, q, "stopped")
      [] h.cast[q].at = "running" -> Move(h, q, "ending")
      [] OTHER -> h

\* The cleanup that is registered under the cast's subscription id.
CleanupSubscription(h, q) == IF h.cast[q].at \in OnPage THEN Cancel(h, q, TRUE) ELSE h

----------------------------------------------------------------------------
(* The three loops.  Each is run once for the cast p from the await it was *)
(* in: it awaits what is there, or goes on to the next.                    *)

Await(h, p, place, q) ==
    [h EXCEPT !.cast[p].at = place, !.cast[p].on = q, !.waiters = Append(@, p)]

OfPage(h, p, table) ==
    {q \in Casts : h.cast[q].page = h.cast[p].page /\ h.cast[q].at \in table}
OfConnection(h, p) == {q \in Casts : Socket(q) = Socket(p) /\ h.cast[q].at \in Registered}

\* (The mark says for the properties that a newer cast of the connection came first.)
Passed(h, p) == \E q \in Casts :
    Socket(q) = Socket(p) /\ Stream(p) < Stream(q) /\ h.cast[q].at = "over"
Register(h, p) ==
    LET g == IF Passed(h, p) THEN Mark(h, p, "late") ELSE h
    IN  IF Aborted(p) THEN Move(h, p, "over") ELSE Move(g, p, "resolving")

\* Mutant: a newcomer does not wait for the cast that its connection has.
ConnectionLoop_Races(h, p) == Register(h, p)

ConnectionLoop(h, p) ==
    IF OfConnection(h, p) # {}
    THEN LET q == CHOOSE q \in OfConnection(h, p) : TRUE
         IN  Await(Cancel(h, q, FALSE), p, "connection", q)
    ELSE Register(h, p)

PageLoop(h, p) ==
    IF OfPage(h, p, OnPage) # {}
    THEN LET q == CHOOSE q \in OfPage(h, p, OnPage) : TRUE
         IN  Await(Cancel(h, q, Socket(q) # Socket(p)), p, "page", q)
    ELSE ConnectionLoop(h, p)

Starts(h, p, page) == PageLoop([h EXCEPT !.cast[p].page = page], p)

SessionLoop(h, p) ==
    IF OfPage(h, p, OnDebugger) # {}
    THEN LET q == CHOOSE q \in OfPage(h, p, OnDebugger) : TRUE
         IN  Await(Stop(h, q), p, "session", q)
    ELSE Move(h, p, "launching")

----------------------------------------------------------------------------
(* Steps.                                                                  *)

\* What a waiter awaits is over: the waiters of one promise go on in their order,
\* before anything else happens on the desktop.
Woken(k) == cast[cast[waiters[k]].on].at = "over"
Draining == \E k \in DOMAIN waiters : Woken(k)

Resume ==
    /\ Draining
    /\ LET k == CHOOSE k \in DOMAIN waiters : Woken(k) /\ \A j \in 1..(k - 1) : ~Woken(j)
           p == waiters[k]
           h == [Host EXCEPT !.waiters = RemoveAt(@, k), !.cast[p].on = NoCast]
       IN Becomes(CASE cast[p].at = "page" -> PageLoop(h, p)
                    [] cast[p].at = "connection" -> ConnectionLoop(h, p)
                    [] cast[p].at = "session" -> SessionLoop(h, p))
    /\ UNCHANGED <<hostEnd, rs, dead, up>>

\* resolveBrowserCommandTarget has found the page.
Resolved(p) ==
    /\ cast[p].at = "resolving"
    /\ Becomes(SessionLoop(Host, p))
    /\ UNCHANGED <<hostEnd, rs, dead, up>>

\* startBrowserScreencast returns: the cast gives up at once, or says it is ready.
GivesUp(p) == cast[p].marks \cap {"cancelled", "stopped"} # {} \/ Aborted(p)
Launched(p) ==
    /\ cast[p].at = "launching"
    /\ Becomes(IF GivesUp(p) THEN Move(Host, p, "dropping")
               ELSE Post(Move(Host, p, "running"), Socket(p), "ready", Stream(p)))
    /\ UNCHANGED <<hostEnd, rs, dead, up>>

\* The page is not there, or the debugger does not attach.
LaunchFails(p) ==
    /\ cast[p].at \in {"resolving", "launching"}
    /\ Becomes(Tell(Move(Host, p, "over"), p, "error"))
    /\ UNCHANGED <<hostEnd, rs, dead, up>>

\* The page is closed, or the debugger is detached.
PageCloses(p) ==
    /\ cast[p].at = "running"
    /\ Becomes(Move(Host, p, "ending"))
    /\ UNCHANGED <<hostEnd, rs, dead, up>>

\* The user takes the page back at the desktop.
reclaimBrowserForDesktop(p) ==
    /\ cast[p].at \in OnPage
    /\ Becomes(Cancel(Host, p, TRUE))
    /\ UNCHANGED <<hostEnd, rs, dead, up>>

\* session.done: the finally clause takes the cast out of the tables.  A start that
\* was stopped for another phone is refused, a session that ended by itself is told
\* to have ended; one that was cancelled says nothing.
SessionDone(p) ==
    /\ cast[p].at \in {"ending", "dropping"}
    /\ LET h == Move(Host, p, "over") IN
       Becomes(CASE cast[p].at = "dropping" /\ "stopped" \in cast[p].marks -> Tell(h, p, "error")
                 [] cast[p].at = "ending" /\ "ended" \notin cast[p].marks -> Tell(h, p, "end")
                 [] OTHER -> h)
    /\ UNCHANGED <<hostEnd, rs, dead, up>>

\* A frame: binary, and without a stream id (the number is for the properties).
\* One on its way is enough to be late.
Frame(p) ==
    /\ cast[p].at = "running"
    /\ <<"frame", Stream(p)>> \notin ToSet(down[Socket(p)])
    /\ LET h == Post(Host, Socket(p), "frame", Stream(p)) IN h # Host /\ Becomes(h)
    /\ UNCHANGED <<hostEnd, rs, dead, up>>

\* The desktop notices that a connection is gone: abortWebSocketDispatches, then
\* cleanupSubscriptionsForConnection, which finds nothing left to end.
HostClosed(s) ==
    /\ hostEnd[s] \in {"hello", "auth", "ready"}
    /\ s \in dead \/ rs[s] = "closing"
    /\ hostEnd' = [hostEnd EXCEPT ![s] = "closed"]
    /\ up' = [up EXCEPT ![s] = <<>>]
    /\ LET on == {q \in Casts : Socket(q) = s /\ cast[q].at \in Registered} IN
       IF on = {} THEN UNCHANGED hostVars ELSE Becomes(Cancel(Host, CHOOSE q \in on : TRUE, FALSE))
    /\ UNCHANGED <<rs, dead>>
=============================================================================
