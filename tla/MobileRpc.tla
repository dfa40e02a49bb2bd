------------------------------- MODULE MobileRpc -------------------------------
(***************************************************************************)
(* The phone's RPC client over connections that break, and the desktop     *)
(* that serves it: dialling, the encrypted handshake, timeouts, probes and *)
(* reconnection; requests; and screencast subscriptions, which the phone   *)
(* replays on every new connection.  An action of the phone is one         *)
(* callback or call; one of the desktop one stretch between awaits.        *)
(***************************************************************************)
EXTENDS ScreencastHost

CONSTANTS
    Requests,      \* calls of sendRequest
    AuthBudget,    \* AUTH_RETRY_BUDGET
    GiveUp,        \* GIVE_UP_AFTER_ATTEMPTS
    MaxFaults      \* bound on broken links, premature timeouts and failing pages

ASSUME MobileAssumption ==
    /\ Requests \subseteq Nat /\ IsFiniteSet(Requests)
    /\ AuthBudget \in Nat \ {0} /\ GiveUp \in Nat /\ MaxFaults \in Nat

VARIABLES
    client,    \* the client's connection state
    stream,    \* streamListeners
    req,       \* what became of each request
    paired,    \* the desktop knows the phone's token
    ran,       \* requests that the desktop executed (for the properties)
    faults     \* faults so far

phoneVars == <<client, stream, req, up, rs>>
vars == <<cast, waiters, hostEnd, dead, down, phoneVars, paired, ran, faults>>

NoSocket == 0
NoStream == 0
NotYet == [st |-> "new", sent |-> FALSE, sub |-> NoSocket, page |-> NoPage]

\* The state that the phone's callbacks compute with.
Phone == [client |-> client, stream |-> stream, req |-> req, up |-> up, rs |-> rs]
PhoneBecomes(c) ==
    /\ client' = c.client /\ stream' = c.stream /\ req' = c.req
    /\ up' = c.up /\ rs' = c.rs

ws == client.ws
InState(c, state) == [c EXCEPT !.client.state = state]

----------------------------------------------------------------------------
(* Requests and streams.                                                   *)

Requesting(c, from) == {r \in Requests : c.req[r] = from}
Reject(c, from, outcome) ==
    [c EXCEPT !.req = [r \in Requests |-> IF c.req[r] = from THEN outcome ELSE c.req[r]]]

\* Mutant: the error does not say whether the request may have been executed.
rejectAllPending_Unmarked(c, deliveryUnknown) == Reject(c, "pending", "failed")

\* The deliveryUnknown mark distinguishes a request that may have been executed; the one
\* caller that does not set it rejects with `Unauthorized`.
rejectAllPending(c, deliveryUnknown) ==
    Reject(c, "pending", IF deliveryUnknown THEN "unknown" ELSE "unauthorized")
rejectConnectWaiters(c) == Reject(c, "waiting", "failed")

\* Mutant: streams that were sent count as sent on the next connection.
markStreamsForReplay_Not(c) == c

markStreamsForReplay(c) == [c EXCEPT !.stream = [i \in Streams |-> [c.stream[i] EXCEPT !.sent = FALSE]]]

RouteNothing(c) == [c EXCEPT !.client.active = NoStream, !.client.pending = NoStream]
Unroute(c, i) ==
    [c EXCEPT !.client.active = IF @ = i THEN NoStream ELSE @,
              !.client.pending = IF @ = i THEN NoStream ELSE @]
removeStreamListener(c, i) == [Unroute(c, i) EXCEPT !.stream[i].st = "gone"]

----------------------------------------------------------------------------
(* Losing a connection.                                                    *)

CloseSocket(c) == [c EXCEPT !.rs[c.client.ws] = "closing"]
Detach(c) == markStreamsForReplay(RouteNothing([c EXCEPT !.client.ws = NoSocket]))

\* Mutant: the counter goes on past the cap.
scheduleReconnect_NoCap(c) ==
    InState([c EXCEPT !.client.timer = TRUE, !.client.attempt = @ + 1], "reconnecting")

scheduleReconnect(c) ==
    LET g == InState([c EXCEPT !.client.timer = TRUE], "reconnecting")
    IN  IF c.client.attempt >= GiveUp THEN rejectConnectWaiters(g)
        ELSE [g EXCEPT !.client.attempt = @ + 1]

handleAuthRejection(c) ==
    LET closed == IF c.client.ws = NoSocket THEN c ELSE CloseSocket(c)
        g == RouteNothing([closed EXCEPT !.client.rejections = @ + 1])
    IN  IF g.client.rejections < AuthBudget
        THEN scheduleReconnect(rejectAllPending(Detach(g), FALSE))
        ELSE rejectAllPending(rejectConnectWaiters(
                InState([g EXCEPT !.client.closed = TRUE, !.client.ws = NoSocket], "auth-failed")), FALSE)

\* (A client that was closed has no socket any more, so this is not reached then.)
handleSocketClosed(c, unauthorized) ==
    IF unauthorized THEN handleAuthRejection(Detach(c))
    ELSE scheduleReconnect(rejectAllPending(Detach(c), TRUE))

----------------------------------------------------------------------------
(* Sending.                                                                *)

CanSend(c) == c.client.ws # NoSocket /\ c.rs[c.client.ws] = "open"

\* sendEncrypted: a connected client whose socket is not open takes it as closed.
Send(c, kind, x) ==
    IF CanSend(c)
    THEN IF c.client.ws \in dead THEN c ELSE [c EXCEPT !.up[c.client.ws] = Append(@, <<kind, x>>)]
    ELSE IF c.client.state = "connected" THEN handleSocketClosed(c, FALSE) ELSE c

SendSubscribe(c, i) ==
    LET g == Send(c, "subscribe", <<i, c.stream[i].page>>)
    IN  IF CanSend(c) THEN [g EXCEPT !.stream[i].sent = TRUE] ELSE removeStreamListener(g, i)

\* A subscription id names the cast: the stream and the connection it was for.
SendUnsubscribe(c, i) == Send(c, "unsubscribe", <<i, c.stream[i].sub>>)

SendRequest(c, r) ==
    IF CanSend(c) THEN [Send(c, "request", r) EXCEPT !.req[r] = "pending"]
    ELSE [Send(c, "request", r) EXCEPT !.req[r] = "failed"]

\* Mutant: a stream without a subscription id is forgotten at once.
DisposeStream_NoTombstone(c, i) ==
    LET g == Unroute(c, i)
    IN  IF c.stream[i].st # "live" THEN c
        ELSE IF c.stream[i].sub # NoSocket THEN removeStreamListener(SendUnsubscribe(g, i), i)
        ELSE removeStreamListener(g, i)

\* disposeBrowserScreencastStream: a stream that was sent stays as a tombstone until
\* the desktop names its subscription.
DisposeStream(c, i) ==
    LET g == Unroute(c, i)
    IN  IF c.stream[i].st # "live" THEN c
        ELSE IF c.stream[i].sub # NoSocket THEN removeStreamListener(SendUnsubscribe(g, i), i)
        ELSE IF c.stream[i].sent THEN [g EXCEPT !.stream[i].st = "tomb"]
        ELSE removeStreamListener(g, i)

\* e2ee_authenticated: the streams that are not sent yet are replayed in order; then
\* the requests that waited for the connection go on.
ReplayStream(c, i) ==
    CASE c.stream[i].st = "tomb" -> removeStreamListener(c, i)
      [] c.stream[i].st = "live" /\ ~c.stream[i].sent ->
           SendSubscribe([c EXCEPT !.client.pending = i, !.client.active = NoStream], i)
      [] OTHER -> c
InOrder(op(_, _), c, S) ==
    MapThenFoldSet(LAMBDA x, d : op(d, x), c, LAMBDA x : x, LAMBDA T : Max(T), S)
Authenticated(c) ==
    LET g == InState([c EXCEPT !.client.rejections = 0], "connected")
    IN  InOrder(SendRequest, InOrder(ReplayStream, g, Streams), Requesting(c, "waiting"))

----------------------------------------------------------------------------
Init ==
    /\ cast = [q \in Casts |-> [at |-> "none", page |-> NoPage, on |-> NoCast, marks |-> {}]]
    /\ waiters = <<>>
    /\ hostEnd = [s \in Sockets |-> "none"]
    /\ rs = [s \in Sockets |-> IF s = 1 THEN "connecting" ELSE "none"]
    /\ dead = {}
    /\ up = [s \in Sockets |-> <<>>] /\ down = [s \in Sockets |-> <<>>]
    /\ client = [state |-> "connecting", ws |-> 1, attempt |-> 0, rejections |-> 0,
                 timer |-> FALSE, closed |-> FALSE, active |-> NoStream, pending |-> NoStream]
    /\ stream = [i \in Streams |-> NotYet]
    /\ req = [r \in Requests |-> "new"]
    /\ paired = TRUE
    /\ ran = {}
    /\ faults = 0

Fault == faults < MaxFaults /\ faults' = faults + 1
NoFault == UNCHANGED faults

----------------------------------------------------------------------------
(* The phone's connection.                                                 *)

Unused == {s \in Sockets : rs[s] = "none"}

\* openConnection.
Dial(c) ==
    LET s == CHOOSE s \in Unused : \A u \in Unused : s <= u
    IN  InState([c EXCEPT !.client.ws = s, !.rs[s] = "connecting"], "connecting")

OnOpen ==
    /\ client.state = "connecting" /\ rs[ws] = "connecting"
    /\ PhoneBecomes(InState([Phone EXCEPT !.rs[ws] = "open", !.client.attempt = 0,
                                          !.up[ws] = <<<<"hello", 0>>>>], "handshaking"))
    /\ hostEnd' = [hostEnd EXCEPT ![ws] = "hello"]
    /\ NoFault /\ UNCHANGED <<hostVars, dead, paired, ran>>

\* onopen never arrives, or an error does.
ConnectFails ==
    /\ client.state = "connecting"
    /\ PhoneBecomes(handleSocketClosed(CloseSocket(Phone), FALSE))
    /\ NoFault /\ UNCHANGED <<hostVars, hostEnd, dead, paired, ran>>

\* The handshake timer and the activity probe close a socket that does not answer in
\* time; its close event comes later.
LinkTimeout ==
    /\ client.state \in {"handshaking", "connected"} /\ rs[ws] = "open"
    /\ IF ws \in dead THEN NoFault ELSE Fault
    /\ PhoneBecomes(CloseSocket(Phone))
    /\ UNCHANGED <<hostVars, hostEnd, dead, paired, ran>>

Refused == hostEnd[ws] = "refused"

OnClose ==
    /\ ws # NoSocket
    /\ rs[ws] = "closing" \/ (Refused /\ down[ws] = <<>> /\ ws \notin dead)
    /\ \E unauthorized \in {Refused, Refused /\ rs[ws] = "open"} :
          PhoneBecomes(handleSocketClosed(CloseSocket(Phone), unauthorized))
    /\ down' = [down EXCEPT ![ws] = <<>>]
    /\ NoFault /\ UNCHANGED <<cast, waiters, hostEnd, dead, paired, ran>>

\* The operating system reports a broken link.
LinkError ==
    /\ ws \in dead /\ rs[ws] = "open"
    /\ PhoneBecomes(handleSocketClosed(CloseSocket(Phone), FALSE))
    /\ NoFault /\ UNCHANGED <<hostVars, hostEnd, dead, paired, ran>>

\* The connection breaks without a word to either side.
Break ==
    /\ ws # NoSocket /\ rs[ws] = "open" /\ ws \notin dead /\ Fault
    /\ dead' = dead \cup {ws}
    /\ up' = [up EXCEPT ![ws] = <<>>] /\ down' = [down EXCEPT ![ws] = <<>>]
    /\ UNCHANGED <<cast, waiters, hostEnd, client, stream, req, rs, paired, ran>>

\* The user revokes the pairing: the desktop terminates the phone's connections.
Unpair ==
    /\ paired /\ paired' = FALSE /\ Fault
    /\ LET lost == {s \in Sockets : hostEnd[s] = "ready"} IN
       /\ dead' = dead \cup lost
       /\ up' = [s \in Sockets |-> IF s \in lost THEN <<>> ELSE up[s]]
       /\ down' = [s \in Sockets |-> IF s \in lost THEN <<>> ELSE down[s]]
    /\ UNCHANGED <<cast, waiters, hostEnd, client, stream, req, rs, ran>>

ReconnectTimer ==
    /\ client.timer /\ Unused # {}
    /\ PhoneBecomes(Dial([Phone EXCEPT !.client.timer = FALSE]))
    /\ NoFault /\ UNCHANGED <<hostVars, hostEnd, dead, paired, ran>>

\* Mutant: the timer goes on.
Foreground_TimerStays ==
    /\ client.state = "reconnecting" /\ Unused # {}
    /\ PhoneBecomes(Dial([Phone EXCEPT !.client.attempt = 0]))
    /\ NoFault /\ UNCHANGED <<hostVars, hostEnd, dead, paired, ran>>

\* notifyForeground: of a connected client it only starts another probe.
Foreground ==
    /\ client.state = "reconnecting" /\ Unused # {}
    /\ PhoneBecomes(Dial([Phone EXCEPT !.client.attempt = 0, !.client.timer = FALSE]))
    /\ NoFault /\ UNCHANGED <<hostVars, hostEnd, dead, paired, ran>>

Close ==
    /\ ~client.closed
    /\ LET c == IF ws = NoSocket THEN Phone ELSE CloseSocket(Phone)
           g == [c EXCEPT !.client.closed = TRUE, !.client.timer = FALSE, !.client.ws = NoSocket]
       IN  PhoneBecomes(rejectAllPending(rejectConnectWaiters(InState(g, "disconnected")), TRUE))
    /\ down' = IF ws = NoSocket THEN down ELSE [down EXCEPT ![ws] = <<>>]
    /\ faults' = MaxFaults /\ UNCHANGED <<cast, waiters, hostEnd, dead, paired, ran>>

----------------------------------------------------------------------------
(* The phone reads a message.                                              *)

\* A screencast's frames go to the stream whose `ready` came last; a `ready` that is
\* not awaited any more is answered by unsubscribing.
OnReady(c, i) ==
    LET g == [c EXCEPT !.stream[i].sub = c.client.ws]
    IN CASE c.stream[i].st = "gone" -> c
         [] c.stream[i].st = "live" /\ i \in {c.client.pending, c.client.active} ->
              [g EXCEPT !.client.pending = NoStream, !.client.active = i]
         [] OTHER -> removeStreamListener(SendUnsubscribe(g, i), i)

Read(c, kind, x) ==
    CASE kind = "e2ee_ready" /\ c.client.state = "handshaking" -> Send(c, "auth", 0)
      [] kind = "e2ee_authenticated" /\ c.client.state = "handshaking" -> Authenticated(c)
      [] kind = "e2ee_error" /\ c.client.state = "handshaking" -> handleAuthRejection(c)
      [] kind = "unauthorized" -> handleAuthRejection(c)
      [] kind = "ready" -> OnReady(c, x)
      [] kind = "error" /\ c.stream[x].st # "gone" -> removeStreamListener(c, x)
      [] kind = "reply" /\ c.req[x] = "pending" -> [c EXCEPT !.req[x] = "ok"]
      [] OTHER -> c   \* a frame, the `end` of a stream, an answer that came too late

OnMessage ==
    /\ ws # NoSocket /\ down[ws] # <<>>
    /\ PhoneBecomes(Read(Phone, Head(down[ws])[1], Head(down[ws])[2]))
    /\ down' = [down EXCEPT ![ws] = IF client'.ws = ws THEN Tail(@) ELSE <<>>]
    /\ NoFault /\ UNCHANGED <<cast, waiters, hostEnd, dead, paired, ran>>

----------------------------------------------------------------------------
(* Calls of the app.                                                       *)

Subscribe(i, page) ==
    /\ ~client.closed
    /\ stream[i].st = "new" /\ \A j \in Streams : j < i => stream[j].st # "new"
    /\ LET a == [Phone EXCEPT !.stream[i].st = "live", !.stream[i].page = page]
           b == IF client.active # NoStream THEN DisposeStream(a, client.active) ELSE a
           c == IF b.client.pending # NoStream THEN DisposeStream(b, b.client.pending) ELSE b
           d == [c EXCEPT !.client.pending = i, !.client.active = NoStream]
       IN  PhoneBecomes(IF d.client.state = "connected" THEN SendSubscribe(d, i) ELSE d)
    /\ NoFault /\ UNCHANGED <<hostVars, hostEnd, dead, paired, ran>>

Dispose(i) ==
    /\ stream[i].st = "live" /\ ~client.closed
    /\ PhoneBecomes(DisposeStream(Phone, i))
    /\ NoFault /\ UNCHANGED <<hostVars, hostEnd, dead, paired, ran>>

CallRequest(r) ==
    /\ req[r] = "new" /\ ~client.closed
    /\ PhoneBecomes(
        CASE client.state = "connected" -> SendRequest(Phone, r)
          [] client.state = "reconnecting" /\ client.attempt >= GiveUp ->
               [Phone EXCEPT !.req[r] = "failed"]
          [] OTHER -> [Phone EXCEPT !.req[r] = "waiting"])
    /\ NoFault /\ UNCHANGED <<hostVars, hostEnd, dead, paired, ran>>

\* The timer of waitForConnected, or that of the request itself; premature while the
\* connection carries what is sent.
RequestTimeout(r) ==
    /\ req[r] \in {"waiting", "pending"}
    /\ IF ws = NoSocket \/ ws \in dead THEN NoFault ELSE Fault
    /\ PhoneBecomes([Phone EXCEPT !.req[r] = IF @ = "pending" THEN "unknown" ELSE "failed"])
    /\ UNCHANGED <<hostVars, hostEnd, dead, paired, ran>>

----------------------------------------------------------------------------
(* The desktop reads a message.                                            *)

Answers(s, kind, x) == Becomes(Post(Host, s, kind, x))

HostReceives(s) ==
    /\ up[s] # <<>> /\ hostEnd[s] \in {"hello", "auth", "ready"}
    /\ up' = [up EXCEPT ![s] = Tail(@)]
    /\ LET kind == Head(up[s])[1]
           x == Head(up[s])[2]
       IN \/ /\ hostEnd[s] = "hello"
             /\ hostEnd' = [hostEnd EXCEPT ![s] = "auth"]
             /\ Answers(s, "e2ee_ready", 0) /\ UNCHANGED ran
          \/ /\ hostEnd[s] = "auth" /\ kind = "auth" /\ paired
             /\ hostEnd' = [hostEnd EXCEPT ![s] = "ready"]
             /\ Answers(s, "e2ee_authenticated", 0) /\ UNCHANGED ran
          \/ /\ hostEnd[s] = "auth" /\ ~(kind = "auth" /\ paired)
             /\ hostEnd' = [hostEnd EXCEPT ![s] = "refused"]
             /\ Answers(s, "e2ee_error", 0) /\ UNCHANGED ran
          \/ /\ hostEnd[s] = "ready" /\ UNCHANGED hostEnd
             /\ \/ kind = "subscribe" /\ Becomes(Starts(Host, <<x[1], s>>, x[2])) /\ UNCHANGED ran
                \/ kind = "unsubscribe" /\ Becomes(CleanupSubscription(Host, x)) /\ UNCHANGED ran
                \/ /\ kind = "request" /\ ran' = ran \cup {x}
                   /\ Answers(s, "reply", x) \/ UNCHANGED hostVars   \* it takes too long
    /\ UNCHANGED <<client, stream, req, rs, dead, paired, faults>>

\* The registry does not know the token any more of a connection that was let in: the
\* desktop answers the message with `unauthorized` and leaves the connection up.
RejectsToken(s) ==
    /\ up[s] # <<>> /\ hostEnd[s] = "ready" /\ Fault
    /\ up' = [up EXCEPT ![s] = Tail(@)]
    /\ Answers(s, "unauthorized", 0)
    /\ UNCHANGED <<client, stream, req, rs, hostEnd, dead, paired, ran>>

----------------------------------------------------------------------------
HostStep ==
    /\ \E p \in Casts : Resolved(p) \/ Launched(p) \/ SessionDone(p)
    /\ UNCHANGED <<client, stream, req, paired, ran, faults>>
HostCloses(s) == HostClosed(s) /\ UNCHANGED <<client, stream, req, paired, ran, faults>>
PageFails ==
    /\ \E p \in Casts : LaunchFails(p) \/ PageCloses(p) \/ reclaimBrowserForDesktop(p)
    /\ Fault /\ UNCHANGED <<client, stream, req, paired, ran>>
Streaming == (\E p \in Casts : Frame(p)) /\ UNCHANGED <<client, stream, req, paired, ran, faults>>

App ==
    \/ \E i \in Streams : Dispose(i) \/ \E page \in PagesOf[i] : Subscribe(i, page)
    \/ \E r \in Requests : CallRequest(r) \/ RequestTimeout(r)
    \/ Foreground \/ Close

DesktopProceeds ==
    \/ Resume /\ UNCHANGED <<client, stream, req, paired, ran, faults>>
    \/ ~Draining /\ (HostStep \/ \E s \in Sockets : HostReceives(s) \/ HostCloses(s))
PhoneProceeds ==
    ~Draining /\ (OnOpen \/ OnMessage \/ OnClose \/ ReconnectTimer \/ (ws \in dead /\ LinkTimeout))

Next ==
    \/ DesktopProceeds
    \/ PhoneProceeds
    \/ ~Draining /\ (App \/ ConnectFails \/ LinkTimeout \/ LinkError \/ Break \/ Unpair
                      \/ PageFails \/ Streaming \/ \E s \in Sockets : RejectsToken(s))

Spec == Init /\ [][Next]_vars

(***************************************************************************)
(* Fairness: timers fire, sockets that were closed report it, the desktop  *)
(* reads what arrives, notices a connection that is gone, and what it      *)
(* awaits settles.  Nothing is assumed of the app, of frames or of faults. *)
(***************************************************************************)
Fairness == WF_vars(DesktopProceeds) /\ WF_vars(PhoneProceeds)

FairSpec == Spec /\ Fairness

----------------------------------------------------------------------------
TypeOK ==
    /\ cast \in [Casts -> [at : Places, page : Pages, on : Casts \cup {NoCast}, marks : SUBSET Marks]]
    /\ waiters \in Seq(Casts)
    /\ hostEnd \in [Sockets -> {"none", "hello", "auth", "ready", "refused", "closed"}]
    /\ rs \in [Sockets -> {"none", "connecting", "open", "closing"}]
    /\ dead \subseteq Sockets
    /\ \A s \in Sockets : Len(up[s]) \in Nat /\ Len(down[s]) \in Nat
    /\ client.state \in {"connecting", "handshaking", "connected", "reconnecting",
                         "disconnected", "auth-failed"}
    /\ client.ws \in Sockets \cup {NoSocket}
    /\ client.attempt \in 0..GiveUp /\ client.rejections \in 0..AuthBudget
    /\ {client.timer, client.closed} \subseteq BOOLEAN
    /\ {client.active, client.pending} \subseteq Streams \cup {NoStream}
    /\ stream \in [Streams -> [st : {"new", "live", "tomb", "gone"}, sent : BOOLEAN,
                               sub : Sockets \cup {NoSocket}, page : Pages]]
    /\ req \in [Requests -> {"new", "waiting", "pending", "ok", "failed", "unknown",
                            "unauthorized"}]
    /\ paired \in BOOLEAN /\ ran \subseteq Requests
    /\ faults \in 0..MaxFaults

\* The client holds one socket or one timer, never both and never a second one:
\* whichever of a timeout, a close event, a late callback and the foreground comes
\* first, every other socket is closed, and a client that waits will dial.
OneConnection ==
    /\ client.timer <=> client.state = "reconnecting"
    /\ client.state \in {"connecting", "handshaking", "connected"} <=> ws # NoSocket
    /\ \A s \in Sockets \ {ws} : rs[s] \in {"none", "closing"}

\* rpc-client.ts, rejectAllPending: a request that failed without the mark of unknown
\* delivery was not executed, and is not executed later; unless it failed because the
\* desktop disowned the token.
FailedWasNotRun == \A r \in Requests : req[r] = "failed" => r \notin ran

\* rpc-client.ts, the close of a socket: "pending entries only exist after a successful
\* socket write, so a close here means the host may have processed them - mark the
\* ambiguity for callers".  No request that failed without the mark was executed.
UnmarkedWasNotRun ==
    \A r \in Requests : req[r] \in {"failed", "unauthorized"} => r \notin ran

\* rpc-client.ts, subscribe: frames carry no stream id, and are routed only after the
\* new stream's ready, "to drop stale old-page pixels".  The view that is shown gets no
\* frame of another one; unless that one's cast was admitted after a newer one.
Late(q) == "late" \in cast[q].marks
FramesReachOwnStream ==
    ws # NoSocket /\ down[ws] # <<>> /\ client.active # NoStream =>
        \A i \in Streams :
            Head(down[ws]) = <<"frame", i>> => client.active = i \/ Late(<<i, ws>>)

\* The desktop does not stream for nobody: a cast that runs on the phone's connection
\* belongs to a listener, or the order to end it is on its way, or the news that makes the
\* phone give the connection up; unless its stream was disposed under the subscription id
\* of an earlier connection.
NoOrphanCast ==
    client.state = "connected" /\ rs[ws] = "open" /\ ws \notin dead =>
        \A i \in Streams : cast[<<i, ws>>].at = "running" =>
            \/ stream[i].st \in {"live", "tomb"}
            \/ <<"unsubscribe", <<i, ws>>>> \in ToSet(up[ws])
            \/ <<"unauthorized", 0>> \in ToSet(down[ws])
            \/ stream[i].sub \notin {NoSocket, ws}

\* Whatever happens to connections and to other casts, the view that the user opened
\* last is shown, or told that it is not, on the connection the phone then has; unless
\* an older cast has been admitted after it.
Newest(i) == stream[i].st = "live" /\ \A j \in Streams : j > i => stream[j].st = "new"
Served(i) ==
    /\ client.state = "connected"
    /\ \/ client.active = i /\ cast[<<i, ws>>].at = "running"
       \/ "told" \in cast[<<i, ws>>].marks
       \/ \E j \in Streams : j < i /\ Late(<<j, ws>>)
StreamsResume ==
    []<>(\A i \in Streams : Newest(i) => Served(i) \/ client.closed \/ (client.timer /\ Unused = {}))
=============================================================================
