---------------------------- MODULE MobileProofs ----------------------------
(***************************************************************************)
(* Proofs about MobileRpc, for any number of streams, connections, pages,  *)
(* requests and faults: the client holds one socket or one timer, and a    *)
(* request that it reports as failed was not and will not be executed.     *)
(***************************************************************************)
EXTENDS MobileRpc, TLAPS, FiniteSetTheorems, SequenceTheorems, WellFoundedInduction

-----------------------------------------------------------------------------
(* The shapes of the phone, of the desktop, and of what they say.          *)

UpMessages ==
    {<<"hello", 0>>, <<"auth", 0>>} \cup ({"subscribe"} \X (Streams \X Pages))
        \cup ({"unsubscribe"} \X Casts) \cup ({"request"} \X Requests)
Handshake == {"e2ee_ready", "e2ee_authenticated", "e2ee_error"}
Rejection == <<"unauthorized", 0>>
CastMessages == {"ready", "error", "end", "frame"} \X Streams
DownMessages == (Handshake \X {0}) \cup CastMessages \cup ({"reply"} \X Requests) \cup {Rejection}

Alive == {"connecting", "handshaking", "connected"}
States == Alive \cup {"reconnecting", "disconnected", "auth-failed"}
Clients == [state : States, ws : Sockets \cup {NoSocket}, attempt : 0..GiveUp,
            rejections : 0..AuthBudget, timer : BOOLEAN, closed : BOOLEAN,
            active : Streams \cup {NoStream}, pending : Streams \cup {NoStream}]
StreamStates == [st : {"new", "live", "tomb", "gone"}, sent : BOOLEAN,
                 sub : Sockets \cup {NoSocket}, page : Pages]
Outcomes == {"new", "waiting", "pending", "ok", "failed", "unknown", "unauthorized"}
Ready == {"none", "connecting", "open", "closing"}
Ends == {"none", "hello", "auth", "ready", "refused", "closed"}

Phones == [client : Clients, stream : [Streams -> StreamStates],
           req : [Requests -> Outcomes], up : [Sockets -> Seq(UpMessages)],
           rs : [Sockets -> Ready]]

CastStates == [at : Places, page : Pages, on : Casts \cup {NoCast}, marks : SUBSET Marks]
Hosts == [cast : [Casts -> CastStates], waiters : Seq(Casts),
          down : [Sockets -> Seq(DownMessages)]]

Rest ==
    /\ hostEnd \in [Sockets -> Ends] /\ dead \subseteq Sockets
    /\ paired \in BOOLEAN /\ ran \subseteq Requests /\ faults \in 0..MaxFaults

-----------------------------------------------------------------------------
(* The inductive invariant.                                                *)

\* The message m is on its way in the queue Q.
In(Q, m) == \E k \in 1..Len(Q) : Q[k] = m

\* OneConnection, with what the client's state says of its socket.
Linked(c) ==
    /\ c.client.timer <=> c.client.state = "reconnecting"
    /\ c.client.state \in Alive <=> c.client.ws # NoSocket
    /\ \A s \in Sockets : s # c.client.ws => c.rs[s] \in {"none", "closing"}
    /\ c.client.state = "connecting" => c.rs[c.client.ws] = "connecting"
    /\ c.client.state \in {"handshaking", "connected"} =>
          c.rs[c.client.ws] \in {"open", "closing"}
    /\ c.client.closed <=> c.client.state \in {"disconnected", "auth-failed"}
    /\ ~c.client.closed => c.client.rejections < AuthBudget
    /\ c.client.state = "connected" => hostEnd[c.client.ws] \in {"ready", "closed"}

\* A request is pending only while the client is connected.
Pending(c) == \A r \in Requests : c.req[r] = "pending" => c.client.state = "connected"

\* A request that is reported as failed, or yet to be sent, was not sent.
Honest(c) == \A r \in Requests : c.req[r] \in {"new", "waiting", "failed"} =>
    r \notin ran /\ \A s \in Sockets : ~In(c.up[s], <<"request", r>>)

\* The message m, and message k of the queue Q, ask for stream i.
Asking(m, i) == m[1] = "subscribe" /\ m[2][1] = i
Asks(Q, k, i) == Asking(Q[k], i)
Asked(Q, i) == \E k \in 1..Len(Q) : Asks(Q, k, i)

\* On one connection a stream is asked for once, and its cast has not begun as long
\* as the request is on its way.
Once(c) ==
    /\ \A s \in Sockets, i \in Streams : \A j, k \in 1..Len(c.up[s]) :
          Asks(c.up[s], j, i) /\ Asks(c.up[s], k, i) => j = k
    /\ \A s \in Sockets, i \in Streams : Asked(c.up[s], i) => cast[<<i, s>>].at = "none"

\* A stream that is not sent has neither a request on its way nor a cast.
Unsent(c) == c.client.ws # NoSocket => \A i \in Streams :
    c.stream[i].st \in {"new", "live"} /\ ~c.stream[i].sent =>
        ~Asked(c.up[c.client.ws], i) /\ cast[<<i, c.client.ws>>].at = "none"

\* Frames are routed to streams that exist.
Routed(c) == \A i \in Streams : c.stream[i].st = "new" =>
    ~c.stream[i].sent /\ c.client.active # i /\ c.client.pending # i

\* Nothing has happened yet on a connection that has not been opened.
Unopened(c) == \A s \in Sockets : c.rs[s] \in {"none", "connecting"} =>
    /\ c.up[s] = <<>> /\ down[s] = <<>> /\ hostEnd[s] = "none"
    /\ \A i \in Streams : cast[<<i, s>>].at = "none"

Sound(c) ==
    /\ c \in Phones /\ Linked(c) /\ Pending(c) /\ Honest(c)
    /\ Once(c) /\ Unsent(c) /\ Routed(c) /\ Unopened(c)

Awaiting == {"page", "connection", "session"}

\* A cast waits once at most, in one of the three loops, and for another cast.
Queued(h) ==
    /\ \A j, k \in 1..Len(h.waiters) : h.waiters[j] = h.waiters[k] => j = k
    /\ \A k \in 1..Len(h.waiters) : h.cast[h.waiters[k]].at \in Awaiting

\* Only the desktop's word makes the client connected.
Vouched == \A s \in Sockets :
    In(down[s], <<"e2ee_authenticated", 0>>) => hostEnd[s] \in {"ready", "closed"}

MobileInv == Rest /\ Host \in Hosts /\ Sound(Phone) /\ Queued(Host) /\ Vouched

-----------------------------------------------------------------------------
(* Queues.                                                                 *)

LEMMA InEmpty == ASSUME NEW m PROVE ~In(<<>>, m)
BY DEF In

LEMMA AskedEmpty == ASSUME NEW i PROVE ~Asked(<<>>, i)
BY DEF Asked

LEMMA InAppend ==
    ASSUME NEW S, NEW Q \in Seq(S), NEW e \in S, NEW m
    PROVE  In(Append(Q, e), m) <=> In(Q, m) \/ m = e
<1>1. /\ Len(Q) \in Nat /\ Len(Append(Q, e)) = Len(Q) + 1
      /\ \A k \in 1..Len(Q) : Append(Q, e)[k] = Q[k]
      /\ Append(Q, e)[Len(Q) + 1] = e
    BY AppendProperties, LenProperties
<1> QED BY <1>1 DEF In

LEMMA AskedAppend ==
    ASSUME NEW S, NEW Q \in Seq(S), NEW e \in S, NEW i
    PROVE  /\ Asked(Append(Q, e), i) <=> Asked(Q, i) \/ Asking(e, i)
           /\ (\A j, k \in 1..Len(Q) : Asks(Q, j, i) /\ Asks(Q, k, i) => j = k)
              /\ ~(Asked(Q, i) /\ Asking(e, i))
              => \A j, k \in 1..Len(Append(Q, e)) :
                    Asks(Append(Q, e), j, i) /\ Asks(Append(Q, e), k, i) => j = k
<1>1. /\ Len(Q) \in Nat /\ Len(Append(Q, e)) = Len(Q) + 1
      /\ \A k \in 1..Len(Q) : Append(Q, e)[k] = Q[k]
      /\ Append(Q, e)[Len(Q) + 1] = e
    BY AppendProperties, LenProperties
<1>2. \A k \in 1..Len(Q) + 1 : k \in 1..Len(Q) \/ k = Len(Q) + 1
    BY <1>1
<1>3. \A k \in 1..Len(Q) : Asks(Append(Q, e), k, i) <=> Asks(Q, k, i)
    BY <1>1 DEF Asks
<1>4. Asks(Append(Q, e), Len(Q) + 1, i) <=> Asking(e, i)
    BY <1>1 DEF Asks
<1>5. Len(Q) + 1 \in 1..Len(Q) + 1 /\ \A k \in 1..Len(Q) : k \in 1..Len(Q) + 1
    BY <1>1
<1> QED BY <1>1, <1>2, <1>3, <1>4, <1>5, Zenon DEF Asked

LEMMA TailKeeps ==
    ASSUME NEW S, NEW Q \in Seq(S), Q # <<>>
    PROVE  /\ Tail(Q) \in Seq(S) /\ Head(Q) \in S /\ In(Q, Head(Q))
           /\ \A m : In(Tail(Q), m) => In(Q, m)
           /\ \A i : Asked(Tail(Q), i) => Asked(Q, i)
           /\ \A i : Asking(Head(Q), i) => Asked(Q, i)
           /\ \A i : (\A j, k \in 1..Len(Q) : Asks(Q, j, i) /\ Asks(Q, k, i) => j = k)
                     => /\ \A j, k \in 1..Len(Tail(Q)) :
                             Asks(Tail(Q), j, i) /\ Asks(Tail(Q), k, i) => j = k
                        /\ Asking(Head(Q), i) => ~Asked(Tail(Q), i)
<1>1. /\ Len(Q) \in Nat \ {0} /\ Len(Tail(Q)) = Len(Q) - 1
      /\ \A k \in 1..Len(Tail(Q)) : Tail(Q)[k] = Q[k + 1]
      /\ Tail(Q) \in Seq(S) /\ Head(Q) = Q[1] /\ Q[1] \in S
    BY HeadTailProperties, EmptySeq, LenProperties
<1>2. 1 \in 1..Len(Q) /\ \A k \in 1..Len(Tail(Q)) : k + 1 \in 1..Len(Q) /\ k + 1 # 1
    BY <1>1
<1>3. \A k \in 1..Len(Tail(Q)) : \A i : Asks(Tail(Q), k, i) <=> Asks(Q, k + 1, i)
    BY <1>1 DEF Asks
<1>4. \A i : Asks(Q, 1, i) <=> Asking(Head(Q), i)
    BY <1>1 DEF Asks
<1>5. ASSUME NEW i, \A j, k \in 1..Len(Q) : Asks(Q, j, i) /\ Asks(Q, k, i) => j = k
      PROVE  /\ \A j, k \in 1..Len(Tail(Q)) :
                             Asks(Tail(Q), j, i) /\ Asks(Tail(Q), k, i) => j = k
             /\ Asking(Head(Q), i) => ~Asked(Tail(Q), i)
  <2>1. ASSUME NEW j \in 1..Len(Tail(Q)), NEW k \in 1..Len(Tail(Q)),
               Asks(Tail(Q), j, i), Asks(Tail(Q), k, i)
        PROVE  j = k
    <3>1. j + 1 = k + 1
        BY <1>2, <1>3, <1>5, <2>1
    <3> QED BY <3>1, <1>1
  <2>2. Asking(Head(Q), i) => ~Asked(Tail(Q), i)
      BY <1>2, <1>3, <1>4, <1>5 DEF Asked
  <2> QED BY <2>1, <2>2
<1> QED BY <1>1, <1>2, <1>3, <1>4, <1>5 DEF In, Asked

-----------------------------------------------------------------------------
(* InOrder applies its operator to one element after the other.            *)

LEMMA MinimalSet ==
    ASSUME NEW U, IsFiniteSet(U), NEW T, T \subseteq SUBSET U, T # {}
    PROVE  \E m \in T : \A y \in T : y \subseteq m => y = m
<1>1. IsWellFoundedOn(StrictSubsetOrdering(U), SUBSET U)
    BY FS_StrictSubsetOrderingWellFounded, FS_FiniteSubsetsOfFinite
<1>2. PICK m \in T : \A y \in T : <<y, m>> \notin StrictSubsetOrdering(U)
    BY <1>1, WFMin
<1>3. ASSUME NEW y \in T, y \subseteq m, y # m PROVE FALSE
    BY <1>2, <1>3 DEF StrictSubsetOrdering
<1> QED BY <1>2, <1>3

Numbers(S) == S \subseteq Nat /\ IsFiniteSet(S)

LEMMA MaxIn ==
    ASSUME NEW S, Numbers(S), NEW T \in SUBSET S, T # {}
    PROVE  Max(T) \in T /\ \A y \in T : Max(T) >= y
<1> DEFINE Greatest(V, x) == x \in V /\ \A y \in V : x >= y
           Bad == {V \in SUBSET S : V # {} /\ ~\E x : Greatest(V, x)}
<1>1. Bad = {}
  <2> SUFFICES ASSUME Bad # {} PROVE FALSE
      OBVIOUS
  <2>1. PICK V \in Bad : \A W \in Bad : W \subseteq V => W = V
    <3>1. Bad \subseteq SUBSET S
        OBVIOUS
    <3>2. IsFiniteSet(S)
        BY DEF Numbers
    <3> HIDE DEF Bad
    <3>3. \E m \in Bad : \A y \in Bad : y \subseteq m => y = m
        BY <3>1, <3>2, MinimalSet
    <3> QED BY <3>3
  <2>2. PICK v \in V : v \in Nat
      BY DEF Numbers
  <2>3. V \ {v} # {}
    <3>1. V \ {v} = {} => Greatest(V, v)
        BY <2>2
    <3> QED BY <3>1
  <2>4. PICK x : Greatest(V \ {v}, x)
    <3>1. V \ {v} \in SUBSET S /\ V \ {v} \subseteq V /\ V \ {v} # V
        BY <2>2
    <3> QED BY <2>1, <2>3, <3>1
  <2>5. x \in Nat /\ x \in V
      BY <2>4 DEF Numbers
  <2>6. CASE x >= v
    <3>1. Greatest(V, x)
        BY <2>4, <2>5, <2>6
    <3> QED BY <3>1
  <2>7. CASE ~(x >= v)
    <3>1. \A y \in V : y \in Nat
        BY DEF Numbers
    <3>2. Greatest(V, v)
        BY <2>2, <2>4, <2>5, <2>7, <3>1
    <3> QED BY <3>2
  <2> QED BY <2>6, <2>7
<1>2. PICK x : Greatest(T, x)
    BY <1>1
<1> QED BY <1>2 DEF Max

\* What holds of no element, and of a set if it holds without its greatest element,
\* holds of all of them.
LEMMA Stepwise ==
    ASSUME NEW S, Numbers(S), NEW Good, {} \in Good,
           \A U \in SUBSET S : /\ Max(U) \in U /\ \A y \in U : Max(U) >= y
                              /\ U \ {Max(U)} \in Good
                              => U \in Good
    PROVE  S \in Good
<1> DEFINE Bad == {U \in SUBSET S : U \notin Good}
<1> SUFFICES ASSUME Bad # {} PROVE FALSE
    OBVIOUS
<1>1. PICK U \in Bad : \A W \in Bad : W \subseteq U => W = U
  <2>1. Bad \subseteq SUBSET S
      OBVIOUS
  <2>2. IsFiniteSet(S)
      BY DEF Numbers
  <2> HIDE DEF Bad
  <2>3. \E m \in Bad : \A y \in Bad : y \subseteq m => y = m
      BY <2>1, <2>2, MinimalSet
  <2> QED BY <2>3
<1>2. U # {} /\ U \in SUBSET S
    OBVIOUS
<1>3. Max(U) \in U /\ \A y \in U : Max(U) >= y
    BY <1>2, MaxIn
<1>4. U \ {Max(U)} \in Good
  <2>1. U \ {Max(U)} \in SUBSET S /\ U \ {Max(U)} \subseteq U /\ U \ {Max(U)} # U
      BY <1>2, <1>3
  <2> QED BY <1>1, <2>1
<1> QED BY <1>1, <1>2, <1>3, <1>4

\* What InOrder applies: the two operators that it is used with.
Turn(kind, c, x) == IF kind = "stream" THEN ReplayStream(c, x) ELSE SendRequest(c, x)
Turns(kind, c, S, g) ==
    g = [s \in SUBSET S |-> IF s = {} THEN c ELSE Turn(kind, g[s \ {Max(s)}], Max(s))]

LEMMA TurnsExist ==
    ASSUME NEW kind, NEW c, NEW S, Numbers(S)
    PROVE  \E g : Turns(kind, c, S, g)
<1> DEFINE Bad == {U \in SUBSET S : ~\E g : Turns(kind, c, U, g)}
<1> SUFFICES ASSUME Bad # {} PROVE FALSE
    OBVIOUS
<1>1. PICK U \in Bad : \A W \in Bad : W \subseteq U => W = U
  <2>1. Bad \subseteq SUBSET S
      OBVIOUS
  <2>2. IsFiniteSet(S)
      BY DEF Numbers
  <2> HIDE DEF Bad
  <2>3. \E m \in Bad : \A y \in Bad : y \subseteq m => y = m
      BY <2>1, <2>2, MinimalSet
  <2> QED BY <2>3
<1>2. U # {}
  <2>1. Turns(kind, c, {}, [s \in SUBSET {} |-> c])
      BY DEF Turns
  <2> QED BY <2>1
<1> DEFINE m == Max(U)
<1>3. m \in U /\ \A y \in U : m >= y
    BY <1>2, MaxIn
<1>4. \A s \in SUBSET U : m \in s => Max(s) = m
  <2> SUFFICES ASSUME NEW s \in SUBSET U, m \in s PROVE Max(s) = m
      OBVIOUS
  <2>1. Max(s) \in s /\ \A y \in s : Max(s) >= y
      BY MaxIn
  <2>2. Max(s) >= m /\ m >= Max(s) /\ m \in Nat /\ Max(s) \in Nat
      BY <1>3, <2>1 DEF Numbers
  <2> QED BY <2>2
<1>5. PICK g : Turns(kind, c, U \ {m}, g)
  <2>1. U \ {m} \in SUBSET S /\ U \ {m} \subseteq U /\ U \ {m} # U
      BY <1>3
  <2> QED BY <1>1, <2>1
<1> HIDE DEF m
<1> DEFINE h == [s \in SUBSET U |-> IF m \in s THEN Turn(kind, g[s \ {m}], m) ELSE g[s]]
<1>6. ASSUME NEW s \in SUBSET U
      PROVE  h[s] = IF s = {} THEN c ELSE Turn(kind, h[s \ {Max(s)}], Max(s))
  <2>1. CASE m \in s
    <3>1. h[s] = Turn(kind, g[s \ {m}], m) /\ h[s \ {m}] = g[s \ {m}]
        BY <2>1
    <3> QED BY <1>4, <2>1, <3>1
  <2>2. CASE m \notin s
    <3>1. s \in SUBSET (U \ {m})
        BY <2>2
    <3>2. g[s] = IF s = {} THEN c ELSE Turn(kind, g[s \ {Max(s)}], Max(s))
        BY <1>5, <3>1, Zenon DEF Turns
    <3>3. s \ {Max(s)} \in SUBSET U /\ m \notin s \ {Max(s)}
        BY <2>2
    <3>4. h[s] = g[s] /\ h[s \ {Max(s)}] = g[s \ {Max(s)}]
        BY <2>2, <3>3
    <3> QED BY <3>2, <3>4
  <2> QED BY <2>1, <2>2
<1>7. h = [s \in SUBSET U |-> h[s]]
    OBVIOUS
<1>8. Turns(kind, c, U, h)
  <2> HIDE DEF h
  <2> QED BY <1>6, <1>7, Zenon DEF Turns
<1> QED BY <1>8

\* Replaying the streams and sending the requests, as turns.
LEMMA InOrderTurns ==
    ASSUME NEW c, NEW S, Numbers(S)
    PROVE  /\ \E g : Turns("stream", c, S, g) /\ InOrder(ReplayStream, c, S) = g[S]
           /\ \E g : Turns("request", c, S, g) /\ InOrder(SendRequest, c, S) = g[S]
<1>1. InOrder(ReplayStream, c, S) = (CHOOSE g : Turns("stream", c, S, g))[S]
    BY DEF InOrder, MapThenFoldSet, Turns, Turn
<1>2. InOrder(SendRequest, c, S) = (CHOOSE g : Turns("request", c, S, g))[S]
    BY DEF InOrder, MapThenFoldSet, Turns, Turn
<1>3. /\ Turns("stream", c, S, CHOOSE g : Turns("stream", c, S, g))
      /\ Turns("request", c, S, CHOOSE g : Turns("request", c, S, g))
    BY TurnsExist, Zenon
<1> QED BY <1>1, <1>2, <1>3

-----------------------------------------------------------------------------
(* Losing a connection.                                                    *)

LEMMA Constants ==
    /\ Streams \subseteq Nat \ {0} /\ Sockets \subseteq Nat \ {0} /\ Requests \subseteq Nat
    /\ GiveUp \in Nat /\ AuthBudget \in Nat \ {0} /\ MaxFaults \in Nat
    /\ 0 \notin Streams /\ 0 \notin Sockets
    /\ NoSocket = 0 /\ NoStream = 0
BY CastAssumption, MobileAssumption DEF NoSocket, NoStream

\* The phone before the loss of its connection is handled: no socket is open.
Losing(c) ==
    /\ c \in Phones
    /\ \A s \in Sockets : c.rs[s] \in {"none", "closing"}
    /\ ~c.client.closed /\ ~c.client.timer /\ c.client.rejections < AuthBudget
    /\ Honest(c) /\ Once(c) /\ Routed(c) /\ Unopened(c)

\* What becomes of the requests: those that wait fail, those pending are over.
Released(c, d) == \A r \in Requests :
    \/ d.req[r] = c.req[r] /\ c.req[r] # "pending"
    \/ c.req[r] = "waiting" /\ d.req[r] = "failed"
    \/ c.req[r] = "pending" /\ d.req[r] \in {"unknown", "unauthorized"}

\* The client has let go of its connection, and forgotten no stream.
Dropped(c, d) ==
    /\ d.client.ws = NoSocket /\ d.client.active = NoStream /\ d.up = c.up
    /\ \A i \in Streams : d.stream[i].st = c.stream[i].st /\ d.stream[i].sub = c.stream[i].sub

LEMMA RejectEffect ==
    ASSUME NEW c \in Phones, NEW from \in Outcomes, NEW outcome \in Outcomes
    PROVE  LET d == Reject(c, from, outcome)
           IN  /\ d \in Phones
               /\ d.client = c.client /\ d.stream = c.stream /\ d.up = c.up /\ d.rs = c.rs
               /\ \A r \in Requests : d.req[r] = IF c.req[r] = from THEN outcome ELSE c.req[r]
BY DEF Reject, Phones

LEMMA DetachEffect ==
    ASSUME NEW c \in Phones
    PROVE  LET d == Detach(c)
           IN  /\ d \in Phones
               /\ d.req = c.req /\ d.up = c.up /\ d.rs = c.rs
               /\ d.client = [c.client EXCEPT !.ws = 0, !.active = 0, !.pending = 0]
               /\ \A i \in Streams : d.stream[i].st = c.stream[i].st /\ ~d.stream[i].sent
               /\ \A i \in Streams : d.stream[i].sub = c.stream[i].sub
<1> DEFINE e == [c EXCEPT !.client.ws = NoSocket]
           f == RouteNothing(e)
<1>1. /\ e \in Phones /\ e.client = [c.client EXCEPT !.ws = 0]
      /\ e.stream = c.stream /\ e.req = c.req /\ e.up = c.up /\ e.rs = c.rs
    BY Constants DEF Phones, Clients
<1>2. /\ f \in Phones /\ f.client = [c.client EXCEPT !.ws = 0, !.active = 0, !.pending = 0]
      /\ f.stream = c.stream /\ f.req = c.req /\ f.up = c.up /\ f.rs = c.rs
  <2> HIDE DEF e
  <2> QED BY <1>1, Constants DEF RouteNothing, Phones, Clients
<1> HIDE DEF e, f
<1>3. Detach(c) = [f EXCEPT !.stream = [i \in Streams |-> [f.stream[i] EXCEPT !.sent = FALSE]]]
    BY DEF Detach, markStreamsForReplay, e, f
<1>4. \A x \in StreamStates : /\ [x EXCEPT !.sent = FALSE] \in StreamStates
                              /\ [x EXCEPT !.sent = FALSE].st = x.st
                              /\ [x EXCEPT !.sent = FALSE].sub = x.sub
                              /\ [x EXCEPT !.sent = FALSE].sent = FALSE
    BY DEF StreamStates
<1>5. f.stream \in [Streams -> StreamStates]
    BY <1>2 DEF Phones
<1> DEFINE F == [i \in Streams |-> [f.stream[i] EXCEPT !.sent = FALSE]]
<1>6. /\ F \in [Streams -> StreamStates]
      /\ \A i \in Streams : F[i].st = f.stream[i].st /\ ~F[i].sent /\ F[i].sub = f.stream[i].sub
    BY <1>4, <1>5
<1>7. Detach(c) = [f EXCEPT !.stream = F]
    BY <1>3
<1> HIDE DEF F
<1>8. /\ [f EXCEPT !.stream = F] \in Phones
      /\ [f EXCEPT !.stream = F].stream = F /\ [f EXCEPT !.stream = F].client = f.client
      /\ [f EXCEPT !.stream = F].req = f.req /\ [f EXCEPT !.stream = F].up = f.up
      /\ [f EXCEPT !.stream = F].rs = f.rs
    BY <1>2, <1>6 DEF Phones
<1> QED BY <1>2, <1>6, <1>7, <1>8

LEMMA ReconnectEffect ==
    ASSUME NEW c \in Phones
    PROVE  LET d == scheduleReconnect(c)
           IN  /\ d \in Phones
               /\ d.stream = c.stream /\ d.up = c.up /\ d.rs = c.rs
               /\ d.client.state = "reconnecting" /\ d.client.timer
               /\ d.client.ws = c.client.ws /\ d.client.closed = c.client.closed
               /\ d.client.rejections = c.client.rejections
               /\ d.client.active = c.client.active /\ d.client.pending = c.client.pending
               /\ \A r \in Requests : \/ d.req[r] = c.req[r]
                                      \/ c.req[r] = "waiting" /\ d.req[r] = "failed"
<1> DEFINE g == InState([c EXCEPT !.client.timer = TRUE], "reconnecting")
<1>1. /\ g \in Phones /\ g.client = [c.client EXCEPT !.timer = TRUE, !.state = "reconnecting"]
      /\ g.stream = c.stream /\ g.req = c.req /\ g.up = c.up /\ g.rs = c.rs
    BY DEF InState, Phones, Clients, States
<1>2. scheduleReconnect(c) = IF c.client.attempt >= GiveUp THEN rejectConnectWaiters(g)
                             ELSE [g EXCEPT !.client.attempt = @ + 1]
    BY DEF scheduleReconnect
<1>3. c.client.attempt \in 0..GiveUp /\ c.client \in Clients /\ g.client.attempt = c.client.attempt
    BY <1>1 DEF Phones, Clients
<1> HIDE DEF g
<1>4. CASE c.client.attempt >= GiveUp
  <2> DEFINE d == rejectConnectWaiters(g)
  <2>1. /\ d \in Phones
        /\ d.client = g.client /\ d.stream = g.stream /\ d.up = g.up /\ d.rs = g.rs
        /\ \A r \in Requests : d.req[r] = IF g.req[r] = "waiting" THEN "failed" ELSE g.req[r]
      BY <1>1, RejectEffect DEF rejectConnectWaiters, Outcomes
  <2> HIDE DEF d
  <2>2. scheduleReconnect(c) = d
      BY <1>2, <1>4 DEF d
  <2>3. /\ g.client.state = "reconnecting" /\ g.client.timer = TRUE
        /\ g.client.ws = c.client.ws /\ g.client.closed = c.client.closed
        /\ g.client.rejections = c.client.rejections
        /\ g.client.active = c.client.active /\ g.client.pending = c.client.pending
      BY <1>1, <1>3 DEF Clients
  <2>4. \A r \in Requests : \/ d.req[r] = c.req[r]
                            \/ c.req[r] = "waiting" /\ d.req[r] = "failed"
      BY <1>1, <2>1
  <2> QED BY <1>1, <2>1, <2>2, <2>3, <2>4
<1>5. CASE ~(c.client.attempt >= GiveUp)
  <2> DEFINE d == [g EXCEPT !.client.attempt = @ + 1]
  <2>1. g.client.attempt + 1 \in 0..GiveUp
      BY <1>3, <1>5, Constants
  <2>2. /\ d \in Phones /\ d.client = [g.client EXCEPT !.attempt = g.client.attempt + 1]
        /\ d.stream = g.stream /\ d.req = g.req /\ d.up = g.up /\ d.rs = g.rs
      BY <1>1, <2>1 DEF Phones, Clients
  <2> HIDE DEF d
  <2>3. scheduleReconnect(c) = d
      BY <1>2, <1>5 DEF d
  <2>4. /\ d.client.state = "reconnecting" /\ d.client.timer = TRUE
        /\ d.client.ws = c.client.ws /\ d.client.closed = c.client.closed
        /\ d.client.rejections = c.client.rejections
        /\ d.client.active = c.client.active /\ d.client.pending = c.client.pending
      BY <1>1, <1>3, <2>2 DEF Clients
  <2> QED BY <1>1, <2>2, <2>3, <2>4
<1> QED BY <1>4, <1>5

LEMMA CloseSocketEffect ==
    ASSUME NEW c \in Phones, c.client.ws # 0
    PROVE  LET d == CloseSocket(c)
           IN  /\ d \in Phones
               /\ d.client = c.client /\ d.stream = c.stream /\ d.req = c.req /\ d.up = c.up
               /\ d.rs = [c.rs EXCEPT ![c.client.ws] = "closing"]
BY Constants DEF CloseSocket, Phones, Clients, Ready

\* A client that has a socket closes it.
LEMMA ClosedLosing ==
    ASSUME NEW c, Sound(c), c.client.ws # 0
    PROVE  Losing(CloseSocket(c))
<1> DEFINE d == CloseSocket(c)
<1>1. /\ d \in Phones
      /\ d.client = c.client /\ d.stream = c.stream /\ d.req = c.req /\ d.up = c.up
      /\ d.rs = [c.rs EXCEPT ![c.client.ws] = "closing"]
    BY CloseSocketEffect DEF Sound
<1> HIDE DEF d
<1>2. c \in Phones /\ Linked(c) /\ Unopened(c) /\ c.rs \in [Sockets -> Ready] /\ c.client.state \in States
    BY DEF Sound, Phones, Clients
<1>3. c.client.ws \in Sockets /\ c.client.state \in Alive
    BY <1>2, Constants DEF Phones, Clients, Linked
<1>4. ~c.client.closed /\ ~c.client.timer /\ c.client.rejections < AuthBudget
    BY <1>2, <1>3 DEF Linked, Alive
<1>5. \A s \in Sockets : d.rs[s] \in {"none", "closing"}
    BY <1>1, <1>2, <1>3, Constants DEF Linked
<1>6. \A s \in Sockets : d.rs[s] \in {"none", "connecting"} => c.rs[s] \in {"none", "connecting"}
    BY <1>1, <1>2, <1>3
<1>7. Honest(d) /\ Once(d) /\ Routed(d)
    BY <1>1 DEF Sound, Honest, Once, Routed
<1>8. Unopened(d)
    BY <1>1, <1>2, <1>6 DEF Unopened
<1> QED BY <1>1, <1>4, <1>5, <1>7, <1>8 DEF Losing, d

\* A connected client whose socket is not open has closed it.
LEMMA ConnectedLosing ==
    ASSUME NEW c, Sound(c), c.client.state = "connected", ~CanSend(c)
    PROVE  Losing(c)
<1>1. c \in Phones /\ Linked(c) /\ c.client.ws \in Sockets
    BY Constants DEF Sound, Phones, Clients, Linked, Alive
<1>2. c.rs[c.client.ws] \in {"none", "closing"}
    BY <1>1, Constants DEF CanSend, Linked
<1>3. ~c.client.closed /\ ~c.client.timer
    BY <1>1 DEF Linked
<1> QED BY <1>1, <1>2, <1>3 DEF Sound, Losing, Linked

\* Requests that fail have not been sent.
LEMMA ReleasedHonest ==
    ASSUME NEW c, NEW d, Honest(c), Released(c, d), d.up = c.up
    PROVE  Honest(d) /\ \A r \in Requests : d.req[r] # "pending"
BY DEF Honest, Released

\* The end of a connection after which the client dials again.
LEMMA LosingLost ==
    ASSUME NEW c, Losing(c)
    PROVE  /\ Sound(handleSocketClosed(c, FALSE))
           /\ handleSocketClosed(c, FALSE).client.state = "reconnecting"
           /\ Released(c, handleSocketClosed(c, FALSE))
           /\ handleSocketClosed(c, FALSE).client.pending = NoStream
           /\ \A i \in Streams : /\ handleSocketClosed(c, FALSE).stream[i].st = c.stream[i].st
                                 /\ ~handleSocketClosed(c, FALSE).stream[i].sent
           /\ Dropped(c, handleSocketClosed(c, FALSE))
<1> DEFINE e == Detach(c)
           f == rejectAllPending(e, TRUE)
           d == scheduleReconnect(f)
<1>0. handleSocketClosed(c, FALSE) = d /\ c \in Phones
    BY DEF handleSocketClosed, Losing
<1>1. /\ e \in Phones /\ e.req = c.req /\ e.up = c.up /\ e.rs = c.rs
      /\ e.client = [c.client EXCEPT !.ws = 0, !.active = 0, !.pending = 0]
      /\ \A i \in Streams : e.stream[i].st = c.stream[i].st /\ ~e.stream[i].sent
      /\ \A i \in Streams : e.stream[i].sub = c.stream[i].sub
    BY <1>0, DetachEffect
<1> HIDE DEF e
<1>2. /\ f \in Phones
      /\ f.client = e.client /\ f.stream = e.stream /\ f.up = e.up /\ f.rs = e.rs
      /\ \A r \in Requests : f.req[r] = IF e.req[r] = "pending" THEN "unknown" ELSE e.req[r]
    BY <1>1, RejectEffect DEF rejectAllPending, Outcomes
<1> HIDE DEF f
<1>3. /\ d \in Phones
      /\ d.stream = f.stream /\ d.up = f.up /\ d.rs = f.rs
      /\ d.client.state = "reconnecting" /\ d.client.timer
      /\ d.client.ws = f.client.ws /\ d.client.closed = f.client.closed
      /\ d.client.rejections = f.client.rejections
      /\ d.client.active = f.client.active /\ d.client.pending = f.client.pending
      /\ \A r \in Requests : \/ d.req[r] = f.req[r]
                             \/ f.req[r] = "waiting" /\ d.req[r] = "failed"
    BY <1>2, ReconnectEffect
<1> HIDE DEF d
<1>4. c.client \in Clients
    BY <1>0 DEF Phones
<1>5. /\ d.client.ws = 0 /\ d.client.active = 0 /\ d.client.pending = 0
      /\ d.client.closed = c.client.closed /\ d.client.rejections = c.client.rejections
    BY <1>1, <1>2, <1>3, <1>4 DEF Clients
<1>6. Released(c, d)
    BY <1>1, <1>2, <1>3 DEF Released
<1>7. d.up = c.up /\ d.rs = c.rs /\ \A i \in Streams : d.stream[i].st = c.stream[i].st /\ ~d.stream[i].sent
    BY <1>1, <1>2, <1>3
<1>8. Honest(d) /\ Pending(d)
    BY <1>6, <1>7, ReleasedHonest DEF Losing, Pending
<1>9. Once(d) /\ Unsent(d) /\ Routed(d) /\ Unopened(d)
    BY <1>5, <1>7, Constants DEF Losing, Once, Unsent, Routed, Unopened
<1>10. Linked(d)
    BY <1>3, <1>5, <1>7, Constants DEF Losing, Linked, Alive
<1>11. Dropped(c, d)
    BY <1>1, <1>2, <1>3, <1>5, <1>7, Constants DEF Dropped
<1> QED BY <1>0, <1>3, <1>5, <1>6, <1>7, <1>8, <1>9, <1>10, <1>11, Constants DEF Sound

\* The end of a connection that the desktop has refused, or whose token it disowned.
LEMMA RejectionSound ==
    ASSUME NEW c \in Phones, Losing(IF c.client.ws = 0 THEN c ELSE CloseSocket(c))
    PROVE  Sound(handleAuthRejection(c)) /\ Dropped(c, handleAuthRejection(c))
<1> DEFINE b == IF c.client.ws = NoSocket THEN c ELSE CloseSocket(c)
           e == [b EXCEPT !.client.rejections = @ + 1]
           g == RouteNothing(e)
<1>1. /\ Losing(b) /\ b \in Phones /\ b.client = c.client /\ b.req = c.req
      /\ b.stream = c.stream /\ b.up = c.up
    BY CloseSocketEffect, Constants DEF Losing
<1> HIDE DEF b
<1>2. /\ b.client.rejections \in Nat /\ b.client.rejections + 1 \in 0..AuthBudget
      /\ b.client \in Clients
    BY <1>1, Constants DEF Losing, Phones, Clients
<1>3. /\ e \in Phones /\ e.client = [b.client EXCEPT !.rejections = b.client.rejections + 1]
      /\ e.stream = b.stream /\ e.req = b.req /\ e.up = b.up /\ e.rs = b.rs
    BY <1>1, <1>2 DEF Phones, Clients
<1> HIDE DEF e
<1>4. /\ g \in Phones /\ g.client = [e.client EXCEPT !.active = 0, !.pending = 0]
      /\ g.stream = b.stream /\ g.req = b.req /\ g.up = b.up /\ g.rs = b.rs
    BY <1>3, Constants DEF RouteNothing, Phones, Clients
<1>5. /\ g.client.rejections = b.client.rejections + 1
      /\ g.client.timer = b.client.timer /\ g.client.closed = b.client.closed
      /\ g.client.active = 0 /\ g.client.pending = 0
    BY <1>2, <1>3, <1>4 DEF Clients
<1>6. handleAuthRejection(c) =
        IF g.client.rejections < AuthBudget
        THEN scheduleReconnect(rejectAllPending(Detach(g), FALSE))
        ELSE rejectAllPending(rejectConnectWaiters(
                InState([g EXCEPT !.client.closed = TRUE, !.client.ws = NoSocket], "auth-failed")), FALSE)
    BY DEF handleAuthRejection, b, e
<1> HIDE DEF g
<1>8. Once(g) /\ Honest(g) /\ Routed(g) /\ Unopened(g)
    BY <1>1, <1>4, <1>5, Constants DEF Losing, Once, Honest, Routed, Unopened
<1>9. CASE g.client.rejections < AuthBudget
  <2> DEFINE f == Detach(g)
             h == rejectAllPending(f, FALSE)
             d == scheduleReconnect(h)
  <2>1. /\ f \in Phones /\ f.req = g.req /\ f.up = g.up /\ f.rs = g.rs
        /\ f.client = [g.client EXCEPT !.ws = 0, !.active = 0, !.pending = 0]
        /\ \A i \in Streams : f.stream[i].st = g.stream[i].st /\ ~f.stream[i].sent
        /\ \A i \in Streams : f.stream[i].sub = g.stream[i].sub
      BY <1>4, DetachEffect
  <2> HIDE DEF f
  <2>2. /\ h \in Phones
        /\ h.client = f.client /\ h.stream = f.stream /\ h.up = f.up /\ h.rs = f.rs
        /\ \A r \in Requests : h.req[r] = IF f.req[r] = "pending" THEN "unauthorized" ELSE f.req[r]
      BY <2>1, RejectEffect DEF rejectAllPending, Outcomes
  <2> HIDE DEF h
  <2>3. /\ d \in Phones
        /\ d.stream = h.stream /\ d.up = h.up /\ d.rs = h.rs
        /\ d.client.state = "reconnecting" /\ d.client.timer
        /\ d.client.ws = h.client.ws /\ d.client.closed = h.client.closed
        /\ d.client.rejections = h.client.rejections
        /\ d.client.active = h.client.active /\ d.client.pending = h.client.pending
        /\ \A r \in Requests : \/ d.req[r] = h.req[r]
                               \/ h.req[r] = "waiting" /\ d.req[r] = "failed"
      BY <2>2, ReconnectEffect
  <2>4. d = handleAuthRejection(c)
      BY <1>6, <1>9 DEF h, f
  <2> HIDE DEF d
  <2>5. g.client \in Clients
      BY <1>4 DEF Phones
  <2>6. /\ d.client.ws = 0 /\ d.client.active = 0 /\ d.client.pending = 0
        /\ d.client.closed = g.client.closed /\ d.client.rejections < AuthBudget
      BY <1>9, <2>1, <2>2, <2>3, <2>5 DEF Clients
  <2>7. d.up = g.up /\ d.rs = g.rs /\ \A i \in Streams : d.stream[i].st = g.stream[i].st /\ ~d.stream[i].sent
      BY <2>1, <2>2, <2>3
  <2>8. Released(g, d)
      BY <2>1, <2>2, <2>3 DEF Released
  <2>9. Honest(d) /\ Pending(d)
      BY <1>8, <2>7, <2>8, ReleasedHonest DEF Pending
  <2>10. Once(d) /\ Unsent(d) /\ Routed(d) /\ Unopened(d)
    <3>1. Once(d) /\ Unopened(d)
        BY <1>8, <2>7 DEF Once, Unopened
    <3>2. Unsent(d)
        BY <2>6, Constants DEF Unsent
    <3>3. Routed(d)
        BY <1>8, <2>6, <2>7, Constants DEF Routed
    <3> QED BY <3>1, <3>2, <3>3
  <2>11. Linked(d)
      BY <1>1, <1>4, <1>5, <2>3, <2>6, <2>7, Constants DEF Losing, Linked, Alive
  <2>12. Dropped(c, d)
      BY <1>1, <1>4, <2>1, <2>2, <2>3, <2>6, <2>7, Constants DEF Dropped
  <2> QED BY <2>3, <2>4, <2>9, <2>10, <2>11, <2>12 DEF Sound
<1>10. CASE ~(g.client.rejections < AuthBudget)
  <2> DEFINE f == InState([g EXCEPT !.client.closed = TRUE, !.client.ws = NoSocket], "auth-failed")
             h == rejectConnectWaiters(f)
             d == rejectAllPending(h, FALSE)
  <2>1. /\ f \in Phones /\ f.stream = g.stream /\ f.req = g.req /\ f.up = g.up /\ f.rs = g.rs
        /\ f.client = [g.client EXCEPT !.closed = TRUE, !.ws = 0, !.state = "auth-failed"]
      BY <1>4, Constants DEF InState, Phones, Clients, States
  <2> HIDE DEF f
  <2>2. /\ h \in Phones
        /\ h.client = f.client /\ h.stream = f.stream /\ h.up = f.up /\ h.rs = f.rs
        /\ \A r \in Requests : h.req[r] = IF f.req[r] = "waiting" THEN "failed" ELSE f.req[r]
      BY <2>1, RejectEffect DEF rejectConnectWaiters, Outcomes
  <2> HIDE DEF h
  <2>3. /\ d \in Phones
        /\ d.client = h.client /\ d.stream = h.stream /\ d.up = h.up /\ d.rs = h.rs
        /\ \A r \in Requests : d.req[r] = IF h.req[r] = "pending" THEN "unauthorized" ELSE h.req[r]
      BY <2>2, RejectEffect DEF rejectAllPending, Outcomes
  <2>4. d = handleAuthRejection(c)
      BY <1>6, <1>10 DEF h, f
  <2> HIDE DEF d
  <2>5. g.client \in Clients
      BY <1>4 DEF Phones
  <2>6. /\ d.client.ws = 0 /\ d.client.active = 0 /\ d.client.pending = 0
        /\ d.client.closed = TRUE /\ d.client.state = "auth-failed"
        /\ d.client.timer = g.client.timer
      BY <1>5, <2>1, <2>2, <2>3, <2>5 DEF Clients
  <2>7. d.up = g.up /\ d.rs = g.rs /\ d.stream = g.stream
      BY <2>1, <2>2, <2>3
  <2>8. Released(g, d)
      BY <2>1, <2>2, <2>3 DEF Released
  <2>9. Honest(d) /\ Pending(d)
      BY <1>8, <2>7, <2>8, ReleasedHonest DEF Pending
  <2>10. Once(d) /\ Unsent(d) /\ Routed(d) /\ Unopened(d)
    <3>1. Once(d) /\ Unopened(d)
        BY <1>8, <2>7 DEF Once, Unopened
    <3>2. Unsent(d)
        BY <2>6, Constants DEF Unsent
    <3>3. Routed(d)
        BY <1>8, <2>6, <2>7, Constants DEF Routed
    <3> QED BY <3>1, <3>2, <3>3
  <2>11. Linked(d)
      BY <1>1, <1>4, <1>5, <2>6, <2>7, Constants DEF Losing, Linked, Alive
  <2>12. Dropped(c, d)
      BY <1>1, <1>4, <2>6, <2>7, Constants DEF Dropped
  <2> QED BY <2>3, <2>4, <2>9, <2>10, <2>11, <2>12 DEF Sound
<1> QED BY <1>9, <1>10

-----------------------------------------------------------------------------
(* Sending.                                                                *)

\* A step of a connected client, or of one that lost its connection, leaves it so, and
\* sends none of the requests that wait.
Steady(c, d) ==
    /\ \A r \in Requests : c.req[r] \in {"waiting", "failed"} => d.req[r] \in {"waiting", "failed"}
    /\ c.client.state \in {"connected", "reconnecting"} =>
          d.client.state \in {"connected", "reconnecting"}

\* Stream i is left alone, but may have to be sent again.
Spared(c, d, i) ==
    /\ d.stream[i].st = c.stream[i].st /\ (d.stream[i].sent => c.stream[i].sent)
    /\ d.client.pending = i => c.client.pending = i

\* The message m is put on the connection.
Posted(c, d, m) ==
    /\ d.client = c.client /\ d.stream = c.stream /\ d.req = c.req /\ d.rs = c.rs
    /\ d.up = [c.up EXCEPT ![c.client.ws] = Append(@, m)]

LEMMA SendCases ==
    ASSUME NEW c, Sound(c), NEW kind, NEW x
    PROVE  LET d == Send(c, kind, x)
           IN  /\ CanSend(c) => d = c \/ Posted(c, d, <<kind, x>>)
               /\ ~CanSend(c) => /\ Sound(d) /\ Steady(c, d)
                                 /\ \A i \in Streams : Spared(c, d, i)
                                 /\ ~CanSend(d)
<1>0. c \in Phones
    BY DEF Sound
<1>1. CASE CanSend(c) /\ c.client.ws \in dead
    BY <1>1 DEF Send
<1>2. CASE CanSend(c) /\ c.client.ws \notin dead
  <2>1. Send(c, kind, x) = [c EXCEPT !.up[c.client.ws] = Append(@, <<kind, x>>)]
      BY <1>2 DEF Send
  <2> QED BY <1>0, <1>2, <2>1 DEF Phones, Posted
<1>3. CASE ~CanSend(c) /\ c.client.state = "connected"
  <2>1. Losing(c)
      BY <1>3, ConnectedLosing
  <2>2. Send(c, kind, x) = handleSocketClosed(c, FALSE)
      BY <1>3 DEF Send
  <2> DEFINE d == handleSocketClosed(c, FALSE)
  <2>3. /\ Sound(d) /\ d.client.state = "reconnecting" /\ Released(c, d)
        /\ d.client.pending = NoStream
        /\ \A i \in Streams : d.stream[i].st = c.stream[i].st /\ ~d.stream[i].sent
      BY <2>1, LosingLost
  <2> HIDE DEF d
  <2>4. d.client.ws = NoSocket
      BY <2>3 DEF Sound, Linked, Alive
  <2>5. Steady(c, d)
      BY <2>3 DEF Steady, Released
  <2>6. ~CanSend(d) /\ \A i \in Streams : Spared(c, d, i)
      BY <2>3, <2>4, Constants DEF CanSend, Spared
  <2> QED BY <1>3, <2>2, <2>3, <2>5, <2>6 DEF d
<1>4. CASE ~CanSend(c) /\ c.client.state # "connected"
  <2>1. Send(c, kind, x) = c
      BY <1>4 DEF Send
  <2> QED BY <1>4, <2>1 DEF Steady, Spared
<1> QED BY <1>1, <1>2, <1>3, <1>4

\* A message is put on the open connection: what that cannot disturb.
PutOn(c, d, m) ==
    /\ Linked(d) /\ Pending(d) /\ Routed(d) /\ Unopened(d)
    /\ c.client.ws \in Sockets
    /\ \A s \in Sockets : s # c.client.ws => d.up[s] = c.up[s]
    /\ \A n : In(d.up[c.client.ws], n) <=> In(c.up[c.client.ws], n) \/ n = m
    /\ \A i \in Streams : Asked(d.up[c.client.ws], i) <=> Asked(c.up[c.client.ws], i) \/ Asking(m, i)

LEMMA PostedKeeps ==
    ASSUME NEW c, Sound(c), CanSend(c), NEW m \in UpMessages, NEW d, Posted(c, d, m),
           d \in Phones
    PROVE  PutOn(c, d, m)
<1>1. /\ c \in Phones /\ c.client.ws \in Sockets /\ c.up \in [Sockets -> Seq(UpMessages)]
      /\ c.rs[c.client.ws] = "open"
    BY Constants DEF Sound, Phones, Clients, CanSend
<1>2. d.up[c.client.ws] = Append(c.up[c.client.ws], m) /\ c.up[c.client.ws] \in Seq(UpMessages)
    BY <1>1 DEF Posted
<1>3. \A s \in Sockets : s # c.client.ws => d.up[s] = c.up[s]
    BY <1>1 DEF Posted
<1>4. Linked(d) /\ Pending(d) /\ Routed(d)
    BY DEF Sound, Posted, Linked, Pending, Routed
<1>5. Unopened(d)
  <2> SUFFICES ASSUME NEW s \in Sockets, d.rs[s] \in {"none", "connecting"}
               PROVE  /\ d.up[s] = <<>> /\ down[s] = <<>> /\ hostEnd[s] = "none"
                      /\ \A i \in Streams : cast[<<i, s>>].at = "none"
      BY DEF Unopened
  <2>1. c.rs[s] \in {"none", "connecting"} /\ s # c.client.ws
      BY <1>1 DEF Posted
  <2> QED BY <1>3, <2>1 DEF Sound, Unopened
<1>6. \A n : In(d.up[c.client.ws], n) <=> In(c.up[c.client.ws], n) \/ n = m
    BY <1>2, InAppend
<1>7. \A i \in Streams : Asked(d.up[c.client.ws], i) <=> Asked(c.up[c.client.ws], i) \/ Asking(m, i)
    BY <1>2, AskedAppend
<1> QED BY <1>1, <1>3, <1>4, <1>5, <1>6, <1>7 DEF PutOn

\* A stream is asked for once, and its cast has not begun.
LEMMA PostedOnce ==
    ASSUME NEW c, Sound(c), CanSend(c), NEW m \in UpMessages, NEW d, Posted(c, d, m), d \in Phones,
           \A i \in Streams : Asking(m, i) =>
               ~Asked(c.up[c.client.ws], i) /\ cast[<<i, c.client.ws>>].at = "none"
    PROVE  Once(d)
<1> DEFINE w == c.client.ws
<1>1. /\ w \in Sockets /\ d.up[w] = Append(c.up[w], m) /\ c.up[w] \in Seq(UpMessages)
      /\ \A s \in Sockets : s # w => d.up[s] = c.up[s]
  <2>1. c \in Phones /\ w \in Sockets /\ c.up \in [Sockets -> Seq(UpMessages)]
      BY Constants DEF Sound, Phones, Clients, CanSend
  <2> QED BY <2>1 DEF Posted
<1> HIDE DEF w
<1>2. ASSUME NEW i \in Streams
      PROVE  /\ \A j, k \in 1..Len(d.up[w]) : Asks(d.up[w], j, i) /\ Asks(d.up[w], k, i) => j = k
             /\ Asked(d.up[w], i) => cast[<<i, w>>].at = "none"
  <2>1. /\ \A j, k \in 1..Len(c.up[w]) : Asks(c.up[w], j, i) /\ Asks(c.up[w], k, i) => j = k
        /\ Asked(c.up[w], i) => cast[<<i, w>>].at = "none"
      BY <1>1 DEF Sound, Once
  <2>2. Asking(m, i) => ~Asked(c.up[w], i) /\ cast[<<i, w>>].at = "none"
      BY DEF w
  <2>3. \A j, k \in 1..Len(d.up[w]) : Asks(d.up[w], j, i) /\ Asks(d.up[w], k, i) => j = k
      BY <1>1, <2>1, <2>2, AskedAppend
  <2>4. Asked(d.up[w], i) <=> Asked(c.up[w], i) \/ Asking(m, i)
      BY <1>1, AskedAppend
  <2> QED BY <2>1, <2>2, <2>3, <2>4
<1>3. \A s \in Sockets : s # w =>
        /\ \A i \in Streams : \A j, k \in 1..Len(d.up[s]) :
              Asks(d.up[s], j, i) /\ Asks(d.up[s], k, i) => j = k
        /\ \A i \in Streams : Asked(d.up[s], i) => cast[<<i, s>>].at = "none"
    BY <1>1 DEF Sound, Once
<1> QED BY <1>2, <1>3 DEF Once

\* Messages that are neither requests nor subscriptions.
LEMMA PlainSound ==
    ASSUME NEW c, Sound(c), NEW kind \in {"hello", "auth", "unsubscribe"}, NEW x,
           <<kind, x>> \in UpMessages
    PROVE  LET d == Send(c, kind, x)
           IN  Sound(d) /\ Steady(c, d) /\ \A i \in Streams : Spared(c, d, i)
<1> DEFINE d == Send(c, kind, x)
           m == <<kind, x>>
<1>1. CASE CanSend(c) /\ d # c
  <2>1. Posted(c, d, m)
      BY <1>1, SendCases
  <2>2. c \in Phones /\ c.client.ws \in Sockets
      BY <1>1, Constants DEF Sound, Phones, Clients, CanSend
  <2>3. d \in Phones
    <3>1. c.client.ws \notin dead
        BY <1>1 DEF Send
    <3>2. d = [c EXCEPT !.up[c.client.ws] = Append(@, m)]
        BY <1>1, <3>1 DEF Send
    <3>3. Append(c.up[c.client.ws], m) \in Seq(UpMessages)
        BY <2>2, AppendProperties DEF Phones
    <3> HIDE DEF d, m
    <3> QED BY <2>2, <3>2, <3>3 DEF Phones
  <2>4. /\ \A i \in Streams : ~Asking(m, i)
        /\ \A r \in Requests : m # <<"request", r>>
    <3>1. kind # "subscribe" /\ kind # "request"
        OBVIOUS
    <3> QED BY <3>1 DEF Asking
  <2>5. m \in UpMessages
      OBVIOUS
  <2> HIDE DEF d, m
  <2>6. Once(d)
      BY <1>1, <2>1, <2>3, <2>4, <2>5, PostedOnce
  <2>7. PutOn(c, d, m)
      BY <1>1, <2>1, <2>3, <2>5, PostedKeeps
  <2>8. Honest(d)
    <3>1. \A r \in Requests, s \in Sockets : In(d.up[s], <<"request", r>>) => In(c.up[s], <<"request", r>>)
        BY <2>4, <2>7 DEF PutOn
    <3> QED BY <2>1, <3>1 DEF Sound, Honest, Posted
  <2>9. Unsent(d)
      BY <2>1, <2>4, <2>7 DEF Sound, Unsent, Posted, PutOn
  <2>10. Steady(c, d) /\ \A i \in Streams : Spared(c, d, i)
      BY <2>1 DEF Steady, Spared, Posted
  <2> QED BY <2>3, <2>6, <2>7, <2>8, <2>9, <2>10 DEF Sound, PutOn, d
<1>2. CASE d = c
    BY <1>2 DEF Steady, Spared
<1>3. CASE ~CanSend(c)
    BY <1>3, SendCases
<1> QED BY <1>1, <1>2, <1>3

\* On an open connection a message is put on it, or lost with it.
LEMMA SendOpen ==
    ASSUME NEW c, Sound(c), CanSend(c), NEW kind, NEW x, <<kind, x>> \in UpMessages
    PROVE  LET d == Send(c, kind, x)
           IN  d = c \/ (d \in Phones /\ Posted(c, d, <<kind, x>>) /\ PutOn(c, d, <<kind, x>>))
<1> DEFINE d == Send(c, kind, x)
           m == <<kind, x>>
<1>1. CASE d # c
  <2>1. Posted(c, d, m)
      BY <1>1, SendCases
  <2>2. c \in Phones /\ c.client.ws \in Sockets
      BY Constants DEF Sound, Phones, Clients, CanSend
  <2>3. d = [c EXCEPT !.up[c.client.ws] = Append(@, m)]
      BY <1>1 DEF Send
  <2>4. Append(c.up[c.client.ws], m) \in Seq(UpMessages)
      BY <2>2, AppendProperties DEF Phones
  <2>5. m \in UpMessages
      OBVIOUS
  <2> HIDE DEF d, m
  <2>6. d \in Phones
      BY <2>2, <2>3, <2>4 DEF Phones
  <2>7. PutOn(c, d, m)
      BY <2>1, <2>5, <2>6, PostedKeeps
  <2> QED BY <2>1, <2>6, <2>7 DEF d, m
<1> QED BY <1>1

LEMMA RequestEffect ==
    ASSUME NEW c \in Phones, NEW r \in Requests, NEW o \in Outcomes
    PROVE  LET d == [c EXCEPT !.req[r] = o]
           IN  /\ d \in Phones
               /\ d.client = c.client /\ d.stream = c.stream /\ d.up = c.up /\ d.rs = c.rs
               /\ d.req[r] = o /\ \A q \in Requests \ {r} : d.req[q] = c.req[q]
BY DEF Phones

\* sendRequest of a request that was not sent before.
LEMMA SendRequestSound ==
    ASSUME NEW c, Sound(c), NEW r \in Requests, c.req[r] \in {"new", "waiting", "failed"},
           c.client.state \in {"connected", "reconnecting"}
    PROVE  LET d == SendRequest(c, r)
           IN  /\ Sound(d) /\ d.client.state \in {"connected", "reconnecting"}
               /\ \A q \in Requests : q # r /\ c.req[q] \in {"waiting", "failed"}
                                      => d.req[q] \in {"waiting", "failed"}
<1> DEFINE g == Send(c, "request", r)
           m == <<"request", r>>
           d == SendRequest(c, r)
<1>0. m \in UpMessages /\ c \in Phones
    BY DEF UpMessages, Sound
<1>1. CASE CanSend(c)
  <2>1. g = c \/ (g \in Phones /\ Posted(c, g, m) /\ PutOn(c, g, m))
      BY <1>0, <1>1, SendOpen
  <2>2. g \in Phones /\ g.client = c.client /\ g.stream = c.stream /\ g.req = c.req /\ g.rs = c.rs
      BY <1>0, <2>1 DEF Posted
  <2>3. d = [g EXCEPT !.req[r] = "pending"]
      BY <1>1 DEF SendRequest
  <2>4. c.client.state = "connected"
      BY <1>1, Constants DEF Sound, Linked, CanSend, Alive
  <2>5. Linked(g) /\ Routed(g) /\ Unopened(g)
      BY <2>1 DEF PutOn, Sound
  <2>6. Once(g)
    <3>1. \A i \in Streams : ~Asking(m, i)
        BY DEF Asking
    <3> QED BY <1>0, <1>1, <2>1, <3>1, PostedOnce DEF Sound
  <2>7. Unsent(g)
    <3>1. \A i \in Streams : ~Asking(m, i)
        BY DEF Asking
    <3> QED BY <2>1, <2>2, <3>1 DEF Sound, Unsent, PutOn
  <2>8. \A q \in Requests \ {r}, s \in Sockets : In(g.up[s], <<"request", q>>) => In(c.up[s], <<"request", q>>)
    <3>1. \A q \in Requests \ {r} : <<"request", q>> # m
        OBVIOUS
    <3> HIDE DEF m
    <3> QED BY <2>1, <3>1 DEF PutOn
  <2> HIDE DEF g
  <2>9. /\ d \in Phones /\ d.client = g.client /\ d.stream = g.stream /\ d.up = g.up /\ d.rs = g.rs
        /\ d.req[r] = "pending" /\ \A q \in Requests \ {r} : d.req[q] = g.req[q]
    <3>1. "pending" \in Outcomes
        BY DEF Outcomes
    <3> QED BY <2>2, <2>3, <3>1, RequestEffect
  <2> HIDE DEF d, m
  <2>10. Honest(d)
      BY <2>2, <2>8, <2>9 DEF Sound, Honest
  <2>11. Pending(d)
      BY <2>2, <2>4, <2>9 DEF Sound, Pending
  <2>12. Linked(d) /\ Once(d) /\ Unsent(d) /\ Routed(d) /\ Unopened(d)
      BY <2>5, <2>6, <2>7, <2>9 DEF Linked, Once, Unsent, Routed, Unopened
  <2> QED BY <2>2, <2>4, <2>9, <2>10, <2>11, <2>12 DEF Sound, d
<1>2. CASE ~CanSend(c)
  <2>1. Sound(g) /\ Steady(c, g) /\ g.client.state \in {"connected", "reconnecting"}
      BY <1>2, SendCases DEF Steady
  <2>2. d = [g EXCEPT !.req[r] = "failed"]
      BY <1>2 DEF SendRequest
  <2>3. g.req[r] \in {"new", "waiting", "failed"}
    <3>1. c.req[r] \in {"waiting", "failed"} => g.req[r] \in {"waiting", "failed"}
        BY <2>1 DEF Steady
    <3>2. ASSUME c.req[r] = "new" PROVE g.req[r] = "new"
      <4>1. CASE c.client.state = "connected"
        <5>1. g = handleSocketClosed(c, FALSE)
            BY <1>2, <4>1 DEF Send
        <5>2. Released(c, g)
            BY <1>2, <4>1, <5>1, ConnectedLosing, LosingLost
        <5> QED BY <3>2, <5>2 DEF Released
      <4>2. CASE c.client.state # "connected"
          BY <1>2, <3>2, <4>2 DEF Send
      <4> QED BY <4>1, <4>2
    <3> QED BY <3>1, <3>2
  <2>4. g \in Phones
      BY <2>1 DEF Sound
  <2> HIDE DEF g
  <2>5. /\ d \in Phones /\ d.client = g.client /\ d.stream = g.stream /\ d.up = g.up /\ d.rs = g.rs
        /\ d.req[r] = "failed" /\ \A q \in Requests \ {r} : d.req[q] = g.req[q]
    <3>1. "failed" \in Outcomes
        BY DEF Outcomes
    <3> QED BY <2>2, <2>4, <3>1, RequestEffect
  <2> HIDE DEF d
  <2>6. Honest(d) /\ Pending(d)
      BY <2>1, <2>3, <2>5 DEF Sound, Honest, Pending
  <2>7. Linked(d) /\ Once(d) /\ Unsent(d) /\ Routed(d) /\ Unopened(d)
      BY <2>1, <2>5 DEF Sound, Linked, Once, Unsent, Routed, Unopened
  <2>8. \A q \in Requests : q # r /\ c.req[q] \in {"waiting", "failed"}
                            => d.req[q] \in {"waiting", "failed"}
      BY <2>1, <2>5 DEF Steady
  <2> QED BY <2>1, <2>5, <2>6, <2>7, <2>8 DEF Sound, d
<1> QED BY <1>1, <1>2

-----------------------------------------------------------------------------
(* Streams.                                                                *)

LEMMA UnrouteEffect ==
    ASSUME NEW c, Sound(c), NEW i \in Streams
    PROVE  LET d == Unroute(c, i)
           IN  /\ Sound(d)
               /\ d.stream = c.stream /\ d.req = c.req /\ d.up = c.up /\ d.rs = c.rs
               /\ d.client.state = c.client.state /\ d.client.ws = c.client.ws
               /\ d.client.active # i /\ d.client.pending # i
               /\ d.client.pending \in {c.client.pending, NoStream}
               /\ d.client.active \in {c.client.active, NoStream}
<1> DEFINE d == Unroute(c, i)
<1>1. c \in Phones /\ c.client \in Clients
    BY DEF Sound, Phones
<1>2. d.client = [c.client EXCEPT !.active = IF @ = i THEN NoStream ELSE @,
                                  !.pending = IF @ = i THEN NoStream ELSE @]
    BY <1>1 DEF Unroute, Phones
<1>3. /\ d.client \in Clients
      /\ d.client.state = c.client.state /\ d.client.ws = c.client.ws
      /\ d.client.timer = c.client.timer /\ d.client.closed = c.client.closed
      /\ d.client.rejections = c.client.rejections
      /\ d.client.active \in {c.client.active, 0} \ {i}
      /\ d.client.pending \in {c.client.pending, 0} \ {i}
    BY <1>1, <1>2, Constants DEF Clients
<1>4. d.stream = c.stream /\ d.req = c.req /\ d.up = c.up /\ d.rs = c.rs /\ d \in Phones
    BY <1>1, <1>3 DEF Unroute, Phones
<1> HIDE DEF d
<1>5. Linked(d)
    BY <1>3, <1>4 DEF Sound, Linked
<1>6. Routed(d)
    BY <1>3, <1>4, Constants DEF Sound, Routed
<1>7. Pending(d) /\ Honest(d) /\ Once(d) /\ Unsent(d) /\ Unopened(d)
    BY <1>3, <1>4 DEF Sound, Pending, Honest, Once, Unsent, Unopened
<1> QED BY <1>3, <1>4, <1>5, <1>6, <1>7, Constants DEF Sound, d

\* A stream that nothing is routed to changes its state.
LEMMA StreamEffect ==
    ASSUME NEW c, Sound(c), NEW i \in Streams, NEW x \in StreamStates, x.st \in {"tomb", "gone"}
    PROVE  LET d == [c EXCEPT !.stream[i] = x]
           IN  /\ Sound(d) /\ Steady(c, d)
               /\ d.client = c.client /\ d.req = c.req /\ d.up = c.up /\ d.rs = c.rs
               /\ d.stream[i] = x /\ \A j \in Streams \ {i} : d.stream[j] = c.stream[j]
<1> DEFINE d == [c EXCEPT !.stream[i] = x]
<1>1. /\ d \in Phones
      /\ d.client = c.client /\ d.req = c.req /\ d.up = c.up /\ d.rs = c.rs
      /\ d.stream[i] = x /\ \A j \in Streams \ {i} : d.stream[j] = c.stream[j]
    BY DEF Sound, Phones
<1> HIDE DEF d
<1>2. Linked(d) /\ Pending(d) /\ Honest(d) /\ Once(d) /\ Unopened(d)
    BY <1>1 DEF Sound, Linked, Pending, Honest, Once, Unopened
<1>3. Unsent(d) /\ Routed(d)
    BY <1>1 DEF Sound, Unsent, Routed
<1>4. Steady(c, d)
    BY <1>1 DEF Steady
<1> QED BY <1>1, <1>2, <1>3, <1>4 DEF Sound, d

LEMMA RemoveSound ==
    ASSUME NEW c, Sound(c), NEW i \in Streams
    PROVE  LET d == removeStreamListener(c, i)
           IN  /\ Sound(d) /\ Steady(c, d) /\ d.up = c.up /\ d.rs = c.rs
               /\ d.client.state = c.client.state /\ d.client.ws = c.client.ws
               /\ d.client.pending \in {c.client.pending, NoStream}
               /\ d.client.active \in {c.client.active, NoStream}
               /\ d.stream[i].st = "gone" /\ d.stream[i].sub = c.stream[i].sub
               /\ \A j \in Streams \ {i} : d.stream[j] = c.stream[j]
<1> DEFINE g == Unroute(c, i)
           x == [g.stream[i] EXCEPT !.st = "gone"]
           d == removeStreamListener(c, i)
<1>1. /\ Sound(g) /\ g.stream = c.stream /\ g.req = c.req /\ g.up = c.up /\ g.rs = c.rs
      /\ g.client.state = c.client.state /\ g.client.ws = c.client.ws
      /\ g.client.pending \in {c.client.pending, NoStream}
      /\ g.client.active \in {c.client.active, NoStream}
    BY ONLY Sound(c), i \in Streams, UnrouteEffect
<1>2. d = [g EXCEPT !.stream[i] = x]
    BY DEF removeStreamListener
<1>3. x \in StreamStates /\ x.st = "gone" /\ x.sub = c.stream[i].sub
    BY <1>1 DEF Sound, Phones, StreamStates
<1> HIDE DEF g, x
<1>4. /\ Sound(d) /\ Steady(g, d)
      /\ d.client = g.client /\ d.req = g.req /\ d.up = g.up /\ d.rs = g.rs
      /\ d.stream[i] = x /\ \A j \in Streams \ {i} : d.stream[j] = g.stream[j]
    BY <1>1, <1>2, <1>3, StreamEffect
<1> HIDE DEF d
<1>5. Steady(c, d)
    BY <1>1, <1>4 DEF Steady
<1> QED BY <1>1, <1>3, <1>4, <1>5 DEF d

Route(c, x, y) == [c EXCEPT !.client.pending = x, !.client.active = y]

\* Frames are routed to streams that exist.
LEMMA RouteSound ==
    ASSUME NEW c, Sound(c), NEW x \in Streams \cup {0}, NEW y \in Streams \cup {0},
           x # 0 => c.stream[x].st # "new", y # 0 => c.stream[y].st # "new"
    PROVE  LET d == Route(c, x, y)
           IN  /\ Sound(d) /\ Steady(c, d)
               /\ d.client.pending = x /\ d.client.active = y
               /\ d.stream = c.stream /\ d.req = c.req /\ d.up = c.up /\ d.rs = c.rs
               /\ d.client.state = c.client.state /\ d.client.ws = c.client.ws
<1> DEFINE d == Route(c, x, y)
<1>1. c \in Phones /\ c.client \in Clients
    BY DEF Sound, Phones
<1>2. /\ d.client = [c.client EXCEPT !.pending = x, !.active = y]
      /\ d.stream = c.stream /\ d.req = c.req /\ d.up = c.up /\ d.rs = c.rs
    BY <1>1 DEF Phones, Route
<1>3. [c.client EXCEPT !.pending = x, !.active = y] \in Clients
    BY <1>1, Constants DEF Clients
<1>4. d \in Phones
    BY <1>1, <1>3 DEF Phones, Route
<1> HIDE DEF d
<1>5. /\ d.client.state = c.client.state /\ d.client.ws = c.client.ws
      /\ d.client.timer = c.client.timer /\ d.client.closed = c.client.closed
      /\ d.client.rejections = c.client.rejections
      /\ d.client.pending = x /\ d.client.active = y
    BY <1>1, <1>2 DEF Clients
<1>6. Linked(d)
    BY <1>2, <1>5 DEF Sound, Linked
<1>7. Routed(d)
    BY <1>2, <1>5, Constants DEF Sound, Routed
<1>8. Pending(d) /\ Honest(d) /\ Once(d) /\ Unsent(d) /\ Unopened(d)
    BY <1>2, <1>5 DEF Sound, Pending, Honest, Once, Unsent, Unopened
<1>9. Steady(c, d)
    BY <1>2, <1>5 DEF Steady
<1> QED BY <1>2, <1>4, <1>5, <1>6, <1>7, <1>8, <1>9 DEF Sound, d

\* The stream i is awaited, and none is shown.
LEMMA AwaitSound ==
    ASSUME NEW c, Sound(c), NEW i \in Streams, c.stream[i].st # "new"
    PROVE  LET d == Route(c, i, 0)
           IN  /\ Sound(d) /\ Steady(c, d) /\ d.stream = c.stream /\ d.up = c.up /\ d.rs = c.rs
               /\ d.client.state = c.client.state /\ d.client.ws = c.client.ws
               /\ d.client.pending = i /\ d.client.active = NoStream
<1>1. i \in Streams \cup {0} /\ 0 \in Streams \cup {0}
    OBVIOUS
<1> QED BY <1>1, RouteSound, Constants

LEMMA SteadyTransitive ==
    ASSUME NEW c, NEW d, NEW e, Steady(c, d), Steady(d, e)
    PROVE  Steady(c, e)
BY DEF Steady

\* The subscription of a live stream is sent once per connection.
LEMMA SendSubscribeSound ==
    ASSUME NEW c, Sound(c), NEW i \in Streams, c.stream[i].st = "live", ~c.stream[i].sent
    PROVE  Sound(SendSubscribe(c, i)) /\ Steady(c, SendSubscribe(c, i))
<1> DEFINE p == c.stream[i].page
           m == <<"subscribe", <<i, p>>>>
           g == Send(c, "subscribe", <<i, p>>)
           d == SendSubscribe(c, i)
<1>0. c \in Phones /\ m \in UpMessages
  <2>1. c \in Phones
      BY DEF Sound
  <2>2. p \in Pages
      BY <2>1 DEF Phones, StreamStates
  <2> QED BY <2>1, <2>2 DEF UpMessages
<1>1. CASE CanSend(c)
  <2>1. g = c \/ (g \in Phones /\ Posted(c, g, m) /\ PutOn(c, g, m))
      BY <1>0, <1>1, SendOpen
  <2>2. \A j \in Streams : Asking(m, j) <=> j = i
      BY DEF Asking
  <2>3. c.client.ws \in Sockets /\ ~Asked(c.up[c.client.ws], i) /\ cast[<<i, c.client.ws>>].at = "none"
      BY <1>0, <1>1, Constants DEF CanSend, Sound, Unsent, Phones, Clients
  <2>4. Once(g)
      BY <1>0, <1>1, <2>1, <2>2, <2>3, PostedOnce DEF Sound
  <2>5. g \in Phones /\ g.client = c.client /\ g.stream = c.stream /\ g.req = c.req /\ g.rs = c.rs
      BY <1>0, <2>1 DEF Posted
  <2>6. Linked(g) /\ Pending(g) /\ Routed(g) /\ Unopened(g)
      BY <2>1 DEF PutOn, Sound
  <2>7. \A q \in Requests : m # <<"request", q>>
      OBVIOUS
  <2>8. d = [g EXCEPT !.stream[i].sent = TRUE]
      BY <1>1 DEF SendSubscribe
  <2> HIDE DEF g, m
  <2>9. Honest(g)
    <3>1. \A r \in Requests, s \in Sockets : In(g.up[s], <<"request", r>>) => In(c.up[s], <<"request", r>>)
        BY <2>1, <2>7 DEF PutOn
    <3> QED BY <2>5, <3>1 DEF Sound, Honest
  <2>10. \A j \in Streams \ {i} : g.stream[j].st \in {"new", "live"} /\ ~g.stream[j].sent =>
             ~Asked(g.up[g.client.ws], j) /\ cast[<<j, g.client.ws>>].at = "none"
    <3>1. \A j \in Streams \ {i} : Asked(g.up[c.client.ws], j) => Asked(c.up[c.client.ws], j)
        BY <2>1, <2>2 DEF PutOn
    <3> QED BY <2>3, <2>5, <3>1, Constants DEF Sound, Unsent
  <2> DEFINE x == [g.stream[i] EXCEPT !.sent = TRUE]
  <2>11. x \in StreamStates /\ x.st = "live" /\ x.sent = TRUE
      BY <2>5 DEF Phones, StreamStates
  <2> HIDE DEF x
  <2>12. d = [g EXCEPT !.stream[i] = x]
      BY <2>5, <2>8 DEF Phones, x
  <2>13. /\ d \in Phones
         /\ d.client = g.client /\ d.req = g.req /\ d.up = g.up /\ d.rs = g.rs
         /\ d.stream[i] = x /\ \A j \in Streams \ {i} : d.stream[j] = g.stream[j]
      BY <2>5, <2>11, <2>12 DEF Phones
  <2> HIDE DEF d
  <2>14. Linked(d) /\ Pending(d) /\ Honest(d) /\ Once(d) /\ Unopened(d)
      BY <2>4, <2>6, <2>9, <2>13 DEF Linked, Pending, Honest, Once, Unopened
  <2>15. Unsent(d)
      BY <2>10, <2>11, <2>13 DEF Unsent
  <2>16. Routed(d)
      BY <2>6, <2>11, <2>13 DEF Routed
  <2>17. Steady(c, d)
      BY <2>5, <2>13 DEF Steady
  <2> QED BY <2>13, <2>14, <2>15, <2>16, <2>17 DEF Sound, d
<1>2. CASE ~CanSend(c)
  <2>1. Sound(g) /\ Steady(c, g)
      BY <1>2, SendCases
  <2>2. d = removeStreamListener(g, i)
      BY <1>2 DEF SendSubscribe
  <2>3. Sound(removeStreamListener(g, i)) /\ Steady(g, removeStreamListener(g, i))
      BY <2>1, RemoveSound
  <2> QED BY <2>1, <2>2, <2>3, SteadyTransitive
<1> QED BY <1>1, <1>2

\* The order to end a subscription.
LEMMA UnsubscribeSound ==
    ASSUME NEW c, Sound(c), NEW i \in Streams, c.stream[i].sub # NoSocket
    PROVE  LET d == SendUnsubscribe(c, i)
           IN  Sound(d) /\ Steady(c, d) /\ \A j \in Streams : Spared(c, d, j)
<1>1. c.stream[i].sub \in Sockets
    BY Constants DEF Sound, Phones, StreamStates
<1>2. <<"unsubscribe", <<i, c.stream[i].sub>>>> \in UpMessages
    BY <1>1 DEF UpMessages, Casts
<1> QED BY <1>2, PlainSound DEF SendUnsubscribe

LEMMA DisposeSound ==
    ASSUME NEW c, Sound(c), NEW i \in Streams
    PROVE  LET d == DisposeStream(c, i)
           IN  Sound(d) /\ Steady(c, d) /\ \A j \in Streams \ {i} : Spared(c, d, j)
<1> DEFINE g == Unroute(c, i)
           d == DisposeStream(c, i)
<1>0. NoStream \notin Streams
    BY Constants
<1>1. /\ Sound(g) /\ Steady(c, g) /\ g.stream = c.stream
      /\ g.client.pending \in {c.client.pending, NoStream}
    BY UnrouteEffect DEF Steady
<1>2. CASE c.stream[i].st # "live"
  <2>1. d = c
      BY <1>2 DEF DisposeStream
  <2>2. Sound(c) /\ Steady(c, c) /\ \A j \in Streams \ {i} : Spared(c, c, j)
      BY DEF Steady, Spared
  <2> HIDE DEF d
  <2>3. Sound(d) /\ Steady(c, d) /\ \A j \in Streams \ {i} : Spared(c, d, j)
      BY <2>1, <2>2
  <2> QED BY <2>3 DEF d
<1>3. CASE c.stream[i].st = "live" /\ c.stream[i].sub # NoSocket
  <2> DEFINE h == SendUnsubscribe(g, i)
  <2>1. Sound(h) /\ Steady(g, h) /\ \A j \in Streams : Spared(g, h, j)
      BY <1>1, <1>3, UnsubscribeSound
  <2>2. d = removeStreamListener(h, i)
      BY <1>3 DEF DisposeStream
  <2> HIDE DEF g, h
  <2>3. /\ Sound(removeStreamListener(h, i)) /\ Steady(h, removeStreamListener(h, i))
        /\ \A j \in Streams \ {i} : removeStreamListener(h, i).stream[j] = h.stream[j]
        /\ removeStreamListener(h, i).client.pending \in {h.client.pending, NoStream}
      BY <2>1, RemoveSound
  <2>4. Steady(c, removeStreamListener(h, i))
      BY <1>1, <2>1, <2>3, SteadyTransitive
  <2>5. \A j \in Streams \ {i} : Spared(c, removeStreamListener(h, i), j)
      BY <1>0, <1>1, <2>1, <2>3 DEF Spared
  <2> QED BY <2>2, <2>3, <2>4, <2>5
<1>4. CASE c.stream[i].st = "live" /\ c.stream[i].sub = NoSocket /\ c.stream[i].sent
  <2> DEFINE x == [g.stream[i] EXCEPT !.st = "tomb"]
  <2>1. d = [g EXCEPT !.stream[i] = x]
      BY <1>4 DEF DisposeStream
  <2>2. x \in StreamStates /\ x.st = "tomb"
    <3> DEFINE z == g.stream[i]
    <3>1. z \in StreamStates
        BY <1>1 DEF Sound, Phones
    <3> HIDE DEF z
    <3>2. x = [z EXCEPT !.st = "tomb"]
        BY DEF z
    <3> HIDE DEF x
    <3> QED BY <3>1, <3>2 DEF StreamStates
  <2> HIDE DEF g, x, d
  <2>3. /\ Sound(d) /\ Steady(g, d) /\ d.client = g.client
        /\ \A j \in Streams \ {i} : d.stream[j] = g.stream[j]
      BY <1>1, <2>1, <2>2, StreamEffect
  <2>4. Steady(c, d)
      BY <1>1, <2>3, SteadyTransitive
  <2> QED BY <1>0, <1>1, <2>3, <2>4 DEF Spared, d
<1>5. CASE c.stream[i].st = "live" /\ c.stream[i].sub = NoSocket /\ ~c.stream[i].sent
  <2>1. d = removeStreamListener(g, i)
      BY <1>5 DEF DisposeStream
  <2> HIDE DEF g
  <2>2. /\ Sound(removeStreamListener(g, i)) /\ Steady(g, removeStreamListener(g, i))
        /\ \A j \in Streams \ {i} : removeStreamListener(g, i).stream[j] = g.stream[j]
        /\ removeStreamListener(g, i).client.pending \in {g.client.pending, NoStream}
      BY <1>1, RemoveSound
  <2>3. Steady(c, removeStreamListener(g, i))
      BY <1>1, <2>2, SteadyTransitive
  <2>4. \A j \in Streams \ {i} : Spared(c, removeStreamListener(g, i), j)
      BY <1>0, <1>1, <2>2 DEF Spared
  <2> QED BY <2>1, <2>2, <2>3, <2>4
<1> QED BY <1>2, <1>3, <1>4, <1>5

LEMMA ReplaySound ==
    ASSUME NEW c, Sound(c), NEW i \in Streams
    PROVE  Sound(ReplayStream(c, i)) /\ Steady(c, ReplayStream(c, i))
<1>1. CASE c.stream[i].st = "tomb"
  <2>1. ReplayStream(c, i) = removeStreamListener(c, i)
      BY <1>1 DEF ReplayStream
  <2>2. Sound(removeStreamListener(c, i)) /\ Steady(c, removeStreamListener(c, i))
      BY RemoveSound
  <2> QED BY <2>1, <2>2
<1>2. CASE c.stream[i].st = "live" /\ ~c.stream[i].sent
  <2> DEFINE g == Route(c, i, 0)
  <2>1. Sound(g) /\ Steady(c, g) /\ g.stream = c.stream
      BY <1>2, AwaitSound
  <2>2. ReplayStream(c, i) = SendSubscribe(g, i)
      BY <1>2 DEF ReplayStream, Route, NoStream
  <2> HIDE DEF g
  <2>3. Sound(SendSubscribe(g, i)) /\ Steady(g, SendSubscribe(g, i))
      BY <1>2, <2>1, SendSubscribeSound
  <2> QED BY <2>1, <2>2, <2>3, SteadyTransitive
<1>3. CASE c.stream[i].st # "tomb" /\ ~(c.stream[i].st = "live" /\ ~c.stream[i].sent)
  <2>1. ReplayStream(c, i) = c
      BY <1>3 DEF ReplayStream
  <2> QED BY <2>1 DEF Steady
<1> QED BY <1>1, <1>2, <1>3

-----------------------------------------------------------------------------
(* The desktop has accepted the phone.                                     *)

\* The streams are replayed one after the other.
LEMMA StreamTurns ==
    ASSUME NEW c, Sound(c), NEW g, Turns("stream", c, Streams, g)
    PROVE  Sound(g[Streams]) /\ Steady(c, g[Streams])
<1> DEFINE Good == {T \in SUBSET Streams : Sound(g[T]) /\ Steady(c, g[T])}
<1>1. Numbers(Streams)
    BY Constants, CastAssumption DEF Numbers
<1>2. \A U \in SUBSET Streams : g[U] = IF U = {} THEN c ELSE Turn("stream", g[U \ {Max(U)}], Max(U))
    BY Zenon DEF Turns
<1>3. {} \in Good
    BY <1>2 DEF Steady
<1>4. ASSUME NEW U \in SUBSET Streams, Max(U) \in U, U \ {Max(U)} \in Good
      PROVE  U \in Good
  <2> DEFINE i == Max(U)
             d == g[U \ {i}]
  <2>1. g[U] = ReplayStream(d, i) /\ i \in Streams
      BY <1>2, <1>4 DEF Turn
  <2>2. Sound(d) /\ Steady(c, d)
      BY <1>4
  <2> HIDE DEF d, i
  <2>3. Sound(ReplayStream(d, i)) /\ Steady(d, ReplayStream(d, i))
      BY <2>1, <2>2, ReplaySound
  <2> QED BY <2>1, <2>2, <2>3, SteadyTransitive
<1> HIDE DEF Good
<1>5. Streams \in Good
    BY <1>1, <1>3, <1>4, Stepwise
<1> QED BY <1>5 DEF Good

\* Neither connected nor about to connect again is what a client in a handshake is.
Going(c) == c.client.state \in {"connected", "reconnecting"}

\* The requests that waited are sent one after the other, each of them once.
LEMMA RequestTurns ==
    ASSUME NEW c, Sound(c), Going(c), NEW S \in SUBSET Requests,
           \A r \in S : c.req[r] \in {"waiting", "failed"},
           NEW g, Turns("request", c, S, g)
    PROVE  Sound(g[S])
<1> DEFINE Good == {T \in SUBSET S : /\ Sound(g[T]) /\ Going(g[T])
                                     /\ \A r \in S \ T : g[T].req[r] \in {"waiting", "failed"}}
<1>1. Numbers(S)
    BY Constants, MobileAssumption, FS_Subset DEF Numbers
<1>2. \A U \in SUBSET S : g[U] = IF U = {} THEN c ELSE Turn("request", g[U \ {Max(U)}], Max(U))
    BY Zenon DEF Turns
<1>3. {} \in Good
    BY <1>2
<1>4. ASSUME NEW U \in SUBSET S, Max(U) \in U, U \ {Max(U)} \in Good
      PROVE  U \in Good
  <2> DEFINE r == Max(U)
             d == g[U \ {r}]
  <2>1. g[U] = SendRequest(d, r) /\ r \in S /\ r \in Requests
      BY <1>2, <1>4 DEF Turn
  <2>2. /\ Sound(d) /\ Going(d) /\ d.req[r] \in {"waiting", "failed"}
        /\ \A q \in S \ U : d.req[q] \in {"waiting", "failed"}
      BY <1>4
  <2> HIDE DEF d
  <2>3. /\ Sound(SendRequest(d, r)) /\ Going(SendRequest(d, r))
        /\ \A q \in Requests : q # r /\ d.req[q] \in {"waiting", "failed"}
                               => SendRequest(d, r).req[q] \in {"waiting", "failed"}
      BY <2>1, <2>2, SendRequestSound DEF Going
  <2>4. \A q \in S \ U : SendRequest(d, r).req[q] \in {"waiting", "failed"}
      BY <1>4, <2>2, <2>3
  <2> QED BY <2>1, <2>3, <2>4
<1> HIDE DEF Good
<1>5. S \in Good
    BY <1>1, <1>3, <1>4, Stepwise
<1> QED BY <1>5 DEF Good

\* e2ee_authenticated: the client is connected.
LEMMA WelcomeSound ==
    ASSUME NEW c, Sound(c), c.client.state = "handshaking",
           hostEnd[c.client.ws] \in {"ready", "closed"}
    PROVE  LET g == InState([c EXCEPT !.client.rejections = 0], "connected")
           IN  /\ Sound(g) /\ g.stream = c.stream /\ g.req = c.req /\ g.up = c.up /\ g.rs = c.rs
               /\ g.client.state = "connected" /\ g.client.ws = c.client.ws
               /\ g.client.active = c.client.active
<1> DEFINE g == InState([c EXCEPT !.client.rejections = 0], "connected")
<1>1. c \in Phones /\ c.client \in Clients
    BY DEF Sound, Phones
<1>2. /\ g.client = [c.client EXCEPT !.rejections = 0, !.state = "connected"]
      /\ g.stream = c.stream /\ g.req = c.req /\ g.up = c.up /\ g.rs = c.rs
    BY <1>1 DEF InState, Phones
<1>3. [c.client EXCEPT !.rejections = 0, !.state = "connected"] \in Clients
  <2>1. 0 \in 0..AuthBudget /\ "connected" \in States
      BY Constants DEF States, Alive
  <2> QED BY <1>1, <2>1 DEF Clients
<1>4. g \in Phones
    BY <1>1, <1>3 DEF InState, Phones
<1>5. /\ g.client.state = "connected" /\ g.client.ws = c.client.ws
      /\ g.client.timer = c.client.timer /\ g.client.closed = c.client.closed
      /\ g.client.rejections = 0
      /\ g.client.pending = c.client.pending /\ g.client.active = c.client.active
    BY <1>1, <1>2 DEF Clients
<1> HIDE DEF g
<1>6. Linked(g)
    BY <1>2, <1>5, Constants DEF Sound, Linked, Alive
<1>7. Pending(g) /\ Honest(g) /\ Once(g) /\ Unsent(g) /\ Routed(g) /\ Unopened(g)
    BY <1>2, <1>5 DEF Sound, Pending, Honest, Once, Unsent, Routed, Unopened
<1> QED BY <1>2, <1>4, <1>5, <1>6, <1>7 DEF Sound, g

\* The streams are replayed, and the requests go on.
LEMMA AuthenticatedSound ==
    ASSUME NEW c, Sound(c), c.client.state = "handshaking",
           hostEnd[c.client.ws] \in {"ready", "closed"}
    PROVE  Sound(Authenticated(c))
<1> DEFINE g == InState([c EXCEPT !.client.rejections = 0], "connected")
           S == Requesting(c, "waiting")
           d == InOrder(ReplayStream, g, Streams)
<1>1. Authenticated(c) = InOrder(SendRequest, d, S)
    BY DEF Authenticated
<1>2. Sound(g) /\ g.req = c.req /\ g.client.state = "connected"
    BY WelcomeSound
<1> HIDE DEF g
<1>3. Sound(d) /\ Steady(g, d)
  <2>1. Numbers(Streams)
      BY Constants, CastAssumption DEF Numbers
  <2>2. PICK f : Turns("stream", g, Streams, f) /\ d = f[Streams]
      BY <2>1, InOrderTurns
  <2> QED BY <1>2, <2>2, StreamTurns
<1> HIDE DEF d
<1>4. Numbers(S) /\ S \in SUBSET Requests
  <2>1. S \in SUBSET Requests
      BY DEF Requesting
  <2> QED BY <2>1, Constants, MobileAssumption, FS_Subset DEF Numbers
<1>5. \A r \in S : d.req[r] \in {"waiting", "failed"}
    BY <1>2, <1>3 DEF Steady, Requesting
<1>6. Going(d)
    BY <1>2, <1>3 DEF Steady, Going
<1> HIDE DEF S
<1>7. PICK f : Turns("request", d, S, f) /\ InOrder(SendRequest, d, S) = f[S]
    BY <1>4, InOrderTurns
<1>8. Sound(f[S])
    BY <1>3, <1>4, <1>5, <1>6, <1>7, RequestTurns
<1> QED BY <1>1, <1>7, <1>8

-----------------------------------------------------------------------------
(* The phone reads a message.                                              *)

\* A request changes its state, but is not reported as failed.
LEMMA OutcomeSound ==
    ASSUME NEW c, Sound(c), NEW r \in Requests, NEW o \in {"ok", "unknown"}
    PROVE  Sound([c EXCEPT !.req[r] = o])
<1> DEFINE d == [c EXCEPT !.req[r] = o]
<1>1. /\ d \in Phones
      /\ d.client = c.client /\ d.stream = c.stream /\ d.up = c.up /\ d.rs = c.rs
      /\ d.req[r] = o /\ \A q \in Requests \ {r} : d.req[q] = c.req[q]
  <2>1. o \in Outcomes /\ c \in Phones
      BY DEF Outcomes, Sound
  <2> QED BY <2>1, RequestEffect
<1> HIDE DEF d
<1>2. Pending(d) /\ Honest(d)
    BY <1>1 DEF Sound, Pending, Honest
<1>3. Linked(d) /\ Once(d) /\ Unsent(d) /\ Routed(d) /\ Unopened(d)
    BY <1>1 DEF Sound, Linked, Once, Unsent, Routed, Unopened
<1> QED BY <1>1, <1>2, <1>3 DEF Sound, d

\* The subscription id of a stream is noted.
LEMMA SubscribedSound ==
    ASSUME NEW c, Sound(c), NEW i \in Streams, NEW s \in Sockets
    PROVE  LET d == [c EXCEPT !.stream[i].sub = s]
           IN  /\ Sound(d) /\ d.client = c.client /\ d.up = c.up /\ d.rs = c.rs
               /\ d.stream[i].sub = s /\ d.stream[i].st = c.stream[i].st
               /\ \A j \in Streams \ {i} : d.stream[j] = c.stream[j]
<1> DEFINE d == [c EXCEPT !.stream[i].sub = s]
           x == [c.stream[i] EXCEPT !.sub = s]
<1>1. c \in Phones /\ c.stream \in [Streams -> StreamStates]
    BY DEF Sound, Phones
<1>2. x \in StreamStates /\ x.st = c.stream[i].st /\ x.sent = c.stream[i].sent /\ x.sub = s
    BY <1>1 DEF StreamStates
<1>3. d = [c EXCEPT !.stream[i] = x]
    BY <1>1 DEF Phones
<1> HIDE DEF x, d
<1>4. /\ d \in Phones
      /\ d.client = c.client /\ d.req = c.req /\ d.up = c.up /\ d.rs = c.rs
      /\ d.stream[i] = x /\ \A j \in Streams \ {i} : d.stream[j] = c.stream[j]
    BY <1>1, <1>2, <1>3 DEF Phones
<1>5. \A j \in Streams : d.stream[j].st = c.stream[j].st /\ d.stream[j].sent = c.stream[j].sent
    BY <1>2, <1>4
<1>6. Linked(d) /\ Pending(d) /\ Honest(d) /\ Once(d) /\ Unopened(d)
    BY <1>4 DEF Sound, Linked, Pending, Honest, Once, Unopened
<1>7. Unsent(d) /\ Routed(d)
    BY <1>4, <1>5 DEF Sound, Unsent, Routed
<1> QED BY <1>2, <1>4, <1>6, <1>7 DEF Sound, d

LEMMA ReadySound ==
    ASSUME NEW c, Sound(c), NEW i \in Streams, c.client.ws # NoSocket
    PROVE  Sound(OnReady(c, i))
<1> DEFINE g == [c EXCEPT !.stream[i].sub = c.client.ws]
<1>0. c.client.ws \in Sockets
    BY Constants DEF Sound, Phones, Clients
<1>1. Sound(g) /\ g.client = c.client /\ g.stream[i].sub # NoSocket /\ g.stream[i].st = c.stream[i].st
    BY <1>0, SubscribedSound
<1>2. CASE c.stream[i].st = "gone"
  <2>1. OnReady(c, i) = c
      BY <1>2 DEF OnReady
  <2> QED BY <2>1
<1>3. CASE c.stream[i].st = "live" /\ i \in {c.client.pending, c.client.active}
  <2>1. OnReady(c, i) = Route(g, 0, i)
      BY <1>3 DEF OnReady, Route, NoStream
  <2> HIDE DEF g
  <2>2. Sound(Route(g, 0, i))
    <3>1. g.stream[i].st # "new" /\ 0 \in Streams \cup {0} /\ i \in Streams \cup {0}
        BY <1>1, <1>3
    <3> QED BY <1>1, <3>1, RouteSound
  <2> QED BY <2>1, <2>2
<1>4. CASE /\ c.stream[i].st # "gone"
           /\ ~(c.stream[i].st = "live" /\ i \in {c.client.pending, c.client.active})
  <2>1. OnReady(c, i) = removeStreamListener(SendUnsubscribe(g, i), i)
      BY <1>4 DEF OnReady
  <2> HIDE DEF g
  <2>2. Sound(SendUnsubscribe(g, i))
      BY <1>1, UnsubscribeSound
  <2>3. Sound(removeStreamListener(SendUnsubscribe(g, i), i))
      BY <2>2, RemoveSound
  <2> QED BY <2>1, <2>3
<1> QED BY <1>2, <1>3, <1>4

LEMMA ReadSound ==
    ASSUME NEW c, Sound(c), c.client.ws # NoSocket, NEW kind, NEW x,
           <<kind, x>> \in DownMessages,
           kind = "e2ee_authenticated" => hostEnd[c.client.ws] \in {"ready", "closed"}
    PROVE  Sound(Read(c, kind, x))
<1>1. CASE kind = "e2ee_ready" /\ c.client.state = "handshaking"
  <2>1. Read(c, kind, x) = Send(c, "auth", 0)
      BY <1>1 DEF Read
  <2>2. <<"auth", 0>> \in UpMessages
      BY DEF UpMessages
  <2> QED BY <2>1, <2>2, PlainSound
<1>2. CASE kind = "e2ee_authenticated" /\ c.client.state = "handshaking"
  <2>1. Read(c, kind, x) = Authenticated(c)
      BY <1>2 DEF Read
  <2> QED BY <1>2, <2>1, AuthenticatedSound
<1>3. CASE (kind = "e2ee_error" /\ c.client.state = "handshaking") \/ kind = "unauthorized"
  <2>1. Read(c, kind, x) = handleAuthRejection(c)
      BY <1>3 DEF Read
  <2>2. c.client.ws # 0 /\ c \in Phones
      BY Constants DEF Sound
  <2>3. Losing(IF c.client.ws = 0 THEN c ELSE CloseSocket(c))
      BY <2>2, ClosedLosing
  <2> QED BY <2>1, <2>2, <2>3, RejectionSound
<1>4. CASE kind = "ready"
  <2>1. x \in Streams
      BY <1>4 DEF DownMessages, Handshake, CastMessages, Rejection
  <2>2. Read(c, kind, x) = OnReady(c, x)
      BY <1>4 DEF Read
  <2> QED BY <2>1, <2>2, ReadySound
<1>5. CASE kind = "error" /\ c.stream[x].st # "gone"
  <2>1. x \in Streams
      BY <1>5 DEF DownMessages, Handshake, CastMessages, Rejection
  <2>2. Read(c, kind, x) = removeStreamListener(c, x)
      BY <1>5 DEF Read
  <2>3. Sound(removeStreamListener(c, x))
      BY <2>1, RemoveSound
  <2> QED BY <2>2, <2>3
<1>6. CASE kind = "reply" /\ c.req[x] = "pending"
  <2>1. x \in Requests
      BY <1>6 DEF DownMessages, Handshake, CastMessages, Rejection
  <2>2. Read(c, kind, x) = [c EXCEPT !.req[x] = "ok"]
      BY <1>6 DEF Read
  <2>3. \A o \in {"ok", "unknown"} : Sound([c EXCEPT !.req[x] = o])
      BY <2>1, OutcomeSound
  <2> QED BY <2>2, <2>3
<1>7. CASE /\ ~(kind = "e2ee_ready" /\ c.client.state = "handshaking")
           /\ ~(kind = "e2ee_authenticated" /\ c.client.state = "handshaking")
           /\ ~(kind = "e2ee_error" /\ c.client.state = "handshaking")
           /\ kind # "unauthorized" /\ kind # "ready" /\ ~(kind = "error" /\ c.stream[x].st # "gone")
           /\ ~(kind = "reply" /\ c.req[x] = "pending")
  <2>1. Read(c, kind, x) = c
      BY <1>7 DEF Read
  <2> QED BY <2>1
<1> QED BY <1>1, <1>2, <1>3, <1>4, <1>5, <1>6, <1>7

-----------------------------------------------------------------------------
(* The desktop.                                                            *)

Welcome == <<"e2ee_authenticated", 0>>

\* From h to g nothing is said on a connection that is not open, and no phone is
\* welcomed.
Quiet(h, g) ==
    /\ \A s \in Sockets : rs[s] # "open" => g.down[s] = h.down[s]
    /\ \A s \in Sockets : In(g.down[s], Welcome) => In(h.down[s], Welcome)

\* From h to g no cast begins, but those in P may.
Evolves(h, g, P) ==
    /\ g \in Hosts /\ Queued(g) /\ Quiet(h, g)
    /\ \A q \in Casts \ P : h.cast[q].at = "none" => g.cast[q].at = "none"

Idle(h, p) == \A k \in 1..Len(h.waiters) : h.waiters[k] # p

LEMMA EvolvesTransitive ==
    ASSUME NEW h, NEW g, NEW f, NEW P, NEW Q, NEW R, Evolves(h, g, P), Evolves(g, f, Q),
           P \subseteq R, Q \subseteq R
    PROVE  Evolves(h, f, R)
BY DEF Evolves, Quiet

LEMMA MarkEffect ==
    ASSUME NEW h \in Hosts, NEW q \in Casts, NEW m \in Marks
    PROVE  LET g == Mark(h, q, m)
           IN  /\ g \in Hosts /\ g.waiters = h.waiters /\ g.down = h.down
               /\ \A x \in Casts : g.cast[x].at = h.cast[x].at /\ g.cast[x].page = h.cast[x].page
<1> DEFINE y == [h.cast[q] EXCEPT !.marks = @ \cup {m}]
           g == Mark(h, q, m)
<1>1. h.cast \in [Casts -> CastStates] /\ h.cast[q] \in CastStates
    BY DEF Hosts
<1>2. y \in CastStates /\ y.at = h.cast[q].at /\ y.page = h.cast[q].page
    BY <1>1 DEF CastStates
<1>3. g = [h EXCEPT !.cast = [h.cast EXCEPT ![q] = y]]
    BY DEF Mark, Hosts
<1> HIDE DEF y, g
<1>4. /\ g \in Hosts /\ g.waiters = h.waiters /\ g.down = h.down
      /\ g.cast = [h.cast EXCEPT ![q] = y]
    BY <1>1, <1>2, <1>3 DEF Hosts
<1> QED BY <1>1, <1>2, <1>4 DEF g

LEMMA MoveEffect ==
    ASSUME NEW h \in Hosts, NEW q \in Casts, NEW place \in Places
    PROVE  LET g == Move(h, q, place)
           IN  /\ g \in Hosts /\ g.waiters = h.waiters /\ g.down = h.down
               /\ g.cast[q].at = place
               /\ \A x \in Casts \ {q} : g.cast[x] = h.cast[x]
<1> DEFINE y == [h.cast[q] EXCEPT !.at = place]
           g == Move(h, q, place)
<1>1. h.cast \in [Casts -> CastStates] /\ h.cast[q] \in CastStates
    BY DEF Hosts
<1>2. y \in CastStates /\ y.at = place
    BY <1>1 DEF CastStates
<1>3. g = [h EXCEPT !.cast = [h.cast EXCEPT ![q] = y]]
    BY DEF Move, Hosts
<1> HIDE DEF y, g
<1>4. /\ g \in Hosts /\ g.waiters = h.waiters /\ g.down = h.down
      /\ g.cast = [h.cast EXCEPT ![q] = y]
    BY <1>1, <1>2, <1>3 DEF Hosts
<1> QED BY <1>1, <1>2, <1>4 DEF g

LEMMA PostEffect ==
    ASSUME NEW h \in Hosts, NEW s \in Sockets, NEW kind, NEW i, <<kind, i>> \in DownMessages
    PROVE  LET g == Post(h, s, kind, i)
           IN  /\ g \in Hosts /\ g.waiters = h.waiters /\ g.cast = h.cast
               /\ \A t \in Sockets : rs[t] # "open" \/ t # s => g.down[t] = h.down[t]
               /\ \A t \in Sockets : \A m : In(g.down[t], m) => In(h.down[t], m) \/ (t = s /\ m = <<kind, i>>)
<1> DEFINE m == <<kind, i>>
           Q == Append(h.down[s], m)
           g == Post(h, s, kind, i)
<1>1. h.down \in [Sockets -> Seq(DownMessages)] /\ h.down[s] \in Seq(DownMessages)
    BY DEF Hosts
<1>2. Q \in Seq(DownMessages) /\ \A n : In(Q, n) <=> In(h.down[s], n) \/ n = m
    BY <1>1, InAppend, AppendProperties
<1>3. g = h \/ (rs[s] = "open" /\ g = [h EXCEPT !.down = [h.down EXCEPT ![s] = Q]])
    BY DEF Post, Hosts
<1> HIDE DEF Q, g, m
<1>4. CASE g = h
    BY <1>4 DEF g
<1>5. CASE rs[s] = "open" /\ g = [h EXCEPT !.down = [h.down EXCEPT ![s] = Q]]
  <2>1. /\ g \in Hosts /\ g.waiters = h.waiters /\ g.cast = h.cast
        /\ g.down = [h.down EXCEPT ![s] = Q]
      BY <1>1, <1>2, <1>5 DEF Hosts
  <2>2. \A t \in Sockets : g.down[t] = IF t = s THEN Q ELSE h.down[t]
      BY <1>1, <2>1
  <2> QED BY <1>2, <1>5, <2>1, <2>2 DEF g, m
<1> QED BY <1>3, <1>4, <1>5

\* A cast that does not wait for another one may be moved.
LEMMA MoveEvolves ==
    ASSUME NEW h \in Hosts, Queued(h), NEW q \in Casts, Idle(h, q), NEW place \in Places
    PROVE  Evolves(h, Move(h, q, place), {q}) /\ Move(h, q, place).waiters = h.waiters
<1> DEFINE g == Move(h, q, place)
<1>1. /\ g \in Hosts /\ g.waiters = h.waiters /\ g.down = h.down
      /\ \A x \in Casts \ {q} : g.cast[x] = h.cast[x]
    BY MoveEffect
<1>2. \A k \in 1..Len(h.waiters) : h.waiters[k] \in Casts
    BY ElementOfSeq DEF Hosts
<1> HIDE DEF g
<1>3. Queued(g)
    BY <1>1, <1>2 DEF Queued, Idle
<1>4. Quiet(h, g)
    BY <1>1 DEF Quiet
<1> QED BY <1>1, <1>3, <1>4 DEF Evolves, g

LEMMA MarkEvolves ==
    ASSUME NEW h \in Hosts, Queued(h), NEW q \in Casts, NEW m \in Marks
    PROVE  Evolves(h, Mark(h, q, m), {}) /\ Mark(h, q, m).waiters = h.waiters
<1> DEFINE g == Mark(h, q, m)
<1>1. /\ g \in Hosts /\ g.waiters = h.waiters /\ g.down = h.down
      /\ \A x \in Casts : g.cast[x].at = h.cast[x].at
    BY MarkEffect
<1>2. \A k \in 1..Len(h.waiters) : h.waiters[k] \in Casts
    BY ElementOfSeq DEF Hosts
<1> HIDE DEF g
<1>3. Queued(g)
    BY <1>1, <1>2 DEF Queued
<1>4. Quiet(h, g)
    BY <1>1 DEF Quiet
<1> QED BY <1>1, <1>3, <1>4 DEF Evolves, g

LEMMA PostEvolves ==
    ASSUME NEW h \in Hosts, Queued(h), NEW s \in Sockets, NEW kind, NEW i,
           <<kind, i>> \in DownMessages, kind # "e2ee_authenticated"
    PROVE  Evolves(h, Post(h, s, kind, i), {}) /\ Post(h, s, kind, i).waiters = h.waiters
<1> DEFINE g == Post(h, s, kind, i)
<1>1. /\ g \in Hosts /\ g.waiters = h.waiters /\ g.cast = h.cast
      /\ \A t \in Sockets : rs[t] # "open" => g.down[t] = h.down[t]
      /\ \A t \in Sockets : \A m : In(g.down[t], m) => In(h.down[t], m) \/ (t = s /\ m = <<kind, i>>)
    BY PostEffect
<1>2. <<kind, i>> # Welcome
    BY DEF Welcome
<1> HIDE DEF g
<1>3. Queued(g)
    BY <1>1 DEF Queued
<1>4. Quiet(h, g)
    BY <1>1, <1>2 DEF Quiet
<1> QED BY <1>1, <1>3, <1>4 DEF Evolves, g

LEMMA TellEvolves ==
    ASSUME NEW h \in Hosts, Queued(h), NEW q \in Casts, NEW kind \in {"ready", "error", "end", "frame"}
    PROVE  Evolves(h, Tell(h, q, kind), {}) /\ Tell(h, q, kind).waiters = h.waiters
<1> DEFINE g == Post(h, Socket(q), kind, Stream(q))
<1>1. Socket(q) \in Sockets /\ Stream(q) \in Streams
    BY DEF Casts, Socket, Stream
<1>2. <<kind, Stream(q)>> \in DownMessages /\ kind # "e2ee_authenticated"
    BY <1>1 DEF DownMessages, CastMessages
<1>3. Evolves(h, g, {}) /\ g.waiters = h.waiters
    BY <1>1, <1>2, PostEvolves
<1>4. Tell(h, q, kind) = Mark(g, q, "told") /\ "told" \in Marks
    BY DEF Tell, Marks
<1> HIDE DEF g
<1>5. Evolves(g, Mark(g, q, "told"), {}) /\ Mark(g, q, "told").waiters = g.waiters
    BY <1>3, <1>4, MarkEvolves DEF Evolves
<1> QED BY <1>3, <1>4, <1>5, EvolvesTransitive

LEMMA Unqueued ==
    ASSUME NEW h, Queued(h), NEW q, h.cast[q].at \notin Awaiting
    PROVE  Idle(h, q)
BY DEF Queued, Idle

LEMMA Begun ==
    ASSUME NEW h, NEW g, NEW q, Evolves(h, g, {q}), h.cast[q].at # "none"
    PROVE  Evolves(h, g, {})
BY DEF Evolves

LEMMA CancelEvolves ==
    ASSUME NEW h \in Hosts, Queued(h), NEW q \in Casts, NEW emitEnd \in BOOLEAN
    PROVE  Evolves(h, Cancel(h, q, emitEnd), {}) /\ Cancel(h, q, emitEnd).waiters = h.waiters
<1> DEFINE f == Move(h, q, "ending")
           g == Mark(f, q, "ended")
           d == Cancel(h, q, emitEnd)
<1>1. CASE h.cast[q].at \in {"resolving", "session", "launching"}
  <2>1. d = Mark(h, q, "cancelled") /\ "cancelled" \in Marks
      BY <1>1 DEF Cancel, OnPage, Marks
  <2> HIDE DEF d
  <2> QED BY <2>1, MarkEvolves DEF d
<1>2. CASE h.cast[q].at \in OnPage /\ "ended" \notin h.cast[q].marks
  <2>1. d = IF emitEnd THEN Tell(g, q, "end") ELSE g
      BY <1>2 DEF Cancel, OnPage
  <2>2. Idle(h, q) /\ h.cast[q].at # "none" /\ "ending" \in Places /\ "ended" \in Marks
      BY <1>2, Unqueued DEF OnPage, Awaiting, Places, Registered, Marks
  <2>3. Evolves(h, f, {q}) /\ f.waiters = h.waiters
      BY <2>2, MoveEvolves
  <2> HIDE DEF f
  <2>4. Evolves(h, f, {})
      BY <2>2, <2>3, Begun
  <2>5. Evolves(f, g, {}) /\ g.waiters = f.waiters
      BY <2>2, <2>4, MarkEvolves DEF Evolves
  <2> HIDE DEF g
  <2>6. Evolves(h, g, {})
      BY <2>4, <2>5, EvolvesTransitive
  <2>7. Evolves(g, Tell(g, q, "end"), {}) /\ Tell(g, q, "end").waiters = g.waiters
      BY <2>6, TellEvolves DEF Evolves
  <2>8. Evolves(h, Tell(g, q, "end"), {})
      BY <2>6, <2>7, EvolvesTransitive
  <2> HIDE DEF d
  <2> QED BY <2>1, <2>3, <2>5, <2>6, <2>7, <2>8 DEF d
<1>3. CASE /\ h.cast[q].at \notin {"resolving", "session", "launching"}
           /\ ~(h.cast[q].at \in OnPage /\ "ended" \notin h.cast[q].marks)
  <2>1. d = h
      BY <1>3 DEF Cancel
  <2>2. Evolves(h, h, {})
      BY DEF Evolves, Quiet
  <2> HIDE DEF d
  <2> QED BY <2>1, <2>2 DEF d
<1> QED BY <1>1, <1>2, <1>3

LEMMA StopEvolves ==
    ASSUME NEW h \in Hosts, Queued(h), NEW q \in Casts
    PROVE  Evolves(h, Stop(h, q), {}) /\ Stop(h, q).waiters = h.waiters
<1> DEFINE d == Stop(h, q)
<1>1. CASE h.cast[q].at = "launching"
  <2>1. d = Mark(h, q, "stopped") /\ "stopped" \in Marks
      BY <1>1 DEF Stop, Marks
  <2> HIDE DEF d
  <2> QED BY <2>1, MarkEvolves DEF d
<1>2. CASE h.cast[q].at = "running"
  <2>1. d = Move(h, q, "ending")
      BY <1>2 DEF Stop
  <2>2. Idle(h, q) /\ h.cast[q].at # "none" /\ "ending" \in Places
      BY <1>2, Unqueued DEF Awaiting, Places, Registered
  <2> HIDE DEF d
  <2>3. Evolves(h, d, {q}) /\ d.waiters = h.waiters
      BY <2>1, <2>2, MoveEvolves
  <2> QED BY <2>2, <2>3, Begun DEF d
<1>3. CASE h.cast[q].at \notin {"launching", "running"}
  <2>1. d = h
      BY <1>3 DEF Stop
  <2>2. Evolves(h, h, {})
      BY DEF Evolves, Quiet
  <2> HIDE DEF d
  <2> QED BY <2>1, <2>2 DEF d
<1> QED BY <1>1, <1>2, <1>3

\* A cast that is not waiting begins to wait.
LEMMA AwaitEvolves ==
    ASSUME NEW h \in Hosts, Queued(h), NEW p \in Casts, Idle(h, p), NEW place \in Awaiting,
           NEW q \in Casts
    PROVE  Evolves(h, Await(h, p, place, q), {p})
<1> DEFINE y == [h.cast[p] EXCEPT !.at = place, !.on = q]
           Q == Append(h.waiters, p)
           g == Await(h, p, place, q)
<1>1. h.cast \in [Casts -> CastStates] /\ h.cast[p] \in CastStates /\ h.waiters \in Seq(Casts)
    BY DEF Hosts
<1>2. y \in CastStates /\ y.at = place
  <2>1. place \in Places
      BY DEF Awaiting, Places, Registered
  <2> QED BY <1>1, <2>1 DEF CastStates
<1>3. g = [h EXCEPT !.cast = [h.cast EXCEPT ![p] = y], !.waiters = Q]
    BY <1>1 DEF Await, Hosts, CastStates
<1>4. /\ Q \in Seq(Casts) /\ Len(h.waiters) \in Nat /\ Len(Q) = Len(h.waiters) + 1
      /\ \A k \in 1..Len(h.waiters) : Q[k] = h.waiters[k] /\ h.waiters[k] \in Casts
      /\ Q[Len(h.waiters) + 1] = p
    BY <1>1, AppendProperties, LenProperties, ElementOfSeq
<1> HIDE DEF y, g, Q
<1>5. /\ g \in Hosts /\ g.waiters = Q /\ g.down = h.down
      /\ g.cast[p] = y /\ \A x \in Casts \ {p} : g.cast[x] = h.cast[x]
    BY <1>1, <1>2, <1>3, <1>4 DEF Hosts
<1>6. Queued(g)
  <2>1. \A k \in 1..Len(Q) : k \in 1..Len(h.waiters) \/ k = Len(h.waiters) + 1
      BY <1>4
  <2>2. \A k \in 1..Len(h.waiters) : Q[k] # p
      BY <1>4 DEF Idle
  <2>3. \A j, k \in 1..Len(Q) : Q[j] = Q[k] => j = k
      BY <1>4, <2>1, <2>2, Zenon DEF Queued
  <2>4. \A k \in 1..Len(Q) : g.cast[Q[k]].at \in Awaiting
      BY <1>2, <1>4, <1>5, <2>1, <2>2 DEF Queued
  <2> QED BY <1>5, <2>3, <2>4 DEF Queued
<1>7. Quiet(h, g)
    BY <1>5 DEF Quiet
<1> QED BY <1>5, <1>6, <1>7 DEF Evolves, g

LEMMA RegisterEvolves ==
    ASSUME NEW h \in Hosts, Queued(h), NEW p \in Casts, Idle(h, p)
    PROVE  Evolves(h, Register(h, p), {p})
<1> DEFINE g == IF Passed(h, p) THEN Mark(h, p, "late") ELSE h
<1>1. Evolves(h, g, {}) /\ g.waiters = h.waiters
  <2>1. "late" \in Marks /\ Evolves(h, h, {})
      BY DEF Marks, Evolves, Quiet
  <2> QED BY <2>1, MarkEvolves
<1>2. Register(h, p) = IF Aborted(p) THEN Move(h, p, "over") ELSE Move(g, p, "resolving")
    BY DEF Register
<1> HIDE DEF g
<1>3. Evolves(h, Move(h, p, "over"), {p})
    BY MoveEvolves DEF Places
<1>4. Evolves(g, Move(g, p, "resolving"), {p})
  <2>1. g \in Hosts /\ Queued(g) /\ Idle(g, p)
      BY <1>1 DEF Evolves, Idle
  <2> QED BY <2>1, MoveEvolves DEF Places, Registered
<1>5. Evolves(h, Move(g, p, "resolving"), {p})
    BY <1>1, <1>4, EvolvesTransitive
<1> QED BY <1>2, <1>3, <1>5

LEMMA ConnectionLoopEvolves ==
    ASSUME NEW h \in Hosts, Queued(h), NEW p \in Casts, Idle(h, p)
    PROVE  Evolves(h, ConnectionLoop(h, p), {p})
<1>1. CASE OfConnection(h, p) # {}
  <2> DEFINE q == CHOOSE q \in OfConnection(h, p) : TRUE
             f == Cancel(h, q, FALSE)
  <2>1. ConnectionLoop(h, p) = Await(f, p, "connection", q)
      BY <1>1 DEF ConnectionLoop
  <2>2. q \in Casts
      BY <1>1 DEF OfConnection
  <2> HIDE DEF q
  <2>3. Evolves(h, f, {}) /\ f.waiters = h.waiters
      BY <2>2, CancelEvolves
  <2> HIDE DEF f
  <2>4. Evolves(f, Await(f, p, "connection", q), {p})
    <3>1. Idle(f, p) /\ "connection" \in Awaiting
        BY <2>3 DEF Idle, Awaiting
    <3> QED BY <2>2, <2>3, <3>1, AwaitEvolves DEF Evolves
  <2>5. Evolves(h, Await(f, p, "connection", q), {p})
      BY <2>3, <2>4, EvolvesTransitive
  <2> QED BY <2>1, <2>5
<1>2. CASE OfConnection(h, p) = {}
    BY <1>2, RegisterEvolves DEF ConnectionLoop
<1> QED BY <1>1, <1>2

LEMMA PageLoopEvolves ==
    ASSUME NEW h \in Hosts, Queued(h), NEW p \in Casts, Idle(h, p)
    PROVE  Evolves(h, PageLoop(h, p), {p})
<1>1. CASE OfPage(h, p, OnPage) # {}
  <2> DEFINE q == CHOOSE q \in OfPage(h, p, OnPage) : TRUE
             f == Cancel(h, q, Socket(q) # Socket(p))
  <2>1. PageLoop(h, p) = Await(f, p, "page", q)
      BY <1>1 DEF PageLoop
  <2>2. q \in Casts
      BY <1>1 DEF OfPage
  <2> HIDE DEF q
  <2>3. Evolves(h, f, {}) /\ f.waiters = h.waiters
      BY <2>2, CancelEvolves
  <2> HIDE DEF f
  <2>4. Evolves(f, Await(f, p, "page", q), {p})
    <3>1. Idle(f, p) /\ "page" \in Awaiting
        BY <2>3 DEF Idle, Awaiting
    <3> QED BY <2>2, <2>3, <3>1, AwaitEvolves DEF Evolves
  <2>5. Evolves(h, Await(f, p, "page", q), {p})
      BY <2>3, <2>4, EvolvesTransitive
  <2> QED BY <2>1, <2>5
<1>2. CASE OfPage(h, p, OnPage) = {}
  <2>1. PageLoop(h, p) = ConnectionLoop(h, p)
      BY <1>2 DEF PageLoop
  <2> QED BY <2>1, ConnectionLoopEvolves
<1> QED BY <1>1, <1>2

LEMMA SessionLoopEvolves ==
    ASSUME NEW h \in Hosts, Queued(h), NEW p \in Casts, Idle(h, p)
    PROVE  Evolves(h, SessionLoop(h, p), {p})
<1>1. CASE OfPage(h, p, OnDebugger) # {}
  <2> DEFINE q == CHOOSE q \in OfPage(h, p, OnDebugger) : TRUE
             f == Stop(h, q)
  <2>1. SessionLoop(h, p) = Await(f, p, "session", q)
      BY <1>1 DEF SessionLoop
  <2>2. q \in Casts
      BY <1>1 DEF OfPage
  <2> HIDE DEF q
  <2>3. Evolves(h, f, {}) /\ f.waiters = h.waiters
      BY <2>2, StopEvolves
  <2> HIDE DEF f
  <2>4. Evolves(f, Await(f, p, "session", q), {p})
    <3>1. Idle(f, p) /\ "session" \in Awaiting
        BY <2>3 DEF Idle, Awaiting
    <3> QED BY <2>2, <2>3, <3>1, AwaitEvolves DEF Evolves
  <2>5. Evolves(h, Await(f, p, "session", q), {p})
      BY <2>3, <2>4, EvolvesTransitive
  <2> QED BY <2>1, <2>5
<1>2. CASE OfPage(h, p, OnDebugger) = {}
  <2>1. SessionLoop(h, p) = Move(h, p, "launching")
      BY <1>2 DEF SessionLoop
  <2>2. "launching" \in Places
      BY DEF Places, Registered
  <2>3. Evolves(h, Move(h, p, "launching"), {p})
      BY <2>2, MoveEvolves
  <2> QED BY <2>1, <2>3
<1> QED BY <1>1, <1>2

\* A subscription that the desktop reads begins a cast that was not there.
LEMMA StartsEvolves ==
    ASSUME NEW h \in Hosts, Queued(h), NEW p \in Casts, h.cast[p].at = "none", NEW page \in Pages
    PROVE  Evolves(h, Starts(h, p, page), {p})
<1> DEFINE y == [h.cast[p] EXCEPT !.page = page]
           g == [h EXCEPT !.cast[p].page = page]
<1>1. h.cast \in [Casts -> CastStates] /\ h.cast[p] \in CastStates
    BY DEF Hosts
<1>2. y \in CastStates /\ y.at = h.cast[p].at
    BY <1>1 DEF CastStates
<1>3. g = [h EXCEPT !.cast = [h.cast EXCEPT ![p] = y]]
    BY DEF Hosts
<1>4. Starts(h, p, page) = PageLoop(g, p)
    BY DEF Starts
<1> HIDE DEF y, g
<1>5. /\ g \in Hosts /\ g.waiters = h.waiters /\ g.down = h.down
      /\ \A x \in Casts : g.cast[x].at = h.cast[x].at
    BY <1>1, <1>2, <1>3 DEF Hosts
<1>6. \A k \in 1..Len(h.waiters) : h.waiters[k] \in Casts
    BY ElementOfSeq DEF Hosts
<1>7. Evolves(h, g, {})
    BY <1>5, <1>6 DEF Evolves, Queued, Quiet
<1>8. Idle(g, p)
    BY <1>5, <1>7, Unqueued DEF Evolves, Awaiting
<1>9. Evolves(g, PageLoop(g, p), {p})
    BY <1>7, <1>8, PageLoopEvolves DEF Evolves
<1>10. Evolves(h, PageLoop(g, p), {p})
    BY <1>7, <1>9, EvolvesTransitive
<1> QED BY <1>4, <1>10

LEMMA RemoveAtEffect ==
    ASSUME NEW S, NEW Q \in Seq(S), NEW k \in 1..Len(Q)
    PROVE  /\ RemoveAt(Q, k) \in Seq(S) /\ Len(RemoveAt(Q, k)) = Len(Q) - 1
           /\ \A j \in 1..Len(Q) - 1 : RemoveAt(Q, k)[j] = Q[IF j < k THEN j ELSE j + 1]
<1> DEFINE A == SubSeq(Q, 1, k - 1)
           B == SubSeq(Q, k + 1, Len(Q))
<1>1. Len(Q) \in Nat /\ k \in Nat /\ 1 <= k /\ k <= Len(Q) /\ \A j \in 1..Len(Q) : Q[j] \in S
    BY LenProperties, ElementOfSeq
<1>2. /\ A \in Seq(S) /\ Len(A) = k - 1
      /\ \A j \in 1..k - 1 : A[j] = Q[j]
  <2>1. \A j \in 1..k - 1 : Q[j] \in S
      BY <1>1
  <2>2. /\ A \in Seq(S) /\ Len(A) = IF 1 <= k - 1 THEN (k - 1) - 1 + 1 ELSE 0
        /\ \A j \in 1..(k - 1) - 1 + 1 : A[j] = Q[1 + j - 1]
      BY <1>1, <2>1, SubSeqProperties
  <2> HIDE DEF A
  <2>3. \A j \in 1..k - 1 : j \in 1..(k - 1) - 1 + 1 /\ 1 + j - 1 = j
      BY <1>1
  <2> QED BY <1>1, <2>2, <2>3
<1>3. /\ B \in Seq(S) /\ Len(B) = Len(Q) - k
      /\ \A j \in 1..Len(Q) - k : B[j] = Q[k + j]
  <2>1. \A j \in k + 1..Len(Q) : Q[j] \in S
      BY <1>1
  <2>2. /\ B \in Seq(S) /\ Len(B) = IF k + 1 <= Len(Q) THEN Len(Q) - (k + 1) + 1 ELSE 0
        /\ \A j \in 1..Len(Q) - (k + 1) + 1 : B[j] = Q[(k + 1) + j - 1]
      BY <1>1, <2>1, SubSeqProperties
  <2> HIDE DEF B
  <2>3. \A j \in 1..Len(Q) - k : j \in 1..Len(Q) - (k + 1) + 1 /\ (k + 1) + j - 1 = k + j
      BY <1>1
  <2> QED BY <1>1, <2>2, <2>3
<1>4. RemoveAt(Q, k) = A \o B
    BY DEF RemoveAt
<1> HIDE DEF A, B
<1>5. /\ A \o B \in Seq(S) /\ Len(A \o B) = Len(A) + Len(B)
      /\ \A j \in 1..Len(A) + Len(B) : (A \o B)[j] = IF j <= Len(A) THEN A[j] ELSE B[j - Len(A)]
    BY <1>2, <1>3, ConcatProperties
<1>6. ASSUME NEW j \in 1..Len(Q) - 1 PROVE (A \o B)[j] = Q[IF j < k THEN j ELSE j + 1]
  <2>1. (A \o B)[j] = IF j <= k - 1 THEN A[j] ELSE B[j - (k - 1)]
      BY <1>1, <1>2, <1>3, <1>5
  <2>2. CASE j < k
      BY <1>1, <1>2, <2>1, <2>2
  <2>3. CASE ~(j < k)
    <3>1. j - (k - 1) \in 1..Len(Q) - k /\ k + (j - (k - 1)) = j + 1
        BY <1>1, <2>3
    <3>2. B[j - (k - 1)] = Q[j + 1]
        BY <1>3, <3>1
    <3> QED BY <1>1, <2>1, <2>3, <3>2
  <2> QED BY <2>2, <2>3
<1> QED BY <1>1, <1>2, <1>3, <1>4, <1>5, <1>6

Positive(S) == S \subseteq Nat \ {0}

LEMMA LeastIn ==
    ASSUME NEW S, Positive(S), S # {}
    PROVE  \E s \in S : \A u \in S : s <= u
<1>1. PICK x \in S : x \in Nat /\ x # 0
    BY DEF Positive
<1> DEFINE T == {1..s : s \in {u \in S : u <= x}}
<1>2. IsFiniteSet(1..x)
    BY <1>1, FS_Interval
<1>3. T \subseteq SUBSET (1..x) /\ T # {}
  <2>1. \A s \in S : s \in Nat
      BY DEF Positive
  <2>2. \A s \in S : s <= x => 1..s \subseteq 1..x
      BY <1>1, <2>1
  <2>3. 1..x \in T
      BY <1>1
  <2> QED BY <2>2, <2>3
<1>4. PICK M \in T : \A y \in T : y \subseteq M => y = M
  <2> DEFINE U == 1..x
  <2> HIDE DEF T, U
  <2>1. IsFiniteSet(U) /\ T \subseteq SUBSET U /\ T # {}
      BY <1>2, <1>3 DEF U
  <2>2. \E m \in T : \A y \in T : y \subseteq m => y = m
      BY ONLY <2>1, MinimalSet
  <2> QED BY <2>2
<1>5. PICK s \in S : s <= x /\ M = 1..s
    BY <1>4
<1>6. ASSUME NEW u \in S PROVE s <= u
  <2>1. s \in Nat /\ u \in Nat /\ s # 0 /\ u # 0
      BY DEF Positive
  <2>2. CASE u < s
    <3>1. u <= x
        BY <1>1, <1>5, <2>1, <2>2
    <3>2. 1..u \in T /\ 1..u \subseteq 1..s
        BY <2>1, <2>2, <3>1
    <3>3. 1..u = 1..s
        BY <1>4, <1>5, <3>2
    <3>4. s \in 1..s /\ s \notin 1..u
        BY <2>1, <2>2
    <3> QED BY <3>3, <3>4
  <2> QED BY <2>1, <2>2
<1> QED BY <1>5, <1>6

\* A cast that has been woken leaves the queue.
LEMMA WokenEffect ==
    ASSUME NEW h \in Hosts, Queued(h), NEW k \in 1..Len(h.waiters)
    PROVE  LET p == h.waiters[k]
               g == [h EXCEPT !.waiters = RemoveAt(@, k), !.cast[p].on = NoCast]
           IN  p \in Casts /\ Evolves(h, g, {}) /\ Idle(g, p) /\ h.cast[p].at \in Awaiting
<1> DEFINE p == h.waiters[k]
           y == [h.cast[p] EXCEPT !.on = NoCast]
           Q == RemoveAt(h.waiters, k)
           g == [h EXCEPT !.waiters = RemoveAt(@, k), !.cast[p].on = NoCast]
<1>1. h.cast \in [Casts -> CastStates] /\ h.waiters \in Seq(Casts) /\ p \in Casts
    BY ElementOfSeq DEF Hosts
<1>2. y \in CastStates /\ y.at = h.cast[p].at
    BY <1>1 DEF CastStates
<1>3. g = [h EXCEPT !.waiters = Q, !.cast = [h.cast EXCEPT ![p] = y]]
    BY DEF Hosts
<1>4. /\ Q \in Seq(Casts) /\ Len(Q) = Len(h.waiters) - 1 /\ Len(h.waiters) \in Nat
      /\ \A j \in 1..Len(h.waiters) - 1 : Q[j] = h.waiters[IF j < k THEN j ELSE j + 1]
    BY <1>1, RemoveAtEffect, LenProperties
<1>5. h.cast[p].at \in Awaiting
    BY DEF Queued
<1> HIDE DEF y, Q, g, p
<1>6. /\ g \in Hosts /\ g.waiters = Q /\ g.down = h.down
      /\ \A x \in Casts : g.cast[x].at = h.cast[x].at
    BY <1>1, <1>2, <1>3, <1>4 DEF Hosts
<1> DEFINE at(j) == IF j < k THEN j ELSE j + 1
<1>7. \A j \in 1..Len(Q) : at(j) \in 1..Len(h.waiters) /\ at(j) # k /\ Q[j] = h.waiters[at(j)]
    BY <1>4
<1>8. \A i, j \in 1..Len(Q) : at(i) = at(j) => i = j
    BY <1>4
<1>9. \A j \in 1..Len(h.waiters) : h.waiters[j] \in Casts
    BY <1>1, ElementOfSeq
<1> HIDE DEF at
<1>10. Queued(g)
  <2>1. \A i, j \in 1..Len(Q) : Q[i] = Q[j] => i = j
      BY <1>7, <1>8 DEF Queued
  <2>2. \A j \in 1..Len(Q) : g.cast[Q[j]].at \in Awaiting
      BY <1>6, <1>7, <1>9 DEF Queued
  <2> QED BY <1>6, <2>1, <2>2 DEF Queued
<1>11. Idle(g, p)
    BY <1>6, <1>7 DEF Idle, Queued, p
<1>12. Quiet(h, g)
    BY <1>6 DEF Quiet
<1>13. Evolves(h, g, {})
    BY <1>6, <1>10, <1>12 DEF Evolves
<1> QED BY <1>1, <1>5, <1>11, <1>13 DEF g, p

-----------------------------------------------------------------------------
(* What the steps of the phone, and those of the desktop, have in common.  *)

\* The queue R is what is left of the queue Q.
Left(Q, R) ==
    /\ Q = <<>> => R = <<>>
    /\ \A m : In(R, m) => In(Q, m)
    /\ \A i : Asked(R, i) => Asked(Q, i)
    /\ \A i : (\A j, k \in 1..Len(Q) : Asks(Q, j, i) /\ Asks(Q, k, i) => j = k)
              => \A j, k \in 1..Len(R) : Asks(R, j, i) /\ Asks(R, k, i) => j = k

LEMMA LeftCases ==
    ASSUME NEW S, NEW Q \in Seq(S)
    PROVE  Left(Q, Q) /\ Left(Q, <<>>) /\ (Q # <<>> => Left(Q, Tail(Q)))
<1>1. Left(Q, Q)
    BY DEF Left
<1>2. Left(Q, <<>>)
  <2>1. \A j : j \notin 1..Len(<<>>)
      OBVIOUS
  <2> QED BY <2>1, InEmpty, AskedEmpty DEF Left
<1>3. ASSUME Q # <<>> PROVE Left(Q, Tail(Q))
    BY <1>3, TailKeeps DEF Left
<1> QED BY <1>1, <1>2, <1>3

LEMMA PhoneStep ==
    ASSUME MobileInv, NEW d, Sound(d), PhoneBecomes(d),
           UNCHANGED <<cast, waiters, ran>>, hostEnd' \in [Sockets -> Ends],
           \A s \in Sockets : hostEnd'[s] = hostEnd[s]
               \/ (hostEnd[s] = "none" /\ d.rs[s] = "open" /\ d.client.state # "connected"),
           down' \in [Sockets -> Seq(DownMessages)],
           \A s \in Sockets : Left(down[s], down'[s]),
           dead' \subseteq Sockets, paired' \in BOOLEAN, faults' \in 0..MaxFaults
    PROVE  MobileInv'
<1>1. d = [client |-> client', stream |-> stream', req |-> req', up |-> up', rs |-> rs']
    BY DEF Sound, Phones, PhoneBecomes
<1>2. Phone' = d
    BY <1>1 DEF Phone
<1>3. Linked(Phone)'
  <2>1. d.client.state = "connected" => d.client.ws \in Sockets
      BY Constants DEF Sound, Phones, Clients, Linked, Alive
  <2> QED BY <1>2, <2>1 DEF Sound, Linked
<1>4. Pending(Phone)' /\ Routed(Phone)'
    BY <1>2 DEF Sound, Pending, Routed
<1>5. Honest(Phone)'
    BY <1>2 DEF Sound, Honest
<1>6. Once(Phone)'
    BY <1>2 DEF Sound, Once
<1>7. Unsent(Phone)'
    BY <1>2 DEF Sound, Unsent
<1>8. Unopened(Phone)'
    BY <1>2 DEF Sound, Unopened, Left
<1>9. Sound(Phone)'
    BY <1>2, <1>3, <1>4, <1>5, <1>6, <1>7, <1>8 DEF Sound
<1>10. Rest'
    BY DEF MobileInv, Rest
<1>11. (Host \in Hosts)'
    BY DEF MobileInv, Host, Hosts
<1>12. Queued(Host)'
    BY DEF MobileInv, Host, Queued
<1>13. Vouched'
    BY DEF MobileInv, Vouched, Left
<1> QED BY <1>9, <1>10, <1>11, <1>12, <1>13 DEF MobileInv

\* The phone's callbacks and calls that read no message.
LEMMA PhoneCallback ==
    ASSUME MobileInv, NEW d, Sound(d), PhoneBecomes(d),
           UNCHANGED <<hostVars, hostEnd, dead, paired, ran>>, faults' \in 0..MaxFaults
    PROVE  MobileInv'
<1>1. UNCHANGED <<cast, waiters, ran>> /\ hostEnd' = hostEnd /\ hostEnd' \in [Sockets -> Ends]
    BY DEF hostVars, MobileInv, Rest
<1>2. down' = down /\ down \in [Sockets -> Seq(DownMessages)]
    BY DEF hostVars, MobileInv, Host, Hosts
<1>3. \A s \in Sockets : Left(down[s], down'[s])
    BY <1>2, LeftCases
<1>4. dead' \subseteq Sockets /\ paired' \in BOOLEAN
    BY DEF MobileInv, Rest
<1>5. \A s \in Sockets : hostEnd'[s] = hostEnd[s]
               \/ (hostEnd[s] = "none" /\ d.rs[s] = "open" /\ d.client.state # "connected")
    BY <1>1
<1> QED BY <1>1, <1>2, <1>3, <1>4, <1>5, PhoneStep

LEMMA DesktopStep ==
    ASSUME MobileInv, NEW g, g \in Hosts, Queued(g), Becomes(g), Rest',
           UNCHANGED <<client, stream, req, rs>>,
           up' \in [Sockets -> Seq(UpMessages)], \A s \in Sockets : Left(up[s], up'[s]),
           \A s \in Sockets : hostEnd[s] \in {"ready", "closed"} => hostEnd'[s] \in {"ready", "closed"},
           \A s \in Sockets : hostEnd[s] = "none" => hostEnd'[s] = "none",
           \A r \in ran' : r \in ran \/ \E s \in Sockets : In(up[s], <<"request", r>>),
           \A i \in Streams, s \in Sockets : cast[<<i, s>>].at = "none" =>
               g.cast[<<i, s>>].at = "none" \/ (Asked(up[s], i) /\ ~Asked(up'[s], i)),
           \A s \in Sockets : rs[s] # "open" => g.down[s] = down[s],
           \A s \in Sockets : In(g.down[s], Welcome) =>
               In(down[s], Welcome) \/ hostEnd'[s] \in {"ready", "closed"}
    PROVE  MobileInv'
<1>1. g = [cast |-> cast', waiters |-> waiters', down |-> down']
    BY DEF Hosts, Becomes
<1>2. Host' = g /\ cast' = g.cast /\ waiters' = g.waiters /\ down' = g.down
    BY <1>1 DEF Host, Becomes
<1>3. /\ Phone' = [client |-> client, stream |-> stream, req |-> req, up |-> up', rs |-> rs]
      /\ Phone = [client |-> client, stream |-> stream, req |-> req, up |-> up, rs |-> rs]
    BY DEF Phone
<1>4. /\ Phone \in Phones /\ Linked(Phone) /\ Pending(Phone) /\ Honest(Phone)
      /\ Once(Phone) /\ Unsent(Phone) /\ Routed(Phone) /\ Unopened(Phone)
    BY DEF MobileInv, Sound
<1>5. /\ Phone'.client = client /\ Phone'.stream = stream /\ Phone'.req = req
      /\ Phone'.up = up' /\ Phone'.rs = rs
      /\ Phone.client = client /\ Phone.stream = stream /\ Phone.req = req
      /\ Phone.up = up /\ Phone.rs = rs
    BY <1>3
<1>6. Phone' \in Phones
    BY <1>3, <1>4 DEF Phones
<1>7. Linked(Phone)'
  <2>1. client.state = "connected" => client.ws \in Sockets
    <3>1. client \in Clients
        BY <1>4, <1>5 DEF Phones
    <3> QED BY <1>4, <1>5, <3>1, Constants DEF Linked, Alive, Clients
  <2> QED BY <1>4, <1>5, <2>1 DEF Linked
<1>8. Pending(Phone)' /\ Routed(Phone)'
    BY <1>4, <1>5 DEF Pending, Routed
<1>9. Honest(Phone)'
    BY <1>4, <1>5 DEF Honest, Left
<1>10. Once(Phone)'
    BY <1>2, <1>4, <1>5 DEF Once, Left
<1>11. Unsent(Phone)'
  <2>1. client.ws # NoSocket => client.ws \in Sockets
      BY <1>4, <1>5, Constants DEF Phones, Clients
  <2> QED BY <1>2, <1>4, <1>5, <2>1 DEF Unsent, Left
<1>12. Unopened(Phone)'
  <2> SUFFICES ASSUME NEW s \in Sockets, rs[s] \in {"none", "connecting"}
               PROVE  /\ up'[s] = <<>> /\ down'[s] = <<>> /\ hostEnd'[s] = "none"
                      /\ \A i \in Streams : cast'[<<i, s>>].at = "none"
      BY <1>5 DEF Unopened
  <2>1. /\ up[s] = <<>> /\ down[s] = <<>> /\ hostEnd[s] = "none"
        /\ \A i \in Streams : cast[<<i, s>>].at = "none"
      BY <1>4, <1>5 DEF Unopened
  <2>2. \A i : ~Asked(up[s], i)
      BY <2>1, AskedEmpty
  <2>3. up'[s] = <<>>
      BY <2>1 DEF Left
  <2> QED BY <1>2, <2>1, <2>2, <2>3
<1>13. Sound(Phone)'
    BY <1>6, <1>7, <1>8, <1>9, <1>10, <1>11, <1>12 DEF Sound
<1>14. (Host \in Hosts)' /\ Queued(Host)'
    BY <1>2 DEF Queued
<1>15. Vouched'
    BY <1>2 DEF MobileInv, Vouched, Welcome
<1> QED BY <1>13, <1>14, <1>15 DEF MobileInv

\* A stretch of the desktop that reads no message of the phone.
LEMMA DesktopStretch ==
    ASSUME MobileInv, NEW g, Evolves(Host, g, {}), Becomes(g),
           UNCHANGED <<hostEnd, rs, dead, up, client, stream, req, paired, ran>>,
           faults' \in 0..MaxFaults
    PROVE  MobileInv'
<1>1. g \in Hosts /\ Queued(g) /\ Quiet(Host, g)
    BY DEF Evolves
<1>2. \A i \in Streams, s \in Sockets : cast[<<i, s>>].at = "none" => g.cast[<<i, s>>].at = "none"
    BY DEF Evolves, Casts, Host
<1>3. up' = up /\ up \in [Sockets -> Seq(UpMessages)]
    BY DEF MobileInv, Sound, Phone, Phones
<1>4. \A s \in Sockets : Left(up[s], up'[s])
    BY <1>3, LeftCases
<1>5. Rest'
    BY DEF MobileInv, Rest
<1>6. /\ \A s \in Sockets : rs[s] # "open" => g.down[s] = down[s]
      /\ \A s \in Sockets : In(g.down[s], Welcome) => In(down[s], Welcome)
    BY <1>1 DEF Quiet, Host
<1> QED BY <1>1, <1>2, <1>3, <1>4, <1>5, <1>6, DesktopStep

-----------------------------------------------------------------------------
(* The desktop's steps.                                                    *)

LEMMA HostFacts ==
    ASSUME MobileInv
    PROVE  /\ Host \in Hosts /\ Queued(Host)
           /\ Host.cast = cast /\ Host.waiters = waiters /\ Host.down = down
           /\ cast \in [Casts -> CastStates] /\ waiters \in Seq(Casts)
           /\ down \in [Sockets -> Seq(DownMessages)]
           /\ Evolves(Host, Host, {})
<1>1. Host \in Hosts /\ Queued(Host)
    BY DEF MobileInv
<1>2. Host.cast = cast /\ Host.waiters = waiters /\ Host.down = down
    BY DEF Host
<1> QED BY <1>1, <1>2 DEF Hosts, Evolves, Quiet

\* What a step of the desktop leaves alone.
Aside == UNCHANGED <<hostEnd, rs, dead, up, client, stream, req, paired, ran>>

\* The waiter that goes on is there.
LEMMA FirstWoken ==
    ASSUME MobileInv, Resume
    PROVE  (CHOOSE k \in DOMAIN waiters : Woken(k) /\ \A j \in 1..(k - 1) : ~Woken(j)) \in 1..Len(waiters)
<1> DEFINE W == {k \in DOMAIN waiters : Woken(k)}
           k == CHOOSE k \in DOMAIN waiters : Woken(k) /\ \A j \in 1..(k - 1) : ~Woken(j)
<1>1. DOMAIN waiters = 1..Len(waiters) /\ Len(waiters) \in Nat
    BY HostFacts, LenProperties
<1>2. k \in 1..Len(waiters)
  <2>1. Positive(W) /\ W # {}
    <3>1. W # {}
        BY DEF Resume, Draining
    <3>2. \A j \in 1..Len(waiters) : j \in Nat \ {0}
        BY <1>1
    <3> QED BY <1>1, <3>1, <3>2 DEF Positive
  <2>2. PICK m \in W : \A u \in W : m <= u
    <3> HIDE DEF W
    <3> QED BY <2>1, LeastIn
  <2>3. \A j \in 1..(m - 1) : ~Woken(j)
    <3>1. ASSUME NEW j \in 1..(m - 1), Woken(j) PROVE FALSE
      <4>1. m \in 1..Len(waiters)
          BY <1>1, <2>2
      <4>2. j \in 1..Len(waiters) /\ ~(m <= j)
          BY <1>1, <4>1
      <4>3. j \in W
          BY <1>1, <3>1, <4>2
      <4> HIDE DEF W
      <4> QED BY <2>2, <4>2, <4>3
    <3> QED BY <3>1
  <2>4. m \in DOMAIN waiters /\ Woken(m) /\ \A j \in 1..(m - 1) : ~Woken(j)
      BY <2>2, <2>3
  <2>5. k \in DOMAIN waiters
      BY <2>4, Zenon
  <2> HIDE DEF k
  <2> QED BY <1>1, <2>5
<1> QED BY <1>2

LEMMA ResumeKeeps ==
    ASSUME MobileInv, Resume, UNCHANGED <<client, stream, req, paired, ran, faults>>
    PROVE  MobileInv'
<1> DEFINE k == CHOOSE k \in DOMAIN waiters : Woken(k) /\ \A j \in 1..(k - 1) : ~Woken(j)
           p == waiters[k]
           h == [Host EXCEPT !.waiters = RemoveAt(@, k), !.cast[p].on = NoCast]
           g == CASE cast[p].at = "page" -> PageLoop(h, p)
                  [] cast[p].at = "connection" -> ConnectionLoop(h, p)
                  [] cast[p].at = "session" -> SessionLoop(h, p)
<1>1. k \in 1..Len(waiters)
    BY FirstWoken
<1>2. Becomes(g) /\ Aside /\ faults' \in 0..MaxFaults
    BY DEF Resume, Aside, MobileInv, Rest
<1> HIDE DEF k
<1>3. p \in Casts /\ Evolves(Host, h, {}) /\ Idle(h, p) /\ cast[p].at \in Awaiting
    BY <1>1, HostFacts, WokenEffect
<1> HIDE DEF h, p
<1>4. Evolves(h, g, {p})
  <2>1. h \in Hosts /\ Queued(h)
      BY <1>3 DEF Evolves
  <2>2. CASE cast[p].at = "page"
      BY <1>3, <2>1, <2>2, PageLoopEvolves
  <2>3. CASE cast[p].at = "connection"
      BY <1>3, <2>1, <2>3, ConnectionLoopEvolves
  <2>4. CASE cast[p].at = "session"
      BY <1>3, <2>1, <2>4, SessionLoopEvolves
  <2> QED BY <1>3, <2>2, <2>3, <2>4 DEF Awaiting
<1> HIDE DEF g
<1>5. Evolves(Host, g, {p})
    BY <1>3, <1>4, EvolvesTransitive
<1>6. Evolves(Host, g, {})
    BY <1>3, <1>5, HostFacts, Begun DEF Awaiting
<1> QED BY <1>2, <1>6, DesktopStretch DEF Aside

\* Moving a cast that does not wait, and telling the phone.
LEMMA MoveTellEvolves ==
    ASSUME MobileInv, NEW p \in Casts, cast[p].at \notin Awaiting \cup {"none"},
           NEW place \in Places
    PROVE  /\ Evolves(Host, Move(Host, p, place), {})
           /\ \A kind \in {"ready", "error", "end", "frame"} :
                 Evolves(Host, Tell(Move(Host, p, place), p, kind), {})
           /\ Evolves(Host, Post(Move(Host, p, place), Socket(p), "ready", Stream(p)), {})
<1> DEFINE h == Move(Host, p, place)
<1>1. Host \in Hosts /\ Queued(Host) /\ Idle(Host, p) /\ Host.cast[p].at # "none"
    BY HostFacts, Unqueued
<1>2. Evolves(Host, h, {})
    BY <1>1, MoveEvolves, Begun
<1> HIDE DEF h
<1>3. h \in Hosts /\ Queued(h)
    BY <1>2 DEF Evolves
<1>4. ASSUME NEW kind \in {"ready", "error", "end", "frame"}
      PROVE  Evolves(Host, Tell(h, p, kind), {})
  <2>1. Evolves(h, Tell(h, p, kind), {})
      BY <1>3, TellEvolves
  <2> QED BY <1>2, <2>1, EvolvesTransitive
<1>5. Evolves(Host, Post(h, Socket(p), "ready", Stream(p)), {})
  <2>1. Socket(p) \in Sockets /\ <<"ready", Stream(p)>> \in DownMessages
      BY DEF Casts, Socket, Stream, DownMessages, CastMessages
  <2>2. Evolves(h, Post(h, Socket(p), "ready", Stream(p)), {})
      BY <1>3, <2>1, PostEvolves
  <2> QED BY <1>2, <2>2, EvolvesTransitive
<1> QED BY <1>2, <1>4, <1>5 DEF h

LEMMA CastStepKeeps ==
    ASSUME MobileInv, NEW p \in Casts, faults' \in 0..MaxFaults,
           UNCHANGED <<client, stream, req, paired, ran>>,
           \/ Resolved(p) \/ Launched(p) \/ SessionDone(p) \/ LaunchFails(p)
           \/ PageCloses(p) \/ reclaimBrowserForDesktop(p) \/ Frame(p)
    PROVE  MobileInv'
<1>0. {"running", "dropping", "over", "ending"} \subseteq Places
    BY DEF Places, Registered
<1>1. CASE Resolved(p)
  <2>1. Becomes(SessionLoop(Host, p)) /\ Aside
      BY <1>1 DEF Resolved, Aside
  <2>2. Idle(Host, p) /\ Host.cast[p].at # "none"
      BY <1>1, HostFacts, Unqueued DEF Resolved, Awaiting
  <2>3. Evolves(Host, SessionLoop(Host, p), {p})
      BY <2>2, HostFacts, SessionLoopEvolves
  <2>4. Evolves(Host, SessionLoop(Host, p), {})
      BY <2>2, <2>3, Begun
  <2> QED BY <2>1, <2>4, DesktopStretch DEF Aside
<1>2. CASE Launched(p)
  <2> DEFINE g == IF GivesUp(p) THEN Move(Host, p, "dropping")
                  ELSE Post(Move(Host, p, "running"), Socket(p), "ready", Stream(p))
  <2>1. Becomes(g) /\ Aside
      BY <1>2 DEF Launched, Aside
  <2>2. Evolves(Host, g, {})
    <3>1. cast[p].at \notin Awaiting \cup {"none"}
        BY <1>2 DEF Launched, Awaiting
    <3> QED BY <1>0, <3>1, MoveTellEvolves
  <2> HIDE DEF g
  <2> QED BY <2>1, <2>2, DesktopStretch DEF Aside
<1>3. CASE SessionDone(p)
  <2> DEFINE h == Move(Host, p, "over")
             g == CASE cast[p].at = "dropping" /\ "stopped" \in cast[p].marks -> Tell(h, p, "error")
                    [] cast[p].at = "ending" /\ "ended" \notin cast[p].marks -> Tell(h, p, "end")
                    [] OTHER -> h
  <2>1. Becomes(g) /\ Aside
      BY <1>3 DEF SessionDone, Aside
  <2>2. Evolves(Host, h, {}) /\ Evolves(Host, Tell(h, p, "error"), {}) /\ Evolves(Host, Tell(h, p, "end"), {})
    <3>1. cast[p].at \notin Awaiting \cup {"none"}
        BY <1>3 DEF SessionDone, Awaiting
    <3> QED BY <1>0, <3>1, MoveTellEvolves
  <2> HIDE DEF h
  <2>3. Evolves(Host, g, {})
      BY <2>2
  <2> HIDE DEF g
  <2> QED BY <2>1, <2>3, DesktopStretch DEF Aside
<1>4. CASE LaunchFails(p)
  <2> DEFINE g == Tell(Move(Host, p, "over"), p, "error")
  <2>1. Becomes(g) /\ Aside
      BY <1>4 DEF LaunchFails, Aside
  <2>2. Evolves(Host, g, {})
    <3>1. cast[p].at \notin Awaiting \cup {"none"}
        BY <1>4 DEF LaunchFails, Awaiting
    <3> QED BY <1>0, <3>1, MoveTellEvolves
  <2> HIDE DEF g
  <2> QED BY <2>1, <2>2, DesktopStretch DEF Aside
<1>5. CASE PageCloses(p)
  <2> DEFINE g == Move(Host, p, "ending")
  <2>1. Becomes(g) /\ Aside
      BY <1>5 DEF PageCloses, Aside
  <2>2. Evolves(Host, g, {})
    <3>1. cast[p].at \notin Awaiting \cup {"none"}
        BY <1>5 DEF PageCloses, Awaiting
    <3> QED BY <1>0, <3>1, MoveTellEvolves
  <2> HIDE DEF g
  <2> QED BY <2>1, <2>2, DesktopStretch DEF Aside
<1>6. CASE reclaimBrowserForDesktop(p)
  <2>1. Becomes(Cancel(Host, p, TRUE)) /\ Aside
      BY <1>6 DEF reclaimBrowserForDesktop, Aside
  <2>2. Evolves(Host, Cancel(Host, p, TRUE), {})
      BY HostFacts, CancelEvolves
  <2> QED BY <2>1, <2>2, DesktopStretch DEF Aside
<1>7. CASE Frame(p)
  <2> DEFINE g == Post(Host, Socket(p), "frame", Stream(p))
  <2>1. Becomes(g) /\ Aside
      BY <1>7 DEF Frame, Aside
  <2>2. Evolves(Host, g, {})
    <3>1. Socket(p) \in Sockets /\ <<"frame", Stream(p)>> \in DownMessages
        BY DEF Casts, Socket, Stream, DownMessages, CastMessages
    <3> QED BY <3>1, HostFacts, PostEvolves
  <2> HIDE DEF g
  <2> QED BY <2>1, <2>2, DesktopStretch DEF Aside
<1> QED BY <1>1, <1>2, <1>3, <1>4, <1>5, <1>6, <1>7

\* The desktop's end of connection s becomes e, and reads what the queue there loses.
LEMMA EndsKept ==
    ASSUME MobileInv, NEW s \in Sockets, NEW e \in Ends \ {"none"},
           hostEnd' = [hostEnd EXCEPT ![s] = e], hostEnd[s] # "none",
           hostEnd[s] \in {"ready", "closed"} => e \in {"ready", "closed"}
    PROVE  /\ hostEnd' \in [Sockets -> Ends] /\ hostEnd'[s] = e
           /\ \A t \in Sockets : hostEnd[t] \in {"ready", "closed"} => hostEnd'[t] \in {"ready", "closed"}
           /\ \A t \in Sockets : hostEnd[t] = "none" => hostEnd'[t] = "none"
BY DEF MobileInv, Rest

LEMMA QueueKept ==
    ASSUME MobileInv, NEW s \in Sockets, NEW R, Left(up[s], R), R \in Seq(UpMessages),
           up' = [up EXCEPT ![s] = R]
    PROVE  /\ up' \in [Sockets -> Seq(UpMessages)] /\ up'[s] = R
           /\ \A t \in Sockets : Left(up[t], up'[t])
<1>1. up \in [Sockets -> Seq(UpMessages)]
    BY DEF MobileInv, Sound, Phone, Phones
<1>2. \A t \in Sockets : up'[t] = IF t = s THEN R ELSE up[t]
    BY <1>1
<1> QED BY <1>1, <1>2, LeftCases

LEMMA HostClosesKeeps ==
    ASSUME MobileInv, NEW s \in Sockets, HostCloses(s)
    PROVE  MobileInv'
<1> DEFINE on == {q \in Casts : Socket(q) = s /\ cast[q].at \in Registered}
           g == IF on = {} THEN Host ELSE Cancel(Host, CHOOSE q \in on : TRUE, FALSE)
<1>1. Becomes(g)
  <2>1. IF on = {} THEN UNCHANGED hostVars ELSE Becomes(Cancel(Host, CHOOSE q \in on : TRUE, FALSE))
      BY DEF HostCloses, HostClosed
  <2>2. CASE on = {}
    <3>1. Becomes(Host)
        BY <2>1, <2>2 DEF Becomes, Host, hostVars
    <3> QED BY <2>2, <3>1
  <2>3. CASE on # {}
      BY <2>1, <2>3
  <2> QED BY <2>2, <2>3
<1>2. Evolves(Host, g, {})
  <2>1. on # {} => (CHOOSE q \in on : TRUE) \in Casts
      OBVIOUS
  <2>2. on # {} => Evolves(Host, Cancel(Host, CHOOSE q \in on : TRUE, FALSE), {})
      BY <2>1, HostFacts, CancelEvolves
  <2> QED BY <2>2, HostFacts
<1> HIDE DEF g
<1>3. /\ hostEnd' = [hostEnd EXCEPT ![s] = "closed"] /\ hostEnd[s] # "none" /\ "closed" \in Ends
      /\ up' = [up EXCEPT ![s] = <<>>]
      /\ UNCHANGED <<rs, dead, client, stream, req, paired, ran, faults>>
    BY DEF HostCloses, HostClosed, Ends
<1>4. /\ hostEnd' \in [Sockets -> Ends]
      /\ \A t \in Sockets : hostEnd[t] \in {"ready", "closed"} => hostEnd'[t] \in {"ready", "closed"}
      /\ \A t \in Sockets : hostEnd[t] = "none" => hostEnd'[t] = "none"
    BY <1>3, EndsKept
<1>5. up' \in [Sockets -> Seq(UpMessages)] /\ \A t \in Sockets : Left(up[t], up'[t])
  <2>1. Left(up[s], <<>>) /\ <<>> \in Seq(UpMessages)
    <3>1. up[s] \in Seq(UpMessages)
        BY DEF MobileInv, Sound, Phone, Phones
    <3> QED BY <3>1, LeftCases
  <2> QED BY <1>3, <2>1, QueueKept
<1>6. Rest'
    BY <1>3, <1>4 DEF MobileInv, Rest
<1>7. /\ g \in Hosts /\ Queued(g)
      /\ \A t \in Sockets : rs[t] # "open" => g.down[t] = down[t]
      /\ \A t \in Sockets : In(g.down[t], Welcome) => In(down[t], Welcome)
      /\ \A i \in Streams, t \in Sockets : cast[<<i, t>>].at = "none" => g.cast[<<i, t>>].at = "none"
    BY <1>2, HostFacts DEF Evolves, Quiet, Casts
<1> QED BY <1>1, <1>3, <1>4, <1>5, <1>6, <1>7, DesktopStep

LEMMA HostReceivesKeeps ==
    ASSUME MobileInv, NEW s \in Sockets, HostReceives(s)
    PROVE  MobileInv'
<1> DEFINE kind == Head(up[s])[1]
           x == Head(up[s])[2]
<1>0. /\ up[s] # <<>> /\ hostEnd[s] \in {"hello", "auth", "ready"}
      /\ up' = [up EXCEPT ![s] = Tail(@)]
      /\ UNCHANGED <<client, stream, req, rs, dead, paired, faults>>
    BY DEF HostReceives
<1>1. up \in [Sockets -> Seq(UpMessages)] /\ up[s] \in Seq(UpMessages)
    BY DEF MobileInv, Sound, Phone, Phones
<1>2. /\ Head(up[s]) \in UpMessages /\ Head(up[s]) = <<kind, x>> /\ In(up[s], <<kind, x>>)
  <2>1. Head(up[s]) \in UpMessages /\ In(up[s], Head(up[s]))
      BY <1>0, <1>1, TailKeeps
  <2>2. Head(up[s]) = <<kind, x>>
      BY <2>1 DEF UpMessages
  <2> QED BY <2>1, <2>2
<1>3. /\ up' \in [Sockets -> Seq(UpMessages)] /\ up'[s] = Tail(up[s])
      /\ \A t \in Sockets : Left(up[t], up'[t])
  <2>1. Left(up[s], Tail(up[s])) /\ Tail(up[s]) \in Seq(UpMessages)
      BY <1>0, <1>1, LeftCases, TailKeeps
  <2> QED BY <1>0, <2>1, QueueKept
<1>4. hostEnd \in [Sockets -> Ends] /\ ran \subseteq Requests
    BY DEF MobileInv, Rest
\* What remains to be shown of each message, where it begins no cast.
<1>5. ASSUME NEW g, Becomes(g), Evolves(Host, g, {}),
             hostEnd' \in [Sockets -> Ends],
             \A t \in Sockets : hostEnd[t] \in {"ready", "closed"} => hostEnd'[t] \in {"ready", "closed"},
             \A t \in Sockets : hostEnd[t] = "none" => hostEnd'[t] = "none",
             ran' \subseteq Requests,
             \A r \in ran' : r \in ran \/ In(up[s], <<"request", r>>)
      PROVE  MobileInv'
  <2>1. Rest'
      BY <1>0, <1>5 DEF MobileInv, Rest
  <2>2. /\ g \in Hosts /\ Queued(g)
        /\ \A t \in Sockets : rs[t] # "open" => g.down[t] = down[t]
        /\ \A t \in Sockets : In(g.down[t], Welcome) => In(down[t], Welcome)
        /\ \A i \in Streams, t \in Sockets : cast[<<i, t>>].at = "none" => g.cast[<<i, t>>].at = "none"
      BY <1>5, HostFacts DEF Evolves, Quiet, Casts
  <2>3. \A r \in ran' : r \in ran \/ \E t \in Sockets : In(up[t], <<"request", r>>)
      BY <1>5
  <2> HIDE DEF kind, x
  <2> QED BY <1>0, <1>3, <1>5, <2>1, <2>2, <2>3, DesktopStep
<1>6. ASSUME UNCHANGED hostEnd
      PROVE  /\ hostEnd' \in [Sockets -> Ends]
             /\ \A t \in Sockets : hostEnd[t] \in {"ready", "closed"} => hostEnd'[t] \in {"ready", "closed"}
             /\ \A t \in Sockets : hostEnd[t] = "none" => hostEnd'[t] = "none"
    BY <1>4, <1>6
<1>7. CASE /\ hostEnd[s] = "hello" /\ hostEnd' = [hostEnd EXCEPT ![s] = "auth"]
           /\ Answers(s, "e2ee_ready", 0) /\ UNCHANGED ran
  <2> DEFINE g == Post(Host, s, "e2ee_ready", 0)
  <2>1. <<"e2ee_ready", 0>> \in DownMessages
      BY DEF DownMessages, Handshake
  <2>2. Evolves(Host, g, {})
      BY <2>1, HostFacts, PostEvolves
  <2>3. Becomes(g)
      BY <1>7 DEF Answers
  <2> HIDE DEF g
  <2>4. /\ hostEnd' \in [Sockets -> Ends]
        /\ \A t \in Sockets : hostEnd[t] \in {"ready", "closed"} => hostEnd'[t] \in {"ready", "closed"}
        /\ \A t \in Sockets : hostEnd[t] = "none" => hostEnd'[t] = "none"
    <3>1. "auth" \in Ends \ {"none"}
        BY DEF Ends
    <3> QED BY <1>7, <3>1, EndsKept
  <2> QED BY <1>4, <1>5, <1>7, <2>2, <2>3, <2>4
<1>8. CASE /\ hostEnd[s] = "auth" /\ hostEnd' = [hostEnd EXCEPT ![s] = "ready"]
           /\ Answers(s, "e2ee_authenticated", 0) /\ UNCHANGED ran
  <2> DEFINE g == Post(Host, s, "e2ee_authenticated", 0)
  <2>1. <<"e2ee_authenticated", 0>> \in DownMessages
      BY DEF DownMessages, Handshake
  <2>2. /\ g \in Hosts /\ g.waiters = waiters /\ g.cast = cast
        /\ \A t \in Sockets : rs[t] # "open" \/ t # s => g.down[t] = down[t]
      BY <2>1, HostFacts, PostEffect
  <2>3. Becomes(g)
      BY <1>8 DEF Answers
  <2> HIDE DEF g
  <2>4. /\ hostEnd' \in [Sockets -> Ends] /\ hostEnd'[s] = "ready"
        /\ \A t \in Sockets : hostEnd[t] \in {"ready", "closed"} => hostEnd'[t] \in {"ready", "closed"}
        /\ \A t \in Sockets : hostEnd[t] = "none" => hostEnd'[t] = "none"
    <3>1. "ready" \in Ends \ {"none"}
        BY DEF Ends
    <3> QED BY <1>8, <3>1, EndsKept
  <2>5. Queued(g)
      BY <2>2, HostFacts DEF Queued
  <2>6. Rest'
      BY <1>0, <1>8, <2>4 DEF MobileInv, Rest
  <2>7. \A t \in Sockets : In(g.down[t], Welcome) => In(down[t], Welcome) \/ hostEnd'[t] \in {"ready", "closed"}
      BY <2>2, <2>4
  <2>8. \A r \in ran' : r \in ran
      BY <1>8
  <2> HIDE DEF kind, x
  <2> QED BY <1>0, <1>3, <2>2, <2>3, <2>4, <2>5, <2>6, <2>7, <2>8, DesktopStep
<1>9. CASE /\ hostEnd[s] = "auth" /\ hostEnd' = [hostEnd EXCEPT ![s] = "refused"]
           /\ Answers(s, "e2ee_error", 0) /\ UNCHANGED ran
  <2> DEFINE g == Post(Host, s, "e2ee_error", 0)
  <2>1. <<"e2ee_error", 0>> \in DownMessages
      BY DEF DownMessages, Handshake
  <2>2. Evolves(Host, g, {})
      BY <2>1, HostFacts, PostEvolves
  <2>3. Becomes(g)
      BY <1>9 DEF Answers
  <2> HIDE DEF g
  <2>4. /\ hostEnd' \in [Sockets -> Ends]
        /\ \A t \in Sockets : hostEnd[t] \in {"ready", "closed"} => hostEnd'[t] \in {"ready", "closed"}
        /\ \A t \in Sockets : hostEnd[t] = "none" => hostEnd'[t] = "none"
    <3>1. "refused" \in Ends \ {"none"}
        BY DEF Ends
    <3> QED BY <1>9, <3>1, EndsKept
  <2> QED BY <1>4, <1>5, <1>9, <2>2, <2>3, <2>4
<1>10. CASE /\ UNCHANGED hostEnd /\ UNCHANGED ran
            /\ kind = "subscribe" /\ Becomes(Starts(Host, <<x[1], s>>, x[2]))
  <2> DEFINE i == x[1]
             p == <<i, s>>
             g == Starts(Host, p, x[2])
  <2>1. i \in Streams /\ x[2] \in Pages /\ Asking(Head(up[s]), i)
    <3>1. x \in Streams \X Pages
        BY <1>2, <1>10 DEF UpMessages
    <3> QED BY <1>10, <3>1 DEF Asking
  <2>2. Asked(up[s], i) /\ ~Asked(up'[s], i) /\ cast[p].at = "none"
    <3>1. Once(Phone) /\ Phone.up = up
        BY DEF MobileInv, Sound, Phone
    <3>2. Asked(up[s], i)
        BY <1>0, <1>1, <2>1, TailKeeps
    <3>3. \A j, k \in 1..Len(up[s]) : Asks(up[s], j, i) /\ Asks(up[s], k, i) => j = k
        BY <2>1, <3>1 DEF Once
    <3>4. ~Asked(Tail(up[s]), i)
        BY <1>0, <1>1, <2>1, <3>3, TailKeeps
    <3> QED BY <1>3, <2>1, <3>1, <3>2, <3>4 DEF Once
  <2>3. p \in Casts
      BY <2>1 DEF Casts
  <2>4. Evolves(Host, g, {p})
      BY <2>1, <2>2, <2>3, HostFacts, StartsEvolves
  <2>5. Becomes(g)
      BY <1>10
  <2> HIDE DEF g
  <2>6. /\ g \in Hosts /\ Queued(g)
        /\ \A t \in Sockets : rs[t] # "open" => g.down[t] = down[t]
        /\ \A t \in Sockets : In(g.down[t], Welcome) => In(down[t], Welcome)
        /\ \A q \in Casts \ {p} : cast[q].at = "none" => g.cast[q].at = "none"
      BY <2>4, HostFacts DEF Evolves, Quiet
  <2>7. ASSUME NEW j \in Streams, NEW t \in Sockets, cast[<<j, t>>].at = "none"
        PROVE  g.cast[<<j, t>>].at = "none" \/ (Asked(up[t], j) /\ ~Asked(up'[t], j))
    <3>1. CASE j = i /\ t = s
        BY <2>2, <3>1
    <3>2. CASE ~(j = i /\ t = s)
      <4>1. <<j, t>> \in Casts \ {p}
          BY <3>2 DEF Casts
      <4> QED BY <2>6, <2>7, <4>1
    <3> QED BY <3>1, <3>2
  <2>8. Rest'
      BY <1>0, <1>10 DEF MobileInv, Rest
  <2>9. (\A r \in ran' : r \in ran) /\ hostEnd' = hostEnd
      BY <1>10
  <2> HIDE DEF kind, x, i, p
  <2> QED BY <1>0, <1>3, <2>5, <2>6, <2>7, <2>8, <2>9, DesktopStep
<1>11. CASE /\ UNCHANGED hostEnd /\ UNCHANGED ran
            /\ kind = "unsubscribe" /\ Becomes(CleanupSubscription(Host, x))
  <2>1. x \in Casts
      BY <1>2, <1>11 DEF UpMessages
  <2>2. Evolves(Host, CleanupSubscription(Host, x), {})
      BY <2>1, HostFacts, CancelEvolves DEF CleanupSubscription
  <2> QED BY <1>4, <1>5, <1>6, <1>11, <2>2
<1>12. CASE /\ UNCHANGED hostEnd
            /\ kind = "request" /\ ran' = ran \cup {x}
            /\ Answers(s, "reply", x) \/ UNCHANGED hostVars
  <2>1. x \in Requests /\ In(up[s], <<"request", x>>)
      BY <1>2, <1>12 DEF UpMessages
  <2>2. <<"reply", x>> \in DownMessages
      BY <2>1 DEF DownMessages
  <2>3. Evolves(Host, Post(Host, s, "reply", x), {})
      BY <2>2, HostFacts, PostEvolves
  <2>4. ran' \subseteq Requests /\ \A r \in ran' : r \in ran \/ In(up[s], <<"request", r>>)
      BY <1>4, <1>12, <2>1
  <2>5. CASE Answers(s, "reply", x)
    <3>1. Becomes(Post(Host, s, "reply", x))
        BY <2>5 DEF Answers
    <3> QED BY <1>5, <1>6, <1>12, <2>3, <2>4, <3>1
  <2>6. CASE UNCHANGED hostVars
    <3>1. Becomes(Host)
        BY <2>6 DEF Becomes, Host, hostVars
    <3>2. Evolves(Host, Host, {})
        BY HostFacts
    <3> QED BY <1>5, <1>6, <1>12, <2>4, <3>1, <3>2
  <2> QED BY <1>12, <2>5, <2>6
<1> QED BY <1>7, <1>8, <1>9, <1>10, <1>11, <1>12 DEF HostReceives

\* A message is answered with `unauthorized` instead of being acted on.
LEMMA RejectsTokenKeeps ==
    ASSUME MobileInv, NEW s \in Sockets, RejectsToken(s)
    PROVE  MobileInv'
<1> DEFINE g == Post(Host, s, "unauthorized", 0)
<1>1. /\ up[s] # <<>> /\ up' = [up EXCEPT ![s] = Tail(@)] /\ Becomes(g)
      /\ UNCHANGED <<hostEnd, rs, dead, client, stream, req, paired, ran>>
    BY DEF RejectsToken, Answers
<1>2. faults' \in 0..MaxFaults
    BY Constants DEF MobileInv, Rest, RejectsToken, Fault
<1>3. Evolves(Host, g, {})
  <2>1. <<"unauthorized", 0>> \in DownMessages
      BY DEF DownMessages, Rejection
  <2> QED BY <2>1, HostFacts, PostEvolves
<1> HIDE DEF g
<1>4. up' \in [Sockets -> Seq(UpMessages)] /\ \A t \in Sockets : Left(up[t], up'[t])
  <2>1. up[s] \in Seq(UpMessages)
      BY DEF MobileInv, Sound, Phone, Phones
  <2>2. Left(up[s], Tail(up[s])) /\ Tail(up[s]) \in Seq(UpMessages)
      BY <1>1, <2>1, LeftCases, TailKeeps
  <2> QED BY <1>1, <2>2, QueueKept
<1>5. Rest'
    BY <1>1, <1>2 DEF MobileInv, Rest
<1>6. /\ g \in Hosts /\ Queued(g)
      /\ \A t \in Sockets : rs[t] # "open" => g.down[t] = down[t]
      /\ \A t \in Sockets : In(g.down[t], Welcome) => In(down[t], Welcome)
      /\ \A i \in Streams, t \in Sockets : cast[<<i, t>>].at = "none" => g.cast[<<i, t>>].at = "none"
    BY <1>3, HostFacts DEF Evolves, Quiet, Casts
<1> QED BY <1>1, <1>4, <1>5, <1>6, DesktopStep

-----------------------------------------------------------------------------
(* The phone's steps.                                                      *)

LEMMA PhoneFacts ==
    ASSUME MobileInv
    PROVE  /\ Sound(Phone)
           /\ Phone.client = client /\ Phone.stream = stream /\ Phone.req = req
           /\ Phone.up = up /\ Phone.rs = rs
           /\ client \in Clients /\ stream \in [Streams -> StreamStates]
           /\ req \in [Requests -> Outcomes] /\ up \in [Sockets -> Seq(UpMessages)]
           /\ rs \in [Sockets -> Ready] /\ faults \in 0..MaxFaults
           /\ ws \in Sockets \cup {0} /\ ws = Phone.client.ws
<1>1. Sound(Phone) /\ Phone \in Phones /\ faults \in 0..MaxFaults
    BY DEF MobileInv, Sound, Rest
<1>2. /\ Phone.client = client /\ Phone.stream = stream /\ Phone.req = req
      /\ Phone.up = up /\ Phone.rs = rs
    BY DEF Phone
<1> QED BY <1>1, <1>2, Constants DEF Phones, Clients, ws

LEMMA FaultsBounded ==
    ASSUME MobileInv, Fault \/ NoFault
    PROVE  faults' \in 0..MaxFaults
BY PhoneFacts, Constants DEF Fault, NoFault

\* onopen: the client greets the desktop.
Opened(c, w) ==
    InState([c EXCEPT !.rs[w] = "open", !.client.attempt = 0, !.up[w] = <<<<"hello", 0>>>>],
            "handshaking")

LEMMA OpenSound ==
    ASSUME NEW c, Sound(c), c.client.state = "connecting"
    PROVE  LET w == c.client.ws
               d == Opened(c, w)
           IN  /\ Sound(d) /\ d.rs[w] = "open" /\ d.client.state = "handshaking"
               /\ d.stream = c.stream /\ d.client.ws = w
               /\ d.client.active = c.client.active /\ d.client.pending = c.client.pending
               /\ \A s \in Sockets : s # w => d.up[s] = c.up[s]
               /\ \A n : In(d.up[w], n) => n = <<"hello", 0>>
               /\ \A i : ~Asked(d.up[w], i)
<1> DEFINE w == c.client.ws
           Q == <<<<"hello", 0>>>>
           d == Opened(c, w)
<1>1. /\ c \in Phones /\ c.client \in Clients /\ w \in Sockets
      /\ c.up \in [Sockets -> Seq(UpMessages)] /\ c.rs \in [Sockets -> Ready]
    BY Constants DEF Sound, Phones, Clients, Linked, Alive
<1>2. Q \in Seq(UpMessages) /\ \A n : In(Q, n) <=> n = <<"hello", 0>>
  <2>1. <<"hello", 0>> \in UpMessages
      BY DEF UpMessages
  <2>2. Q \in Seq(UpMessages) /\ Len(Q) = 1 /\ Q[1] = <<"hello", 0>>
      BY <2>1
  <2> HIDE DEF Q
  <2>3. 1..Len(Q) = {1}
      BY <2>2
  <2> QED BY <2>2, <2>3 DEF In
<1>3. \A i : ~Asked(Q, i)
  <2>1. Len(Q) = 1 /\ Q[1] = <<"hello", 0>>
      OBVIOUS
  <2> HIDE DEF Q
  <2> QED BY <2>1 DEF Asked, Asks, Asking
<1>4. \A j, k \in 1..Len(Q) : j = k
  <2>1. Len(Q) = 1
      OBVIOUS
  <2> HIDE DEF Q
  <2> QED BY <2>1
<1> HIDE DEF Q
<1> DEFINE A == [c.client EXCEPT !.attempt = 0]
           B == [c.rs EXCEPT ![w] = "open"]
           U == [c.up EXCEPT ![w] = Q]
           e == [c EXCEPT !.rs = B, !.client = A, !.up = U]
           k == [A EXCEPT !.state = "handshaking"]
<1>5. A \in Clients /\ B \in [Sockets -> Ready] /\ U \in [Sockets -> Seq(UpMessages)]
  <2>1. 0 \in 0..GiveUp
      BY Constants
  <2>2. "open" \in Ready
      BY DEF Ready
  <2> QED BY <1>1, <1>2, <2>1, <2>2 DEF Clients
<1>6. /\ k \in Clients /\ k.state = "handshaking" /\ k.ws = c.client.ws
      /\ k.timer = c.client.timer /\ k.closed = c.client.closed
      /\ k.rejections = c.client.rejections
      /\ k.active = c.client.active /\ k.pending = c.client.pending
  <2>1. "handshaking" \in States
      BY DEF States, Alive
  <2> QED BY <1>1, <1>5, <2>1 DEF Clients
<1>7. d = [e EXCEPT !.client = k]
  <2>1. d = [e EXCEPT !.client.state = "handshaking"]
      BY <1>1 DEF Opened, InState, Phones, Q
  <2>2. e.client = A /\ e \in Phones
      BY <1>1, <1>5 DEF Phones
  <2> HIDE DEF e, A, d
  <2> QED BY <2>1, <2>2 DEF Phones
<1> HIDE DEF A, k, d
<1>8. /\ d \in Phones /\ d.client = k /\ d.stream = c.stream /\ d.req = c.req
      /\ d.up = U /\ d.rs = B
    BY <1>1, <1>5, <1>6, <1>7 DEF Phones
<1>9. /\ d.client.state = "handshaking" /\ d.client.ws = w
      /\ d.client.timer = c.client.timer /\ d.client.closed = c.client.closed
      /\ d.client.rejections = c.client.rejections
      /\ d.client.active = c.client.active /\ d.client.pending = c.client.pending
    BY <1>6, <1>8
<1>10. /\ d.up[w] = Q /\ d.rs[w] = "open"
       /\ \A s \in Sockets : s # w => d.up[s] = c.up[s] /\ d.rs[s] = c.rs[s]
    BY <1>1, <1>8
<1> HIDE DEF w
<1>11. Linked(d)
    BY <1>1, <1>9, <1>10, Constants DEF Sound, Linked, Alive, w
<1>12. Pending(d) /\ Routed(d)
    BY <1>8, <1>9 DEF Sound, Pending, Routed
<1>13. Honest(d)
  <2>1. \A r \in Requests : ~In(d.up[w], <<"request", r>>)
      BY <1>2, <1>10
  <2>2. \A r \in Requests, s \in Sockets : In(d.up[s], <<"request", r>>) => In(c.up[s], <<"request", r>>)
      BY <1>10, <2>1
  <2> QED BY <1>8, <2>2 DEF Sound, Honest
<1>14. Once(d)
  <2>1. \A s \in Sockets, i \in Streams : \A j, l \in 1..Len(d.up[s]) :
          Asks(d.up[s], j, i) /\ Asks(d.up[s], l, i) => j = l
      BY <1>4, <1>10 DEF Sound, Once
  <2>2. \A s \in Sockets, i \in Streams : Asked(d.up[s], i) => cast[<<i, s>>].at = "none"
      BY <1>3, <1>10 DEF Sound, Once
  <2> QED BY <2>1, <2>2 DEF Once
<1>15. Unsent(d)
  <2>1. \A i \in Streams : cast[<<i, w>>].at = "none"
      BY <1>1 DEF Sound, Linked, Unopened, w
  <2> QED BY <1>3, <1>9, <1>10, <2>1 DEF Unsent
<1>16. Unopened(d)
    BY <1>10 DEF Sound, Unopened
<1>17. (\A n : In(d.up[w], n) => n = <<"hello", 0>>) /\ \A i : ~Asked(d.up[w], i)
    BY <1>2, <1>3, <1>10
<1> QED BY <1>8, <1>9, <1>10, <1>11, <1>12, <1>13, <1>14, <1>15, <1>16, <1>17 DEF Sound, d, w, Q

LEMMA OnOpenKeeps ==
    ASSUME MobileInv, OnOpen
    PROVE  MobileInv'
<1> DEFINE d == Opened(Phone, ws)
<1>1. /\ client.state = "connecting" /\ rs[ws] = "connecting" /\ PhoneBecomes(d)
      /\ hostEnd' = [hostEnd EXCEPT ![ws] = "hello"]
      /\ UNCHANGED <<hostVars, dead, paired, ran, faults>>
    BY DEF OnOpen, Opened, NoFault
<1>2. Sound(d) /\ d.rs[ws] = "open" /\ d.client.state = "handshaking"
  <2>1. Sound(Phone) /\ Phone.client.state = "connecting" /\ Phone.client.ws = ws
      BY <1>1, PhoneFacts
  <2> QED BY <2>1, OpenSound
<1> HIDE DEF d
<1>3. ws \in Sockets /\ hostEnd[ws] = "none"
    BY <1>1, PhoneFacts, Constants DEF Sound, Linked, Unopened, Alive
<1>4. hostEnd \in [Sockets -> Ends]
    BY DEF MobileInv, Rest
<1>5. /\ hostEnd' \in [Sockets -> Ends]
      /\ \A s \in Sockets : hostEnd'[s] = hostEnd[s]
            \/ (hostEnd[s] = "none" /\ d.rs[s] = "open" /\ d.client.state # "connected")
    BY <1>1, <1>2, <1>3, <1>4 DEF Ends
<1>6. UNCHANGED <<cast, waiters, ran>> /\ down' = down /\ down \in [Sockets -> Seq(DownMessages)]
    BY <1>1, HostFacts DEF hostVars
<1>7. \A s \in Sockets : Left(down[s], down'[s])
    BY <1>6, LeftCases
<1>8. dead' \subseteq Sockets /\ paired' \in BOOLEAN /\ faults' \in 0..MaxFaults
    BY <1>1 DEF MobileInv, Rest
<1> QED BY <1>1, <1>2, <1>5, <1>6, <1>7, <1>8, PhoneStep

\* A link that is closed, by an error of it or for its silence.
LEMMA ClosedLost ==
    ASSUME MobileInv, ws # 0
    PROVE  /\ Losing(CloseSocket(Phone))
           /\ Sound(handleSocketClosed(CloseSocket(Phone), FALSE))
<1>1. Losing(CloseSocket(Phone))
    BY PhoneFacts, ClosedLosing
<1> QED BY <1>1, LosingLost

LEMMA ConnectFailsKeeps ==
    ASSUME MobileInv, ConnectFails \/ LinkError
    PROVE  MobileInv'
<1> DEFINE d == handleSocketClosed(CloseSocket(Phone), FALSE)
<1>1. PhoneBecomes(d) /\ UNCHANGED <<hostVars, hostEnd, dead, paired, ran, faults>>
    BY DEF ConnectFails, LinkError, NoFault
<1>2. ws # 0
  <2>1. Linked(Phone) /\ Phone.client = client
      BY PhoneFacts DEF Sound
  <2>2. dead \subseteq Sockets
      BY DEF MobileInv, Rest
  <2> QED BY <2>1, <2>2, Constants DEF ConnectFails, LinkError, Linked, Alive, ws
<1>3. Sound(d)
    BY <1>2, ClosedLost
<1> HIDE DEF d
<1>4. faults' \in 0..MaxFaults /\ UNCHANGED <<hostVars, hostEnd, dead, paired, ran>>
    BY <1>1, PhoneFacts
<1> QED BY <1>1, <1>3, <1>4, PhoneCallback

LEMMA LinkTimeoutKeeps ==
    ASSUME MobileInv, LinkTimeout
    PROVE  MobileInv'
<1> DEFINE c == Phone
           d == CloseSocket(c)
<1>1. /\ client.state \in {"handshaking", "connected"} /\ PhoneBecomes(d)
      /\ UNCHANGED <<hostVars, hostEnd, dead, paired, ran>> /\ faults' \in 0..MaxFaults
    BY FaultsBounded DEF LinkTimeout
<1>2. Sound(c) /\ c.client = client
    BY PhoneFacts
<1>3. c.client.ws \in Sockets /\ c.rs \in [Sockets -> Ready] /\ c \in Phones
    BY <1>1, <1>2, Constants DEF Sound, Linked, Alive, Phones, Clients
<1>4. /\ d \in Phones
      /\ d.client = c.client /\ d.stream = c.stream /\ d.req = c.req /\ d.up = c.up
      /\ d.rs = [c.rs EXCEPT ![c.client.ws] = "closing"]
    BY <1>3, CloseSocketEffect, Constants
<1> HIDE DEF d, c
<1>5. \A s \in Sockets : d.rs[s] = IF s = c.client.ws THEN "closing" ELSE c.rs[s]
    BY <1>3, <1>4
<1>6. Linked(d)
    BY <1>1, <1>2, <1>3, <1>4, <1>5 DEF Sound, Linked
<1>7. Pending(d) /\ Honest(d) /\ Once(d) /\ Unsent(d) /\ Routed(d)
    BY <1>2, <1>4 DEF Sound, Pending, Honest, Once, Unsent, Routed
<1>8. Unopened(d)
    BY <1>2, <1>4, <1>5 DEF Sound, Unopened
<1>9. Sound(d)
    BY <1>4, <1>6, <1>7, <1>8 DEF Sound
<1> QED BY <1>1, <1>9, PhoneCallback

\* What is on its way to the phone, once queue s of it is cut to R.
LEMMA DownKept ==
    ASSUME MobileInv, NEW s \in Sockets, NEW R, Left(down[s], R), R \in Seq(DownMessages),
           down' = [down EXCEPT ![s] = R]
    PROVE  /\ down' \in [Sockets -> Seq(DownMessages)]
           /\ \A t \in Sockets : Left(down[t], down'[t])
<1>1. down \in [Sockets -> Seq(DownMessages)]
    BY HostFacts
<1>2. \A t \in Sockets : down'[t] = IF t = s THEN R ELSE down[t]
    BY <1>1
<1> QED BY <1>1, <1>2, LeftCases

\* The phone's callbacks that read from connection s, or give up what it holds.
LEMMA PhoneReads ==
    ASSUME MobileInv, NEW d, Sound(d), PhoneBecomes(d), NEW s \in Sockets, NEW R,
           Left(down[s], R), R \in Seq(DownMessages), down' = [down EXCEPT ![s] = R],
           UNCHANGED <<cast, waiters, hostEnd, dead, paired, ran>>, faults' \in 0..MaxFaults
    PROVE  MobileInv'
<1>1. UNCHANGED <<cast, waiters, ran>> /\ hostEnd' = hostEnd /\ hostEnd' \in [Sockets -> Ends]
    BY DEF MobileInv, Rest
<1>2. down' \in [Sockets -> Seq(DownMessages)] /\ \A t \in Sockets : Left(down[t], down'[t])
    BY DownKept
<1>3. dead' \subseteq Sockets /\ paired' \in BOOLEAN
    BY DEF MobileInv, Rest
<1>4. \A t \in Sockets : hostEnd'[t] = hostEnd[t]
               \/ (hostEnd[t] = "none" /\ d.rs[t] = "open" /\ d.client.state # "connected")
    BY <1>1
<1> QED BY <1>1, <1>2, <1>3, <1>4, PhoneStep

LEMMA Cleared ==
    ASSUME MobileInv, NEW s \in Sockets
    PROVE  Left(down[s], <<>>) /\ <<>> \in Seq(DownMessages)
<1>1. down[s] \in Seq(DownMessages)
    BY HostFacts
<1> QED BY <1>1, LeftCases

LEMMA DetachedLosing ==
    ASSUME NEW c, Losing(c)
    PROVE  Losing(Detach(c)) /\ Detach(c).client.ws = 0 /\ Detach(c).req = c.req
<1> DEFINE d == Detach(c)
<1>1. /\ d \in Phones /\ d.req = c.req /\ d.up = c.up /\ d.rs = c.rs
      /\ d.client = [c.client EXCEPT !.ws = 0, !.active = 0, !.pending = 0]
      /\ \A i \in Streams : d.stream[i].st = c.stream[i].st /\ ~d.stream[i].sent
    BY DetachEffect DEF Losing
<1>2. c.client \in Clients
    BY DEF Losing, Phones
<1> HIDE DEF d
<1>3. /\ d.client.ws = 0 /\ d.client.active = 0 /\ d.client.pending = 0
      /\ d.client.timer = c.client.timer /\ d.client.closed = c.client.closed
      /\ d.client.rejections = c.client.rejections
    BY <1>1, <1>2 DEF Clients
<1>4. Honest(d) /\ Once(d) /\ Routed(d) /\ Unopened(d)
    BY <1>1, <1>3, Constants DEF Losing, Honest, Once, Routed, Unopened
<1> QED BY <1>1, <1>3, <1>4 DEF Losing, d

LEMMA OnCloseEffect ==
    ASSUME MobileInv, OnClose
    PROVE  /\ ws \in Sockets /\ \E d : PhoneBecomes(d) /\ Sound(d) /\ Dropped(Phone, d)
           /\ down' = [down EXCEPT ![ws] = <<>>]
           /\ UNCHANGED <<cast, waiters, hostEnd, dead, paired, ran>> /\ faults' \in 0..MaxFaults
<1> DEFINE b == CloseSocket(Phone)
<1>1. ws \in Sockets /\ ws # 0
    BY PhoneFacts, Constants DEF OnClose
<1>2. PICK unauthorized \in {Refused, Refused /\ rs[ws] = "open"} :
          PhoneBecomes(handleSocketClosed(b, unauthorized))
    BY DEF OnClose
<1>3. Losing(b) /\ Sound(handleSocketClosed(b, FALSE)) /\ Dropped(b, handleSocketClosed(b, FALSE))
    BY <1>1, ClosedLost, LosingLost
<1>4. b.req = Phone.req /\ b.stream = Phone.stream /\ b.up = Phone.up
    BY <1>1, PhoneFacts, CloseSocketEffect DEF Sound
<1> HIDE DEF b
<1>5. Sound(handleSocketClosed(b, unauthorized)) /\ Dropped(Phone, handleSocketClosed(b, unauthorized))
  <2>1. CASE unauthorized = FALSE
    <3>1. Dropped(Phone, handleSocketClosed(b, FALSE))
        BY <1>3, <1>4 DEF Dropped
    <3> QED BY <1>3, <2>1, <3>1
  <2>2. CASE unauthorized
    <3>1. hostEnd[ws] = "refused"
        BY <1>2, <2>2 DEF Refused
    <3>2. \A r \in Requests : Phone.req[r] # "pending"
      <4>1. Phone.client.state # "connected"
          BY <3>1, PhoneFacts DEF Sound, Linked
      <4> QED BY <4>1, PhoneFacts DEF Sound, Pending
    <3> DEFINE c == Detach(b)
    <3>3. Losing(c) /\ c.client.ws = 0 /\ c.req = b.req
        BY <1>3, DetachedLosing
    <3>4. /\ c.up = b.up
          /\ \A i \in Streams : c.stream[i].st = b.stream[i].st /\ c.stream[i].sub = b.stream[i].sub
        BY <1>3, DetachEffect DEF Losing
    <3>5. handleSocketClosed(b, unauthorized) = handleAuthRejection(c)
        BY <2>2 DEF handleSocketClosed
    <3> HIDE DEF c
    <3>6. c \in Phones /\ \A r \in Requests : c.req[r] # "pending"
        BY <1>4, <3>2, <3>3 DEF Losing
    <3>7. Losing(IF c.client.ws = 0 THEN c ELSE CloseSocket(c))
        BY <3>3
    <3>8. Sound(handleAuthRejection(c)) /\ Dropped(c, handleAuthRejection(c))
        BY <3>6, <3>7, RejectionSound
    <3>9. Dropped(Phone, handleAuthRejection(c))
        BY <1>4, <3>4, <3>8 DEF Dropped
    <3> QED BY <3>5, <3>8, <3>9
  <2>3. unauthorized = FALSE \/ unauthorized
      BY <1>2 DEF Refused
  <2> QED BY <2>1, <2>2, <2>3
<1>6. /\ down' = [down EXCEPT ![ws] = <<>>]
      /\ UNCHANGED <<cast, waiters, hostEnd, dead, paired, ran>> /\ faults' \in 0..MaxFaults
    BY FaultsBounded DEF OnClose
<1> QED BY <1>1, <1>2, <1>5, <1>6

LEMMA OnCloseKeeps ==
    ASSUME MobileInv, OnClose
    PROVE  MobileInv'
<1>1. PICK d : PhoneBecomes(d) /\ Sound(d) /\ Dropped(Phone, d)
    BY OnCloseEffect
<1>2. Left(down[ws], <<>>) /\ <<>> \in Seq(DownMessages)
    BY OnCloseEffect, Cleared
<1> QED BY <1>1, <1>2, OnCloseEffect, PhoneReads

\* Connections lose what is on its way to the desktop.
LEMMA EmptiedSound ==
    ASSUME NEW c, Sound(c), NEW U \in [Sockets -> Seq(UpMessages)],
           \A s \in Sockets : U[s] = c.up[s] \/ U[s] = <<>>
    PROVE  Sound([c EXCEPT !.up = U])
<1> DEFINE d == [c EXCEPT !.up = U]
<1>1. /\ d \in Phones /\ d.client = c.client /\ d.stream = c.stream /\ d.req = c.req
      /\ d.up = U /\ d.rs = c.rs
    BY DEF Sound, Phones
<1> HIDE DEF d
<1>2. \A s \in Sockets : Left(c.up[s], d.up[s])
  <2> SUFFICES ASSUME NEW s \in Sockets PROVE Left(c.up[s], U[s])
      BY <1>1
  <2>1. c.up[s] \in Seq(UpMessages)
      BY DEF Sound, Phones
  <2> QED BY <2>1, LeftCases
<1>3. Linked(d) /\ Pending(d) /\ Routed(d)
    BY <1>1 DEF Sound, Linked, Pending, Routed
<1>4. Honest(d)
    BY <1>1, <1>2 DEF Sound, Honest, Left
<1>5. Once(d)
    BY <1>1, <1>2 DEF Sound, Once, Left
<1>6. Unsent(d)
  <2>1. c.client.ws # NoSocket => c.client.ws \in Sockets
      BY Constants DEF Sound, Phones, Clients
  <2> QED BY <1>1, <1>2, <2>1 DEF Sound, Unsent, Left
<1>7. Unopened(d)
    BY <1>1, <1>2 DEF Sound, Unopened, Left
<1> QED BY <1>1, <1>3, <1>4, <1>5, <1>6, <1>7 DEF Sound, d

LEMMA BreakKeeps ==
    ASSUME MobileInv, Break \/ Unpair
    PROVE  MobileInv'
<1>1. /\ UNCHANGED <<cast, waiters, hostEnd, client, stream, req, rs, ran>>
      /\ faults' \in 0..MaxFaults /\ paired' \in BOOLEAN /\ dead' \subseteq Sockets
  <2>1. ws # NoSocket => ws \in Sockets
      BY PhoneFacts, Constants
  <2>2. paired' \in BOOLEAN /\ dead' \subseteq Sockets
      BY <2>1 DEF Break, Unpair, MobileInv, Rest
  <2> QED BY <2>2, FaultsBounded DEF Break, Unpair
<1>2. PICK L \in SUBSET Sockets :
         /\ up' = [s \in Sockets |-> IF s \in L THEN <<>> ELSE up[s]]
         /\ down' = [s \in Sockets |-> IF s \in L THEN <<>> ELSE down[s]]
  <2>1. CASE Break
    <3>1. /\ ws \in Sockets /\ up' = [up EXCEPT ![ws] = <<>>] /\ down' = [down EXCEPT ![ws] = <<>>]
        BY <2>1, PhoneFacts, Constants DEF Break
    <3>2. up \in [Sockets -> Seq(UpMessages)] /\ down \in [Sockets -> Seq(DownMessages)]
        BY PhoneFacts, HostFacts
    <3> DEFINE L == {ws}
    <3>3. /\ up' = [s \in Sockets |-> IF s \in L THEN <<>> ELSE up[s]]
          /\ down' = [s \in Sockets |-> IF s \in L THEN <<>> ELSE down[s]]
        BY <3>1, <3>2
    <3>4. L \in SUBSET Sockets
        BY <3>1
    <3> HIDE DEF L
    <3> QED BY <3>3, <3>4
  <2>2. CASE Unpair
    <3> DEFINE L == {s \in Sockets : hostEnd[s] = "ready"}
    <3>1. /\ up' = [s \in Sockets |-> IF s \in L THEN <<>> ELSE up[s]]
          /\ down' = [s \in Sockets |-> IF s \in L THEN <<>> ELSE down[s]]
        BY <2>2 DEF Unpair
    <3>2. L \in SUBSET Sockets
        OBVIOUS
    <3> HIDE DEF L
    <3> QED BY <3>1, <3>2
  <2> QED BY <2>1, <2>2
<1>3. up' \in [Sockets -> Seq(UpMessages)] /\ \A s \in Sockets : up'[s] = up[s] \/ up'[s] = <<>>
  <2>1. up \in [Sockets -> Seq(UpMessages)] /\ <<>> \in Seq(UpMessages)
      BY PhoneFacts, EmptySeq
  <2> QED BY <1>2, <2>1
<1>4. /\ down' \in [Sockets -> Seq(DownMessages)]
      /\ \A s \in Sockets : Left(down[s], down'[s])
  <2>1. down \in [Sockets -> Seq(DownMessages)] /\ <<>> \in Seq(DownMessages)
      BY HostFacts, EmptySeq
  <2> QED BY <1>2, <2>1, LeftCases
<1> DEFINE d == [Phone EXCEPT !.up = up']
<1>5. Sound(d)
    BY <1>3, PhoneFacts, EmptiedSound
<1>6. PhoneBecomes(d)
    BY <1>1 DEF PhoneBecomes, Phone
<1>7. hostEnd' = hostEnd /\ hostEnd' \in [Sockets -> Ends]
    BY <1>1 DEF MobileInv, Rest
<1> HIDE DEF d
<1>8. \A t \in Sockets : hostEnd'[t] = hostEnd[t]
               \/ (hostEnd[t] = "none" /\ d.rs[t] = "open" /\ d.client.state # "connected")
    BY <1>7
<1> QED BY <1>1, <1>4, <1>5, <1>6, <1>7, <1>8, PhoneStep

\* openConnection, of a client that waits to reconnect.
LEMMA DialSound ==
    ASSUME MobileInv, client.state = "reconnecting", Unused # {},
           NEW b, b \in Phones, ~b.client.timer, b.client.closed = client.closed,
           b.client.rejections = client.rejections,
           b.client.active = client.active, b.client.pending = client.pending,
           b.stream = stream, b.req = req, b.up = up, b.rs = rs
    PROVE  LET d == Dial(b)
           IN  /\ Sound(d) /\ d.client.state = "connecting"
               /\ d.client.active = client.active /\ d.stream = stream /\ d.up = up
               /\ ~CanSend(d)
               /\ \A i \in Streams : /\ ~Asked(d.up[d.client.ws], i)
                                     /\ cast[<<i, d.client.ws>>].at = "none"
<1> DEFINE s == CHOOSE s \in Unused : \A u \in Unused : s <= u
           k == [b.client EXCEPT !.ws = s, !.state = "connecting"]
           B == [b.rs EXCEPT ![s] = "connecting"]
           d == Dial(b)
<1>1. s \in Sockets /\ rs[s] = "none"
  <2>1. Positive(Unused)
      BY Constants DEF Positive, Unused
  <2>2. \E u \in Unused : \A v \in Unused : u <= v
      BY <2>1, LeastIn
  <2>3. s \in Unused
      BY <2>2, Zenon
  <2> HIDE DEF s
  <2> QED BY <2>3 DEF Unused
<1>2. b.client \in Clients /\ b.rs \in [Sockets -> Ready]
    BY DEF Phones
<1>3. d = InState([b EXCEPT !.client.ws = s, !.rs[s] = "connecting"], "connecting")
    BY DEF Dial
<1> HIDE DEF s
<1>4. /\ k \in Clients /\ k.ws = s /\ k.state = "connecting" /\ ~k.timer
      /\ k.closed = client.closed /\ k.rejections = client.rejections
      /\ k.active = client.active /\ k.pending = client.pending
  <2>1. "connecting" \in States
      BY DEF States, Alive
  <2> QED BY <1>1, <1>2, <2>1 DEF Clients
<1>5. B \in [Sockets -> Ready] /\ \A t \in Sockets : B[t] = IF t = s THEN "connecting" ELSE rs[t]
  <2>1. "connecting" \in Ready
      BY DEF Ready
  <2> QED BY <1>1, <1>2, <2>1
<1>6. d = [b EXCEPT !.client = k, !.rs = B]
    BY <1>2, <1>3 DEF InState, Phones, Clients
<1> HIDE DEF k, B, d
<1>7. /\ d \in Phones /\ d.client = k /\ d.stream = stream /\ d.req = req /\ d.up = up /\ d.rs = B
    BY <1>4, <1>5, <1>6 DEF Phones
<1>8. /\ Linked(Phone) /\ Pending(Phone) /\ Honest(Phone) /\ Once(Phone) /\ Routed(Phone)
      /\ Unopened(Phone)
      /\ Phone.client = client /\ Phone.stream = stream /\ Phone.req = req
      /\ Phone.up = up /\ Phone.rs = rs
    BY PhoneFacts DEF Sound
<1>9. up[s] = <<>> /\ \A i \in Streams : cast[<<i, s>>].at = "none"
    BY <1>1, <1>8 DEF Unopened
<1>10. Linked(d)
  <2>1. client.ws = NoSocket
      BY <1>8 DEF Linked, Alive
  <2>2. \A t \in Sockets : rs[t] \in {"none", "closing"}
      BY <1>8, <2>1, Constants DEF Linked
  <2>3. ~client.closed /\ client.rejections < AuthBudget
      BY <1>8 DEF Linked
  <2> QED BY <1>1, <1>4, <1>5, <1>7, <2>2, <2>3, Constants DEF Linked, Alive
<1>11. Pending(d)
    BY <1>7, <1>8 DEF Pending
<1>12. Honest(d) /\ Once(d)
    BY <1>7, <1>8 DEF Honest, Once
<1>13. Routed(d)
    BY <1>4, <1>7, <1>8 DEF Routed
<1>14. Unsent(d)
    BY <1>4, <1>7, <1>9, AskedEmpty DEF Unsent
<1>15. Unopened(d)
    BY <1>1, <1>5, <1>7, <1>8 DEF Unopened
<1>16. /\ ~CanSend(d) /\ d.client.state = "connecting" /\ d.client.active = client.active
       /\ \A i \in Streams : ~Asked(d.up[d.client.ws], i) /\ cast[<<i, d.client.ws>>].at = "none"
    BY <1>1, <1>4, <1>5, <1>7, <1>9, AskedEmpty DEF CanSend
<1> QED BY <1>7, <1>10, <1>11, <1>12, <1>13, <1>14, <1>15, <1>16 DEF Sound, d

\* What the timer and the foreground have in common.
Redialled(b) ==
    /\ b \in Phones /\ ~b.client.timer /\ b.client.closed = client.closed
    /\ b.client.rejections = client.rejections
    /\ b.client.active = client.active /\ b.client.pending = client.pending
    /\ b.stream = stream /\ b.req = req /\ b.up = up /\ b.rs = rs

LEMMA RedialEffect ==
    ASSUME MobileInv, ReconnectTimer \/ Foreground
    PROVE  /\ client.state = "reconnecting" /\ Unused # {}
           /\ \E b : Redialled(b) /\ PhoneBecomes(Dial(b))
           /\ UNCHANGED <<hostVars, hostEnd, dead, paired, ran>> /\ faults' \in 0..MaxFaults
<1>1. client.state = "reconnecting" /\ Unused # {}
    BY PhoneFacts DEF ReconnectTimer, Foreground, Sound, Linked
<1>2. Phone \in Phones /\ Phone.client \in Clients
    BY PhoneFacts DEF Sound
<1>3. ASSUME NEW k \in Clients, ~k.timer, k.closed = client.closed,
             k.rejections = client.rejections, k.active = client.active, k.pending = client.pending
      PROVE  Redialled([Phone EXCEPT !.client = k])
  <2> DEFINE b == [Phone EXCEPT !.client = k]
  <2>1. /\ b \in Phones /\ b.client = k /\ b.stream = stream /\ b.req = req
        /\ b.up = up /\ b.rs = rs
      BY <1>2, <1>3, PhoneFacts DEF Phones
  <2> HIDE DEF b
  <2>2. Redialled(b)
      BY <1>3, <2>1 DEF Redialled
  <2> QED BY <2>2 DEF b
<1>4. CASE ReconnectTimer
  <2> DEFINE k == [client EXCEPT !.timer = FALSE]
             b == [Phone EXCEPT !.client = k]
  <2>1. PhoneBecomes(Dial(b)) /\ UNCHANGED <<hostVars, hostEnd, dead, paired, ran, faults>>
    <3>1. [Phone EXCEPT !.client.timer = FALSE] = b
        BY PhoneFacts DEF Phone
    <3> QED BY <1>4, <3>1 DEF ReconnectTimer, NoFault
  <2>2. /\ k \in Clients /\ ~k.timer /\ k.closed = client.closed
        /\ k.rejections = client.rejections /\ k.active = client.active /\ k.pending = client.pending
      BY PhoneFacts DEF Clients
  <2> HIDE DEF k
  <2>3. Redialled(b)
      BY <1>3, <2>2
  <2> HIDE DEF b
  <2> QED BY <1>1, <2>1, <2>3, PhoneFacts
<1>5. CASE Foreground
  <2> DEFINE k == [client EXCEPT !.attempt = 0, !.timer = FALSE]
             b == [Phone EXCEPT !.client = k]
  <2>1. PhoneBecomes(Dial(b)) /\ UNCHANGED <<hostVars, hostEnd, dead, paired, ran, faults>>
    <3>1. [Phone EXCEPT !.client.attempt = 0, !.client.timer = FALSE] = b
        BY PhoneFacts DEF Phone
    <3> QED BY <1>5, <3>1 DEF Foreground, NoFault
  <2>2. /\ k \in Clients /\ ~k.timer /\ k.closed = client.closed
        /\ k.rejections = client.rejections /\ k.active = client.active /\ k.pending = client.pending
    <3>1. 0 \in 0..GiveUp
        BY Constants
    <3> QED BY <3>1, PhoneFacts DEF Clients
  <2> HIDE DEF k
  <2>3. Redialled(b)
      BY <1>3, <2>2
  <2> HIDE DEF b
  <2> QED BY <1>1, <2>1, <2>3, PhoneFacts
<1> QED BY <1>4, <1>5

LEMMA RedialKeeps ==
    ASSUME MobileInv, ReconnectTimer \/ Foreground
    PROVE  MobileInv'
<1>1. PICK b : Redialled(b) /\ PhoneBecomes(Dial(b))
    BY RedialEffect
<1>2. Sound(Dial(b))
    BY <1>1, RedialEffect, DialSound DEF Redialled
<1> QED BY <1>1, <1>2, RedialEffect, PhoneCallback

\* The user closes the client: the requests that wait fail, those sent are unknown.
LEMMA ClosedSound ==
    ASSUME NEW c, c \in Phones, \A s \in Sockets : c.rs[s] \in {"none", "closing"},
           Honest(c), Once(c), Routed(c), Unopened(c)
    PROVE  LET g == [c EXCEPT !.client.closed = TRUE, !.client.timer = FALSE, !.client.ws = NoSocket]
               d == rejectAllPending(rejectConnectWaiters(InState(g, "disconnected")), TRUE)
           IN  /\ Sound(d) /\ d.stream = c.stream /\ d.up = c.up
               /\ d.client.state = "disconnected" /\ d.client.ws = NoSocket
<1> DEFINE k == [c.client EXCEPT !.closed = TRUE, !.timer = FALSE, !.ws = 0, !.state = "disconnected"]
           g == [c EXCEPT !.client.closed = TRUE, !.client.timer = FALSE, !.client.ws = NoSocket]
           f == InState(g, "disconnected")
           h == rejectConnectWaiters(f)
           d == rejectAllPending(h, TRUE)
<1>1. c.client \in Clients
    BY DEF Phones
<1>2. /\ k \in Clients /\ k.closed = TRUE /\ k.timer = FALSE /\ k.ws = 0 /\ k.state = "disconnected"
      /\ k.active = c.client.active /\ k.pending = c.client.pending
    BY <1>1, Constants DEF Clients, States
<1>3. f = [c EXCEPT !.client = k]
    BY <1>1, Constants DEF InState, Phones, Clients
<1> HIDE DEF k, f
<1>4. /\ f \in Phones /\ f.client = k /\ f.stream = c.stream /\ f.req = c.req
      /\ f.up = c.up /\ f.rs = c.rs
    BY <1>2, <1>3 DEF Phones
<1>5. /\ h \in Phones
      /\ h.client = f.client /\ h.stream = f.stream /\ h.up = f.up /\ h.rs = f.rs
      /\ \A r \in Requests : h.req[r] = IF f.req[r] = "waiting" THEN "failed" ELSE f.req[r]
    BY <1>4, RejectEffect DEF rejectConnectWaiters, Outcomes
<1> HIDE DEF h
<1>6. /\ d \in Phones
      /\ d.client = h.client /\ d.stream = h.stream /\ d.up = h.up /\ d.rs = h.rs
      /\ \A r \in Requests : d.req[r] = IF h.req[r] = "pending" THEN "unknown" ELSE h.req[r]
    BY <1>5, RejectEffect DEF rejectAllPending, Outcomes
<1> HIDE DEF d
<1>7. d.client = k /\ d.stream = c.stream /\ d.up = c.up /\ d.rs = c.rs
    BY <1>4, <1>5, <1>6
<1>8. Released(c, d)
    BY <1>4, <1>5, <1>6 DEF Released
<1>9. Honest(d) /\ Pending(d)
    BY <1>7, <1>8, ReleasedHonest DEF Pending
<1>10. Once(d) /\ Unsent(d) /\ Routed(d) /\ Unopened(d)
    BY <1>2, <1>7, Constants DEF Once, Unsent, Routed, Unopened
<1>11. Linked(d)
    BY <1>2, <1>7, Constants DEF Linked, Alive
<1>12. d.client.state = "disconnected" /\ d.client.ws = NoSocket
    BY <1>2, <1>7, Constants
<1> QED BY <1>6, <1>7, <1>9, <1>10, <1>11, <1>12 DEF Sound, d, h, f

LEMMA CloseKeeps ==
    ASSUME MobileInv, Close
    PROVE  MobileInv'
<1> DEFINE c == IF ws = NoSocket THEN Phone ELSE CloseSocket(Phone)
           g == [c EXCEPT !.client.closed = TRUE, !.client.timer = FALSE, !.client.ws = NoSocket]
           d == rejectAllPending(rejectConnectWaiters(InState(g, "disconnected")), TRUE)
<1>1. /\ PhoneBecomes(d) /\ faults' \in 0..MaxFaults
      /\ down' = IF ws = NoSocket THEN down ELSE [down EXCEPT ![ws] = <<>>]
      /\ UNCHANGED <<cast, waiters, hostEnd, dead, paired, ran>>
  <2>1. PhoneBecomes(d)
      BY Zenon DEF Close
  <2>2. /\ faults' = MaxFaults
        /\ down' = IF ws = NoSocket THEN down ELSE [down EXCEPT ![ws] = <<>>]
        /\ UNCHANGED <<cast, waiters, hostEnd, dead, paired, ran>>
      BY Zenon DEF Close
  <2>3. MaxFaults \in 0..MaxFaults
      BY Constants
  <2> QED BY <2>1, <2>2, <2>3
<1>2. /\ c \in Phones /\ \A s \in Sockets : c.rs[s] \in {"none", "closing"}
      /\ Honest(c) /\ Once(c) /\ Routed(c) /\ Unopened(c)
  <2>1. CASE ws = NoSocket
      BY <2>1, PhoneFacts, Constants DEF Sound, Linked
  <2>2. CASE ws # NoSocket
      BY <2>2, ClosedLost, Constants DEF Losing
  <2> QED BY <2>1, <2>2
<1> HIDE DEF c
<1>3. Sound(d)
    BY <1>2, ClosedSound
<1> HIDE DEF d
<1>4. CASE ws = NoSocket
  <2>1. UNCHANGED <<hostVars, hostEnd, dead, paired, ran>>
      BY <1>1, <1>4 DEF hostVars
  <2> QED BY <1>1, <1>3, <2>1, PhoneCallback
<1>5. CASE ws # NoSocket
  <2>1. ws \in Sockets
      BY <1>5, PhoneFacts, Constants
  <2>2. Left(down[ws], <<>>) /\ <<>> \in Seq(DownMessages)
      BY <2>1, Cleared
  <2>3. down' = [down EXCEPT ![ws] = <<>>]
      BY <1>1, <1>5
  <2> QED BY <1>1, <1>3, <2>1, <2>2, <2>3, PhoneReads
<1> QED BY <1>4, <1>5

LEMMA OnMessageKeeps ==
    ASSUME MobileInv, OnMessage
    PROVE  MobileInv'
<1> DEFINE m == Head(down[ws])
           d == Read(Phone, m[1], m[2])
           R == IF client'.ws = ws THEN Tail(down[ws]) ELSE <<>>
<1>1. /\ ws \in Sockets /\ ws # NoSocket /\ down[ws] # <<>> /\ PhoneBecomes(d)
      /\ UNCHANGED <<cast, waiters, hostEnd, dead, paired, ran, faults>>
    BY PhoneFacts, Constants DEF OnMessage, NoFault
<1>2. down \in [Sockets -> Seq(DownMessages)] /\ down[ws] \in Seq(DownMessages)
    BY <1>1, HostFacts
<1>3. down' = [down EXCEPT ![ws] = R]
    BY <1>1, <1>2 DEF OnMessage
<1>4. m \in DownMessages /\ In(down[ws], m) /\ m = <<m[1], m[2]>>
  <2>1. m \in DownMessages /\ In(down[ws], m)
      BY <1>1, <1>2, TailKeeps
  <2> HIDE DEF m
  <2> QED BY <2>1 DEF DownMessages, CastMessages, Rejection
<1>5. Sound(d)
  <2>1. m[1] = "e2ee_authenticated" => hostEnd[ws] \in {"ready", "closed"}
    <3>1. m[1] = "e2ee_authenticated" => m = <<"e2ee_authenticated", 0>>
      <4> HIDE DEF m
      <4> QED BY <1>4 DEF DownMessages, CastMessages, Rejection
    <3> HIDE DEF m
    <3> QED BY <1>1, <1>4, <3>1 DEF MobileInv, Vouched
  <2> HIDE DEF m
  <2>2. <<m[1], m[2]>> \in DownMessages
      BY <1>4
  <2>3. Sound(Phone) /\ Phone.client.ws = ws
      BY PhoneFacts
  <2> QED BY <1>1, <2>1, <2>2, <2>3, ReadSound
<1>6. Left(down[ws], R) /\ R \in Seq(DownMessages)
  <2>1. Left(down[ws], <<>>) /\ <<>> \in Seq(DownMessages)
      BY <1>1, Cleared
  <2>2. Left(down[ws], Tail(down[ws])) /\ Tail(down[ws]) \in Seq(DownMessages)
      BY <1>1, <1>2, LeftCases, TailKeeps
  <2> QED BY <2>1, <2>2
<1> HIDE DEF d, R
<1>7. faults' \in 0..MaxFaults /\ UNCHANGED <<cast, waiters, hostEnd, dead, paired, ran>>
    BY <1>1, PhoneFacts
<1> QED BY <1>1, <1>3, <1>5, <1>6, <1>7, PhoneReads


-----------------------------------------------------------------------------
(* Calls of the app.                                                       *)

\* A stream begins: it has neither a request on its way nor a cast.
Began(c, i, page) == [c EXCEPT !.stream[i].st = "live", !.stream[i].page = page]

LEMMA BeginSound ==
    ASSUME NEW c, Sound(c), NEW i \in Streams, c.stream[i].st = "new", NEW page \in Pages
    PROVE  LET d == Began(c, i, page)
           IN  /\ Sound(d) /\ d.client = c.client /\ d.up = c.up /\ d.rs = c.rs
               /\ d.stream[i].st = "live" /\ ~d.stream[i].sent
               /\ d.stream[i].sub = c.stream[i].sub
               /\ \A j \in Streams \ {i} : d.stream[j] = c.stream[j]
<1> DEFINE x == [c.stream[i] EXCEPT !.st = "live", !.page = page]
           d == Began(c, i, page)
<1>1. c \in Phones /\ c.stream \in [Streams -> StreamStates] /\ ~c.stream[i].sent
    BY DEF Sound, Phones, Routed
<1>2. x \in StreamStates /\ x.st = "live" /\ x.sent = c.stream[i].sent /\ x.sub = c.stream[i].sub
    BY <1>1 DEF StreamStates
<1>3. d = [c EXCEPT !.stream[i] = x]
    BY <1>1 DEF Began, Phones
<1> HIDE DEF x, d
<1>4. /\ d \in Phones
      /\ d.client = c.client /\ d.req = c.req /\ d.up = c.up /\ d.rs = c.rs
      /\ d.stream[i] = x /\ \A j \in Streams \ {i} : d.stream[j] = c.stream[j]
    BY <1>1, <1>2, <1>3 DEF Phones
<1>5. \A j \in Streams :
        /\ d.stream[j].sent = c.stream[j].sent
        /\ d.stream[j].st \in {"new", "live"} => c.stream[j].st \in {"new", "live"}
        /\ d.stream[j].st = "new" => c.stream[j].st = "new"
    BY <1>2, <1>4
<1>6. Linked(d) /\ Pending(d) /\ Honest(d) /\ Once(d) /\ Unopened(d)
    BY <1>4 DEF Sound, Linked, Pending, Honest, Once, Unopened
<1>7. Unsent(d) /\ Routed(d)
    BY <1>4, <1>5 DEF Sound, Unsent, Routed
<1> QED BY <1>1, <1>2, <1>4, <1>6, <1>7 DEF Sound, d

LEMMA SubscribeKeeps ==
    ASSUME MobileInv, NEW i \in Streams, NEW page \in PagesOf[i], Subscribe(i, page)
    PROVE  MobileInv'
<1> DEFINE a == Began(Phone, i, page)
           b == IF client.active # NoStream THEN DisposeStream(a, client.active) ELSE a
           c == IF b.client.pending # NoStream THEN DisposeStream(b, b.client.pending) ELSE b
           d == [c EXCEPT !.client.pending = i, !.client.active = NoStream]
           e == IF d.client.state = "connected" THEN SendSubscribe(d, i) ELSE d
<1>1. PhoneBecomes(e) /\ UNCHANGED <<hostVars, hostEnd, dead, paired, ran, faults>>
  <2>1. PhoneBecomes(e)
      BY Zenon DEF Subscribe, Began
  <2>2. UNCHANGED <<hostVars, hostEnd, dead, paired, ran, faults>>
      BY Zenon DEF Subscribe, NoFault
  <2> QED BY <2>1, <2>2
<1>2. stream[i].st = "new" /\ Phone.stream = stream /\ Phone.client = client /\ Sound(Phone)
    BY PhoneFacts DEF Subscribe
<1>3. page \in Pages
    BY DEF Pages
<1>4. Sound(a) /\ a.client = client /\ a.stream[i].st = "live" /\ ~a.stream[i].sent
    BY <1>2, <1>3, BeginSound
<1>5. client.active # i /\ client.pending # i
      /\ (client.active # 0 => client.active \in Streams)
    BY <1>2, PhoneFacts, Constants DEF Sound, Routed, Clients
<1> HIDE DEF a
<1>6. /\ Sound(b) /\ b.stream[i].st = "live" /\ ~b.stream[i].sent /\ b.client.pending # i
  <2>1. CASE client.active # NoStream
    <3>1. client.active \in Streams /\ i \in Streams \ {client.active} /\ b = DisposeStream(a, client.active)
        BY <1>5, <2>1, Constants
    <3>2. Sound(b) /\ Spared(a, b, i)
        BY <1>4, <3>1, DisposeSound
    <3> QED BY <1>4, <1>5, <3>2 DEF Spared
  <2>2. CASE client.active = NoStream
      BY <1>4, <1>5, <2>2
  <2> QED BY <2>1, <2>2
<1> HIDE DEF b
<1>7. Sound(c) /\ c.stream[i].st = "live" /\ ~c.stream[i].sent
  <2>1. CASE b.client.pending # NoStream
    <3>1. b.client.pending \in Streams
        BY <1>6, <2>1, Constants DEF Sound, Phones, Clients
    <3>2. i \in Streams \ {b.client.pending} /\ c = DisposeStream(b, b.client.pending)
        BY <1>6, <2>1
    <3>3. Sound(c) /\ Spared(b, c, i)
        BY <1>6, <3>1, <3>2, DisposeSound
    <3> QED BY <1>6, <3>3 DEF Spared
  <2>2. CASE b.client.pending = NoStream
      BY <1>6, <2>2
  <2> QED BY <2>1, <2>2
<1> HIDE DEF c
<1>8. Sound(d) /\ d.stream = c.stream
  <2>1. c.stream[i].st # "new"
      BY <1>7
  <2>2. Sound(Route(c, i, 0)) /\ Route(c, i, 0).stream = c.stream
      BY <1>7, <2>1, AwaitSound
  <2>3. d = Route(c, i, 0)
      BY Constants DEF Route
  <2> QED BY <2>2, <2>3
<1> HIDE DEF d
<1>9. Sound(e)
    BY <1>7, <1>8, SendSubscribeSound
<1> HIDE DEF e
<1>10. faults' \in 0..MaxFaults /\ UNCHANGED <<hostVars, hostEnd, dead, paired, ran>>
    BY <1>1, PhoneFacts
<1> QED BY <1>1, <1>9, <1>10, PhoneCallback

LEMMA DisposeKeeps ==
    ASSUME MobileInv, NEW i \in Streams, Dispose(i)
    PROVE  MobileInv'
<1> DEFINE d == DisposeStream(Phone, i)
<1>1. PhoneBecomes(d) /\ UNCHANGED <<hostVars, hostEnd, dead, paired, ran, faults>>
    BY DEF Dispose, NoFault
<1>2. Sound(d)
    BY PhoneFacts, DisposeSound
<1> HIDE DEF d
<1>3. faults' \in 0..MaxFaults /\ UNCHANGED <<hostVars, hostEnd, dead, paired, ran>>
    BY <1>1, PhoneFacts
<1> QED BY <1>1, <1>2, <1>3, PhoneCallback

\* A request that was not sent waits for a connection, or fails.
LEMMA WithheldSound ==
    ASSUME NEW c, Sound(c), NEW r \in Requests, c.req[r] \in {"new", "waiting"},
           NEW o \in {"waiting", "failed"}
    PROVE  Sound([c EXCEPT !.req[r] = o])
<1> DEFINE d == [c EXCEPT !.req[r] = o]
<1>1. /\ d \in Phones
      /\ d.client = c.client /\ d.stream = c.stream /\ d.up = c.up /\ d.rs = c.rs
      /\ d.req[r] = o /\ \A q \in Requests \ {r} : d.req[q] = c.req[q]
  <2>1. o \in Outcomes /\ c \in Phones
      BY DEF Outcomes, Sound
  <2> QED BY <2>1, RequestEffect
<1> HIDE DEF d
<1>2. Pending(d) /\ Honest(d)
    BY <1>1 DEF Sound, Pending, Honest
<1>3. Linked(d) /\ Once(d) /\ Unsent(d) /\ Routed(d) /\ Unopened(d)
    BY <1>1 DEF Sound, Linked, Once, Unsent, Routed, Unopened
<1> QED BY <1>1, <1>2, <1>3 DEF Sound, d

LEMMA CallRequestKeeps ==
    ASSUME MobileInv, NEW r \in Requests, CallRequest(r)
    PROVE  MobileInv'
<1> DEFINE d == CASE client.state = "connected" -> SendRequest(Phone, r)
                  [] client.state = "reconnecting" /\ client.attempt >= GiveUp ->
                       [Phone EXCEPT !.req[r] = "failed"]
                  [] OTHER -> [Phone EXCEPT !.req[r] = "waiting"]
<1>1. PhoneBecomes(d) /\ UNCHANGED <<hostVars, hostEnd, dead, paired, ran, faults>>
    BY DEF CallRequest, NoFault
<1>2. Sound(Phone) /\ Phone.client = client /\ Phone.req[r] = "new"
    BY PhoneFacts DEF CallRequest
<1>3. \A o \in {"waiting", "failed"} : Sound([Phone EXCEPT !.req[r] = o])
    BY <1>2, WithheldSound
<1>4. client.state = "connected" => Sound(SendRequest(Phone, r))
    BY <1>2, SendRequestSound
<1>5. Sound(d)
    BY <1>3, <1>4
<1> HIDE DEF d
<1>6. faults' \in 0..MaxFaults /\ UNCHANGED <<hostVars, hostEnd, dead, paired, ran>>
    BY <1>1, PhoneFacts
<1> QED BY <1>1, <1>5, <1>6, PhoneCallback

LEMMA RequestTimeoutKeeps ==
    ASSUME MobileInv, NEW r \in Requests, RequestTimeout(r)
    PROVE  MobileInv'
<1> DEFINE o == IF req[r] = "pending" THEN "unknown" ELSE "failed"
           d == [Phone EXCEPT !.req[r] = o]
<1>1. /\ PhoneBecomes(d) /\ faults' \in 0..MaxFaults
      /\ UNCHANGED <<hostVars, hostEnd, dead, paired, ran>>
  <2>1. [Phone EXCEPT !.req[r] = IF @ = "pending" THEN "unknown" ELSE "failed"] = d
      BY PhoneFacts DEF Phone
  <2>2. PhoneBecomes(d) /\ UNCHANGED <<hostVars, hostEnd, dead, paired, ran>>
      BY <2>1 DEF RequestTimeout
  <2> QED BY <2>2, FaultsBounded DEF RequestTimeout
<1>2. Sound(Phone) /\ Phone.req = req /\ req[r] \in {"waiting", "pending"}
    BY PhoneFacts DEF RequestTimeout
<1>3. Sound(d)
  <2>1. CASE req[r] = "pending"
    <3>1. \A x \in {"ok", "unknown"} : Sound([Phone EXCEPT !.req[r] = x])
        BY <1>2, OutcomeSound
    <3> QED BY <2>1, <3>1
  <2>2. CASE req[r] = "waiting"
    <3>1. \A x \in {"waiting", "failed"} : Sound([Phone EXCEPT !.req[r] = x])
        BY <1>2, <2>2, WithheldSound
    <3> QED BY <2>2, <3>1
  <2> QED BY <1>2, <2>1, <2>2
<1> HIDE DEF d
<1> QED BY <1>1, <1>3, PhoneCallback

-----------------------------------------------------------------------------
(* The theorems.                                                           *)

LEMMA InitSound ==
    ASSUME Init
    PROVE  MobileInv
<1>1. Rest
  <2>1. 0 \in 0..MaxFaults
      BY Constants
  <2> QED BY <2>1 DEF Init, Rest, Ends
<1>2. /\ client \in Clients /\ client.state = "connecting" /\ client.ws = 1
      /\ client.timer = FALSE /\ client.closed = FALSE /\ client.rejections = 0
      /\ client.active = 0 /\ client.pending = 0
  <2>1. /\ 0 \in 0..GiveUp /\ 0 \in 0..AuthBudget /\ 1 \in Sockets /\ NoStream = 0
        /\ "connecting" \in States
      BY Constants, CastAssumption DEF States, Alive
  <2>2. client = [state |-> "connecting", ws |-> 1, attempt |-> 0, rejections |-> 0,
                  timer |-> FALSE, closed |-> FALSE, active |-> 0, pending |-> 0]
      BY <2>1 DEF Init
  <2> QED BY <2>1, <2>2 DEF Clients
<1>3. /\ stream \in [Streams -> StreamStates]
      /\ \A i \in Streams : stream[i].st = "new" /\ ~stream[i].sent
  <2>1. NotYet \in StreamStates /\ NotYet.st = "new" /\ NotYet.sent = FALSE
    <3>1. NoSocket \in Sockets \cup {NoSocket} /\ NoPage \in Pages
        BY DEF Pages
    <3> HIDE DEF NoSocket, NoPage
    <3> QED BY <3>1 DEF NotYet, StreamStates
  <2>2. stream = [i \in Streams |-> NotYet]
      BY DEF Init
  <2> QED BY <2>1, <2>2
<1>4. /\ req \in [Requests -> Outcomes] /\ \A r \in Requests : req[r] = "new"
      /\ rs \in [Sockets -> Ready] /\ rs[1] = "connecting"
      /\ \A s \in Sockets : s # 1 => rs[s] = "none"
  <2>1. 1 \in Sockets
      BY CastAssumption
  <2> QED BY <2>1 DEF Init, Outcomes, Ready
<1>5. /\ up \in [Sockets -> Seq(UpMessages)] /\ \A s \in Sockets : up[s] = <<>>
      /\ down \in [Sockets -> Seq(DownMessages)] /\ \A s \in Sockets : down[s] = <<>>
      /\ \A s \in Sockets : hostEnd[s] = "none"
      /\ ran = {}
  <2>1. <<>> \in Seq(UpMessages) /\ <<>> \in Seq(DownMessages)
      BY EmptySeq
  <2> QED BY <2>1 DEF Init
<1>6. cast \in [Casts -> CastStates] /\ \A q \in Casts : cast[q].at = "none"
  <2> DEFINE x == [at |-> "none", page |-> NoPage, on |-> NoCast, marks |-> {}]
  <2>1. x \in CastStates /\ x.at = "none"
    <3>1. "none" \in Places /\ NoPage \in Pages /\ {} \in SUBSET Marks
        BY DEF Places, Pages
    <3> QED BY <3>1 DEF CastStates
  <2>2. cast = [q \in Casts |-> x]
      BY DEF Init
  <2> HIDE DEF x
  <2> QED BY <2>1, <2>2
<1>7. /\ Phone.client = client /\ Phone.stream = stream /\ Phone.req = req
      /\ Phone.up = up /\ Phone.rs = rs /\ Phone \in Phones
    BY <1>2, <1>3, <1>4, <1>5 DEF Phone, Phones
<1>8. Linked(Phone)
  <2>1. \A s \in Sockets : s # client.ws => rs[s] \in {"none", "closing"}
      BY <1>2, <1>4
  <2>2. rs[client.ws] = "connecting" /\ client.ws # NoSocket
      BY <1>2, <1>4, Constants
  <2>3. 0 < AuthBudget
      BY Constants
  <2> QED BY <1>2, <1>7, <2>1, <2>2, <2>3 DEF Linked, Alive
<1>9. Pending(Phone)
    BY <1>4, <1>7 DEF Pending
<1>10. Honest(Phone)
    BY <1>5, <1>7, InEmpty DEF Honest
<1>11. Once(Phone)
  <2>1. \A s \in Sockets, i \in Streams : ~Asked(up[s], i)
      BY <1>5, AskedEmpty
  <2>2. \A s \in Sockets, i \in Streams : \A j \in 1..Len(up[s]) : ~Asks(up[s], j, i)
      BY <2>1 DEF Asked
  <2> QED BY <1>7, <2>1, <2>2 DEF Once
<1>12. Unsent(Phone)
  <2>1. 1 \in Sockets
      BY CastAssumption
  <2>2. \A i \in Streams : ~Asked(up[1], i) /\ cast[<<i, 1>>].at = "none"
      BY <1>5, <1>6, <2>1, AskedEmpty DEF Casts
  <2> QED BY <1>2, <1>7, <2>2 DEF Unsent
<1>13. Routed(Phone)
    BY <1>2, <1>3, <1>7, Constants DEF Routed
<1>14. Unopened(Phone)
  <2>1. \A i \in Streams, s \in Sockets : cast[<<i, s>>].at = "none"
      BY <1>6 DEF Casts
  <2> QED BY <1>5, <1>7, <2>1 DEF Unopened
<1>15. Sound(Phone)
    BY <1>7, <1>8, <1>9, <1>10, <1>11, <1>12, <1>13, <1>14 DEF Sound
<1>16. waiters = <<>> /\ waiters \in Seq(Casts) /\ 1..Len(waiters) = {}
    BY EmptySeq DEF Init
<1>17. Host \in Hosts /\ Queued(Host)
    BY <1>5, <1>6, <1>16 DEF Host, Hosts, Queued
<1>18. Vouched
    BY <1>5, InEmpty DEF Vouched
<1> QED BY <1>1, <1>15, <1>17, <1>18 DEF MobileInv

LEMMA DesktopKeeps ==
    ASSUME MobileInv, DesktopProceeds \/ PageFails \/ Streaming
    PROVE  MobileInv'
<1>1. CASE Resume /\ UNCHANGED <<client, stream, req, paired, ran, faults>>
    BY <1>1, ResumeKeeps
<1>2. CASE HostStep \/ PageFails \/ Streaming
  <2>1. faults' \in 0..MaxFaults /\ UNCHANGED <<client, stream, req, paired, ran>>
    <3>1. Fault \/ NoFault
        BY <1>2 DEF HostStep, PageFails, Streaming, NoFault
    <3> QED BY <1>2, <3>1, FaultsBounded DEF HostStep, PageFails, Streaming
  <2>2. PICK p \in Casts : \/ Resolved(p) \/ Launched(p) \/ SessionDone(p) \/ LaunchFails(p)
                           \/ PageCloses(p) \/ reclaimBrowserForDesktop(p) \/ Frame(p)
      BY <1>2, Zenon DEF HostStep, PageFails, Streaming
  <2> QED BY <2>1, <2>2, CastStepKeeps
<1>3. CASE \E s \in Sockets : HostReceives(s) \/ HostCloses(s)
    BY <1>3, HostReceivesKeeps, HostClosesKeeps
<1> QED BY <1>1, <1>2, <1>3 DEF DesktopProceeds

LEMMA AppKeeps ==
    ASSUME MobileInv, App
    PROVE  MobileInv'
<1>1. ASSUME NEW i \in Streams, Dispose(i)
      PROVE  MobileInv'
    BY <1>1, DisposeKeeps
<1>2. ASSUME NEW i \in Streams, NEW page \in PagesOf[i], Subscribe(i, page)
      PROVE  MobileInv'
    BY <1>2, SubscribeKeeps
<1>3. ASSUME NEW r \in Requests, CallRequest(r) \/ RequestTimeout(r)
      PROVE  MobileInv'
    BY <1>3, CallRequestKeeps, RequestTimeoutKeeps
<1>4. CASE Foreground \/ Close
    BY <1>4, RedialKeeps, CloseKeeps
<1> QED BY <1>1, <1>2, <1>3, <1>4 DEF App

LEMMA StepKeeps ==
    ASSUME MobileInv, [Next]_vars
    PROVE  MobileInv'
<1>1. CASE DesktopProceeds \/ PageFails \/ Streaming
    BY <1>1, DesktopKeeps
<1>2. CASE OnOpen \/ OnMessage \/ OnClose \/ ReconnectTimer
    BY <1>2, OnOpenKeeps, OnMessageKeeps, OnCloseKeeps, RedialKeeps
<1>3. CASE ConnectFails \/ LinkTimeout \/ LinkError \/ Break \/ Unpair
    BY <1>3, ConnectFailsKeeps, LinkTimeoutKeeps, BreakKeeps
<1>4. CASE App
    BY <1>4, AppKeeps
<1>5. CASE \E s \in Sockets : RejectsToken(s)
    BY <1>5, RejectsTokenKeeps
<1>6. CASE UNCHANGED vars
  <2>1. Phone' = Phone /\ Host' = Host
      BY <1>6 DEF vars, phoneVars, Phone, Host
  <2>2. UNCHANGED <<cast, waiters, hostEnd, down, up, rs, dead, client, stream, req, paired, ran, faults>>
      BY <1>6 DEF vars, phoneVars
  <2>3. Rest' /\ (Host \in Hosts)' /\ Queued(Host)' /\ Vouched'
      BY <2>1, <2>2 DEF MobileInv, Rest, Queued, Vouched
  <2>4. PhoneBecomes(Phone) /\ UNCHANGED <<hostVars, hostEnd, dead, paired, ran>> /\ faults' \in 0..MaxFaults
      BY <2>2, PhoneFacts DEF PhoneBecomes, hostVars
  <2> QED BY <2>4, PhoneFacts, PhoneCallback
<1> QED BY <1>1, <1>2, <1>3, <1>4, <1>5, <1>6 DEF Next, PhoneProceeds

LEMMA MobileInvHolds == Spec => []MobileInv
<1>1. Init => MobileInv
    BY InitSound
<1>2. MobileInv /\ [Next]_vars => MobileInv'
    BY StepKeeps
<1> QED BY <1>1, <1>2, PTL DEF Spec

\* Whatever the phone, the desktop and the network do, the client's state keeps its
\* shape: counters stay in their bounds, and streams and requests name what exists.
THEOREM MobileTypeCorrect == Spec => []TypeOK
<1>1. MobileInv => TypeOK
  <2> SUFFICES ASSUME MobileInv PROVE TypeOK
      OBVIOUS
  <2>1. /\ client.state \in States /\ client.ws \in Sockets \cup {NoSocket}
        /\ client.attempt \in 0..GiveUp /\ client.rejections \in 0..AuthBudget
        /\ {client.timer, client.closed} \subseteq BOOLEAN
        /\ {client.active, client.pending} \subseteq Streams \cup {NoStream}
      BY PhoneFacts DEF Clients
  <2>2. \A s \in Sockets : Len(up[s]) \in Nat /\ Len(down[s]) \in Nat
      BY PhoneFacts, HostFacts, LenProperties
  <2>3. cast \in [Casts -> CastStates] /\ waiters \in Seq(Casts) /\ Rest
      BY HostFacts DEF MobileInv
  <2>4. /\ stream \in [Streams -> StreamStates] /\ req \in [Requests -> Outcomes]
        /\ rs \in [Sockets -> Ready]
      BY PhoneFacts
  <2> QED BY <2>1, <2>2, <2>3, <2>4
          DEF TypeOK, Rest, States, Alive, CastStates, StreamStates, Outcomes, Ready, Ends
<1> QED BY <1>1, MobileInvHolds, PTL

\* rpc-client.ts: whichever of a timeout, a close event, a late callback and the
\* foreground comes first, the client holds one socket or one timer, never both and
\* never a second one.
THEOREM OneConnectionHolds == Spec => []OneConnection
<1>1. MobileInv => OneConnection
  <2> SUFFICES ASSUME MobileInv PROVE OneConnection
      OBVIOUS
  <2>1. Linked(Phone) /\ Phone.client = client /\ Phone.rs = rs
      BY PhoneFacts DEF Sound
  <2> QED BY <2>1 DEF Linked, OneConnection, Alive, ws
<1> QED BY <1>1, MobileInvHolds, PTL

\* rpc-client.ts, rejectAllPending: a request that is reported as failed was not
\* executed, and no request for it is still on its way, however many connections broke;
\* what a disowned token makes fail is reported as unauthorized instead.
THEOREM FailedRequestsNeverRan == Spec => []FailedWasNotRun
<1>1. MobileInv => FailedWasNotRun
    BY PhoneFacts DEF Sound, Honest, FailedWasNotRun
<1> QED BY <1>1, MobileInvHolds, PTL
=============================================================================
