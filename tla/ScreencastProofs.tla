-------------------------- MODULE ScreencastProofs --------------------------
(***************************************************************************)
(* Proofs about the screencasts of MobileRpc, for any number of streams,   *)
(* connections, pages and faults: a frame reaches the listener whose page  *)
(* asked for it, and a cast that runs belongs to a listener.               *)
(*                                                                         *)
(* Orderly is what the desktop keeps on each connection: one cast at a     *)
(* time, in the order of the streams, except for those marked late, and    *)
(* nothing said of a cast before it happened.  Tidy is what the phone      *)
(* relies on: which casts it may still be told about, and which message    *)
(* ends the ones it has given up.  Neither is inductive without the other. *)
(***************************************************************************)
EXTENDS MobileProofs

-----------------------------------------------------------------------------
(* The order of what the desktop says.                                     *)

Started == {"running", "ending", "over"}
Underway == {"page", "connection", "session", "resolving", "launching", "running"}

\* In the queue Q the message n comes behind the message m.
Behind(Q, m, n) == \E j, k \in 1..Len(Q) : j < k /\ Q[j] = m /\ Q[k] = n

\* A connection has one cast; one that it has after a newer one is late.
Exclusive(h) == \A p, q \in Casts :
    Socket(p) = Socket(q) /\ h.cast[p].at \in Registered /\ h.cast[q].at \in Registered => p = q
Succession(h) == \A p, q \in Casts :
    Socket(p) = Socket(q) /\ Stream(p) < Stream(q)
        /\ h.cast[p].at \in Registered /\ h.cast[q].at = "over" => "late" \in h.cast[p].marks

\* What is said of a cast has happened; only a late cast has frames behind the `ready`
\* of a newer one.
Spoken(h) == \A q \in Casts :
    /\ In(h.down[Socket(q)], <<"ready", Stream(q)>>) => h.cast[q].at \in Started
    /\ In(h.down[Socket(q)], <<"frame", Stream(q)>>) => h.cast[q].at \in Started
    /\ In(h.down[Socket(q)], <<"error", Stream(q)>>) => h.cast[q].at = "over"
Sequenced(h) == \A p, q \in Casts :
    Socket(p) = Socket(q) /\ Stream(p) < Stream(q)
        /\ Behind(h.down[Socket(p)], <<"ready", Stream(q)>>, <<"frame", Stream(p)>>)
            => "late" \in h.cast[p].marks

\* `end` is called of a cast that runs.
Finished(h) == \A q \in Casts : "ended" \in h.cast[q].marks => h.cast[q].at \in {"ending", "over"}

Orderly(h) == Exclusive(h) /\ Succession(h) /\ Spoken(h) /\ Sequenced(h) /\ Finished(h)

LEMMA BehindAppend ==
    ASSUME NEW S, NEW Q \in Seq(S), NEW e \in S, NEW m, NEW n, Behind(Append(Q, e), m, n)
    PROVE  Behind(Q, m, n) \/ (In(Q, m) /\ n = e)
<1>1. /\ Len(Q) \in Nat /\ Len(Append(Q, e)) = Len(Q) + 1
      /\ \A k \in 1..Len(Q) : Append(Q, e)[k] = Q[k]
      /\ Append(Q, e)[Len(Q) + 1] = e
    BY AppendProperties, LenProperties
<1>2. PICK j \in 1..Len(Append(Q, e)), k \in 1..Len(Append(Q, e)) :
        j < k /\ Append(Q, e)[j] = m /\ Append(Q, e)[k] = n
    BY DEF Behind
<1>3. j \in 1..Len(Q) /\ Q[j] = m
    BY <1>1, <1>2
<1>4. CASE k = Len(Q) + 1
    BY <1>1, <1>2, <1>3, <1>4 DEF In
<1>5. CASE k # Len(Q) + 1
  <2>1. k \in 1..Len(Q) /\ Q[k] = n
      BY <1>1, <1>2, <1>5
  <2> QED BY <1>2, <1>3, <2>1 DEF Behind
<1> QED BY <1>4, <1>5

LEMMA BehindTail ==
    ASSUME NEW S, NEW Q \in Seq(S), Q # <<>>, NEW m, NEW n
    PROVE  /\ Behind(Tail(Q), m, n) => Behind(Q, m, n)
           /\ Head(Q) = m /\ In(Tail(Q), n) => Behind(Q, m, n)
<1>1. /\ Len(Q) \in Nat \ {0} /\ Len(Tail(Q)) = Len(Q) - 1
      /\ \A k \in 1..Len(Tail(Q)) : Tail(Q)[k] = Q[k + 1]
      /\ Head(Q) = Q[1]
    BY HeadTailProperties, EmptySeq, LenProperties
<1>2. 1 \in 1..Len(Q) /\ \A k \in 1..Len(Tail(Q)) : k + 1 \in 1..Len(Q) /\ 1 < k + 1
    BY <1>1
<1>3. ASSUME Behind(Tail(Q), m, n) PROVE Behind(Q, m, n)
  <2>1. PICK j \in 1..Len(Tail(Q)), k \in 1..Len(Tail(Q)) :
          j < k /\ Tail(Q)[j] = m /\ Tail(Q)[k] = n
      BY <1>3 DEF Behind
  <2>2. j + 1 < k + 1 /\ Q[j + 1] = m /\ Q[k + 1] = n
      BY <1>1, <2>1
  <2> QED BY <1>2, <2>2 DEF Behind
<1>4. ASSUME Head(Q) = m, In(Tail(Q), n) PROVE Behind(Q, m, n)
  <2>1. PICK k \in 1..Len(Tail(Q)) : Tail(Q)[k] = n
      BY <1>4 DEF In
  <2>2. Q[1] = m /\ Q[k + 1] = n /\ 1 < k + 1
      BY <1>1, <1>2, <1>4, <2>1
  <2> QED BY <1>2, <2>2 DEF Behind
<1> QED BY <1>3, <1>4

LEMMA BehindEmpty == ASSUME NEW m, NEW n PROVE ~Behind(<<>>, m, n)
BY DEF Behind

-----------------------------------------------------------------------------
(* What a step of the desktop does to the casts.                           *)

\* From h to g no cast goes back, and only those in P begin.
Onward(h, g, P) ==
    /\ \A q \in Casts :
          /\ "late" \in h.cast[q].marks => "late" \in g.cast[q].marks
          /\ "ended" \in g.cast[q].marks =>
                "ended" \in h.cast[q].marks \/ g.cast[q].at \in {"ending", "over"}
          /\ h.cast[q].at = "over" => g.cast[q].at = "over"
          /\ h.cast[q].at \in {"ending", "over"} => g.cast[q].at \in {"ending", "over"}
          /\ h.cast[q].at \in Started => g.cast[q].at \in Started
    /\ \A q \in Casts \ P :
          /\ h.cast[q].at = "none" => g.cast[q].at = "none"
          /\ g.cast[q].at \in Underway => h.cast[q].at \in Underway

\* No cast is admitted, and none is over that was not admitted.
Held(h, g) == \A q \in Casts :
    /\ g.cast[q].at \in Registered => h.cast[q].at \in Registered
    /\ g.cast[q].at = "over" => h.cast[q].at \in Registered \cup {"over"}

\* The cast p is admitted, or given up, on a connection that has no cast.
LetIn(h, g, p) ==
    /\ OfConnection(h, p) = {}
    /\ \A q \in Casts \ {p} : g.cast[q].at = h.cast[q].at
    /\ Passed(h, p) /\ g.cast[p].at \in Registered => "late" \in g.cast[p].marks

Lawful(h, g, P) == Onward(h, g, P) /\ (Held(h, g) \/ \E p \in Casts : LetIn(h, g, p))

\* A message is added to a queue, which is true when it is.
True(g, s, m) == \A i \in Streams :
    /\ m = <<"ready", i>> => g.cast[<<i, s>>].at \in Started
    /\ m = <<"frame", i>> => g.cast[<<i, s>>].at = "running"
    /\ m = <<"error", i>> => g.cast[<<i, s>>].at = "over"
Says(h, g) == \A s \in Sockets :
    \/ g.down[s] = h.down[s]
    \/ \E m \in DownMessages : g.down[s] = Append(h.down[s], m) /\ True(g, s, m)

LEMMA CastParts ==
    /\ \A q \in Casts : Stream(q) \in Streams /\ Socket(q) \in Sockets /\ q = <<Stream(q), Socket(q)>>
    /\ \A i \in Streams, s \in Sockets :
          <<i, s>> \in Casts /\ Stream(<<i, s>>) = i /\ Socket(<<i, s>>) = s
BY DEF Casts, Stream, Socket

LEMMA AdmittedOrder ==
    ASSUME NEW h, NEW g, NEW P, Exclusive(h), Succession(h), Lawful(h, g, P)
    PROVE  Exclusive(g) /\ Succession(g)
<1>1. ASSUME Held(h, g) PROVE Exclusive(g) /\ Succession(g)
  <2>1. Exclusive(g)
      BY <1>1 DEF Exclusive, Held
  <2>2. ASSUME NEW p \in Casts, NEW q \in Casts, Socket(p) = Socket(q), Stream(p) < Stream(q),
               g.cast[p].at \in Registered, g.cast[q].at = "over"
        PROVE  "late" \in g.cast[p].marks
    <3>1. h.cast[p].at \in Registered /\ h.cast[q].at \in Registered \cup {"over"}
        BY <1>1, <2>2 DEF Held
    <3>2. p # q
        BY <2>2 DEF Registered
    <3>3. h.cast[q].at = "over"
        BY <2>2, <3>1, <3>2 DEF Exclusive
    <3>4. "late" \in h.cast[p].marks
        BY <2>2, <3>1, <3>3 DEF Succession
    <3> QED BY <3>4 DEF Lawful, Onward
  <2> QED BY <2>1, <2>2 DEF Succession
<1>2. ASSUME NEW r \in Casts, LetIn(h, g, r) PROVE Exclusive(g) /\ Succession(g)
  <2>1. \A q \in Casts : Socket(q) = Socket(r) => h.cast[q].at \notin Registered
      BY <1>2 DEF LetIn, OfConnection
  <2>2. \A q \in Casts \ {r} : g.cast[q].at = h.cast[q].at
      BY <1>2 DEF LetIn
  <2>3. Exclusive(g)
    <3> SUFFICES ASSUME NEW p \in Casts, NEW q \in Casts, Socket(p) = Socket(q),
                        g.cast[p].at \in Registered, g.cast[q].at \in Registered
                 PROVE  p = q
        BY DEF Exclusive
    <3>1. CASE p = r \/ q = r
        BY <2>1, <2>2, <3>1
    <3>2. CASE p # r /\ q # r
        BY <2>2, <3>2 DEF Exclusive
    <3> QED BY <3>1, <3>2
  <2>4. ASSUME NEW p \in Casts, NEW q \in Casts, Socket(p) = Socket(q), Stream(p) < Stream(q),
               g.cast[p].at \in Registered, g.cast[q].at = "over"
        PROVE  "late" \in g.cast[p].marks
    <3>0. p # q
        BY <2>4 DEF Registered
    <3>1. CASE p = r
      <4>1. h.cast[q].at = "over"
          BY <2>2, <2>4, <3>0, <3>1
      <4>2. Passed(h, r)
          BY <2>4, <3>1, <4>1 DEF Passed
      <4> QED BY <1>2, <2>4, <3>1, <4>2 DEF LetIn
    <3>2. CASE q = r
        BY <2>1, <2>2, <2>4, <3>0, <3>2
    <3>3. CASE p # r /\ q # r
      <4>1. h.cast[p].at \in Registered /\ h.cast[q].at = "over"
          BY <2>2, <2>4, <3>3
      <4>2. "late" \in h.cast[p].marks
          BY <2>4, <4>1 DEF Succession
      <4> QED BY <4>2 DEF Lawful, Onward
    <3> QED BY <3>1, <3>2, <3>3
  <2> QED BY <2>3, <2>4 DEF Succession
<1> QED BY <1>1, <1>2 DEF Lawful

\* A cast that runs after a newer one of its connection has started is late.
LEMMA RunsLate ==
    ASSUME NEW g, Exclusive(g), Succession(g), NEW p \in Casts, NEW q \in Casts,
           Socket(p) = Socket(q), Stream(p) < Stream(q),
           g.cast[p].at = "running", g.cast[q].at \in Started
    PROVE  "late" \in g.cast[p].marks
<1>1. g.cast[p].at \in Registered
    BY DEF Registered
<1>2. CASE g.cast[q].at = "over"
    BY <1>1, <1>2 DEF Succession
<1>3. CASE g.cast[q].at # "over"
  <2>1. g.cast[q].at \in Registered
      BY <1>3 DEF Started, Registered
  <2>2. p = q
      BY <1>1, <2>1 DEF Exclusive
  <2>3. Stream(p) \in Nat
      BY CastParts, Constants
  <2> QED BY <2>2, <2>3
<1> QED BY <1>2, <1>3

LEMMA OrderlyKept ==
    ASSUME NEW h \in Hosts, NEW g \in Hosts, NEW P, Orderly(h), Lawful(h, g, P), Says(h, g)
    PROVE  Orderly(g)
<1>1. Exclusive(g) /\ Succession(g)
    BY AdmittedOrder DEF Orderly
<1>2. Finished(g)
    BY DEF Orderly, Finished, Lawful, Onward
<1>3. Spoken(g)
  <2> SUFFICES ASSUME NEW q \in Casts
               PROVE  /\ In(g.down[Socket(q)], <<"ready", Stream(q)>>) => g.cast[q].at \in Started
                      /\ In(g.down[Socket(q)], <<"frame", Stream(q)>>) => g.cast[q].at \in Started
                      /\ In(g.down[Socket(q)], <<"error", Stream(q)>>) => g.cast[q].at = "over"
      BY DEF Spoken
  <2> DEFINE s == Socket(q)
             i == Stream(q)
  <2>1. s \in Sockets /\ i \in Streams /\ q = <<i, s>> /\ h.down[s] \in Seq(DownMessages)
      BY CastParts DEF Hosts
  <2>2. /\ In(h.down[s], <<"ready", i>>) => g.cast[q].at \in Started
        /\ In(h.down[s], <<"frame", i>>) => g.cast[q].at \in Started
        /\ In(h.down[s], <<"error", i>>) => g.cast[q].at = "over"
      BY DEF Orderly, Spoken, Lawful, Onward
  <2> HIDE DEF s, i
  <2>3. ASSUME NEW m \in DownMessages, g.down[s] = Append(h.down[s], m), True(g, s, m)
        PROVE  /\ In(g.down[s], <<"ready", i>>) => g.cast[q].at \in Started
               /\ In(g.down[s], <<"frame", i>>) => g.cast[q].at \in Started
               /\ In(g.down[s], <<"error", i>>) => g.cast[q].at = "over"
    <3>1. \A n : In(g.down[s], n) <=> In(h.down[s], n) \/ n = m
        BY <2>1, <2>3, InAppend
    <3>2. /\ m = <<"ready", i>> => g.cast[q].at \in Started
          /\ m = <<"frame", i>> => g.cast[q].at \in Started
          /\ m = <<"error", i>> => g.cast[q].at = "over"
        BY <2>1, <2>3 DEF True, Started
    <3> QED BY <2>2, <3>1, <3>2
  <2> QED BY <2>1, <2>2, <2>3 DEF Says, s, i
<1>4. Sequenced(g)
  <2> SUFFICES ASSUME NEW p \in Casts, NEW q \in Casts, Socket(p) = Socket(q), Stream(p) < Stream(q),
                      Behind(g.down[Socket(p)], <<"ready", Stream(q)>>, <<"frame", Stream(p)>>)
               PROVE  "late" \in g.cast[p].marks
      BY DEF Sequenced
  <2> DEFINE s == Socket(p)
             m == <<"ready", Stream(q)>>
             n == <<"frame", Stream(p)>>
  <2>1. /\ s \in Sockets /\ h.down[s] \in Seq(DownMessages)
        /\ Stream(p) \in Streams /\ p = <<Stream(p), s>>
      BY CastParts DEF Hosts
  <2>2. "late" \in h.cast[p].marks => "late" \in g.cast[p].marks
      BY DEF Lawful, Onward
  <2>3. CASE Behind(h.down[s], m, n)
      BY <2>2, <2>3 DEF Orderly, Sequenced
  <2>4. ASSUME NEW e \in DownMessages, g.down[s] = Append(h.down[s], e), True(g, s, e),
               ~Behind(h.down[s], m, n)
        PROVE  "late" \in g.cast[p].marks
    <3> HIDE DEF m, n
    <3>1. In(h.down[s], m) /\ n = e
        BY <2>1, <2>4, BehindAppend DEF m, n
    <3>2. g.cast[q].at \in Started
        BY <3>1 DEF Orderly, Spoken, Lawful, Onward, m
    <3>3. g.cast[p].at = "running"
        BY <2>1, <2>4, <3>1 DEF True, n
    <3> QED BY <1>1, <3>2, <3>3, RunsLate
  <2> QED BY <2>1, <2>3, <2>4 DEF Says
<1> QED BY <1>1, <1>2, <1>3, <1>4 DEF Orderly

-----------------------------------------------------------------------------
(* What the desktop's loops do to the casts.                               *)

\* From h to g at most the cast q changes, which comes to a place with marks M.
Puts(h, g, q, place, M) ==
    /\ g \in Hosts /\ g.down = h.down
    /\ g.cast[q].at = place /\ g.cast[q].marks = M
    /\ \A x \in Casts \ {q} : g.cast[x].at = h.cast[x].at /\ g.cast[x].marks = h.cast[x].marks

LEMMA ChangePuts ==
    ASSUME NEW h \in Hosts, NEW q \in Casts, NEW y \in CastStates, NEW W \in Seq(Casts),
           NEW g, g = [h EXCEPT !.cast = [h.cast EXCEPT ![q] = y], !.waiters = W]
    PROVE  Puts(h, g, q, y.at, y.marks)
BY DEF Hosts, Puts

LEMMA MarkPuts ==
    ASSUME NEW h \in Hosts, NEW q \in Casts, NEW m \in Marks
    PROVE  Puts(h, Mark(h, q, m), q, h.cast[q].at, h.cast[q].marks \cup {m})
<1> DEFINE y == [h.cast[q] EXCEPT !.marks = @ \cup {m}]
           g == Mark(h, q, m)
<1>1. h.cast \in [Casts -> CastStates] /\ h.cast[q] \in CastStates /\ h.waiters \in Seq(Casts)
    BY DEF Hosts
<1>2. y \in CastStates /\ y.at = h.cast[q].at /\ y.marks = h.cast[q].marks \cup {m}
    BY <1>1 DEF CastStates
<1>3. g = [h EXCEPT !.cast = [h.cast EXCEPT ![q] = y], !.waiters = h.waiters]
    BY DEF Mark, Hosts
<1> HIDE DEF y, g
<1>4. Puts(h, g, q, y.at, y.marks)
    BY <1>1, <1>2, <1>3, ChangePuts
<1> QED BY <1>2, <1>4 DEF g

LEMMA MovePuts ==
    ASSUME NEW h \in Hosts, NEW q \in Casts, NEW place \in Places
    PROVE  Puts(h, Move(h, q, place), q, place, h.cast[q].marks)
<1> DEFINE y == [h.cast[q] EXCEPT !.at = place]
           g == Move(h, q, place)
<1>1. h.cast \in [Casts -> CastStates] /\ h.cast[q] \in CastStates /\ h.waiters \in Seq(Casts)
    BY DEF Hosts
<1>2. y \in CastStates /\ y.at = place /\ y.marks = h.cast[q].marks
    BY <1>1 DEF CastStates
<1>3. g = [h EXCEPT !.cast = [h.cast EXCEPT ![q] = y], !.waiters = h.waiters]
    BY DEF Move, Hosts
<1> HIDE DEF y, g
<1>4. Puts(h, g, q, y.at, y.marks)
    BY <1>1, <1>2, <1>3, ChangePuts
<1> QED BY <1>2, <1>4 DEF g

LEMMA AwaitPuts ==
    ASSUME NEW h \in Hosts, NEW p \in Casts, NEW place \in Awaiting, NEW q \in Casts
    PROVE  Puts(h, Await(h, p, place, q), p, place, h.cast[p].marks)
<1> DEFINE y == [h.cast[p] EXCEPT !.at = place, !.on = q]
           Q == Append(h.waiters, p)
           g == Await(h, p, place, q)
<1>1. h.cast \in [Casts -> CastStates] /\ h.cast[p] \in CastStates /\ h.waiters \in Seq(Casts)
    BY DEF Hosts
<1>2. y \in CastStates /\ y.at = place /\ y.marks = h.cast[p].marks
  <2>1. place \in Places
      BY DEF Awaiting, Places, Registered
  <2> QED BY <1>1, <2>1 DEF CastStates
<1>3. g = [h EXCEPT !.cast = [h.cast EXCEPT ![p] = y], !.waiters = Q]
    BY <1>1 DEF Await, Hosts, CastStates
<1>4. Q \in Seq(Casts)
    BY <1>1, AppendProperties
<1> HIDE DEF y, g, Q
<1>5. Puts(h, g, p, y.at, y.marks)
    BY <1>2, <1>3, <1>4, ChangePuts
<1> QED BY <1>2, <1>5 DEF g

\* The change of one cast.
LEMMA PutsOnward ==
    ASSUME NEW h, NEW g, NEW q \in Casts, NEW place, NEW M, Puts(h, g, q, place, M),
           h.cast[q].marks \subseteq M,
           "ended" \in M => "ended" \in h.cast[q].marks \/ place \in {"ending", "over"},
           h.cast[q].at = "over" => place = "over",
           h.cast[q].at \in {"ending", "over"} => place \in {"ending", "over"},
           h.cast[q].at \in Started => place \in Started
    PROVE  /\ Onward(h, g, {q})
           /\ h.cast[q].at # "none" /\ (place \in Underway => h.cast[q].at \in Underway)
                => Onward(h, g, {})
           /\ (/\ place \in Registered => h.cast[q].at \in Registered
               /\ place = "over" => h.cast[q].at \in Registered \cup {"over"})
              => Held(h, g)
<1>1. Onward(h, g, {q})
    BY DEF Onward, Puts
<1>2. ASSUME h.cast[q].at # "none", place \in Underway => h.cast[q].at \in Underway
      PROVE  Onward(h, g, {})
    BY <1>1, <1>2 DEF Onward, Puts
<1>3. ASSUME place \in Registered => h.cast[q].at \in Registered,
             place = "over" => h.cast[q].at \in Registered \cup {"over"}
      PROVE  Held(h, g)
    BY <1>3 DEF Held, Puts
<1> QED BY <1>1, <1>2, <1>3

LEMMA OnwardTransitive ==
    ASSUME NEW h, NEW g, NEW f, NEW P, NEW Q, NEW R, Onward(h, g, P), Onward(g, f, Q),
           P \subseteq R, Q \subseteq R
    PROVE  Onward(h, f, R)
BY DEF Onward

LEMMA HeldTransitive ==
    ASSUME NEW h, NEW g, NEW f, Held(h, g), Held(g, f)
    PROVE  Held(h, f)
BY DEF Held

\* What has begun is under way.
LEMMA LawfulBegun ==
    ASSUME NEW h, NEW g, NEW p \in Casts, Lawful(h, g, {p}), h.cast[p].at \in Underway
    PROVE  Lawful(h, g, {})
BY DEF Lawful, Onward, Underway

\* From h to g the phone is told of ends only.
Mute(h, g) == \A s \in Sockets :
    \/ g.down[s] = h.down[s]
    \/ \E i \in Streams : g.down[s] = Append(h.down[s], <<"end", i>>)

LEMMA MuteSays ==
    ASSUME NEW h, NEW g, Mute(h, g)
    PROVE  Says(h, g)
<1> SUFFICES ASSUME NEW s \in Sockets, g.down[s] # h.down[s]
             PROVE  \E m \in DownMessages : g.down[s] = Append(h.down[s], m) /\ True(g, s, m)
    BY DEF Says
<1>1. PICK i \in Streams : g.down[s] = Append(h.down[s], <<"end", i>>)
    BY DEF Mute
<1>2. <<"end", i>> \in DownMessages /\ True(g, s, <<"end", i>>)
    BY DEF DownMessages, CastMessages, True
<1> QED BY <1>1, <1>2

LEMMA PostDown ==
    ASSUME NEW h \in Hosts, NEW s \in Sockets, NEW kind, NEW i
    PROVE  LET g == Post(h, s, kind, i)
           IN  /\ g.cast = h.cast
               /\ \A t \in Sockets :
                    g.down[t] = h.down[t] \/ (t = s /\ g.down[t] = Append(h.down[t], <<kind, i>>))
<1> DEFINE g == Post(h, s, kind, i)
<1>1. CASE g = h
    BY <1>1
<1>2. CASE g # h
  <2>1. g = [h EXCEPT !.down[s] = Append(@, <<kind, i>>)]
      BY <1>2 DEF Post
  <2> HIDE DEF g
  <2>2. g.cast = h.cast /\ g.down = [h.down EXCEPT ![s] = Append(@, <<kind, i>>)]
      BY <2>1 DEF Hosts
  <2>3. \A t \in Sockets :
                    g.down[t] = h.down[t] \/ (t = s /\ g.down[t] = Append(h.down[t], <<kind, i>>))
      BY <2>2 DEF Hosts
  <2> QED BY <2>2, <2>3 DEF g
<1> QED BY <1>1, <1>2

LEMMA CancelOrder ==
    ASSUME NEW h \in Hosts, Queued(h), NEW q \in Casts, NEW emitEnd \in BOOLEAN
    PROVE  LET d == Cancel(h, q, emitEnd)
           IN  /\ d \in Hosts /\ Onward(h, d, {}) /\ Held(h, d) /\ Mute(h, d)
               /\ \A x \in Casts : h.cast[x].at \notin OnPage => d.cast[x].at = h.cast[x].at
               /\ h.cast[q].at \in OnPage /\ "ended" \notin h.cast[q].marks => d.cast[q].at = "ending"
<1> DEFINE f == Move(h, q, "ending")
           g == Mark(f, q, "ended")
           d == Cancel(h, q, emitEnd)
<1>0. d \in Hosts
    BY CancelEvolves DEF Evolves
<1>1. CASE h.cast[q].at \in {"resolving", "session", "launching"}
  <2>1. d = Mark(h, q, "cancelled") /\ "cancelled" \in Marks
      BY <1>1 DEF Cancel, OnPage, Marks
  <2> HIDE DEF d
  <2>2. Puts(h, d, q, h.cast[q].at, h.cast[q].marks \cup {"cancelled"})
      BY <2>1, MarkPuts
  <2>3. Onward(h, d, {}) /\ Held(h, d)
    <3> DEFINE M == h.cast[q].marks \cup {"cancelled"}
    <3>1. h.cast[q].marks \subseteq M /\ ("ended" \in M => "ended" \in h.cast[q].marks)
        OBVIOUS
    <3>2. h.cast[q].at \notin {"none", "over", "ending"}
        BY <1>1
    <3> HIDE DEF M
    <3> QED BY <2>2, <3>1, <3>2, PutsOnward DEF M
  <2>4. Mute(h, d) /\ \A x \in Casts : d.cast[x].at = h.cast[x].at
      BY <2>2 DEF Puts, Mute
  <2>5. h.cast[q].at \notin OnPage
      BY <1>1 DEF OnPage
  <2> QED BY <1>0, <2>3, <2>4, <2>5 DEF d
<1>2. CASE h.cast[q].at \in OnPage /\ "ended" \notin h.cast[q].marks
  <2>1. d = IF emitEnd THEN Tell(g, q, "end") ELSE g
      BY <1>2 DEF Cancel, OnPage
  <2>2. Puts(h, f, q, "ending", h.cast[q].marks)
      BY MovePuts DEF Places, Registered
  <2> HIDE DEF f
  <2>3. Puts(f, g, q, f.cast[q].at, f.cast[q].marks \cup {"ended"})
      BY <2>2, MarkPuts DEF Puts, Marks
  <2> HIDE DEF g
  <2>4. Puts(h, g, q, "ending", h.cast[q].marks \cup {"ended"})
      BY <2>2, <2>3 DEF Puts
  <2>5. ASSUME NEW e, \A x \in Casts : /\ e.cast[x].at = g.cast[x].at
                                       /\ e.cast[x].marks \in {g.cast[x].marks, g.cast[x].marks \cup {"told"}}
        PROVE  /\ Onward(h, e, {}) /\ Held(h, e)
               /\ \A x \in Casts : h.cast[x].at \notin OnPage => e.cast[x].at = h.cast[x].at
               /\ e.cast[q].at = "ending"
    <3>1. /\ \A x \in Casts \ {q} : g.cast[x].at = h.cast[x].at /\ g.cast[x].marks = h.cast[x].marks
          /\ g.cast[q].at = "ending" /\ h.cast[q].marks \subseteq g.cast[q].marks
          /\ h.cast[q].at \in {"running", "ending"}
        BY <1>2, <2>4 DEF Puts, OnPage
    <3>2. Onward(h, e, {})
        BY <2>5, <3>1 DEF Onward, Started, Underway
    <3>3. Held(h, e)
        BY <2>5, <3>1 DEF Held, Registered
    <3> QED BY <2>5, <3>1, <3>2, <3>3 DEF OnPage
  <2>6. CASE ~emitEnd
    <3>1. d = g /\ Mute(h, g)
        BY <2>1, <2>4, <2>6 DEF Puts, Mute
    <3> HIDE DEF d
    <3> QED BY <1>0, <2>5, <3>1 DEF d
  <2>7. CASE emitEnd
    <3> DEFINE e == Post(g, Socket(q), "end", Stream(q))
    <3>1. d = Mark(e, q, "told")
        BY <2>1, <2>7 DEF Tell
    <3>2. g \in Hosts /\ Socket(q) \in Sockets /\ Stream(q) \in Streams /\ g.down = h.down
        BY <2>4, CastParts DEF Puts
    <3>3. /\ e.cast = g.cast
          /\ \A t \in Sockets : e.down[t] = g.down[t] \/ e.down[t] = Append(g.down[t], <<"end", Stream(q)>>)
        BY <3>2, PostDown
    <3>4. e \in Hosts
      <4>1. <<"end", Stream(q)>> \in DownMessages
          BY <3>2 DEF DownMessages, CastMessages
      <4> QED BY <3>2, <4>1, PostEffect
    <3> HIDE DEF e
    <3>5. Puts(e, Mark(e, q, "told"), q, e.cast[q].at, e.cast[q].marks \cup {"told"})
        BY <3>4, MarkPuts DEF Marks
    <3> HIDE DEF d
    <3>6. Mute(h, d)
        BY <3>1, <3>2, <3>3, <3>5 DEF Puts, Mute
    <3>7. \A x \in Casts : /\ d.cast[x].at = g.cast[x].at
                           /\ d.cast[x].marks \in {g.cast[x].marks, g.cast[x].marks \cup {"told"}}
        BY <3>1, <3>3, <3>5 DEF Puts
    <3> QED BY <1>0, <2>5, <3>6, <3>7 DEF d
  <2> QED BY <2>6, <2>7
<1>3. CASE /\ h.cast[q].at \notin {"resolving", "session", "launching"}
           /\ ~(h.cast[q].at \in OnPage /\ "ended" \notin h.cast[q].marks)
  <2>1. d = h
      BY <1>3 DEF Cancel
  <2>2. Onward(h, h, {}) /\ Held(h, h) /\ Mute(h, h)
      BY DEF Onward, Held, Mute
  <2> HIDE DEF d
  <2> QED BY <1>3, <2>1, <2>2 DEF d
<1> QED BY <1>1, <1>2, <1>3

LEMMA StopOrder ==
    ASSUME NEW h \in Hosts, NEW q \in Casts
    PROVE  LET d == Stop(h, q)
           IN  /\ d \in Hosts /\ Onward(h, d, {}) /\ Held(h, d) /\ d.down = h.down
               /\ \A x \in Casts : h.cast[x].at \notin OnPage => d.cast[x].at = h.cast[x].at
<1> DEFINE d == Stop(h, q)
<1>1. CASE h.cast[q].at = "launching"
  <2>1. d = Mark(h, q, "stopped") /\ "stopped" \in Marks
      BY <1>1 DEF Stop, Marks
  <2> HIDE DEF d
  <2>2. Puts(h, d, q, h.cast[q].at, h.cast[q].marks \cup {"stopped"})
      BY <2>1, MarkPuts
  <2>3. Onward(h, d, {}) /\ Held(h, d)
    <3> DEFINE M == h.cast[q].marks \cup {"stopped"}
    <3>1. h.cast[q].marks \subseteq M /\ ("ended" \in M => "ended" \in h.cast[q].marks)
        OBVIOUS
    <3> HIDE DEF M
    <3> QED BY <1>1, <2>2, <3>1, PutsOnward DEF M, Started
  <2> QED BY <2>2, <2>3 DEF Puts, d
<1>2. CASE h.cast[q].at = "running"
  <2>1. d = Move(h, q, "ending")
      BY <1>2 DEF Stop
  <2> HIDE DEF d
  <2>2. Puts(h, d, q, "ending", h.cast[q].marks)
      BY <2>1, MovePuts DEF Places, Registered
  <2>3. Onward(h, d, {}) /\ Held(h, d)
      BY <1>2, <2>2, PutsOnward DEF Started, Underway, Registered
  <2> QED BY <1>2, <2>2, <2>3 DEF Puts, OnPage, d
<1>3. CASE h.cast[q].at \notin {"launching", "running"}
  <2>1. d = h
      BY <1>3 DEF Stop
  <2>2. Onward(h, h, {}) /\ Held(h, h)
      BY DEF Onward, Held
  <2> HIDE DEF d
  <2> QED BY <2>1, <2>2 DEF d
<1> QED BY <1>1, <1>2, <1>3

\* The casts have the same places and marks, and the phone is told the same.
Alike(h, g) == g.down = h.down /\ \A q \in Casts :
    g.cast[q].at = h.cast[q].at /\ g.cast[q].marks = h.cast[q].marks

LEMMA AlikeLawful ==
    ASSUME NEW h, NEW g, Alike(h, g), NEW f, NEW P, Lawful(g, f, P), Mute(g, f)
    PROVE  Lawful(h, f, P) /\ Mute(h, f)
<1>1. g.down = h.down /\ \A q \in Casts : g.cast[q].at = h.cast[q].at /\ g.cast[q].marks = h.cast[q].marks
    BY DEF Alike
<1>2. Mute(h, f)
    BY <1>1 DEF Mute
<1>3. Onward(h, f, P)
    BY <1>1 DEF Lawful, Onward
<1>4. Held(g, f) => Held(h, f)
    BY <1>1 DEF Held
<1>5. ASSUME NEW p \in Casts, LetIn(g, f, p) PROVE LetIn(h, f, p)
  <2>1. OfConnection(h, p) = OfConnection(g, p) /\ (Passed(h, p) <=> Passed(g, p))
      BY <1>1 DEF OfConnection, Passed
  <2> QED BY <1>1, <1>5, <2>1 DEF LetIn
<1> QED BY <1>2, <1>3, <1>4, <1>5 DEF Lawful

Outside == {"none", "page", "connection"}

LEMMA RegisterOrder ==
    ASSUME NEW h \in Hosts, NEW p \in Casts, h.cast[p].at \in Outside, OfConnection(h, p) = {}
    PROVE  Lawful(h, Register(h, p), {p}) /\ Mute(h, Register(h, p))
<1> DEFINE f == IF Passed(h, p) THEN Mark(h, p, "late") ELSE h
           g == Register(h, p)
\* At most p changes, and is marked when a newer one came first.
<1>1. ASSUME NEW M, NEW place \in {"resolving", "over"}, Puts(h, g, p, place, M),
             M = h.cast[p].marks \/ M = h.cast[p].marks \cup {"late"},
             Passed(h, p) /\ place = "resolving" => "late" \in M
      PROVE  Lawful(h, g, {p}) /\ Mute(h, g)
  <2> HIDE DEF g
  <2>1. h.cast[p].marks \subseteq M /\ ("ended" \in M => "ended" \in h.cast[p].marks)
      BY <1>1
  <2>2. h.cast[p].at \notin {"over", "ending", "running"}
      BY DEF Outside
  <2>3. Onward(h, g, {p})
      BY <1>1, <2>1, <2>2, PutsOnward DEF Started
  <2>4. g.cast[p].at \in Registered => place = "resolving"
      BY <1>1 DEF Puts, Registered
  <2>5. LetIn(h, g, p)
      BY <1>1, <2>4 DEF LetIn, Puts
  <2>6. Mute(h, g)
      BY <1>1 DEF Puts, Mute
  <2> QED BY <2>3, <2>5, <2>6 DEF Lawful
<1>2. CASE Aborted(p)
  <2>1. g = Move(h, p, "over")
      BY <1>2 DEF Register
  <2>2. Puts(h, g, p, "over", h.cast[p].marks)
      BY <2>1, MovePuts DEF Places
  <2> HIDE DEF g
  <2>3. Lawful(h, g, {p}) /\ Mute(h, g)
      BY <1>1, <2>2
  <2> QED BY <2>3 DEF g
<1>3. CASE ~Aborted(p)
  <2>1. g = Move(f, p, "resolving")
      BY <1>3 DEF Register
  <2>2. \E M : /\ Puts(h, f, p, h.cast[p].at, M)
               /\ M = h.cast[p].marks \/ M = h.cast[p].marks \cup {"late"}
               /\ Passed(h, p) => "late" \in M
    <3>1. CASE Passed(h, p)
      <4>1. Puts(h, f, p, h.cast[p].at, h.cast[p].marks \cup {"late"})
          BY <3>1, MarkPuts DEF Marks
      <4> QED BY <4>1
    <3>2. CASE ~Passed(h, p)
      <4>1. Puts(h, f, p, h.cast[p].at, h.cast[p].marks)
          BY <3>2 DEF Puts
      <4> QED BY <3>2, <4>1
    <3> QED BY <3>1, <3>2
  <2> HIDE DEF f
  <2>3. PICK M : /\ Puts(h, f, p, h.cast[p].at, M)
                 /\ M = h.cast[p].marks \/ M = h.cast[p].marks \cup {"late"}
                 /\ Passed(h, p) => "late" \in M
      BY <2>2
  <2>4. Puts(f, g, p, "resolving", f.cast[p].marks)
    <3>1. "resolving" \in Places /\ f \in Hosts
        BY <2>3 DEF Places, Registered, Puts
    <3> QED BY <2>1, <3>1, MovePuts
  <2> HIDE DEF g
  <2>5. Puts(h, g, p, "resolving", M)
      BY <2>3, <2>4 DEF Puts
  <2>6. Lawful(h, g, {p}) /\ Mute(h, g)
      BY <1>1, <2>3, <2>5
  <2> QED BY <2>6 DEF g
<1> QED BY <1>2, <1>3

\* p waits for another cast, which has been told to end.
LEMMA CancelAwaitOrder ==
    ASSUME NEW h \in Hosts, Queued(h), NEW p \in Casts, h.cast[p].at \in Outside,
           NEW q \in Casts, NEW emitEnd \in BOOLEAN, NEW place \in {"page", "connection"}
    PROVE  LET g == Await(Cancel(h, q, emitEnd), p, place, q)
           IN  Lawful(h, g, {p}) /\ Mute(h, g)
<1> DEFINE f == Cancel(h, q, emitEnd)
           g == Await(f, p, place, q)
<1>1. /\ f \in Hosts /\ Onward(h, f, {}) /\ Held(h, f) /\ Mute(h, f)
      /\ f.cast[p].at = h.cast[p].at
  <2>1. h.cast[p].at \notin OnPage
      BY DEF Outside, OnPage
  <2> QED BY <2>1, CancelOrder
<1> HIDE DEF f
<1>2. Puts(f, g, p, place, f.cast[p].marks)
    BY <1>1, AwaitPuts DEF Awaiting
<1> HIDE DEF g
<1>3. f.cast[p].at \notin {"over", "ending", "running"} /\ place \notin Registered \cup {"over"}
    BY <1>1 DEF Outside, Registered
<1>4. Onward(f, g, {p}) /\ Held(f, g)
    BY <1>2, <1>3, PutsOnward DEF Started
<1>5. Onward(h, g, {p}) /\ Held(h, g)
    BY <1>1, <1>4, OnwardTransitive, HeldTransitive
<1>6. Mute(h, g)
    BY <1>1, <1>2 DEF Puts, Mute
<1> QED BY <1>5, <1>6 DEF Lawful, f, g

LEMMA ConnectionLoopOrder ==
    ASSUME NEW h \in Hosts, Queued(h), NEW p \in Casts, h.cast[p].at \in Outside
    PROVE  Lawful(h, ConnectionLoop(h, p), {p}) /\ Mute(h, ConnectionLoop(h, p))
<1>1. CASE OfConnection(h, p) # {}
  <2> DEFINE q == CHOOSE q \in OfConnection(h, p) : TRUE
  <2>1. ConnectionLoop(h, p) = Await(Cancel(h, q, FALSE), p, "connection", q)
      BY <1>1 DEF ConnectionLoop
  <2>2. q \in Casts
      BY <1>1 DEF OfConnection
  <2> HIDE DEF q
  <2> QED BY <2>1, <2>2, CancelAwaitOrder
<1>2. CASE OfConnection(h, p) = {}
    BY <1>2, RegisterOrder DEF ConnectionLoop
<1> QED BY <1>1, <1>2

LEMMA PageLoopOrder ==
    ASSUME NEW h \in Hosts, Queued(h), NEW p \in Casts, h.cast[p].at \in Outside
    PROVE  Lawful(h, PageLoop(h, p), {p}) /\ Mute(h, PageLoop(h, p))
<1>1. CASE OfPage(h, p, OnPage) # {}
  <2> DEFINE q == CHOOSE q \in OfPage(h, p, OnPage) : TRUE
             emitEnd == Socket(q) # Socket(p)
  <2>1. PageLoop(h, p) = Await(Cancel(h, q, emitEnd), p, "page", q)
      BY <1>1 DEF PageLoop
  <2>2. q \in Casts
      BY <1>1 DEF OfPage
  <2>3. emitEnd \in BOOLEAN
      OBVIOUS
  <2> HIDE DEF q, emitEnd
  <2> QED BY <2>1, <2>2, <2>3, CancelAwaitOrder
<1>2. CASE OfPage(h, p, OnPage) = {}
  <2>1. PageLoop(h, p) = ConnectionLoop(h, p)
      BY <1>2 DEF PageLoop
  <2> QED BY <2>1, ConnectionLoopOrder
<1> QED BY <1>1, <1>2

LEMMA SessionLoopOrder ==
    ASSUME NEW h \in Hosts, NEW p \in Casts, h.cast[p].at \in {"resolving", "session"}
    PROVE  Lawful(h, SessionLoop(h, p), {}) /\ Mute(h, SessionLoop(h, p))
<1>1. CASE OfPage(h, p, OnDebugger) # {}
  <2> DEFINE q == CHOOSE q \in OfPage(h, p, OnDebugger) : TRUE
             f == Stop(h, q)
             g == Await(f, p, "session", q)
  <2>1. SessionLoop(h, p) = g
      BY <1>1 DEF SessionLoop
  <2>2. q \in Casts
      BY <1>1 DEF OfPage
  <2> HIDE DEF q
  <2>3. /\ f \in Hosts /\ Onward(h, f, {}) /\ Held(h, f) /\ f.down = h.down
        /\ f.cast[p].at = h.cast[p].at
    <3>1. h.cast[p].at \notin OnPage
        BY DEF OnPage
    <3> QED BY <2>2, <3>1, StopOrder
  <2> HIDE DEF f
  <2>4. Puts(f, g, p, "session", f.cast[p].marks)
      BY <2>2, <2>3, AwaitPuts DEF Awaiting
  <2> HIDE DEF g
  <2>5. /\ f.cast[p].at \notin {"none", "over", "ending", "running"}
        /\ f.cast[p].at \in Underway /\ f.cast[p].at \in Registered
      BY <2>3 DEF Underway, Registered
  <2>6. Onward(f, g, {}) /\ Held(f, g)
      BY <2>4, <2>5, PutsOnward DEF Started
  <2>7. Onward(h, g, {}) /\ Held(h, g)
      BY <2>3, <2>6, OnwardTransitive, HeldTransitive
  <2>8. Mute(h, g)
      BY <2>3, <2>4 DEF Puts, Mute
  <2> QED BY <2>1, <2>7, <2>8 DEF Lawful
<1>2. CASE OfPage(h, p, OnDebugger) = {}
  <2> DEFINE g == Move(h, p, "launching")
  <2>1. SessionLoop(h, p) = g
      BY <1>2 DEF SessionLoop
  <2>2. Puts(h, g, p, "launching", h.cast[p].marks)
    <3>1. "launching" \in Places
        BY DEF Places, Registered
    <3> QED BY <3>1, MovePuts
  <2> HIDE DEF g
  <2>3. /\ h.cast[p].at \notin {"none", "over", "ending", "running"}
        /\ h.cast[p].at \in Underway /\ h.cast[p].at \in Registered
      BY DEF Underway, Registered
  <2>4. Onward(h, g, {}) /\ Held(h, g)
      BY <2>2, <2>3, PutsOnward DEF Started
  <2>5. Mute(h, g)
      BY <2>2 DEF Puts, Mute
  <2> QED BY <2>1, <2>4, <2>5 DEF Lawful
<1> QED BY <1>1, <1>2

LEMMA StartsOrder ==
    ASSUME NEW h \in Hosts, Queued(h), NEW p \in Casts, h.cast[p].at = "none", NEW page \in Pages
    PROVE  Lawful(h, Starts(h, p, page), {p}) /\ Mute(h, Starts(h, p, page))
<1> DEFINE y == [h.cast[p] EXCEPT !.page = page]
           g == [h EXCEPT !.cast[p].page = page]
<1>1. h.cast \in [Casts -> CastStates] /\ h.cast[p] \in CastStates
    BY DEF Hosts
<1>2. y \in CastStates /\ y.at = h.cast[p].at /\ y.marks = h.cast[p].marks
    BY <1>1 DEF CastStates
<1>3. g = [h EXCEPT !.cast = [h.cast EXCEPT ![p] = y]]
    BY DEF Hosts
<1>4. Starts(h, p, page) = PageLoop(g, p)
    BY DEF Starts
<1> HIDE DEF y, g
<1>5. g \in Hosts /\ g.waiters = h.waiters /\ Alike(h, g)
    BY <1>1, <1>2, <1>3 DEF Hosts, Alike
<1>6. \A k \in 1..Len(h.waiters) : h.waiters[k] \in Casts
    BY ElementOfSeq DEF Hosts
<1>7. Queued(g)
    BY <1>5, <1>6 DEF Queued, Alike
<1>8. g.cast[p].at \in Outside
    BY <1>5 DEF Alike, Outside
<1>9. Lawful(g, PageLoop(g, p), {p}) /\ Mute(g, PageLoop(g, p))
    BY <1>5, <1>7, <1>8, PageLoopOrder
<1> QED BY <1>4, <1>5, <1>9, AlikeLawful

LEMMA WokenAlike ==
    ASSUME NEW h \in Hosts, NEW k \in 1..Len(h.waiters)
    PROVE  LET p == h.waiters[k]
           IN  Alike(h, [h EXCEPT !.waiters = RemoveAt(@, k), !.cast[p].on = NoCast])
<1> DEFINE p == h.waiters[k]
           y == [h.cast[p] EXCEPT !.on = NoCast]
           g == [h EXCEPT !.waiters = RemoveAt(@, k), !.cast[p].on = NoCast]
<1>1. h.cast \in [Casts -> CastStates] /\ h.waiters \in Seq(Casts) /\ p \in Casts
    BY ElementOfSeq DEF Hosts
<1>2. y.at = h.cast[p].at /\ y.marks = h.cast[p].marks
    BY <1>1 DEF CastStates
<1>3. g.cast = [h.cast EXCEPT ![p] = y] /\ g.down = h.down
    BY DEF Hosts
<1> HIDE DEF y, g, p
<1>4. Alike(h, g)
    BY <1>1, <1>2, <1>3 DEF Alike
<1> QED BY <1>4 DEF g, p

\* A cast that was admitted moves on, and the phone is told of it.
LEMMA MoveTellOrder ==
    ASSUME NEW h \in Hosts, NEW p \in Casts, NEW place \in {"running", "dropping", "ending", "over"},
           h.cast[p].at \in {"resolving", "launching", "running", "ending", "dropping"},
           h.cast[p].at \in {"running", "ending"} => place \in {"ending", "over"},
           place = "running" => h.cast[p].at = "launching",
           NEW kind \in {"ready", "error", "end"},
           kind = "ready" => place = "running", kind = "error" => place = "over"
    PROVE  LET f == Move(h, p, place)
               g == Post(f, Socket(p), kind, Stream(p))
           IN  /\ Lawful(h, f, {}) /\ Says(h, f)
               /\ Lawful(h, g, {}) /\ Says(h, g)
               /\ Lawful(h, Tell(f, p, kind), {}) /\ Says(h, Tell(f, p, kind))
<1> DEFINE f == Move(h, p, place)
           m == <<kind, Stream(p)>>
           g == Post(f, Socket(p), kind, Stream(p))
           t == Tell(f, p, kind)
<1>1. Puts(h, f, p, place, h.cast[p].marks)
  <2>1. place \in Places
      BY DEF Places, Registered
  <2> QED BY <2>1, MovePuts
<1>2. Socket(p) \in Sockets /\ Stream(p) \in Streams /\ p = <<Stream(p), Socket(p)>> /\ m \in DownMessages
    BY CastParts DEF DownMessages, CastMessages
<1>3. t = Mark(g, p, "told")
    BY DEF Tell
<1> HIDE DEF f
<1>4. f \in Hosts /\ f.down = h.down
    BY <1>1 DEF Puts
<1>5. /\ g.cast = f.cast
      /\ \A s \in Sockets : g.down[s] = f.down[s] \/ (s = Socket(p) /\ g.down[s] = Append(f.down[s], m))
  <2> HIDE DEF m
  <2>1. m = <<kind, Stream(p)>>
      BY DEF m
  <2>2. LET e == Post(f, Socket(p), kind, Stream(p))
        IN  /\ e.cast = f.cast
            /\ \A s \in Sockets :
                  e.down[s] = f.down[s]
                      \/ (s = Socket(p) /\ e.down[s] = Append(f.down[s], <<kind, Stream(p)>>))
    <3> HIDE DEF g
    <3>1. f \in Hosts /\ Socket(p) \in Sockets
        BY <1>2, <1>4
    <3> QED BY ONLY <3>1, PostDown
  <2> QED BY <2>1, <2>2
<1>6. g \in Hosts
    BY <1>2, <1>4, PostEffect
<1> HIDE DEF g
<1>7. Puts(g, t, p, g.cast[p].at, g.cast[p].marks \cup {"told"})
    BY <1>3, <1>6, MarkPuts DEF Marks
<1> HIDE DEF t
\* Each of the three has the places of f, and its marks but for "told".
<1>8. ASSUME NEW e, \A q \in Casts : /\ e.cast[q].at = f.cast[q].at
                                     /\ e.cast[q].marks \in {f.cast[q].marks, f.cast[q].marks \cup {"told"}}
      PROVE  Lawful(h, e, {})
  <2>1. /\ \A q \in Casts \ {p} : f.cast[q].at = h.cast[q].at /\ f.cast[q].marks = h.cast[q].marks
        /\ f.cast[p].at = place /\ f.cast[p].marks = h.cast[p].marks
      BY <1>1 DEF Puts
  <2>2. \A q \in Casts : /\ "late" \in h.cast[q].marks => "late" \in e.cast[q].marks
                         /\ "ended" \in e.cast[q].marks => "ended" \in h.cast[q].marks
    <3>1. \A q \in Casts : f.cast[q].marks = h.cast[q].marks
        BY <2>1
    <3> QED BY <1>8, <3>1
  <2>3. /\ \A q \in Casts \ {p} : e.cast[q].at = h.cast[q].at
        /\ e.cast[p].at = place
      BY <1>8, <2>1
  <2>4. Onward(h, e, {})
    <3>1. ASSUME NEW q \in Casts
          PROVE  /\ "ended" \in e.cast[q].marks =>
                       "ended" \in h.cast[q].marks \/ e.cast[q].at \in {"ending", "over"}
                 /\ h.cast[q].at = "over" => e.cast[q].at = "over"
                 /\ h.cast[q].at \in {"ending", "over"} => e.cast[q].at \in {"ending", "over"}
                 /\ h.cast[q].at \in Started => e.cast[q].at \in Started
                 /\ h.cast[q].at = "none" => e.cast[q].at = "none"
                 /\ e.cast[q].at \in Underway => h.cast[q].at \in Underway
      <4>1. CASE q = p
          BY <2>2, <2>3, <4>1 DEF Started, Underway
      <4>2. CASE q # p
          BY <2>2, <2>3, <4>2
      <4> QED BY <4>1, <4>2
    <3> QED BY <2>2, <3>1 DEF Onward
  <2>5. Held(h, e)
      BY <2>3 DEF Held, Registered
  <2> QED BY <2>4, <2>5 DEF Lawful
<1>9. ASSUME NEW e, \A q \in Casts : e.cast[q].at = f.cast[q].at,
             \A s \in Sockets : e.down[s] = f.down[s] \/ (s = Socket(p) /\ e.down[s] = Append(f.down[s], m))
      PROVE  Says(h, e)
  <2> SUFFICES ASSUME NEW s \in Sockets, e.down[s] # h.down[s]
               PROVE  \E n \in DownMessages : e.down[s] = Append(h.down[s], n) /\ True(e, s, n)
      BY DEF Says
  <2>1. s = Socket(p) /\ e.down[s] = Append(h.down[s], m)
      BY <1>4, <1>9
  <2>2. e.cast[p].at = place
      BY <1>1, <1>9 DEF Puts
  <2>3. ASSUME NEW i \in Streams
        PROVE  /\ m = <<"ready", i>> => e.cast[<<i, s>>].at \in Started
               /\ m = <<"frame", i>> => e.cast[<<i, s>>].at = "running"
               /\ m = <<"error", i>> => e.cast[<<i, s>>].at = "over"
    <3>1. \A k \in {"ready", "frame", "error"} : m = <<k, i>> => kind = k /\ <<i, s>> = p
        BY <1>2, <2>1
    <3> HIDE DEF m
    <3> QED BY <2>2, <3>1 DEF Started
  <2>4. True(e, s, m)
      BY <2>3 DEF True
  <2> QED BY <1>2, <2>1, <2>4
<1>10. Lawful(h, f, {}) /\ Says(h, f)
    BY <1>8, <1>9
<1>11. Lawful(h, g, {}) /\ Says(h, g)
    BY <1>5, <1>8, <1>9
<1>12. Lawful(h, t, {}) /\ Says(h, t)
  <2>1. /\ \A q \in Casts : /\ t.cast[q].at = f.cast[q].at
                            /\ t.cast[q].marks \in {f.cast[q].marks, f.cast[q].marks \cup {"told"}}
        /\ t.down = g.down
      BY <1>5, <1>7 DEF Puts
  <2>2. Lawful(h, t, {})
      BY <1>8, <2>1
  <2>3. Says(h, t)
      BY <1>5, <1>9, <2>1
  <2> QED BY <2>2, <2>3
<1> QED BY <1>10, <1>11, <1>12 DEF f, g, t

\* The desktop's casts are now those of g, in which those in P have begun.
Proceeds(g, P) == g \in Hosts /\ Becomes(g) /\ Lawful(Host, g, P) /\ Says(Host, g)

LEMMA CancelProceeds ==
    ASSUME MobileInv, NEW q \in Casts, NEW emitEnd \in BOOLEAN, Becomes(Cancel(Host, q, emitEnd))
    PROVE  Proceeds(Cancel(Host, q, emitEnd), {})
<1> DEFINE g == Cancel(Host, q, emitEnd)
<1>1. g \in Hosts /\ Onward(Host, g, {}) /\ Held(Host, g) /\ Mute(Host, g)
    BY HostFacts, CancelOrder
<1>2. Becomes(g)
    OBVIOUS
<1> HIDE DEF g
<1>3. Lawful(Host, g, {}) /\ Says(Host, g)
    BY <1>1, MuteSays DEF Lawful
<1>4. Proceeds(g, {})
    BY <1>1, <1>2, <1>3 DEF Proceeds
<1> QED BY <1>4 DEF g

LEMMA ResumeProceeds ==
    ASSUME MobileInv, Resume
    PROVE  \E g : Proceeds(g, {})
<1> DEFINE W == {k \in DOMAIN waiters : Woken(k)}
           k == CHOOSE k \in DOMAIN waiters : Woken(k) /\ \A j \in 1..(k - 1) : ~Woken(j)
           p == waiters[k]
           h == [Host EXCEPT !.waiters = RemoveAt(@, k), !.cast[p].on = NoCast]
           g == CASE cast[p].at = "page" -> PageLoop(h, p)
                  [] cast[p].at = "connection" -> ConnectionLoop(h, p)
                  [] cast[p].at = "session" -> SessionLoop(h, p)
<1>1. k \in 1..Len(waiters)
    BY FirstWoken
<1>2. Becomes(g)
    BY DEF Resume
<1> HIDE DEF k
<1>3. p \in Casts /\ Evolves(Host, h, {}) /\ Idle(h, p) /\ cast[p].at \in Awaiting /\ Alike(Host, h)
    BY <1>1, HostFacts, WokenEffect, WokenAlike
<1> HIDE DEF h, p
<1>4. /\ h \in Hosts /\ Queued(h) /\ h.cast[p].at = cast[p].at
    BY <1>3, HostFacts DEF Evolves, Alike
<1>5. g \in Hosts /\ Lawful(h, g, {p}) /\ Mute(h, g)
  <2>1. CASE cast[p].at = "page"
    <3>1. g = PageLoop(h, p) /\ h.cast[p].at \in Outside
        BY <1>4, <2>1 DEF Outside
    <3>2. g \in Hosts
        BY <1>3, <1>4, <3>1, PageLoopEvolves DEF Evolves
    <3> HIDE DEF g
    <3> QED BY <1>3, <1>4, <3>1, <3>2, PageLoopOrder
  <2>2. CASE cast[p].at = "connection"
    <3>1. g = ConnectionLoop(h, p) /\ h.cast[p].at \in Outside
        BY <1>4, <2>2 DEF Outside
    <3>2. g \in Hosts
        BY <1>3, <1>4, <3>1, ConnectionLoopEvolves DEF Evolves
    <3> HIDE DEF g
    <3> QED BY <1>3, <1>4, <3>1, <3>2, ConnectionLoopOrder
  <2>3. CASE cast[p].at = "session"
    <3>1. g = SessionLoop(h, p) /\ h.cast[p].at \in {"resolving", "session"}
        BY <1>4, <2>3
    <3>2. g \in Hosts
        BY <1>3, <1>4, <3>1, SessionLoopEvolves DEF Evolves
    <3> HIDE DEF g
    <3>3. Lawful(h, g, {}) /\ Mute(h, g)
        BY <1>3, <1>4, <3>1, SessionLoopOrder
    <3>4. Lawful(h, g, {p})
        BY <3>3 DEF Lawful, Onward
    <3> QED BY <3>2, <3>3, <3>4
  <2> QED BY <1>3, <2>1, <2>2, <2>3 DEF Awaiting
<1> HIDE DEF g
<1>6. Lawful(Host, g, {p}) /\ Mute(Host, g)
    BY <1>3, <1>5, AlikeLawful
<1>7. Lawful(Host, g, {})
  <2>1. Host.cast[p].at \in Underway
      BY <1>3, HostFacts DEF Awaiting, Underway
  <2> QED BY <1>3, <1>6, <2>1, LawfulBegun
<1>8. Says(Host, g)
    BY <1>6, MuteSays
<1> QED BY <1>2, <1>5, <1>7, <1>8 DEF Proceeds

LEMMA CastStepProceeds ==
    ASSUME MobileInv, NEW p \in Casts,
           \/ Resolved(p) \/ Launched(p) \/ SessionDone(p) \/ LaunchFails(p)
           \/ PageCloses(p) \/ reclaimBrowserForDesktop(p) \/ Frame(p)
    PROVE  \E g : Proceeds(g, {})
<1> DEFINE at == cast[p].at
           Stages == {"resolving", "launching", "running", "ending", "dropping"}
\* A step that moves p and may tell the phone of it.
<1>0. ASSUME NEW place \in {"running", "dropping", "ending", "over"}, at \in Stages,
             at \in {"running", "ending"} => place \in {"ending", "over"},
             place = "running" => at = "launching",
             NEW kind \in {"ready", "error", "end"},
             kind = "ready" => place = "running", kind = "error" => place = "over",
             NEW g, Becomes(g), g \in Hosts,
             g \in {Move(Host, p, place), Post(Move(Host, p, place), Socket(p), kind, Stream(p)),
                    Tell(Move(Host, p, place), p, kind)}
      PROVE  \E f : Proceeds(f, {})
  <2>1. Host \in Hosts /\ Host.cast[p].at = at
      BY HostFacts
  <2>2. Lawful(Host, g, {}) /\ Says(Host, g)
    <3> HIDE DEF at
    <3> DEFINE f == Move(Host, p, place)
    <3>1. /\ Lawful(Host, f, {}) /\ Says(Host, f)
          /\ Lawful(Host, Post(f, Socket(p), kind, Stream(p)), {})
          /\ Says(Host, Post(f, Socket(p), kind, Stream(p)))
          /\ Lawful(Host, Tell(f, p, kind), {}) /\ Says(Host, Tell(f, p, kind))
        BY <1>0, <2>1, MoveTellOrder
    <3> HIDE DEF f
    <3>2. g = f \/ g = Post(f, Socket(p), kind, Stream(p)) \/ g = Tell(f, p, kind)
        BY <1>0 DEF f
    <3> QED BY <3>1, <3>2
  <2> QED BY <1>0, <2>2 DEF Proceeds
<1>1. ASSUME NEW place \in {"running", "dropping", "ending", "over"}, at \in Stages
      PROVE  /\ Move(Host, p, place) \in Hosts
             /\ \A kind \in {"ready", "error", "end"} : Tell(Move(Host, p, place), p, kind) \in Hosts
             /\ Post(Move(Host, p, place), Socket(p), "ready", Stream(p)) \in Hosts
  <2>1. cast[p].at \notin Awaiting \cup {"none"} /\ place \in Places
      BY <1>1 DEF Awaiting, Places, Registered
  <2> QED BY <2>1, MoveTellEvolves DEF Evolves
<1>2. CASE Resolved(p)
  <2>1. Becomes(SessionLoop(Host, p)) /\ Host.cast[p].at = "resolving"
      BY <1>2, HostFacts DEF Resolved
  <2>2. SessionLoop(Host, p) \in Hosts
    <3>1. Idle(Host, p)
        BY <2>1, HostFacts, Unqueued DEF Awaiting
    <3> QED BY <3>1, HostFacts, SessionLoopEvolves DEF Evolves
  <2>3. Lawful(Host, SessionLoop(Host, p), {}) /\ Says(Host, SessionLoop(Host, p))
      BY <2>1, HostFacts, SessionLoopOrder, MuteSays
  <2> QED BY <2>1, <2>2, <2>3 DEF Proceeds
<1>3. CASE Launched(p)
  <2>1. at = "launching" /\ at \in Stages
      BY <1>3 DEF Launched
  <2>2. CASE GivesUp(p)
    <3>1. Becomes(Move(Host, p, "dropping"))
        BY <1>3, <2>2 DEF Launched
    <3>2. Move(Host, p, "dropping") \in Hosts
        BY <1>1, <2>1
    <3> HIDE DEF Stages
    <3> QED BY <1>0, <2>1, <3>1, <3>2
  <2>3. CASE ~GivesUp(p)
    <3>1. Becomes(Post(Move(Host, p, "running"), Socket(p), "ready", Stream(p)))
        BY <1>3, <2>3 DEF Launched
    <3>2. Post(Move(Host, p, "running"), Socket(p), "ready", Stream(p)) \in Hosts
        BY <1>1, <2>1
    <3> HIDE DEF Stages
    <3> QED BY <1>0, <2>1, <3>1, <3>2
  <2> QED BY <2>2, <2>3
<1>4. CASE SessionDone(p)
  <2> DEFINE h == Move(Host, p, "over")
  <2>1. at \in {"ending", "dropping"} /\ at \in Stages
      BY <1>4 DEF SessionDone
  <2>2. h \in Hosts /\ Tell(h, p, "error") \in Hosts /\ Tell(h, p, "end") \in Hosts
      BY <1>1, <2>1
  <2>3. Becomes(CASE cast[p].at = "dropping" /\ "stopped" \in cast[p].marks -> Tell(h, p, "error")
                 [] cast[p].at = "ending" /\ "ended" \notin cast[p].marks -> Tell(h, p, "end")
                 [] OTHER -> h)
      BY <1>4 DEF SessionDone
  <2> HIDE DEF h, at, Stages
  <2>4. Becomes(Tell(h, p, "error")) \/ Becomes(Tell(h, p, "end")) \/ Becomes(h)
      BY <2>1, <2>3 DEF at
  <2>5. ASSUME NEW kind \in {"error", "end"}, NEW g \in {h, Tell(h, p, kind)}, Becomes(g)
        PROVE  \E f : Proceeds(f, {})
    <3>1. g \in Hosts /\ g \in {Move(Host, p, "over"), Post(Move(Host, p, "over"), Socket(p), kind, Stream(p)),
                                Tell(Move(Host, p, "over"), p, kind)}
        BY <2>2, <2>5 DEF h
    <3> QED BY <1>0, <2>1, <2>5, <3>1
  <2> QED BY <2>4, <2>5
<1>5. CASE LaunchFails(p)
  <2>1. at \in {"resolving", "launching"} /\ at \in Stages
      BY <1>5 DEF LaunchFails
  <2>2. Becomes(Tell(Move(Host, p, "over"), p, "error"))
      BY <1>5 DEF LaunchFails
  <2>3. Tell(Move(Host, p, "over"), p, "error") \in Hosts
      BY <1>1, <2>1
  <2> HIDE DEF Stages
  <2> QED BY <1>0, <2>1, <2>2, <2>3
<1>6. CASE PageCloses(p)
  <2>1. at = "running" /\ at \in Stages /\ Becomes(Move(Host, p, "ending"))
      BY <1>6 DEF PageCloses
  <2>2. Move(Host, p, "ending") \in Hosts
      BY <1>1, <2>1
  <2> HIDE DEF Stages
  <2> QED BY <1>0, <2>1, <2>2
<1>7. CASE reclaimBrowserForDesktop(p)
    BY <1>7, CancelProceeds DEF reclaimBrowserForDesktop
<1>8. CASE Frame(p)
  <2> DEFINE i == Stream(p)
             s == Socket(p)
             g == Post(Host, s, "frame", i)
  <2>1. Becomes(g) /\ cast[p].at = "running"
      BY <1>8 DEF Frame
  <2>2. s \in Sockets /\ i \in Streams /\ p = <<i, s>> /\ <<"frame", i>> \in DownMessages
      BY CastParts DEF DownMessages, CastMessages
  <2>3. g \in Hosts
      BY <2>2, HostFacts, PostEffect
  <2>4. /\ g.cast = Host.cast
        /\ \A t \in Sockets :
             g.down[t] = Host.down[t] \/ (t = s /\ g.down[t] = Append(Host.down[t], <<"frame", i>>))
      BY <2>2, HostFacts, PostDown
  <2> HIDE DEF g
  <2>5. Lawful(Host, g, {})
      BY <2>4 DEF Lawful, Onward, Held
  <2>6. True(g, s, <<"frame", i>>)
      BY <2>1, <2>2, <2>4, HostFacts DEF True
  <2>7. Says(Host, g)
      BY <2>2, <2>4, <2>6 DEF Says
  <2> QED BY <2>1, <2>3, <2>5, <2>7 DEF Proceeds
<1> QED BY <1>2, <1>3, <1>4, <1>5, <1>6, <1>7, <1>8

-----------------------------------------------------------------------------
(* What the phone may rely on, when D is on its way to it.                 *)

\* Frames are routed to a stream of a client that is connected, or that was closed.
Settled(c) == c.client.active # NoStream => c.client.state \in {"connected", "disconnected"}

\* On the client's connection the stream i was not asked for.
Untouched(c, i) == ~Asked(c.up[c.client.ws], i) /\ cast[<<i, c.client.ws>>].at = "none"

\* Nothing is asked for before the client is connected, and nothing newer than what
\* is shown or awaited.
Fresh(c) == c.client.ws # NoSocket /\ c.client.state # "connected" => \A i \in Streams : Untouched(c, i)
Newer(c) == c.client.ws # NoSocket =>
    \A k \in {c.client.active, c.client.pending} \ {NoStream} : \A i \in Streams : k < i => Untouched(c, i)

\* The cast that is shown has started; frames of an older one are of a late one.
Tuned(c, D) == c.client.ws # NoSocket /\ c.client.active # NoStream =>
    /\ cast[<<c.client.active, c.client.ws>>].at \in Started
    /\ \A i \in Streams :
          i < c.client.active /\ In(D[c.client.ws], <<"frame", i>>) => Late(<<i, c.client.ws>>)

\* A stream that the phone has forgotten does not run, or will be ended, or was
\* disposed under another subscription id.
Loose(c, i) ==
    \/ ~Asked(c.up[c.client.ws], i) /\ cast[<<i, c.client.ws>>].at \notin Underway
    \/ In(c.up[c.client.ws], <<"unsubscribe", <<i, c.client.ws>>>>)
    \/ c.stream[i].sub \notin {NoSocket, c.client.ws}
Carried(c) == CanSend(c) /\ c.client.ws \notin dead

\* The news that the desktop disowned its token is on its way to the phone.
Rejected(c, D) == In(D[c.client.ws], Rejection)

Known(c, D) == c.client.state = "connected" /\ Carried(c) /\ ~Rejected(c, D) =>
    \A i \in Streams : c.stream[i].st \in {"live", "tomb"} \/ Loose(c, i)

\* A subscription id is that of a cast that has started.
Named(c) ==
    /\ \A i \in Streams : c.stream[i].sub # NoSocket => cast[<<i, c.stream[i].sub>>].at \in Started
    /\ \A s \in Sockets, q \in Casts : In(c.up[s], <<"unsubscribe", q>>) => cast[q].at \in Started

\* The app subscribes in the order of the numbers.
InTurn(c) == \A i, j \in Streams : c.stream[i].st = "new" /\ i < j => c.stream[j].st = "new"

Tidy(c, D) ==
    /\ Settled(c) /\ Fresh(c) /\ Newer(c) /\ Tuned(c, D)
    /\ Known(c, D) /\ Named(c) /\ InTurn(c)

\* Less is on its way than D, on every connection; on the connection w, the phone did
\* not lose the news that it is rejected.
Less(E, D) == \A s \in Sockets : \A m : In(E[s], m) => In(D[s], m)
Kept(w, E, D) == w # NoSocket /\ In(D[w], Rejection) => In(E[w], Rejection)

LEMMA TidySame ==
    ASSUME NEW c \in Phones, NEW D, Tidy(c, D), NEW d,
           d.client = c.client, d.stream = c.stream, d.up = c.up, d.rs = c.rs
    PROVE  Tidy(d, D)
<1>1. Settled(d) /\ Fresh(d) /\ Newer(d) /\ Tuned(d, D)
    BY DEF Tidy, Settled, Fresh, Newer, Tuned, Untouched
<1>2. Known(d, D) /\ Named(d) /\ InTurn(d)
    BY DEF Tidy, Known, Named, InTurn, Loose, Carried, Rejected, CanSend
<1> QED BY <1>1, <1>2 DEF Tidy

LEMMA LessTidy ==
    ASSUME NEW c \in Phones, NEW D, Tidy(c, D), NEW E, Less(E, D), Kept(c.client.ws, E, D)
    PROVE  Tidy(c, E)
<1>1. c.client.ws # 0 => c.client.ws \in Sockets
    BY Constants DEF Phones, Clients
<1>2. Tuned(c, E)
    BY <1>1, Constants DEF Tidy, Tuned, Less
<1>3. Known(c, E)
    BY DEF Tidy, Known, Kept, Carried, Rejected, CanSend
<1> QED BY <1>2, <1>3 DEF Tidy

\* Nothing is relied on without a connection.
LEMMA DroppedTidy ==
    ASSUME NEW c, NEW D, Tidy(c, D), NEW d, NEW E, Dropped(c, d)
    PROVE  Tidy(d, E)
<1>1. Settled(d) /\ Fresh(d) /\ Newer(d) /\ Tuned(d, E) /\ Known(d, E)
    BY DEF Dropped, Settled, Fresh, Newer, Tuned, Known, Carried, CanSend
<1>2. Named(d) /\ InTurn(d)
    BY DEF Dropped, Tidy, Named, InTurn
<1> QED BY <1>1, <1>2 DEF Tidy

LEMMA CloseSocketTidy ==
    ASSUME NEW c \in Phones, NEW D, Tidy(c, D), c.client.ws # 0
    PROVE  Tidy(CloseSocket(c), D)
<1> DEFINE d == CloseSocket(c)
<1>1. /\ d.client = c.client /\ d.stream = c.stream /\ d.up = c.up
      /\ d.rs = [c.rs EXCEPT ![c.client.ws] = "closing"]
    BY CloseSocketEffect
<1>2. c.client.ws \in Sockets /\ c.rs \in [Sockets -> Ready]
    BY Constants DEF Phones, Clients
<1> HIDE DEF d
<1>3. ~CanSend(d)
    BY <1>1, <1>2 DEF CanSend
<1>4. Settled(d) /\ Fresh(d) /\ Newer(d) /\ Tuned(d, D)
    BY <1>1 DEF Tidy, Settled, Fresh, Newer, Tuned, Untouched
<1>5. Known(d, D) /\ Named(d) /\ InTurn(d)
    BY <1>1, <1>3 DEF Tidy, Known, Carried, Named, InTurn
<1> QED BY <1>4, <1>5 DEF Tidy, d

\* The end of a connection.
LEMMA LostTidy ==
    ASSUME NEW c, NEW D, Tidy(c, D), Sound(c), c.client.ws # 0, NEW E
    PROVE  Tidy(handleSocketClosed(CloseSocket(c), FALSE), E)
<1> DEFINE b == CloseSocket(c)
<1>1. Losing(b) /\ Tidy(b, D)
    BY ClosedLosing, CloseSocketTidy DEF Sound
<1> HIDE DEF b
<1>2. Dropped(b, handleSocketClosed(b, FALSE))
    BY <1>1, LosingLost
<1>3. Tidy(handleSocketClosed(b, FALSE), E)
    BY <1>1, <1>2, DroppedTidy
<1> QED BY <1>3 DEF b

LEMMA RejectedTidy ==
    ASSUME NEW c, Sound(c), c.client.ws # NoSocket, NEW D, Tidy(c, D), NEW E
    PROVE  LET d == handleAuthRejection(c)
           IN  Sound(d) /\ Tidy(d, E) /\ d.client.ws = NoSocket
<1> DEFINE d == handleAuthRejection(c)
<1>1. c \in Phones /\ Losing(IF c.client.ws = 0 THEN c ELSE CloseSocket(c))
    BY ClosedLosing, Constants DEF Sound
<1>2. Sound(d) /\ Dropped(c, d)
    BY <1>1, RejectionSound
<1> HIDE DEF d
<1>3. d.client.ws = NoSocket
    BY <1>2 DEF Dropped
<1> QED BY <1>2, <1>3, DroppedTidy DEF d

-----------------------------------------------------------------------------
(* Sending.                                                                *)

\* A message that asks for no stream is sent, or the connection is lost.
LEMMA SendTidy ==
    ASSUME NEW c, NEW D, Sound(c), Tidy(c, D), NEW kind, NEW x, <<kind, x>> \in UpMessages,
           kind # "subscribe", kind = "unsubscribe" => cast[x].at \in Started
    PROVE  LET d == Send(c, kind, x)
           IN  /\ Tidy(d, D)
               /\ CanSend(c) => /\ d.client = c.client /\ d.stream = c.stream /\ d.rs = c.rs
                                /\ \A i : Asked(d.up[c.client.ws], i) <=> Asked(c.up[c.client.ws], i)
                                /\ c.client.ws \notin dead => In(d.up[c.client.ws], <<kind, x>>)
               /\ ~CanSend(c) => ~CanSend(d)
               /\ \A i \in Streams : d.stream[i].st = c.stream[i].st /\ d.stream[i].sub = c.stream[i].sub
<1> DEFINE m == <<kind, x>>
           d == Send(c, kind, x)
           w == c.client.ws
<1>1. CASE CanSend(c) /\ w \in dead
  <2>1. d = c
      BY <1>1 DEF Send
  <2> QED BY <1>1, <2>1
<1>2. CASE CanSend(c) /\ w \notin dead
  <2>1. d = [c EXCEPT !.up[w] = Append(@, m)]
      BY <1>2 DEF Send
  <2>2. c \in Phones /\ w \in Sockets /\ c.up \in [Sockets -> Seq(UpMessages)]
      BY <1>2, Constants DEF Sound, Phones, Clients, CanSend
  <2> HIDE DEF w
  <2>3. /\ d.client = c.client /\ d.stream = c.stream /\ d.rs = c.rs
        /\ d.up = [c.up EXCEPT ![w] = Append(@, m)]
      BY <2>1, <2>2 DEF Phones
  <2>4. \A i : ~Asking(m, i)
      BY DEF Asking
  <2>5. m = <<kind, x>> /\ m \in UpMessages /\ \A q : m = <<"unsubscribe", q>> => cast[q].at \in Started
      OBVIOUS
  <2> HIDE DEF d, m
  <2>6. /\ \A s \in Sockets \ {w} : d.up[s] = c.up[s]
        /\ \A n : In(d.up[w], n) <=> In(c.up[w], n) \/ n = m
        /\ \A i : Asked(d.up[w], i) <=> Asked(c.up[w], i)
    <3>1. d.up[w] = Append(c.up[w], m) /\ c.up[w] \in Seq(UpMessages)
        BY <2>2, <2>3
    <3>2. \A n : In(d.up[w], n) <=> In(c.up[w], n) \/ n = m
        BY <2>5, <3>1, InAppend
    <3>3. \A i : Asked(d.up[w], i) <=> Asked(c.up[w], i)
      <4>1. \A i : Asked(Append(c.up[w], m), i) <=> Asked(c.up[w], i) \/ Asking(m, i)
          BY <2>5, <3>1, AskedAppend
      <4> QED BY <2>4, <3>1, <4>1
    <3> QED BY <2>2, <2>3, <3>2, <3>3
  <2>7. Settled(d) /\ InTurn(d)
      BY <2>3 DEF Tidy, Settled, InTurn
  <2>8. Fresh(d) /\ Newer(d) /\ Tuned(d, D)
      BY <2>3, <2>6 DEF Tidy, Fresh, Newer, Tuned, Untouched, w
  <2>9. Known(d, D)
      BY <2>3, <2>6 DEF Tidy, Known, Loose, Carried, Rejected, CanSend, w
  <2>10. Named(d)
    <3>1. \A s \in Sockets, q \in Casts : In(d.up[s], <<"unsubscribe", q>>) => cast[q].at \in Started
        BY <2>5, <2>6 DEF Tidy, Named
    <3> QED BY <2>3, <3>1 DEF Tidy, Named
  <2> QED BY <1>2, <2>3, <2>5, <2>6, <2>7, <2>8, <2>9, <2>10 DEF Tidy, d, m, w
<1>3. CASE ~CanSend(c) /\ c.client.state = "connected"
  <2>1. d = handleSocketClosed(c, FALSE)
      BY <1>3 DEF Send
  <2>2. Dropped(c, d)
      BY <1>3, <2>1, ConnectedLosing, LosingLost
  <2> HIDE DEF d
  <2>3. Tidy(d, D)
      BY <2>2, DroppedTidy
  <2>4. ~CanSend(d) /\ \A i \in Streams : d.stream[i].st = c.stream[i].st /\ d.stream[i].sub = c.stream[i].sub
      BY <2>2 DEF Dropped, CanSend
  <2> QED BY <1>3, <2>3, <2>4 DEF d
<1>4. CASE ~CanSend(c) /\ c.client.state # "connected"
  <2>1. d = c
      BY <1>4 DEF Send
  <2> QED BY <1>4, <2>1
<1> QED BY <1>1, <1>2, <1>3, <1>4

-----------------------------------------------------------------------------
(* Streams.                                                                *)

\* Less is routed, and the stream i is kept as a tombstone or forgotten.
LEMMA StreamTidy ==
    ASSUME NEW c, NEW D, Tidy(c, D), NEW i \in Streams, NEW d, d.up = c.up, d.rs = c.rs,
           d.client.state = c.client.state, d.client.ws = c.client.ws,
           d.client.active \in {c.client.active, NoStream},
           d.client.pending \in {c.client.pending, NoStream},
           \A j \in Streams \ {i} : d.stream[j] = c.stream[j],
           d.stream[i].sub = c.stream[i].sub,
           \/ d.stream[i].st = c.stream[i].st
           \/ c.stream[i].st # "new" /\ d.stream[i].st = "tomb"
           \/ /\ c.stream[i].st # "new" /\ d.stream[i].st = "gone"
              /\ c.client.state = "connected" /\ Carried(c) => Loose(c, i)
    PROVE  Tidy(d, D)
<1>1. Settled(d)
    BY DEF Tidy, Settled
<1>2. \A j : Untouched(d, j) <=> Untouched(c, j)
    BY DEF Untouched
<1>3. Fresh(d) /\ Newer(d)
    BY <1>2 DEF Tidy, Fresh, Newer
<1>4. Tuned(d, D)
    BY DEF Tidy, Tuned
<1>5. \A j \in Streams : d.stream[j].sub = c.stream[j].sub
    OBVIOUS
<1>6. (Carried(d) <=> Carried(c)) /\ \A j \in Streams : Loose(d, j) <=> Loose(c, j)
    BY <1>5 DEF Carried, CanSend, Loose
<1>7. Known(d, D)
  <2> SUFFICES ASSUME c.client.state = "connected", Carried(c), ~Rejected(c, D), NEW j \in Streams
               PROVE  d.stream[j].st \in {"live", "tomb"} \/ Loose(c, j)
      BY <1>6 DEF Known, Rejected
  <2>1. c.stream[j].st \in {"live", "tomb"} \/ Loose(c, j)
      BY DEF Tidy, Known
  <2> QED BY <2>1
<1>8. Named(d)
    BY <1>5 DEF Tidy, Named
<1>9. InTurn(d)
  <2>1. \A j \in Streams : /\ d.stream[j].st = "new" => c.stream[j].st = "new"
                           /\ c.stream[j].st = "new" => d.stream[j].st = "new"
      OBVIOUS
  <2> QED BY <2>1 DEF Tidy, InTurn
<1> QED BY <1>1, <1>3, <1>4, <1>7, <1>8, <1>9 DEF Tidy

LEMMA UnrouteTidy ==
    ASSUME NEW c, NEW D, Sound(c), Tidy(c, D), NEW i \in Streams
    PROVE  Tidy(Unroute(c, i), D)
<1> DEFINE d == Unroute(c, i)
<1>1. /\ d.stream = c.stream /\ d.up = c.up /\ d.rs = c.rs
      /\ d.client.state = c.client.state /\ d.client.ws = c.client.ws
      /\ d.client.pending \in {c.client.pending, NoStream}
      /\ d.client.active \in {c.client.active, NoStream}
    BY UnrouteEffect
<1> HIDE DEF d
<1>2. Tidy(d, D)
    BY <1>1, StreamTidy
<1> QED BY <1>2 DEF d

LEMMA RemoveTidy ==
    ASSUME NEW c, NEW D, Sound(c), Tidy(c, D), NEW i \in Streams, c.stream[i].st # "new",
           c.client.state = "connected" /\ Carried(c) => Loose(c, i)
    PROVE  Tidy(removeStreamListener(c, i), D)
<1> DEFINE d == removeStreamListener(c, i)
<1>1. /\ d.up = c.up /\ d.rs = c.rs
      /\ d.client.state = c.client.state /\ d.client.ws = c.client.ws
      /\ d.client.pending \in {c.client.pending, NoStream}
      /\ d.client.active \in {c.client.active, NoStream}
      /\ d.stream[i].st = "gone" /\ d.stream[i].sub = c.stream[i].sub
      /\ \A j \in Streams \ {i} : d.stream[j] = c.stream[j]
    BY RemoveSound
<1> HIDE DEF d
<1>2. Tidy(d, D)
    BY <1>1, StreamTidy
<1> QED BY <1>2 DEF d

LEMMA RouteTidy ==
    ASSUME NEW c, NEW D, Sound(c), Tidy(c, D), NEW x \in Streams \cup {0}, NEW y \in Streams \cup {0},
           y # 0 => c.client.state \in {"connected", "disconnected"},
           c.client.ws # 0 => \A k \in {x, y} \ {0} : \A i \in Streams : k < i => Untouched(c, i),
           c.client.ws # 0 /\ y # 0 =>
               /\ cast[<<y, c.client.ws>>].at \in Started
               /\ \A i \in Streams : i < y /\ In(D[c.client.ws], <<"frame", i>>) => Late(<<i, c.client.ws>>)
    PROVE  Tidy(Route(c, x, y), D)
<1> DEFINE d == Route(c, x, y)
<1>0. c \in Phones /\ c.client \in Clients
    BY DEF Sound, Phones
<1>1. /\ d.client = [c.client EXCEPT !.pending = x, !.active = y]
      /\ d.stream = c.stream /\ d.up = c.up /\ d.rs = c.rs
    BY <1>0 DEF Phones, Route
<1>2. /\ d.client.pending = x /\ d.client.active = y
      /\ d.client.state = c.client.state /\ d.client.ws = c.client.ws
    BY <1>0, <1>1 DEF Clients
<1> HIDE DEF d
<1>3. \A j : (Untouched(d, j) <=> Untouched(c, j)) /\ (Loose(d, j) <=> Loose(c, j))
    BY <1>1, <1>2 DEF Untouched, Loose
<1>4. Settled(d) /\ Fresh(d) /\ Newer(d) /\ Tuned(d, D)
    BY <1>1, <1>2, <1>3, Constants DEF Tidy, Settled, Fresh, Newer, Tuned
<1>5. Known(d, D) /\ Named(d) /\ InTurn(d)
    BY <1>1, <1>2, <1>3 DEF Tidy, Known, Carried, Rejected, CanSend, Named, InTurn
<1> QED BY <1>4, <1>5 DEF Tidy, d

\* The streams that were not asked for are still not, but for the stream i.
Spares(c, d, i) ==
    \/ d.client.ws = NoSocket
    \/ d.client.ws = c.client.ws /\ \A j \in Streams \ {i} : Untouched(c, j) => Untouched(d, j)

LEMMA SendSubscribeTidy ==
    ASSUME NEW c, NEW D, Sound(c), Tidy(c, D), NEW i \in Streams,
           c.stream[i].st = "live", ~c.stream[i].sent,
           c.client.pending = i, c.client.active = NoStream, Going(c)
    PROVE  LET d == SendSubscribe(c, i)
           IN  Tidy(d, D) /\ Spares(c, d, i)
<1> DEFINE p == c.stream[i].page
           m == <<"subscribe", <<i, p>>>>
           g == Send(c, "subscribe", <<i, p>>)
           d == SendSubscribe(c, i)
           w == c.client.ws
<1>0. c \in Phones /\ m \in UpMessages
  <2>1. c \in Phones
      BY DEF Sound
  <2>2. p \in Pages
      BY <2>1 DEF Phones, StreamStates
  <2> QED BY <2>1, <2>2 DEF UpMessages
<1>1. CASE CanSend(c)
  <2>1. g = c \/ Posted(c, g, m)
      BY <1>1, SendCases
  <2>2. w \in Sockets /\ c.up[w] \in Seq(UpMessages) /\ c.client.state = "connected"
      BY <1>0, <1>1, Constants DEF Phones, Clients, CanSend, Going, Sound, Linked, Alive
  <2>3. g \in Phones /\ g.client = c.client /\ g.stream = c.stream /\ g.rs = c.rs
    <3>1. g = c \/ g \in Phones
        BY <1>0, <1>1, SendOpen
    <3> QED BY <1>0, <2>1, <3>1 DEF Posted
  <2>4. (\A j : Asking(m, j) <=> j = i) /\ \A q : m # <<"unsubscribe", q>>
      BY DEF Asking
  <2>5. d = [g EXCEPT !.stream[i].sent = TRUE]
      BY <1>1 DEF SendSubscribe
  <2> HIDE DEF m, g, w
  <2>6. /\ \A s \in Sockets \ {w} : g.up[s] = c.up[s]
        /\ \A n : n # m => (In(g.up[w], n) <=> In(c.up[w], n))
        /\ \A j : j # i => (Asked(g.up[w], j) <=> Asked(c.up[w], j))
    <3>1. CASE g = c
        BY <3>1
    <3>2. CASE Posted(c, g, m)
      <4>1. (\A s \in Sockets \ {w} : g.up[s] = c.up[s]) /\ g.up[w] = Append(c.up[w], m)
          BY <1>0, <2>2, <3>2 DEF Posted, Phones, w
      <4>2. \A n : In(g.up[w], n) <=> In(c.up[w], n) \/ n = m
          BY <1>0, <2>2, <4>1, InAppend
      <4>3. \A j : Asked(g.up[w], j) <=> Asked(c.up[w], j) \/ Asking(m, j)
          BY <1>0, <2>2, <4>1, AskedAppend
      <4> QED BY <2>4, <4>1, <4>2, <4>3
    <3> QED BY <2>1, <3>1, <3>2
  <2>7. /\ d.client = c.client /\ d.rs = c.rs /\ d.up = g.up
        /\ \A j \in Streams : d.stream[j].st = c.stream[j].st /\ d.stream[j].sub = c.stream[j].sub
      BY <2>3, <2>5 DEF Phones, StreamStates
  <2> HIDE DEF d
  <2>8. \A j \in Streams \ {i} : (Untouched(d, j) <=> Untouched(c, j)) /\ (Loose(c, j) => Loose(d, j))
    <3>1. \A q : In(c.up[w], <<"unsubscribe", q>>) => In(g.up[w], <<"unsubscribe", q>>)
        BY <2>4, <2>6
    <3> QED BY <2>6, <2>7, <3>1 DEF Untouched, Loose, w
  <2>9. Settled(d) /\ Fresh(d) /\ Tuned(d, D) /\ InTurn(d)
      BY <2>2, <2>7 DEF Tidy, Settled, Fresh, Tuned, InTurn
  <2>10. Newer(d)
    <3>1. \A j \in Streams : i < j => j # i
        BY Constants
    <3>2. {c.client.active, c.client.pending} \ {NoStream} = {i}
        BY Constants
    <3> QED BY <2>7, <2>8, <3>1, <3>2 DEF Tidy, Newer
  <2>11. Known(d, D)
      BY <2>7, <2>8 DEF Tidy, Known, Carried, Rejected, CanSend
  <2>12. Named(d)
    <3>1. \A s \in Sockets, q \in Casts : In(d.up[s], <<"unsubscribe", q>>) => In(c.up[s], <<"unsubscribe", q>>)
        BY <2>4, <2>6, <2>7
    <3> QED BY <2>7, <3>1 DEF Tidy, Named
  <2>13. Spares(c, d, i)
      BY <2>7, <2>8 DEF Spares
  <2> QED BY <2>9, <2>10, <2>11, <2>12, <2>13 DEF Tidy, d
<1>2. CASE ~CanSend(c)
  <2>1. d = removeStreamListener(g, i)
      BY <1>2 DEF SendSubscribe
  <2>2. Sound(g) /\ Tidy(g, D) /\ g.client.ws = NoSocket /\ g.stream[i].st = "live"
    <3>1. CASE c.client.state = "connected"
      <4>1. g = handleSocketClosed(c, FALSE)
          BY <1>2, <3>1 DEF Send
      <4>2. Sound(g) /\ Dropped(c, g)
          BY <1>2, <3>1, <4>1, ConnectedLosing, LosingLost
      <4> HIDE DEF g
      <4>3. Tidy(g, D)
          BY <4>2, DroppedTidy
      <4> QED BY <4>2, <4>3 DEF Dropped
    <3>2. CASE c.client.state # "connected"
      <4>1. g = c
          BY <1>2, <3>2 DEF Send
      <4>2. c.client.ws = NoSocket
          BY <3>2 DEF Going, Sound, Linked, Alive
      <4> HIDE DEF g
      <4> QED BY <4>1, <4>2
    <3> QED BY <3>1, <3>2
  <2> HIDE DEF g
  <2>3. ~Carried(g)
      BY <2>2 DEF Carried, CanSend
  <2>4. Tidy(d, D)
      BY <2>1, <2>2, <2>3, RemoveTidy
  <2>5. d.client.ws = NoSocket
      BY <2>1, <2>2, RemoveSound
  <2> HIDE DEF d
  <2> QED BY <2>4, <2>5 DEF Spares, d
<1> QED BY <1>1, <1>2

LEMMA UnsubscribeTidy ==
    ASSUME NEW c, NEW D, Sound(c), Tidy(c, D), NEW i \in Streams, c.stream[i].sub # NoSocket
    PROVE  LET d == SendUnsubscribe(c, i)
           IN  /\ Tidy(d, D) /\ d.stream[i].st = c.stream[i].st
               /\ d.client.state = "connected" /\ Carried(d) => Loose(d, i)
<1> DEFINE sub == c.stream[i].sub
           m == <<"unsubscribe", <<i, sub>>>>
           d == SendUnsubscribe(c, i)
<1>1. sub \in Sockets /\ m \in UpMessages
  <2>1. sub \in Sockets
      BY Constants DEF Sound, Phones, StreamStates
  <2> QED BY <2>1 DEF UpMessages, Casts
<1>2. cast[<<i, sub>>].at \in Started
    BY DEF Tidy, Named
<1>3. d = Send(c, "unsubscribe", <<i, sub>>)
    BY DEF SendUnsubscribe
<1> HIDE DEF d
<1>4. /\ Tidy(d, D)
      /\ CanSend(c) => /\ d.client = c.client /\ d.stream = c.stream
                       /\ c.client.ws \notin dead => In(d.up[c.client.ws], m)
      /\ ~CanSend(c) => ~CanSend(d)
      /\ \A j \in Streams : d.stream[j].st = c.stream[j].st /\ d.stream[j].sub = c.stream[j].sub
    BY <1>1, <1>2, <1>3, SendTidy
<1>5. ASSUME Carried(d) PROVE Loose(d, i)
  <2>1. d.client = c.client /\ c.client.ws \notin dead /\ In(d.up[c.client.ws], m)
      BY <1>4, <1>5 DEF Carried
  <2>2. CASE sub = c.client.ws
      BY <2>1, <2>2 DEF Loose
  <2>3. CASE sub # c.client.ws
      BY <1>4, <2>1, <2>3 DEF Loose
  <2> QED BY <2>2, <2>3
<1> QED BY <1>4, <1>5 DEF d

LEMMA DisposeTidy ==
    ASSUME NEW c, NEW D, Sound(c), Tidy(c, D), NEW i \in Streams
    PROVE  Tidy(DisposeStream(c, i), D)
<1> DEFINE g == Unroute(c, i)
           d == DisposeStream(c, i)
<1>1. Sound(g) /\ Tidy(g, D) /\ g.stream = c.stream
    BY UnrouteEffect, UnrouteTidy
<1>2. CASE c.stream[i].st # "live"
  <2>1. d = c
      BY <1>2 DEF DisposeStream
  <2> QED BY <2>1
<1>3. CASE c.stream[i].st = "live" /\ c.stream[i].sub # NoSocket
  <2> DEFINE h == SendUnsubscribe(g, i)
  <2>1. d = removeStreamListener(h, i)
      BY <1>3 DEF DisposeStream
  <2> HIDE DEF d
  <2>2. Sound(h)
      BY <1>1, <1>3, UnsubscribeSound
  <2>3. /\ Tidy(h, D) /\ h.stream[i].st = "live"
        /\ h.client.state = "connected" /\ Carried(h) => Loose(h, i)
      BY <1>1, <1>3, UnsubscribeTidy
  <2> HIDE DEF g, h
  <2> QED BY <2>1, <2>2, <2>3, RemoveTidy DEF d
<1>4. CASE c.stream[i].st = "live" /\ c.stream[i].sub = NoSocket /\ c.stream[i].sent
  <2> DEFINE x == [g.stream[i] EXCEPT !.st = "tomb"]
             z == g.stream[i]
  <2>1. d = [g EXCEPT !.stream[i] = x]
      BY <1>4 DEF DisposeStream
  <2>2. x \in StreamStates /\ x.st = "tomb" /\ x.sub = z.sub
    <3>1. z \in StreamStates /\ x = [z EXCEPT !.st = "tomb"]
        BY <1>1 DEF Sound, Phones
    <3> HIDE DEF x, z
    <3> QED BY <3>1 DEF StreamStates
  <2> HIDE DEF g, x, d
  <2>3. /\ d.client = g.client /\ d.up = g.up /\ d.rs = g.rs
        /\ d.stream[i] = x /\ \A j \in Streams \ {i} : d.stream[j] = g.stream[j]
      BY <1>1, <2>1, <2>2, StreamEffect
  <2>4. Tidy(d, D)
      BY <1>1, <1>4, <2>2, <2>3, StreamTidy
  <2> QED BY <2>4 DEF d
<1>5. CASE c.stream[i].st = "live" /\ c.stream[i].sub = NoSocket /\ ~c.stream[i].sent
  <2>1. d = removeStreamListener(g, i)
      BY <1>5 DEF DisposeStream
  <2> HIDE DEF d, g
  <2>2. Carried(g) => Loose(g, i)
      BY <1>1, <1>5 DEF Sound, Unsent, Carried, CanSend, Loose, Underway
  <2> QED BY <1>1, <1>5, <2>1, <2>2, RemoveTidy DEF d
<1> QED BY <1>2, <1>3, <1>4, <1>5

LEMMA ReplayTidy ==
    ASSUME NEW c, NEW D, Sound(c), Tidy(c, D), NEW i \in Streams, Going(c),
           c.client.ws # NoSocket => \A j \in Streams : i <= j => Untouched(c, j)
    PROVE  LET d == ReplayStream(c, i) IN Tidy(d, D) /\ Spares(c, d, i)
<1> DEFINE d == ReplayStream(c, i)
<1>0. i <= i /\ \A j \in Streams : i < j => i <= j
    BY Constants
<1>1. CASE c.stream[i].st = "tomb"
  <2>1. d = removeStreamListener(c, i)
      BY <1>1 DEF ReplayStream
  <2> HIDE DEF d
  <2>2. Carried(c) => Loose(c, i)
      BY <1>0 DEF Carried, CanSend, Untouched, Loose, Underway
  <2>3. Tidy(d, D)
      BY <1>1, <2>1, <2>2, RemoveTidy
  <2>4. d.up = c.up /\ d.client.ws = c.client.ws
      BY <2>1, RemoveSound
  <2>5. Spares(c, d, i)
      BY <2>4 DEF Spares, Untouched
  <2> QED BY <2>3, <2>5 DEF d
<1>2. CASE c.stream[i].st = "live" /\ ~c.stream[i].sent
  <2> DEFINE g == Route(c, i, 0)
  <2>1. d = SendSubscribe(g, i)
      BY <1>2 DEF ReplayStream, Route, NoStream
  <2> HIDE DEF d
  <2>2. c.stream[i].st # "new"
      BY <1>2
  <2>3. /\ Sound(g) /\ g.stream = c.stream /\ g.up = c.up
        /\ g.client.state = c.client.state /\ g.client.ws = c.client.ws
        /\ g.client.pending = i /\ g.client.active = NoStream
      BY <2>2, AwaitSound
  <2>4. Tidy(g, D)
    <3>1. c.client.ws # 0 => \A k \in {i, 0} \ {0} : \A j \in Streams : k < j => Untouched(c, j)
        BY <1>0, Constants
    <3> HIDE DEF g
    <3>2. i \in Streams \cup {0} /\ 0 \in Streams \cup {0}
        OBVIOUS
    <3> QED BY <3>1, <3>2, RouteTidy DEF g
  <2> HIDE DEF g
  <2>5. Going(g)
      BY <2>3 DEF Going
  <2>6. Tidy(d, D) /\ Spares(g, d, i)
      BY <1>2, <2>1, <2>3, <2>4, <2>5, SendSubscribeTidy
  <2>7. Spares(c, d, i)
      BY <2>3, <2>6 DEF Spares, Untouched
  <2> QED BY <2>6, <2>7 DEF d
<1>3. CASE c.stream[i].st # "tomb" /\ ~(c.stream[i].st = "live" /\ ~c.stream[i].sent)
  <2>1. d = c
      BY <1>3 DEF ReplayStream
  <2> HIDE DEF d
  <2> QED BY <2>1 DEF Spares, d
<1> QED BY <1>1, <1>2, <1>3

-----------------------------------------------------------------------------
(* The desktop has accepted the phone.                                     *)

LEMMA StreamTurnsTidy ==
    ASSUME NEW c, NEW D, Sound(c), Tidy(c, D), Going(c),
           c.client.ws # NoSocket => \A j \in Streams : Untouched(c, j),
           NEW g, Turns("stream", c, Streams, g)
    PROVE  Tidy(g[Streams], D)
<1> DEFINE Rested(d, T) == d.client.ws # NoSocket => \A j \in Streams \ T : Untouched(d, j)
           Good == {T \in SUBSET Streams :
                       Sound(g[T]) /\ Tidy(g[T], D) /\ Going(g[T]) /\ Rested(g[T], T)}
<1>1. Numbers(Streams)
    BY Constants, CastAssumption DEF Numbers
<1>2. \A U \in SUBSET Streams : g[U] = IF U = {} THEN c ELSE Turn("stream", g[U \ {Max(U)}], Max(U))
    BY Zenon DEF Turns
<1>3. {} \in Good
    BY <1>2
<1>4. ASSUME NEW U \in SUBSET Streams, Max(U) \in U, \A y \in U : Max(U) >= y, U \ {Max(U)} \in Good
      PROVE  U \in Good
  <2> DEFINE i == Max(U)
             d == g[U \ {i}]
             e == ReplayStream(d, i)
  <2>1. g[U] = e /\ i \in Streams
      BY <1>2, <1>4 DEF Turn
  <2>2. Sound(d) /\ Tidy(d, D) /\ Going(d) /\ Rested(d, U \ {i})
      BY <1>4
  <2>3. i \in U /\ \A y \in U : i >= y
      BY <1>4
  <2> HIDE DEF d, i
  <2>4. \A j \in Streams : i <= j => j \in Streams \ (U \ {i})
    <3> SUFFICES ASSUME NEW j \in Streams, i <= j, j \in U, j # i PROVE FALSE
        OBVIOUS
    <3>1. i >= j /\ i \in Nat /\ j \in Nat
        BY <2>1, <2>3, Constants
    <3> QED BY <3>1
  <2>5. d.client.ws # NoSocket => \A j \in Streams : i <= j => Untouched(d, j)
      BY <2>2, <2>4
  <2>6. Sound(e) /\ Steady(d, e)
      BY <2>1, <2>2, ReplaySound
  <2>7. Tidy(e, D) /\ Spares(d, e, i)
      BY <2>1, <2>2, <2>5, ReplayTidy
  <2> HIDE DEF e
  <2>8. Going(e)
      BY <2>2, <2>6 DEF Going, Steady
  <2>9. Rested(e, U)
      BY <2>2, <2>3, <2>7 DEF Spares
  <2> QED BY <2>1, <2>6, <2>7, <2>8, <2>9
<1> HIDE DEF Good
<1>5. Streams \in Good
    BY <1>1, <1>3, <1>4, Stepwise
<1> QED BY <1>5 DEF Good

LEMMA SendRequestTidy ==
    ASSUME NEW c, NEW D, Sound(c), Tidy(c, D), NEW r \in Requests
    PROVE  Tidy(SendRequest(c, r), D)
<1> DEFINE g == Send(c, "request", r)
<1>0. <<"request", r>> \in UpMessages /\ c \in Phones
    BY DEF UpMessages, Sound
<1>1. Tidy(g, D)
    BY <1>0, SendTidy
<1>2. g \in Phones
  <2>1. CASE CanSend(c)
      BY <1>0, <2>1, SendOpen
  <2>2. CASE ~CanSend(c)
      BY <2>2, SendCases DEF Sound
  <2> QED BY <2>1, <2>2
<1>3. \E o \in Outcomes : SendRequest(c, r) = [g EXCEPT !.req[r] = o]
    BY DEF SendRequest, Outcomes
<1> HIDE DEF g
<1>4. ASSUME NEW o \in Outcomes PROVE Tidy([g EXCEPT !.req[r] = o], D)
  <2> DEFINE d == [g EXCEPT !.req[r] = o]
  <2>1. d.client = g.client /\ d.stream = g.stream /\ d.up = g.up /\ d.rs = g.rs
      BY <1>2, RequestEffect
  <2> HIDE DEF d
  <2>2. Tidy(d, D)
      BY <1>1, <1>2, <2>1, TidySame
  <2> QED BY <2>2 DEF d
<1> QED BY <1>3, <1>4

LEMMA RequestTurnsTidy ==
    ASSUME NEW c, NEW D, Sound(c), Tidy(c, D), Going(c), NEW S \in SUBSET Requests,
           \A r \in S : c.req[r] \in {"waiting", "failed"},
           NEW g, Turns("request", c, S, g)
    PROVE  Tidy(g[S], D)
<1> DEFINE Good == {T \in SUBSET S : /\ Sound(g[T]) /\ Going(g[T]) /\ Tidy(g[T], D)
                                     /\ \A r \in S \ T : g[T].req[r] \in {"waiting", "failed"}}
<1>1. Numbers(S)
    BY Constants, MobileAssumption, FS_Subset DEF Numbers
<1>2. \A U \in SUBSET S : g[U] = IF U = {} THEN c ELSE Turn("request", g[U \ {Max(U)}], Max(U))
    BY Zenon DEF Turns
<1>3. {} \in Good
    BY <1>2
<1>4. ASSUME NEW U \in SUBSET S, Max(U) \in U, U \ {Max(U)} \in Good
      PROVE  U \in Good
  <2> DEFINE r == Max(U)
             d == g[U \ {r}]
  <2>1. g[U] = SendRequest(d, r) /\ r \in S /\ r \in Requests
      BY <1>2, <1>4 DEF Turn
  <2>2. /\ Sound(d) /\ Going(d) /\ Tidy(d, D) /\ d.req[r] \in {"waiting", "failed"}
        /\ \A q \in S \ U : d.req[q] \in {"waiting", "failed"}
      BY <1>4
  <2> HIDE DEF d
  <2>3. /\ Sound(SendRequest(d, r)) /\ Going(SendRequest(d, r))
        /\ \A q \in Requests : q # r /\ d.req[q] \in {"waiting", "failed"}
                               => SendRequest(d, r).req[q] \in {"waiting", "failed"}
      BY <2>1, <2>2, SendRequestSound DEF Going
  <2>4. \A q \in S \ U : SendRequest(d, r).req[q] \in {"waiting", "failed"}
      BY <1>4, <2>2, <2>3
  <2>5. Tidy(SendRequest(d, r), D)
      BY <2>1, <2>2, SendRequestTidy
  <2> QED BY <2>1, <2>3, <2>4, <2>5
<1> HIDE DEF Good
<1>5. S \in Good
    BY <1>1, <1>3, <1>4, Stepwise
<1> QED BY <1>5 DEF Good

LEMMA AuthenticatedTidy ==
    ASSUME NEW c, NEW D, Sound(c), Tidy(c, D), c.client.state = "handshaking",
           hostEnd[c.client.ws] \in {"ready", "closed"}
    PROVE  Tidy(Authenticated(c), D)
<1> DEFINE g == InState([c EXCEPT !.client.rejections = 0], "connected")
           S == Requesting(c, "waiting")
           d == InOrder(ReplayStream, g, Streams)
<1>1. Authenticated(c) = InOrder(SendRequest, d, S)
    BY DEF Authenticated
<1>2. /\ Sound(g) /\ g.stream = c.stream /\ g.req = c.req /\ g.up = c.up /\ g.rs = c.rs
      /\ g.client.state = "connected" /\ g.client.ws = c.client.ws
      /\ g.client.active = c.client.active
    BY WelcomeSound
<1> HIDE DEF g
<1>3. g.client.active = NoStream /\ \A j \in Streams : Untouched(g, j)
  <2>1. c.client.ws # NoSocket
      BY DEF Sound, Linked, Alive
  <2> QED BY <1>2, <2>1 DEF Tidy, Settled, Fresh, Untouched
<1>4. Tidy(g, D)
  <2>1. Settled(g) /\ Fresh(g) /\ Newer(g) /\ Tuned(g, D)
      BY <1>2, <1>3 DEF Settled, Fresh, Newer, Tuned
  <2>2. Known(g, D)
      BY <1>3 DEF Known, Untouched, Loose, Underway
  <2>3. Named(g) /\ InTurn(g)
      BY <1>2 DEF Tidy, Named, InTurn
  <2> QED BY <2>1, <2>2, <2>3 DEF Tidy
<1>5. Going(g)
    BY <1>2 DEF Going
<1>6. Sound(d) /\ Steady(g, d) /\ Tidy(d, D)
  <2>1. Numbers(Streams)
      BY Constants, CastAssumption DEF Numbers
  <2>2. PICK f : Turns("stream", g, Streams, f) /\ d = f[Streams]
      BY <2>1, InOrderTurns
  <2>3. Sound(d) /\ Steady(g, d)
      BY <1>2, <2>2, StreamTurns
  <2>4. Tidy(d, D)
      BY <1>2, <1>3, <1>4, <1>5, <2>2, StreamTurnsTidy
  <2> QED BY <2>3, <2>4
<1> HIDE DEF d
<1>7. Numbers(S) /\ S \in SUBSET Requests
  <2>1. S \in SUBSET Requests
      BY DEF Requesting
  <2> QED BY <2>1, Constants, MobileAssumption, FS_Subset DEF Numbers
<1>8. \A r \in S : d.req[r] \in {"waiting", "failed"}
    BY <1>2, <1>6 DEF Steady, Requesting
<1>9. Going(d)
    BY <1>5, <1>6 DEF Steady, Going
<1> HIDE DEF S
<1>10. PICK f : Turns("request", d, S, f) /\ InOrder(SendRequest, d, S) = f[S]
    BY <1>7, InOrderTurns
<1>11. Tidy(f[S], D)
    BY <1>6, <1>7, <1>8, <1>9, <1>10, RequestTurnsTidy
<1> QED BY <1>1, <1>10, <1>11

-----------------------------------------------------------------------------
(* The phone reads a message.                                              *)

LEMMA ReadyTidy ==
    ASSUME NEW c, NEW D, Sound(c), Tidy(c, D), NEW i \in Streams, c.client.ws # NoSocket,
           cast[<<i, c.client.ws>>].at \in Started,
           \A j \in Streams : j < i /\ In(D[c.client.ws], <<"frame", j>>) => Late(<<j, c.client.ws>>)
    PROVE  Tidy(OnReady(c, i), D)
<1> DEFINE g == [c EXCEPT !.stream[i].sub = c.client.ws]
<1>0. c.client.ws \in Sockets
    BY Constants DEF Sound, Phones, Clients
<1>1. /\ Sound(g) /\ g.client = c.client /\ g.up = c.up /\ g.rs = c.rs
      /\ g.stream[i].sub = c.client.ws /\ g.stream[i].st = c.stream[i].st
      /\ \A j \in Streams \ {i} : g.stream[j] = c.stream[j]
    BY <1>0, SubscribedSound
<1>2. c.stream[i].st # "new" /\ c.client.state = "connected"
  <2>1. cast[<<i, c.client.ws>>].at # "none"
      BY DEF Started
  <2>2. c.stream[i].st # "new"
      BY <2>1 DEF Sound, Routed, Unsent
  <2>3. c.client.state = "connected"
      BY <2>1 DEF Tidy, Fresh, Untouched
  <2> QED BY <2>2, <2>3
<1>3. CASE c.stream[i].st = "gone"
  <2>1. OnReady(c, i) = c
      BY <1>3 DEF OnReady
  <2> QED BY <2>1
<1> DEFINE routed == c.stream[i].st = "live" /\ i \in {c.client.pending, c.client.active}
<1>4. c.stream[i].st # "gone" => OnReady(c, i) = IF routed THEN Route(g, 0, i)
                                                 ELSE removeStreamListener(SendUnsubscribe(g, i), i)
    BY DEF OnReady, Route, NoStream
<1>5. ASSUME c.stream[i].st # "gone" PROVE Tidy(g, D)
  <2> HIDE DEF g, routed
  <2>1. \A j : Untouched(g, j) <=> Untouched(c, j)
      BY <1>1 DEF Untouched
  <2>2. Settled(g) /\ Fresh(g) /\ Newer(g) /\ Tuned(g, D)
      BY <1>1, <2>1 DEF Tidy, Settled, Fresh, Newer, Tuned
  <2>3. Known(g, D)
    <3> SUFFICES ASSUME c.client.state = "connected", Carried(c), ~Rejected(c, D), NEW j \in Streams
                 PROVE  g.stream[j].st \in {"live", "tomb"} \/ Loose(g, j)
        BY <1>1 DEF Known, Carried, Rejected, CanSend
    <3>1. CASE j = i
      <4>1. c.stream[i].st \in {"new", "live", "tomb", "gone"}
          BY DEF Sound, Phones, StreamStates
      <4> QED BY <1>1, <1>2, <1>5, <3>1, <4>1
    <3>2. CASE j # i
        BY <1>1, <3>2 DEF Tidy, Known, Loose
    <3> QED BY <3>1, <3>2
  <2>4. Named(g)
      BY <1>1 DEF Tidy, Named
  <2>5. InTurn(g)
    <3>1. \A j \in Streams : g.stream[j].st = c.stream[j].st
        BY <1>1
    <3> QED BY <3>1 DEF Tidy, InTurn
  <2> QED BY <2>2, <2>3, <2>4, <2>5 DEF Tidy
<1> HIDE DEF g
<1>6. CASE c.stream[i].st # "gone" /\ routed
  <2>1. \A j \in Streams : i < j => Untouched(g, j)
    <3>1. i \in {c.client.active, c.client.pending} \ {NoStream}
        BY <1>6, Constants
    <3> QED BY <1>1, <3>1 DEF Tidy, Newer, Untouched
  <2>2. \A k \in {0, i} \ {0} : \A j \in Streams : k < j => Untouched(g, j)
      BY <2>1
  <2>3. 0 \in Streams \cup {0} /\ i \in Streams \cup {0}
      OBVIOUS
  <2>4. Tidy(g, D)
      BY <1>5, <1>6
  <2>5. g.client.state \in {"connected", "disconnected"}
      BY <1>1, <1>2
  <2>6. /\ cast[<<i, g.client.ws>>].at \in Started
        /\ \A j \in Streams : j < i /\ In(D[g.client.ws], <<"frame", j>>) => Late(<<j, g.client.ws>>)
      BY <1>1
  <2> HIDE DEF routed
  <2>7. Tidy(Route(g, 0, i), D)
      BY <1>1, <2>2, <2>3, <2>4, <2>5, <2>6, RouteTidy
  <2> QED BY <1>4, <1>6, <2>7
<1>7. CASE c.stream[i].st # "gone" /\ ~routed
  <2> DEFINE h == SendUnsubscribe(g, i)
  <2>1. g.stream[i].sub # NoSocket /\ Tidy(g, D)
      BY <1>1, <1>5, <1>7
  <2>2. Sound(h)
      BY <1>1, <2>1, UnsubscribeSound
  <2>3. /\ Tidy(h, D) /\ h.stream[i].st # "new"
        /\ h.client.state = "connected" /\ Carried(h) => Loose(h, i)
      BY <1>1, <1>2, <2>1, UnsubscribeTidy
  <2> HIDE DEF h, routed
  <2>4. Tidy(removeStreamListener(h, i), D)
      BY <2>2, <2>3, RemoveTidy
  <2> QED BY <1>4, <1>7, <2>4 DEF h
<1> QED BY <1>3, <1>6, <1>7

LEMMA ErrorTidy ==
    ASSUME NEW c, NEW D, Sound(c), Tidy(c, D), NEW i \in Streams, c.client.ws # NoSocket,
           cast[<<i, c.client.ws>>].at = "over"
    PROVE  Tidy(removeStreamListener(c, i), D)
<1>1. c.client.ws \in Sockets
    BY Constants DEF Sound, Phones, Clients
<1>2. c.stream[i].st # "new"
    BY DEF Sound, Routed, Unsent
<1>3. Loose(c, i)
    BY <1>1 DEF Sound, Once, Loose, Underway
<1> QED BY <1>2, <1>3, RemoveTidy

LEMMA ReadTidy ==
    ASSUME NEW c, NEW D, Sound(c), Tidy(c, D), c.client.ws # NoSocket, NEW kind, NEW x,
           <<kind, x>> \in DownMessages, kind # "unauthorized",
           kind = "e2ee_authenticated" => hostEnd[c.client.ws] \in {"ready", "closed"},
           kind = "ready" =>
               /\ cast[<<x, c.client.ws>>].at \in Started
               /\ \A j \in Streams : j < x /\ In(D[c.client.ws], <<"frame", j>>) => Late(<<j, c.client.ws>>),
           kind = "error" => cast[<<x, c.client.ws>>].at = "over"
    PROVE  Tidy(Read(c, kind, x), D)
<1>1. CASE kind = "e2ee_ready" /\ c.client.state = "handshaking"
  <2>1. Read(c, kind, x) = Send(c, "auth", 0)
      BY <1>1 DEF Read
  <2>2. <<"auth", 0>> \in UpMessages
      BY DEF UpMessages
  <2>3. Tidy(Send(c, "auth", 0), D)
      BY <2>2, SendTidy
  <2> QED BY <2>1, <2>3
<1>2. CASE kind = "e2ee_authenticated" /\ c.client.state = "handshaking"
  <2>1. Read(c, kind, x) = Authenticated(c)
      BY <1>2 DEF Read
  <2> QED BY <1>2, <2>1, AuthenticatedTidy
<1>3. CASE kind = "e2ee_error" /\ c.client.state = "handshaking"
  <2>1. Read(c, kind, x) = handleAuthRejection(c)
      BY <1>3 DEF Read
  <2> QED BY <2>1, RejectedTidy
<1>4. CASE kind = "ready"
  <2>1. x \in Streams
      BY <1>4 DEF DownMessages, Handshake, CastMessages, Rejection
  <2>2. Read(c, kind, x) = OnReady(c, x)
      BY <1>4 DEF Read
  <2> QED BY <1>4, <2>1, <2>2, ReadyTidy
<1>5. CASE kind = "error" /\ c.stream[x].st # "gone"
  <2>1. x \in Streams
      BY <1>5 DEF DownMessages, Handshake, CastMessages, Rejection
  <2>2. Read(c, kind, x) = removeStreamListener(c, x)
      BY <1>5 DEF Read
  <2> QED BY <1>5, <2>1, <2>2, ErrorTidy
<1>6. CASE kind = "reply" /\ c.req[x] = "pending"
  <2>1. x \in Requests
      BY <1>6 DEF DownMessages, Handshake, CastMessages, Rejection
  <2>2. Read(c, kind, x) = [c EXCEPT !.req[x] = "ok"]
      BY <1>6 DEF Read
  <2> DEFINE d == [c EXCEPT !.req[x] = "ok"]
  <2>3. c \in Phones /\ "ok" \in Outcomes
      BY DEF Sound, Outcomes
  <2>4. d.client = c.client /\ d.stream = c.stream /\ d.up = c.up /\ d.rs = c.rs
      BY <2>1, <2>3, RequestEffect
  <2> HIDE DEF d
  <2>5. Tidy(d, D)
      BY <2>3, <2>4, TidySame
  <2> QED BY <2>2, <2>5 DEF d
<1>7. CASE /\ ~(kind = "e2ee_ready" /\ c.client.state = "handshaking")
           /\ ~(kind = "e2ee_authenticated" /\ c.client.state = "handshaking")
           /\ ~(kind = "e2ee_error" /\ c.client.state = "handshaking")
           /\ kind # "ready" /\ ~(kind = "error" /\ c.stream[x].st # "gone")
           /\ ~(kind = "reply" /\ c.req[x] = "pending")
  <2>1. Read(c, kind, x) = c
      BY <1>7 DEF Read
  <2> QED BY <2>1
<1> QED BY <1>1, <1>2, <1>3, <1>4, <1>5, <1>6, <1>7

-----------------------------------------------------------------------------
(* The steps of the phone.                                                 *)

OrderInv == Orderly(Host) /\ Tidy(Phone, down)

\* The phone reads from a connection, or gives up what it holds.
Cut == \A s \in Sockets :
    \/ down'[s] = down[s]
    \/ down'[s] = <<>>
    \/ down[s] # <<>> /\ down'[s] = Tail(down[s])

LEMMA CutLess ==
    ASSUME MobileInv, Cut
    PROVE  /\ Less(down', down)
           /\ \A s \in Sockets : \A m, n : Behind(down'[s], m, n) => Behind(down[s], m, n)
<1> SUFFICES ASSUME NEW s \in Sockets
             PROVE  /\ \A m : In(down'[s], m) => In(down[s], m)
                    /\ \A m, n : Behind(down'[s], m, n) => Behind(down[s], m, n)
    BY DEF Less
<1>1. down[s] \in Seq(DownMessages)
    BY HostFacts
<1>2. CASE down'[s] = down[s]
    BY <1>2
<1>3. CASE down'[s] = <<>>
    BY <1>3, InEmpty, BehindEmpty
<1>4. CASE down[s] # <<>> /\ down'[s] = Tail(down[s])
  <2>1. \A m : In(Tail(down[s]), m) => In(down[s], m)
      BY <1>1, <1>4, LeftCases DEF Left
  <2>2. \A m, n : Behind(Tail(down[s]), m, n) => Behind(down[s], m, n)
      BY <1>1, <1>4, BehindTail
  <2> QED BY <1>4, <2>1, <2>2
<1> QED BY <1>2, <1>3, <1>4 DEF Cut

LEMMA CutOrderly ==
    ASSUME MobileInv, Orderly(Host), UNCHANGED cast, Cut
    PROVE  Orderly(Host)'
<1>1. /\ Host'.cast = cast /\ Host'.down = down'
      /\ Host.cast = cast /\ Host.down = down
    BY DEF Host
<1>2. (Exclusive(Host) /\ Succession(Host) /\ Finished(Host))'
    BY <1>1 DEF Orderly, Exclusive, Succession, Finished
<1>3. Spoken(Host)'
  <2>1. \A q \in Casts : \A m : In(down'[Socket(q)], m) => In(down[Socket(q)], m)
      BY CutLess, CastParts DEF Less
  <2> QED BY <1>1, <2>1 DEF Orderly, Spoken
<1>4. Sequenced(Host)'
  <2>1. \A q \in Casts : \A m, n : Behind(down'[Socket(q)], m, n) => Behind(down[Socket(q)], m, n)
      BY CutLess, CastParts
  <2> QED BY <1>1, <2>1 DEF Orderly, Sequenced
<1> QED BY <1>2, <1>3, <1>4 DEF Orderly

LEMMA PhoneOrder ==
    ASSUME MobileInv, Orderly(Host), NEW d \in Phones, PhoneBecomes(d), UNCHANGED <<cast, dead>>, Cut,
           NEW E, Tidy(d, E), Less(down', E), Kept(d.client.ws, down', E)
    PROVE  OrderInv'
<1>1. Orderly(Host)'
    BY CutOrderly
<1>2. /\ Phone'.client = d.client /\ Phone'.stream = d.stream
      /\ Phone'.up = d.up /\ Phone'.rs = d.rs
    BY DEF Phone, PhoneBecomes
<1>3. Tidy(d, down')
    BY LessTidy
<1>4. (Settled(Phone) /\ Fresh(Phone) /\ Newer(Phone) /\ InTurn(Phone))'
    BY <1>2, <1>3 DEF Tidy, Settled, Fresh, Newer, InTurn, Untouched
<1>5. Tuned(Phone, down)'
    BY <1>2, <1>3 DEF Tidy, Tuned, Late
<1>6. (Known(Phone, down) /\ Named(Phone))'
    BY <1>2, <1>3 DEF Tidy, Known, Named, Loose, Carried, Rejected, CanSend
<1> QED BY <1>1, <1>4, <1>5, <1>6 DEF OrderInv, Tidy

\* The phone's callbacks and calls that read no message.
LEMMA CallbackOrder ==
    ASSUME MobileInv, OrderInv, NEW d \in Phones, PhoneBecomes(d),
           UNCHANGED <<hostVars, dead>>, Tidy(d, down)
    PROVE  OrderInv'
<1>1. Cut /\ UNCHANGED <<cast, dead>> /\ Less(down', down) /\ Kept(d.client.ws, down', down)
    BY DEF hostVars, Cut, Less, Kept
<1> QED BY <1>1, PhoneOrder DEF OrderInv

LEMMA OnOpenOrder ==
    ASSUME MobileInv, OrderInv, OnOpen
    PROVE  OrderInv'
<1> DEFINE d == Opened(Phone, ws)
<1>1. /\ client.state = "connecting" /\ rs[ws] = "connecting" /\ PhoneBecomes(d)
      /\ UNCHANGED <<hostVars, dead>>
    BY DEF OnOpen, Opened
<1>2. Sound(Phone) /\ Phone.client = client /\ Phone.client.ws = ws /\ Phone.up = up /\ Phone.stream = stream
    BY PhoneFacts
<1>3. /\ Sound(d) /\ d.client.state = "handshaking" /\ d.stream = stream /\ d.client.ws = ws
      /\ d.client.active = client.active /\ d.client.pending = client.pending
      /\ \A s \in Sockets : s # ws => d.up[s] = up[s]
      /\ \A n : In(d.up[ws], n) => n = <<"hello", 0>>
      /\ \A i : ~Asked(d.up[ws], i)
    BY <1>1, <1>2, OpenSound
<1> HIDE DEF d
<1>4. \A i \in Streams : Untouched(d, i)
  <2>1. \A i \in Streams : cast[<<i, ws>>].at = "none"
    <3>1. ws \in Sockets
        BY <1>1, PhoneFacts, Constants DEF Sound, Linked, Alive
    <3> QED BY <1>1, <3>1, PhoneFacts DEF Sound, Unopened
  <2> QED BY <1>3, <2>1 DEF Untouched
<1>5. Settled(d) /\ Fresh(d) /\ Newer(d) /\ Tuned(d, down) /\ Known(d, down)
  <2>1. client.active = NoStream
      BY <1>1, <1>2 DEF OrderInv, Tidy, Settled
  <2> QED BY <1>3, <1>4, <2>1 DEF Settled, Fresh, Newer, Tuned, Known
<1>6. Named(d)
  <2>1. \A s \in Sockets, q \in Casts : In(d.up[s], <<"unsubscribe", q>>) => In(up[s], <<"unsubscribe", q>>)
      BY <1>3
  <2> QED BY <1>2, <1>3, <2>1 DEF OrderInv, Tidy, Named
<1>7. InTurn(d)
    BY <1>2, <1>3 DEF OrderInv, Tidy, InTurn
<1>8. d \in Phones /\ Tidy(d, down)
    BY <1>3, <1>5, <1>6, <1>7 DEF Tidy, Sound
<1> QED BY <1>1, <1>8, CallbackOrder

LEMMA RedialOrder ==
    ASSUME MobileInv, OrderInv, ReconnectTimer \/ Foreground
    PROVE  OrderInv'
<1>1. PICK b : Redialled(b) /\ PhoneBecomes(Dial(b))
    BY RedialEffect
<1> DEFINE d == Dial(b)
<1>2. /\ Sound(d) /\ d.client.state = "connecting"
      /\ d.client.active = client.active /\ d.stream = stream /\ d.up = up
      /\ \A i \in Streams : /\ ~Asked(d.up[d.client.ws], i)
                            /\ cast[<<i, d.client.ws>>].at = "none"
    BY <1>1, RedialEffect, DialSound DEF Redialled
<1>3. client.state = "reconnecting" /\ UNCHANGED <<hostVars, dead>>
    BY RedialEffect
<1>4. Phone.client = client /\ Phone.stream = stream /\ Phone.up = up
    BY PhoneFacts
<1>5. PhoneBecomes(d)
    BY <1>1
<1> HIDE DEF d
<1>6. \A i \in Streams : Untouched(d, i)
    BY <1>2 DEF Untouched
<1>7. Settled(d) /\ Fresh(d) /\ Newer(d) /\ Tuned(d, down) /\ Known(d, down)
  <2>1. client.active = NoStream
      BY <1>3, <1>4 DEF OrderInv, Tidy, Settled
  <2> QED BY <1>2, <1>6, <2>1 DEF Settled, Fresh, Newer, Tuned, Known
<1>8. Named(d) /\ InTurn(d)
    BY <1>2, <1>4 DEF OrderInv, Tidy, Named, InTurn
<1>9. d \in Phones /\ Tidy(d, down)
    BY <1>2, <1>7, <1>8 DEF Tidy, Sound
<1> QED BY <1>3, <1>5, <1>9, CallbackOrder

LEMMA LinkTimeoutOrder ==
    ASSUME MobileInv, OrderInv, LinkTimeout
    PROVE  OrderInv'
<1> DEFINE d == CloseSocket(Phone)
<1>1. PhoneBecomes(d) /\ UNCHANGED <<hostVars, dead>> /\ client.state \in {"handshaking", "connected"}
    BY DEF LinkTimeout
<1>2. Phone \in Phones /\ Phone.client.ws # 0 /\ Tidy(Phone, down)
    BY <1>1, PhoneFacts, Constants DEF Sound, Linked, Alive, OrderInv
<1>3. d \in Phones
    BY <1>2, CloseSocketEffect
<1>4. Tidy(d, down)
    BY <1>2, CloseSocketTidy
<1> HIDE DEF d
<1> QED BY <1>1, <1>3, <1>4, CallbackOrder

LEMMA LostOrder ==
    ASSUME MobileInv, OrderInv, ConnectFails \/ LinkError
    PROVE  OrderInv'
<1> DEFINE d == handleSocketClosed(CloseSocket(Phone), FALSE)
<1>1. PhoneBecomes(d) /\ UNCHANGED <<hostVars, dead>>
    BY DEF ConnectFails, LinkError
<1>2. ws # 0
  <2>1. Linked(Phone) /\ Phone.client = client
      BY PhoneFacts DEF Sound
  <2>2. dead \subseteq Sockets
      BY DEF MobileInv, Rest
  <2> QED BY <2>1, <2>2, Constants DEF ConnectFails, LinkError, Linked, Alive, ws
<1>3. Sound(d)
    BY <1>2, ClosedLost
<1>4. Tidy(d, down)
    BY <1>2, PhoneFacts, LostTidy DEF OrderInv
<1> HIDE DEF d
<1>5. d \in Phones
    BY <1>3 DEF Sound
<1> QED BY <1>1, <1>4, <1>5, CallbackOrder

LEMMA OnCloseOrder ==
    ASSUME MobileInv, OrderInv, OnClose
    PROVE  OrderInv'
<1>1. PICK d : PhoneBecomes(d) /\ Sound(d) /\ Dropped(Phone, d)
    BY OnCloseEffect
<1>2. UNCHANGED <<cast, dead>> /\ \A s \in Sockets : down'[s] = down[s] \/ down'[s] = <<>>
  <2>1. UNCHANGED <<cast, dead>> /\ down' = [down EXCEPT ![ws] = <<>>] /\ ws \in Sockets
      BY OnCloseEffect
  <2>2. down \in [Sockets -> Seq(DownMessages)]
      BY HostFacts
  <2> QED BY <2>1, <2>2
<1>3. Tidy(d, down) /\ d \in Phones /\ Orderly(Host)
    BY <1>1, DroppedTidy DEF OrderInv, Sound
<1>4. Cut
    BY <1>2 DEF Cut
<1>5. Less(down', down) /\ Kept(d.client.ws, down', down)
    BY <1>1, <1>4, CutLess DEF Dropped, Kept
<1> QED BY <1>1, <1>2, <1>3, <1>4, <1>5, PhoneOrder

\* A connection that breaks carries nothing, and nothing is relied on there.
LEMMA BreakOrder ==
    ASSUME MobileInv, OrderInv, Break \/ Unpair
    PROVE  OrderInv'
<1>1. UNCHANGED <<cast, client, stream, rs>> /\ dead \subseteq dead'
    BY DEF Break, Unpair
<1>2. /\ \A s \in Sockets : up'[s] = up[s] \/ (up'[s] = <<>> /\ s \in dead')
      /\ \A s \in Sockets : down'[s] = down[s] \/ (down'[s] = <<>> /\ s \in dead')
  <2>1. up \in [Sockets -> Seq(UpMessages)] /\ down \in [Sockets -> Seq(DownMessages)]
      BY PhoneFacts, HostFacts
  <2>2. CASE Break
    <3>1. /\ dead' = dead \cup {ws} /\ up' = [up EXCEPT ![ws] = <<>>]
          /\ down' = [down EXCEPT ![ws] = <<>>]
        BY <2>2 DEF Break
    <3> QED BY <2>1, <3>1
  <2>3. CASE Unpair
      BY <2>1, <2>3 DEF Unpair
  <2> QED BY <2>2, <2>3
<1>3. Cut /\ Orderly(Host) /\ Tidy(Phone, down)
    BY <1>2 DEF Cut, OrderInv
<1>4. Orderly(Host)' /\ Less(down', down)
    BY <1>1, <1>3, CutOrderly, CutLess
<1>5. /\ Phone.client = client /\ Phone.stream = stream /\ Phone.up = up /\ Phone.rs = rs
      /\ Phone'.client = client /\ Phone'.stream = stream /\ Phone'.up = up' /\ Phone'.rs = rs
    BY <1>1 DEF Phone
<1>6. client.ws # NoSocket => client.ws \in Sockets
    BY PhoneFacts, Constants DEF ws
<1>7. /\ \A s \in Sockets : \A m : In(up'[s], m) => In(up[s], m)
      /\ \A s \in Sockets : \A i : Asked(up'[s], i) => Asked(up[s], i)
    BY <1>2, InEmpty, AskedEmpty
<1>8. (Settled(Phone) /\ InTurn(Phone))'
    BY <1>3, <1>5 DEF Tidy, Settled, InTurn
<1>9. client.ws # NoSocket => \A i \in Streams : Untouched(Phone, i) => Untouched(Phone, i)'
    BY <1>1, <1>5, <1>6, <1>7 DEF Untouched
<1>10. (Fresh(Phone) /\ Newer(Phone))'
  <2>1. Fresh(Phone)'
      BY <1>3, <1>5, <1>9 DEF Tidy, Fresh
  <2>2. Newer(Phone)'
      BY <1>3, <1>5, <1>9 DEF Tidy, Newer
  <2> QED BY <2>1, <2>2
<1>11. Tuned(Phone, down)'
    BY <1>1, <1>3, <1>4, <1>5, <1>6 DEF Tidy, Tuned, Late, Less
<1>12. Known(Phone, down)'
  <2> SUFFICES ASSUME client.state = "connected", client.ws # NoSocket, rs[client.ws] = "open",
                      client.ws \notin dead', ~In(down'[client.ws], Rejection), NEW i \in Streams
               PROVE  stream[i].st \in {"live", "tomb"} \/ Loose(Phone, i)'
      BY <1>5 DEF Known, Carried, Rejected, CanSend
  <2>1. up'[client.ws] = up[client.ws] /\ down'[client.ws] = down[client.ws]
      BY <1>2, <1>6
  <2>2. stream[i].st \in {"live", "tomb"} \/ Loose(Phone, i)
      BY <1>1, <1>3, <1>5, <2>1 DEF Tidy, Known, Carried, Rejected, CanSend
  <2> QED BY <1>1, <1>5, <2>1, <2>2 DEF Loose
<1>13. Named(Phone)'
    BY <1>1, <1>3, <1>5, <1>7 DEF Tidy, Named
<1> QED BY <1>4, <1>8, <1>10, <1>11, <1>12, <1>13 DEF OrderInv, Tidy

LEMMA CloseOrder ==
    ASSUME MobileInv, OrderInv, Close
    PROVE  OrderInv'
<1> DEFINE c == IF ws = NoSocket THEN Phone ELSE CloseSocket(Phone)
           g == [c EXCEPT !.client.closed = TRUE, !.client.timer = FALSE, !.client.ws = NoSocket]
           d == rejectAllPending(rejectConnectWaiters(InState(g, "disconnected")), TRUE)
<1>1. /\ PhoneBecomes(d) /\ UNCHANGED <<cast, dead>>
      /\ down' = IF ws = NoSocket THEN down ELSE [down EXCEPT ![ws] = <<>>]
  <2>1. PhoneBecomes(d)
      BY Zenon DEF Close
  <2>2. /\ UNCHANGED <<cast, dead>>
        /\ down' = IF ws = NoSocket THEN down ELSE [down EXCEPT ![ws] = <<>>]
      BY Zenon DEF Close
  <2> QED BY <2>1, <2>2
<1>2. /\ c \in Phones /\ \A s \in Sockets : c.rs[s] \in {"none", "closing"}
      /\ Honest(c) /\ Once(c) /\ Routed(c) /\ Unopened(c)
      /\ c.stream = stream /\ c.up = up
  <2>1. CASE ws = NoSocket
      BY <2>1, PhoneFacts, Constants DEF Sound, Linked
  <2>2. CASE ws # NoSocket
    <3>1. c.stream = stream /\ c.up = up
        BY <2>2, PhoneFacts, CloseSocketEffect, Constants DEF Sound
    <3> QED BY <2>2, <3>1, ClosedLost, Constants DEF Losing
  <2> QED BY <2>1, <2>2
<1> HIDE DEF c
<1>3. /\ Sound(d) /\ d.stream = stream /\ d.up = up
      /\ d.client.state = "disconnected" /\ d.client.ws = NoSocket
    BY <1>2, ClosedSound
<1> HIDE DEF d
<1>4. Settled(d) /\ Fresh(d) /\ Newer(d) /\ Tuned(d, down) /\ Known(d, down)
    BY <1>3 DEF Settled, Fresh, Newer, Tuned, Known
<1>5. Named(d) /\ InTurn(d)
    BY <1>3, PhoneFacts DEF OrderInv, Tidy, Named, InTurn
<1>6. Tidy(d, down) /\ d \in Phones /\ Orderly(Host)
    BY <1>3, <1>4, <1>5 DEF Tidy, OrderInv, Sound
<1>7. Cut
  <2>1. down \in [Sockets -> Seq(DownMessages)]
      BY HostFacts
  <2>2. \A s \in Sockets : down'[s] = down[s] \/ down'[s] = <<>>
      BY <1>1, <2>1
  <2> QED BY <2>2 DEF Cut
<1>8. Less(down', down) /\ Kept(d.client.ws, down', down)
    BY <1>3, <1>7, CutLess DEF Kept
<1> QED BY <1>1, <1>6, <1>7, <1>8, PhoneOrder

LEMMA DisposeOrder ==
    ASSUME MobileInv, OrderInv, NEW i \in Streams, Dispose(i)
    PROVE  OrderInv'
<1> DEFINE d == DisposeStream(Phone, i)
<1>1. PhoneBecomes(d) /\ UNCHANGED <<hostVars, dead>>
    BY DEF Dispose
<1>2. Sound(d) /\ Tidy(d, down)
    BY PhoneFacts, DisposeSound, DisposeTidy DEF OrderInv
<1> HIDE DEF d
<1>3. d \in Phones
    BY <1>2 DEF Sound
<1> QED BY <1>1, <1>2, <1>3, CallbackOrder

\* An outcome of a request says nothing of streams.
LEMMA OutcomeTidy ==
    ASSUME NEW c \in Phones, NEW D, Tidy(c, D), NEW r \in Requests, NEW o \in Outcomes
    PROVE  LET d == [c EXCEPT !.req[r] = o] IN d \in Phones /\ Tidy(d, D)
<1> DEFINE d == [c EXCEPT !.req[r] = o]
<1>1. d \in Phones /\ d.client = c.client /\ d.stream = c.stream /\ d.up = c.up /\ d.rs = c.rs
    BY RequestEffect
<1> HIDE DEF d
<1>2. Tidy(d, D)
    BY <1>1, TidySame
<1> QED BY <1>1, <1>2 DEF d

LEMMA RequestOrder ==
    ASSUME MobileInv, OrderInv, NEW r \in Requests, CallRequest(r) \/ RequestTimeout(r)
    PROVE  OrderInv'
<1>1. Sound(Phone) /\ Phone \in Phones /\ Tidy(Phone, down)
    BY PhoneFacts DEF Sound, OrderInv
<1>2. \A o \in Outcomes : [Phone EXCEPT !.req[r] = o] \in Phones /\ Tidy([Phone EXCEPT !.req[r] = o], down)
    BY <1>1, OutcomeTidy
<1>3. CASE CallRequest(r)
  <2> DEFINE d == CASE client.state = "connected" -> SendRequest(Phone, r)
                    [] client.state = "reconnecting" /\ client.attempt >= GiveUp ->
                         [Phone EXCEPT !.req[r] = "failed"]
                    [] OTHER -> [Phone EXCEPT !.req[r] = "waiting"]
  <2>1. PhoneBecomes(d) /\ UNCHANGED <<hostVars, dead>>
      BY <1>3 DEF CallRequest
  <2>2. client.state = "connected" => SendRequest(Phone, r) \in Phones /\ Tidy(SendRequest(Phone, r), down)
    <3>1. Phone.req[r] = "new" /\ Phone.client = client
        BY <1>3, PhoneFacts DEF CallRequest
    <3>2. client.state = "connected" => Sound(SendRequest(Phone, r))
        BY <1>1, <3>1, SendRequestSound
    <3> QED BY <1>1, <3>2, SendRequestTidy DEF Sound
  <2>3. {"failed", "waiting"} \subseteq Outcomes
      BY DEF Outcomes
  <2>4. d \in Phones /\ Tidy(d, down)
      BY <1>2, <2>2, <2>3
  <2> HIDE DEF d
  <2> QED BY <2>1, <2>4, CallbackOrder
<1>4. CASE RequestTimeout(r)
  <2> DEFINE o == IF req[r] = "pending" THEN "unknown" ELSE "failed"
             d == [Phone EXCEPT !.req[r] = o]
  <2>1. PhoneBecomes(d) /\ UNCHANGED <<hostVars, dead>>
    <3>1. [Phone EXCEPT !.req[r] = IF @ = "pending" THEN "unknown" ELSE "failed"] = d
        BY PhoneFacts DEF Phone
    <3> QED BY <1>4, <3>1 DEF RequestTimeout
  <2>2. o \in Outcomes
      BY DEF Outcomes
  <2>3. d \in Phones /\ Tidy(d, down)
      BY <1>2, <2>2
  <2> HIDE DEF d
  <2> QED BY <2>1, <2>3, CallbackOrder
<1> QED BY <1>3, <1>4

\* The stream i is the newest one, and not sent yet.
Latest(c, i) ==
    /\ c.stream[i].st = "live" /\ ~c.stream[i].sent
    /\ \A j \in Streams : i < j => c.stream[j].st = "new"

LEMMA BeginTidy ==
    ASSUME NEW c, NEW D, Sound(c), Tidy(c, D), NEW i \in Streams, c.stream[i].st = "new",
           \A j \in Streams : j < i => c.stream[j].st # "new", NEW page \in Pages
    PROVE  LET d == Began(c, i, page)
           IN  Tidy(d, D) /\ Latest(d, i)
<1> DEFINE d == Began(c, i, page)
<1>1. /\ d.client = c.client /\ d.up = c.up /\ d.rs = c.rs
      /\ d.stream[i].st = "live" /\ ~d.stream[i].sent
      /\ d.stream[i].sub = c.stream[i].sub
      /\ \A j \in Streams \ {i} : d.stream[j] = c.stream[j]
    BY BeginSound
<1> HIDE DEF d
<1>2. \A j \in Streams : d.stream[j].sub = c.stream[j].sub
    BY <1>1
<1>3. Settled(d) /\ Fresh(d) /\ Newer(d) /\ Tuned(d, D) /\ Named(d)
    BY <1>1, <1>2 DEF Tidy, Settled, Fresh, Newer, Tuned, Named, Untouched
<1>4. Known(d, D)
    BY <1>1, <1>2 DEF Tidy, Known, Carried, Rejected, CanSend, Loose
<1>5. InTurn(d)
  <2> SUFFICES ASSUME NEW j \in Streams, NEW k \in Streams, d.stream[j].st = "new", j < k
               PROVE  d.stream[k].st = "new"
      BY DEF InTurn
  <2>1. j # i /\ c.stream[j].st = "new"
      BY <1>1
  <2>2. k # i
      BY <2>1
  <2>3. c.stream[k].st = "new"
      BY <2>1 DEF Tidy, InTurn
  <2> QED BY <1>1, <2>2, <2>3
<1>6. Latest(d, i)
  <2>1. \A j \in Streams : i < j => j # i /\ c.stream[j].st = "new"
      BY Constants DEF Tidy, InTurn
  <2> QED BY <1>1, <2>1 DEF Latest
<1> QED BY <1>3, <1>4, <1>5, <1>6 DEF Tidy, d

\* What was shown or awaited gives way to the newest stream.
LEMMA GiveWay ==
    ASSUME NEW c, NEW D, Sound(c), Tidy(c, D), NEW i \in Streams, Latest(c, i),
           NEW k, k # i, k # NoStream => k \in Streams /\ k \in {c.client.active, c.client.pending},
           c.client.pending = k \/ c.client.pending # i
    PROVE  LET d == IF k # NoStream THEN DisposeStream(c, k) ELSE c
           IN  Sound(d) /\ Tidy(d, D) /\ Latest(d, i) /\ d.client.pending # i
<1> DEFINE d == DisposeStream(c, k)
<1>1. CASE k # NoStream
  <2>1. Sound(d) /\ (\A j \in Streams \ {k} : Spared(c, d, j)) /\ Tidy(d, D)
      BY <1>1, DisposeSound, DisposeTidy
  <2> HIDE DEF d
  <2>2. c.stream[k].st # "new"
      BY <1>1 DEF Sound, Routed
  <2>3. Latest(d, i)
      BY <2>1, <2>2 DEF Latest, Spared
  <2>4. d.client.pending # i
      BY <2>1 DEF Spared
  <2> QED BY <1>1, <2>1, <2>3, <2>4 DEF d
<1>2. CASE k = NoStream
  <2>1. c.client.pending # i
      BY <1>2
  <2> QED BY <1>2, <2>1
<1> QED BY <1>1, <1>2

LEMMA SubscribeOrder ==
    ASSUME MobileInv, OrderInv, NEW i \in Streams, NEW page \in PagesOf[i], Subscribe(i, page)
    PROVE  OrderInv'
<1> DEFINE a == Began(Phone, i, page)
           b == IF client.active # NoStream THEN DisposeStream(a, client.active) ELSE a
           c == IF b.client.pending # NoStream THEN DisposeStream(b, b.client.pending) ELSE b
           d == [c EXCEPT !.client.pending = i, !.client.active = NoStream]
           e == IF d.client.state = "connected" THEN SendSubscribe(d, i) ELSE d
<1>1. PhoneBecomes(e) /\ UNCHANGED <<hostVars, dead>>
  <2>1. PhoneBecomes(e)
      BY Zenon DEF Subscribe, Began
  <2>2. UNCHANGED <<hostVars, dead>>
      BY Zenon DEF Subscribe
  <2> QED BY <2>1, <2>2
<1>2. /\ Phone.stream = stream /\ Phone.client = client /\ Sound(Phone) /\ Tidy(Phone, down)
      /\ stream[i].st = "new" /\ \A j \in Streams : j < i => stream[j].st # "new"
    BY PhoneFacts DEF Subscribe, OrderInv
<1>3. page \in Pages
    BY DEF Pages
<1>4. Sound(a) /\ a.client = client /\ Tidy(a, down) /\ Latest(a, i)
    BY <1>2, <1>3, BeginSound, BeginTidy
<1>5. client.active # i /\ client.pending # i
      /\ (client.active # NoStream => client.active \in Streams)
    BY <1>2, PhoneFacts, Constants DEF Sound, Routed, Clients
<1> HIDE DEF a
<1>6. Sound(b) /\ Tidy(b, down) /\ Latest(b, i) /\ b.client.pending # i
    BY <1>4, <1>5, GiveWay
<1> HIDE DEF b
<1>7. Sound(c) /\ Tidy(c, down) /\ Latest(c, i)
  <2>1. b.client.pending # NoStream => b.client.pending \in Streams
      BY <1>6, Constants DEF Sound, Phones, Clients
  <2> QED BY <1>6, <2>1, GiveWay
<1> HIDE DEF c
<1>8. d = Route(c, i, 0)
    BY Constants DEF Route
<1>9. /\ Sound(d) /\ d.stream = c.stream
      /\ d.client.pending = i /\ d.client.active = NoStream
  <2>1. c.stream[i].st # "new"
      BY <1>7 DEF Latest
  <2> HIDE DEF d
  <2> QED BY <1>7, <1>8, <2>1, AwaitSound
<1>10. Tidy(d, down)
  <2>1. c.client.ws # 0 => \A k \in {i, 0} \ {0} : \A j \in Streams : k < j => Untouched(c, j)
    <3> SUFFICES ASSUME c.client.ws # 0, NEW j \in Streams, i < j PROVE Untouched(c, j)
        OBVIOUS
    <3>1. c.stream[j].st = "new"
        BY <1>7 DEF Latest
    <3> QED BY <1>7, <3>1, Constants DEF Sound, Routed, Unsent, Untouched
  <2>2. i \in Streams \cup {0} /\ 0 \in Streams \cup {0}
      OBVIOUS
  <2> HIDE DEF d
  <2> QED BY <1>7, <1>8, <2>1, <2>2, RouteTidy
<1> HIDE DEF d
<1>11. Sound(e) /\ Tidy(e, down)
  <2>1. CASE d.client.state = "connected"
    <3>1. d.stream[i].st = "live" /\ ~d.stream[i].sent /\ Going(d) /\ e = SendSubscribe(d, i)
        BY <1>7, <1>9, <2>1 DEF Latest, Going
    <3> HIDE DEF e
    <3> QED BY <1>9, <1>10, <3>1, SendSubscribeSound, SendSubscribeTidy
  <2>2. CASE d.client.state # "connected"
      BY <1>9, <1>10, <2>2
  <2> QED BY <2>1, <2>2
<1> HIDE DEF e
<1>12. e \in Phones
    BY <1>11 DEF Sound
<1> QED BY <1>1, <1>11, <1>12, CallbackOrder

LEMMA TailOnly ==
    ASSUME NEW S, NEW Q \in Seq(S), Q # <<>>, NEW m, In(Q, m)
    PROVE  m = Head(Q) \/ In(Tail(Q), m)
<1>1. /\ Len(Q) \in Nat \ {0} /\ Len(Tail(Q)) = Len(Q) - 1
      /\ \A k \in 1..Len(Tail(Q)) : Tail(Q)[k] = Q[k + 1]
      /\ Head(Q) = Q[1]
    BY HeadTailProperties, EmptySeq, LenProperties
<1>2. PICK k \in 1..Len(Q) : Q[k] = m
    BY DEF In
<1>3. CASE k = 1
    BY <1>1, <1>2, <1>3
<1>4. CASE k # 1
  <2>1. k - 1 \in 1..Len(Tail(Q)) /\ (k - 1) + 1 = k
      BY <1>1, <1>4
  <2>2. Tail(Q)[k - 1] = m
      BY <1>1, <1>2, <2>1
  <2> QED BY <2>1, <2>2 DEF In
<1> QED BY <1>3, <1>4

LEMMA OnMessageOrder ==
    ASSUME MobileInv, OrderInv, OnMessage
    PROVE  OrderInv'
<1> DEFINE m == Head(down[ws])
           d == Read(Phone, m[1], m[2])
           E == [down EXCEPT ![ws] = Tail(down[ws])]
<1>1. /\ ws \in Sockets /\ ws # NoSocket /\ down[ws] # <<>> /\ PhoneBecomes(d)
      /\ UNCHANGED <<cast, dead>>
    BY PhoneFacts, Constants DEF OnMessage
<1>2. down \in [Sockets -> Seq(DownMessages)] /\ down[ws] \in Seq(DownMessages)
    BY <1>1, HostFacts
<1>3. m \in DownMessages /\ In(down[ws], m) /\ m = <<m[1], m[2]>>
  <2>1. m \in DownMessages /\ In(down[ws], m)
      BY <1>1, <1>2, TailKeeps
  <2> HIDE DEF m
  <2> QED BY <2>1 DEF DownMessages, CastMessages, Rejection
<1>4. /\ \A s \in Sockets : s # ws => down'[s] = down[s]
      /\ down'[ws] = Tail(down[ws]) \/ down'[ws] = <<>>
      /\ client'.ws = ws => down'[ws] = Tail(down[ws])
    BY <1>1, <1>2 DEF OnMessage
<1>5. Cut
    BY <1>1, <1>4 DEF Cut
<1>6. /\ E[ws] = Tail(down[ws]) /\ \A s \in Sockets : s # ws => E[s] = down[s]
      /\ Less(E, down) /\ Less(down', E)
      /\ \A w \in Sockets : client'.ws = w => down'[w] = E[w]
  <2>1. E[ws] = Tail(down[ws]) /\ \A s \in Sockets : s # ws => E[s] = down[s]
      BY <1>1, <1>2
  <2>2. \A n : In(Tail(down[ws]), n) => In(down[ws], n)
      BY <1>1, <1>2, TailKeeps
  <2> HIDE DEF E
  <2>3. Less(E, down)
      BY <2>1, <2>2 DEF Less
  <2>4. Less(down', E)
    <3>1. \A s \in Sockets : down'[s] = E[s] \/ down'[s] = <<>>
        BY <1>1, <1>4, <2>1
    <3> QED BY <3>1, InEmpty DEF Less
  <2>5. \A w \in Sockets : client'.ws = w => down'[w] = E[w]
      BY <1>4, <2>1
  <2> QED BY <2>1, <2>3, <2>4, <2>5
<1>7. Orderly(Host) /\ Tidy(Phone, down) /\ Sound(Phone) /\ Phone.client.ws = ws
    BY PhoneFacts DEF OrderInv
<1> HIDE DEF E
\* What comes after another message is not yet read.
<1>8. m[1] # "unauthorized" => Tidy(Phone, E)
  <2> SUFFICES ASSUME m[1] # "unauthorized" PROVE Tidy(Phone, E)
      OBVIOUS
  <2>1. m # Rejection
      BY DEF Rejection
  <2> HIDE DEF m
  <2>2. In(down[ws], Rejection) => In(E[ws], Rejection)
    <3>1. In(down[ws], Rejection) => Head(down[ws]) = Rejection \/ In(Tail(down[ws]), Rejection)
        BY <1>1, <1>2, TailOnly
    <3> QED BY <1>6, <2>1, <3>1 DEF m
  <2> QED BY <1>6, <1>7, <2>2, LessTidy DEF Sound, Kept
<1>9. /\ m[1] = "e2ee_authenticated" => hostEnd[ws] \in {"ready", "closed"}
      /\ m[1] \in {"ready", "error"} => m[2] \in Streams
  <2> HIDE DEF m
  <2>1. m[1] = "e2ee_authenticated" => m = <<"e2ee_authenticated", 0>>
      BY <1>3 DEF DownMessages, CastMessages, Handshake, Rejection
  <2>2. m[1] \in {"ready", "error"} => m[2] \in Streams
      BY <1>3 DEF DownMessages, CastMessages, Handshake, Rejection
  <2> QED BY <1>1, <1>3, <2>1, <2>2 DEF MobileInv, Vouched
<1>10. ASSUME m[1] = "ready"
       PROVE  /\ cast[<<m[2], ws>>].at \in Started
              /\ \A j \in Streams : j < m[2] /\ In(E[ws], <<"frame", j>>) => Late(<<j, ws>>)
  <2> DEFINE i == m[2]
             q == <<i, ws>>
  <2>1. i \in Streams /\ m = <<"ready", i>>
      BY <1>3, <1>9, <1>10
  <2>2. q \in Casts /\ Stream(q) = i /\ Socket(q) = ws
      BY <1>1, <2>1, CastParts
  <2>3. cast[q].at \in Started
      BY <1>3, <1>7, <2>1, <2>2, HostFacts DEF Orderly, Spoken
  <2>4. ASSUME NEW j \in Streams, j < i, In(E[ws], <<"frame", j>>) PROVE Late(<<j, ws>>)
    <3> DEFINE p == <<j, ws>>
    <3>1. p \in Casts /\ Stream(p) = j /\ Socket(p) = ws
        BY <1>1, CastParts
    <3>2. Behind(down[ws], m, <<"frame", j>>)
        BY <1>1, <1>2, <1>6, <2>4, BehindTail
    <3>3. "late" \in cast[p].marks
        BY <1>7, <2>1, <2>2, <2>4, <3>1, <3>2, HostFacts DEF Orderly, Sequenced
    <3> QED BY <3>3 DEF Late
  <2> QED BY <2>3, <2>4
<1>11. m[1] = "error" => cast[<<m[2], ws>>].at = "over"
  <2> SUFFICES ASSUME m[1] = "error" PROVE cast[<<m[2], ws>>].at = "over"
      OBVIOUS
  <2> DEFINE q == <<m[2], ws>>
  <2>1. m[2] \in Streams /\ m = <<"error", m[2]>>
      BY <1>3, <1>9
  <2>2. q \in Casts /\ Stream(q) = m[2] /\ Socket(q) = ws
      BY <1>1, <2>1, CastParts
  <2> QED BY <1>3, <1>7, <2>1, <2>2, HostFacts DEF Orderly, Spoken
<1> HIDE DEF m
<1>12. <<m[1], m[2]>> \in DownMessages
    BY <1>3
<1>13. Sound(d) /\ Tidy(d, E)
  <2>1. CASE m[1] # "unauthorized"
    <3>1. Sound(d)
        BY <1>1, <1>7, <1>9, <1>12, ReadSound
    <3>2. Tidy(d, E)
        BY <1>1, <1>7, <1>8, <1>9, <1>10, <1>11, <1>12, <2>1, ReadTidy
    <3> QED BY <3>1, <3>2
  <2>2. CASE m[1] = "unauthorized"
    <3>1. d = handleAuthRejection(Phone)
        BY <2>2 DEF Read
    <3> HIDE DEF d
    <3> QED BY <1>1, <1>7, <3>1, RejectedTidy
  <2> QED BY <2>1, <2>2
<1> HIDE DEF d
<1>14. d \in Phones /\ d.client.ws \in Sockets \cup {NoSocket} /\ client'.ws = d.client.ws
    BY <1>1, <1>13 DEF Sound, Phones, Clients, PhoneBecomes
<1>15. Kept(d.client.ws, down', E)
    BY <1>6, <1>14 DEF Kept
<1> QED BY <1>1, <1>5, <1>6, <1>7, <1>13, <1>14, <1>15, PhoneOrder

LEMMA InitOrder ==
    ASSUME Init
    PROVE  OrderInv
<1>1. /\ \A s \in Sockets : up[s] = <<>> /\ down[s] = <<>>
      /\ client.state = "connecting" /\ client.ws = 1
      /\ client.active = NoStream /\ client.pending = NoStream
      /\ \A i \in Streams : stream[i].st = "new" /\ stream[i].sub = NoSocket
      /\ \A q \in Casts : cast[q].at = "none" /\ cast[q].marks = {}
    BY Zenon DEF Init, NotYet
<1>2. /\ Phone.client = client /\ Phone.stream = stream /\ Phone.up = up
      /\ Host.cast = cast /\ Host.down = down
    BY DEF Phone, Host
<1>3. /\ \A s \in Sockets : \A m : ~In(up[s], m) /\ ~In(down[s], m)
      /\ \A s \in Sockets : \A i : ~Asked(up[s], i)
      /\ \A s \in Sockets : \A m, n : ~Behind(down[s], m, n)
    BY <1>1, InEmpty, AskedEmpty, BehindEmpty
<1>4. Exclusive(Host) /\ Succession(Host) /\ Finished(Host)
    BY <1>1, <1>2 DEF Exclusive, Succession, Finished, Registered
<1>5. Spoken(Host) /\ Sequenced(Host)
    BY <1>2, <1>3, CastParts DEF Spoken, Sequenced
<1>6. \A i \in Streams : Untouched(Phone, i)
  <2>1. 1 \in Sockets
      BY CastAssumption
  <2> QED BY <1>1, <1>2, <1>3, <2>1 DEF Untouched, Casts
<1>7. Settled(Phone) /\ Fresh(Phone) /\ Newer(Phone) /\ Tuned(Phone, down) /\ Known(Phone, down)
    BY <1>1, <1>2, <1>6 DEF Settled, Fresh, Newer, Tuned, Known
<1>8. Named(Phone) /\ InTurn(Phone)
    BY <1>1, <1>2, <1>3 DEF Named, InTurn
<1> QED BY <1>4, <1>5, <1>7, <1>8 DEF OrderInv, Orderly, Tidy

-----------------------------------------------------------------------------
(* The steps of the desktop.                                               *)

LEMMA DesktopOrder ==
    ASSUME MobileInv, OrderInv, NEW g, NEW P, Proceeds(g, P),
           UNCHANGED <<client, stream, rs, dead>>, \A s \in Sockets : Left(up[s], up'[s]),
           \A q \in P : Asked(up[Socket(q)], Stream(q)),
           \A q \in Casts : client.state = "connected" /\ Carried(Phone) /\ Socket(q) = ws
                              /\ In(up[ws], <<"unsubscribe", q>>) =>
               \/ In(up'[ws], <<"unsubscribe", q>>)
               \/ g.cast[q].at \notin Underway
               \/ In(g.down[ws], Rejection)
    PROVE  OrderInv'
<1>1. /\ Orderly(Host) /\ Tidy(Phone, down) /\ Sound(Phone) /\ Host \in Hosts
      /\ Lawful(Host, g, P) /\ Onward(Host, g, P) /\ Says(Host, g) /\ g \in Hosts
    BY PhoneFacts, HostFacts DEF OrderInv, Proceeds, Lawful
<1>2. Orderly(g)
    BY <1>1, OrderlyKept
<1>3. cast' = g.cast /\ down' = g.down /\ Host'.cast = g.cast /\ Host'.down = g.down
    BY DEF Proceeds, Becomes, Host
<1>4. Orderly(Host)'
    BY <1>2, <1>3 DEF Orderly, Exclusive, Succession, Spoken, Sequenced, Finished
<1>5. /\ Phone.client = client /\ Phone.stream = stream /\ Phone.up = up /\ Phone.rs = rs
      /\ Phone'.client = client /\ Phone'.stream = stream /\ Phone'.up = up' /\ Phone'.rs = rs
    BY DEF Phone
<1>6. Host.cast = cast /\ Host.down = down /\ ws = client.ws /\ (ws # NoSocket => ws \in Sockets)
    BY PhoneFacts, HostFacts, Constants DEF ws
\* On the client's connection, what begins was asked for.
<1>7. ASSUME ws # NoSocket, NEW i \in Streams, ~Asked(up[ws], i)
      PROVE  /\ ~Asked(up'[ws], i) /\ <<i, ws>> \in Casts \ P
             /\ cast[<<i, ws>>].at = "none" => g.cast[<<i, ws>>].at = "none"
             /\ g.cast[<<i, ws>>].at \in Underway => cast[<<i, ws>>].at \in Underway
  <2> DEFINE q == <<i, ws>>
  <2>1. q \in Casts /\ Stream(q) = i /\ Socket(q) = ws /\ ws \in Sockets
      BY <1>6, <1>7, CastParts
  <2>2. q \notin P
      BY <1>7, <2>1
  <2>3. ~Asked(up'[ws], i)
      BY <1>7, <2>1 DEF Left
  <2> HIDE DEF q
  <2>4. /\ cast[q].at = "none" => g.cast[q].at = "none"
        /\ g.cast[q].at \in Underway => cast[q].at \in Underway
      BY <1>1, <1>6, <2>1, <2>2 DEF Onward
  <2> QED BY <2>1, <2>2, <2>3, <2>4 DEF q
<1>8. \A i \in Streams : ws # NoSocket /\ Untouched(Phone, i) => Untouched(Phone, i)'
  <2> SUFFICES ASSUME NEW i \in Streams, ws # NoSocket, Untouched(Phone, i)
               PROVE  ~Asked(up'[ws], i) /\ g.cast[<<i, ws>>].at = "none"
      BY <1>3, <1>5, <1>6 DEF Untouched
  <2>1. ~Asked(up[ws], i) /\ cast[<<i, ws>>].at = "none"
      BY <1>5, <1>6 DEF Untouched
  <2> QED BY <1>7, <2>1
<1>9. (Settled(Phone) /\ InTurn(Phone))'
    BY <1>1, <1>5 DEF Tidy, Settled, InTurn
<1>10. (Fresh(Phone) /\ Newer(Phone))'
  <2>1. Fresh(Phone)'
      BY <1>1, <1>5, <1>6, <1>8 DEF Tidy, Fresh
  <2>2. Newer(Phone)'
      BY <1>1, <1>5, <1>6, <1>8 DEF Tidy, Newer
  <2> QED BY <2>1, <2>2
<1>11. Tuned(Phone, down)'
  <2> DEFINE k == client.active
             q == <<k, ws>>
  <2> SUFFICES ASSUME ws # NoSocket, k # NoStream
               PROVE  /\ g.cast[q].at \in Started
                      /\ \A i \in Streams : i < k /\ In(g.down[ws], <<"frame", i>>)
                                              => "late" \in g.cast[<<i, ws>>].marks
      BY <1>3, <1>5, <1>6 DEF Tuned, Late
  <2>1. k \in Streams
      BY PhoneFacts DEF Clients
  <2>2. q \in Casts /\ Stream(q) = k /\ Socket(q) = ws /\ ws \in Sockets
      BY <1>6, <2>1, CastParts
  <2>3. cast[q].at \in Started
      BY <1>1, <1>5, <1>6 DEF Tidy, Tuned
  <2> HIDE DEF k
  <2>4. g.cast[q].at \in Started
      BY <1>1, <1>6, <2>2, <2>3 DEF Onward
  <2>5. ASSUME NEW i \in Streams, i < k, In(g.down[ws], <<"frame", i>>)
        PROVE  "late" \in g.cast[<<i, ws>>].marks
    <3> DEFINE p == <<i, ws>>
    <3>1. p \in Casts /\ Stream(p) = i /\ Socket(p) = ws
        BY <2>2, CastParts
    <3>2. CASE In(down[ws], <<"frame", i>>)
      <4>1. "late" \in cast[p].marks
          BY <1>1, <1>5, <1>6, <2>5, <3>2 DEF Tidy, Tuned, Late, k
      <4> HIDE DEF p
      <4> QED BY <1>1, <1>6, <3>1, <4>1 DEF Onward, p
    <3>3. CASE ~In(down[ws], <<"frame", i>>)
      <4>1. PICK m \in DownMessages : g.down[ws] = Append(down[ws], m) /\ True(g, ws, m)
          BY <1>1, <1>6, <2>2, <2>5, <3>3 DEF Says
      <4>2. down[ws] \in Seq(DownMessages)
          BY <2>2, HostFacts
      <4>3. m = <<"frame", i>>
          BY <2>5, <3>3, <4>1, <4>2, InAppend
      <4>4. g.cast[p].at = "running"
          BY <4>1, <4>3 DEF True
      <4> HIDE DEF p, q
      <4> QED BY <1>2, <2>2, <2>4, <2>5, <3>1, <4>4, RunsLate DEF Orderly, p
    <3> QED BY <3>2, <3>3
  <2> QED BY <2>4, <2>5
<1>12. Known(Phone, down)'
  <2> SUFFICES ASSUME client.state = "connected", Carried(Phone), ~In(g.down[ws], Rejection),
                      NEW i \in Streams, stream[i].st \notin {"live", "tomb"}
               PROVE  Loose(Phone, i)'
      BY <1>3, <1>5, <1>6 DEF Known, Carried, Rejected, CanSend
  <2> DEFINE q == <<i, ws>>
  <2>1. ws # NoSocket /\ ws \in Sockets
      BY <1>5, <1>6 DEF Carried, CanSend
  <2>2. q \in Casts /\ Socket(q) = ws /\ Stream(q) = i
      BY <2>1, CastParts
  <2>3. Loose(Phone, i)
    <3>1. ~In(down[ws], Rejection)
      <4>1. down[ws] \in Seq(DownMessages)
          BY <2>1, HostFacts
      <4>2. g.down[ws] = down[ws] \/ \E m \in DownMessages : g.down[ws] = Append(down[ws], m)
          BY <1>1, <1>6, <2>1 DEF Says
      <4>3. \A m \in DownMessages : In(down[ws], Rejection) => In(Append(down[ws], m), Rejection)
          BY <4>1, InAppend
      <4> QED BY <4>2, <4>3
    <3> QED BY <1>1, <1>5, <1>6, <3>1 DEF Tidy, Known, Rejected
  <2>4. CASE ~Asked(up[ws], i) /\ cast[q].at \notin Underway
      BY <1>3, <1>5, <1>6, <1>7, <2>1, <2>4 DEF Loose
  <2>5. CASE In(up[ws], <<"unsubscribe", q>>)
    <3>1. cast[q].at \in Started
        BY <1>1, <1>5, <2>1, <2>2, <2>5 DEF Tidy, Named
    <3>2. ~Asked(up[ws], i)
        BY <1>1, <1>5, <2>1, <3>1 DEF Sound, Once, Started
    <3>3. ~Asked(up'[ws], i)
        BY <1>7, <2>1, <3>2
    <3>4. In(up'[ws], <<"unsubscribe", q>>) \/ g.cast[q].at \notin Underway
      <4> HIDE DEF q
      <4> QED BY <2>2, <2>5
    <3> QED BY <1>3, <1>5, <1>6, <3>3, <3>4 DEF Loose
  <2>6. CASE stream[i].sub \notin {NoSocket, ws}
      BY <1>5, <1>6, <2>6 DEF Loose
  <2> QED BY <1>5, <1>6, <2>3, <2>4, <2>5, <2>6 DEF Loose
<1>13. Named(Phone)'
  <2>1. \A q \in Casts : cast[q].at \in Started => g.cast[q].at \in Started
      BY <1>1, <1>6 DEF Onward
  <2>2. \A i \in Streams : stream[i].sub # NoSocket => g.cast[<<i, stream[i].sub>>].at \in Started
    <3> SUFFICES ASSUME NEW i \in Streams, stream[i].sub # NoSocket
                 PROVE  g.cast[<<i, stream[i].sub>>].at \in Started
        OBVIOUS
    <3>1. stream[i].sub \in Sockets
        BY PhoneFacts, Constants DEF StreamStates
    <3>2. <<i, stream[i].sub>> \in Casts
        BY <3>1, CastParts
    <3> QED BY <1>1, <1>5, <2>1, <3>2 DEF Tidy, Named
  <2>3. \A s \in Sockets, q \in Casts : In(up'[s], <<"unsubscribe", q>>) => g.cast[q].at \in Started
      BY <1>1, <1>5, <2>1 DEF Tidy, Named, Left
  <2> QED BY <1>3, <1>5, <2>2, <2>3 DEF Named
<1> QED BY <1>4, <1>9, <1>10, <1>11, <1>12, <1>13 DEF OrderInv, Tidy

\* A step of the desktop that leaves the queues to it alone.
LEMMA StretchOrder ==
    ASSUME MobileInv, OrderInv, NEW g, Proceeds(g, {}), UNCHANGED <<client, stream, rs, dead, up>>
    PROVE  OrderInv'
<1>1. \A s \in Sockets : Left(up[s], up'[s])
    BY DEF Left
<1>2. \A q \in Casts : In(up[ws], <<"unsubscribe", q>>) => In(up'[ws], <<"unsubscribe", q>>)
    OBVIOUS
<1> QED BY <1>1, <1>2, DesktopOrder

\* The desktop answers with a message that is not about a cast.
LEMMA AnswerProceeds ==
    ASSUME MobileInv, NEW s \in Sockets, NEW kind, NEW x, <<kind, x>> \in DownMessages,
           kind \notin {"ready", "frame", "error"}, Answers(s, kind, x)
    PROVE  Proceeds(Post(Host, s, kind, x), {})
<1> DEFINE g == Post(Host, s, kind, x)
<1>1. Becomes(g)
    BY DEF Answers
<1>2. g \in Hosts
    BY HostFacts, PostEffect
<1>3. /\ g.cast = Host.cast
      /\ \A t \in Sockets :
           g.down[t] = Host.down[t] \/ (t = s /\ g.down[t] = Append(Host.down[t], <<kind, x>>))
    BY HostFacts, PostDown
<1> HIDE DEF g
<1>4. Lawful(Host, g, {})
    BY <1>3 DEF Lawful, Onward, Held
<1>5. True(g, s, <<kind, x>>)
    BY DEF True
<1>6. Says(Host, g)
    BY <1>3, <1>5 DEF Says
<1> QED BY <1>1, <1>2, <1>4, <1>6 DEF Proceeds, g

\* A cast that has started and is unsubscribed does not run any more.
LEMMA CleanupProceeds ==
    ASSUME MobileInv, OrderInv, NEW q \in Casts, cast[q].at \in Started,
           Becomes(CleanupSubscription(Host, q))
    PROVE  LET g == CleanupSubscription(Host, q)
           IN  Proceeds(g, {}) /\ g.cast[q].at \notin Underway
<1>1. CASE cast[q].at \in OnPage
  <2> DEFINE g == Cancel(Host, q, TRUE)
  <2>1. g = CleanupSubscription(Host, q)
      BY <1>1, HostFacts DEF CleanupSubscription
  <2>2. Proceeds(g, {})
      BY <2>1, CancelProceeds
  <2>3. g.cast[q].at \in {"ending", "over"}
    <3>1. CASE "ended" \in cast[q].marks
      <4>1. cast[q].at \in {"ending", "over"}
          BY <3>1, HostFacts DEF OrderInv, Orderly, Finished
      <4> HIDE DEF g
      <4> QED BY <2>2, <4>1, HostFacts DEF Proceeds, Lawful, Onward
    <3>2. CASE "ended" \notin cast[q].marks
        BY <1>1, <3>2, HostFacts, CancelOrder
    <3> QED BY <3>1, <3>2
  <2> HIDE DEF g
  <2> QED BY <2>1, <2>2, <2>3 DEF Underway
<1>2. CASE cast[q].at \notin OnPage
  <2>1. CleanupSubscription(Host, q) = Host
      BY <1>2, HostFacts DEF CleanupSubscription
  <2>2. Proceeds(Host, {})
      BY <2>1, HostFacts DEF Proceeds, Lawful, Onward, Held, Says
  <2>3. cast[q].at = "over"
      BY <1>2 DEF Started, OnPage
  <2> QED BY <2>1, <2>2, <2>3, HostFacts DEF Underway
<1> QED BY <1>1, <1>2

LEMMA HostReceivesOrder ==
    ASSUME MobileInv, OrderInv, NEW s \in Sockets, HostReceives(s)
    PROVE  OrderInv'
<1> DEFINE kind == Head(up[s])[1]
           x == Head(up[s])[2]
<1>0. /\ up[s] # <<>> /\ up' = [up EXCEPT ![s] = Tail(@)]
      /\ UNCHANGED <<client, stream, rs, dead>>
    BY DEF HostReceives
<1>1. up \in [Sockets -> Seq(UpMessages)] /\ up[s] \in Seq(UpMessages)
    BY PhoneFacts
<1>2. Head(up[s]) \in UpMessages /\ Head(up[s]) = <<kind, x>> /\ In(up[s], <<kind, x>>)
  <2>1. Head(up[s]) \in UpMessages /\ In(up[s], Head(up[s]))
      BY <1>0, <1>1, TailKeeps
  <2>2. Head(up[s]) = <<kind, x>>
      BY <2>1 DEF UpMessages
  <2> QED BY <2>1, <2>2
<1>3. /\ \A t \in Sockets : t # s => up'[t] = up[t]
      /\ up'[s] = Tail(up[s]) /\ \A t \in Sockets : Left(up[t], up'[t])
  <2>1. Left(up[s], Tail(up[s])) /\ Tail(up[s]) \in Seq(UpMessages)
      BY <1>0, <1>1, LeftCases, TailKeeps
  <2>2. \A t \in Sockets : Left(up[t], up'[t])
      BY <1>0, <2>1, QueueKept
  <2> QED BY <1>0, <1>1, <2>2
<1>4. ASSUME NEW q, ws \in Sockets, In(up[ws], <<"unsubscribe", q>>), ~In(up'[ws], <<"unsubscribe", q>>)
      PROVE  s = ws /\ kind = "unsubscribe" /\ x = q
  <2>1. s = ws
      BY <1>3, <1>4
  <2>2. Head(up[s]) = <<"unsubscribe", q>>
      BY <1>0, <1>1, <1>3, <1>4, <2>1, TailOnly
  <2> QED BY <2>1, <2>2
<1>5. Carried(Phone) => ws \in Sockets
    BY PhoneFacts, Constants DEF Carried, CanSend
<1>6. client.state = "connected" => hostEnd[ws] \in {"ready", "closed"}
    BY PhoneFacts DEF Sound, Linked
<1> HIDE DEF kind, x
\* What remains to be shown of each message but the subscription.
<1>7. ASSUME NEW g, Proceeds(g, {}),
             \A q \in Casts : client.state = "connected" /\ s = ws /\ kind = "unsubscribe" /\ x = q
                                => g.cast[q].at \notin Underway
      PROVE  OrderInv'
  <2>1. \A q \in Casts : client.state = "connected" /\ Carried(Phone) /\ Socket(q) = ws
                              /\ In(up[ws], <<"unsubscribe", q>>) =>
               In(up'[ws], <<"unsubscribe", q>>) \/ g.cast[q].at \notin Underway
      BY <1>4, <1>5, <1>7
  <2> QED BY <1>0, <1>3, <1>7, <2>1, DesktopOrder
<1>8. ASSUME hostEnd[s] \in {"hello", "auth"}, NEW m \in Handshake, Answers(s, m, 0)
      PROVE  OrderInv'
  <2>1. <<m, 0>> \in DownMessages /\ m \notin {"ready", "frame", "error"}
      BY <1>8 DEF DownMessages, Handshake
  <2>2. Proceeds(Post(Host, s, m, 0), {})
      BY <1>8, <2>1, AnswerProceeds
  <2>3. ~(client.state = "connected" /\ s = ws)
      BY <1>6, <1>8
  <2> QED BY <1>7, <2>2, <2>3
<1>9. CASE kind = "subscribe" /\ Becomes(Starts(Host, <<x[1], s>>, x[2]))
  <2> DEFINE i == x[1]
             p == <<i, s>>
             g == Starts(Host, p, x[2])
  <2>1. i \in Streams /\ x[2] \in Pages /\ Asking(Head(up[s]), i)
    <3>1. x \in Streams \X Pages
        BY <1>2, <1>9 DEF UpMessages
    <3> QED BY <1>2, <1>9, <3>1 DEF Asking
  <2>2. p \in Casts /\ Stream(p) = i /\ Socket(p) = s
      BY <2>1, CastParts
  <2>3. Asked(up[s], i) /\ cast[p].at = "none"
    <3>1. Asked(up[s], i)
        BY <1>0, <1>1, <2>1, TailKeeps
    <3> QED BY <2>1, <3>1, PhoneFacts DEF Sound, Once
  <2>4. g \in Hosts /\ Lawful(Host, g, {p}) /\ Mute(Host, g)
      BY <2>1, <2>2, <2>3, HostFacts, StartsEvolves, StartsOrder DEF Evolves
  <2>5. Becomes(g)
      BY <1>9
  <2> HIDE DEF g, i
  <2>6. Proceeds(g, {p})
      BY <2>4, <2>5, MuteSays DEF Proceeds
  <2>7. \A q \in {p} : Asked(up[Socket(q)], Stream(q))
      BY <2>2, <2>3
  <2>8. \A q \in Casts : client.state = "connected" /\ Carried(Phone) /\ Socket(q) = ws
                              /\ In(up[ws], <<"unsubscribe", q>>) =>
               In(up'[ws], <<"unsubscribe", q>>) \/ g.cast[q].at \notin Underway
      BY <1>4, <1>5, <1>9
  <2> HIDE DEF p
  <2> QED BY <1>0, <1>3, <2>6, <2>7, <2>8, DesktopOrder
<1>10. CASE kind = "unsubscribe" /\ Becomes(CleanupSubscription(Host, x))
  <2>1. x \in Casts
      BY <1>2, <1>10 DEF UpMessages
  <2>2. cast[x].at \in Started
      BY <1>2, <1>10, <2>1, PhoneFacts DEF OrderInv, Tidy, Named
  <2>3. /\ Proceeds(CleanupSubscription(Host, x), {})
        /\ CleanupSubscription(Host, x).cast[x].at \notin Underway
      BY <1>10, <2>1, <2>2, CleanupProceeds
  <2> QED BY <1>7, <2>3
<1>11. CASE kind = "request" /\ Answers(s, "reply", x)
  <2>1. <<"reply", x>> \in DownMessages
      BY <1>2, <1>11 DEF UpMessages, DownMessages
  <2>2. Proceeds(Post(Host, s, "reply", x), {})
      BY <1>11, <2>1, AnswerProceeds
  <2> QED BY <1>7, <1>11, <2>2
<1>12. CASE kind = "request" /\ UNCHANGED hostVars
  <2>1. Becomes(Host)
      BY <1>12 DEF Becomes, Host, hostVars
  <2>2. Proceeds(Host, {})
      BY <2>1, HostFacts DEF Proceeds, Lawful, Onward, Held, Says
  <2> QED BY <1>7, <1>12, <2>2
<1>13. \/ hostEnd[s] \in {"hello", "auth"} /\ \E m \in Handshake : Answers(s, m, 0)
       \/ kind = "subscribe" /\ Becomes(Starts(Host, <<x[1], s>>, x[2]))
       \/ kind = "unsubscribe" /\ Becomes(CleanupSubscription(Host, x))
       \/ kind = "request" /\ Answers(s, "reply", x)
       \/ kind = "request" /\ UNCHANGED hostVars
  <2>1. \/ hostEnd[s] \in {"hello", "auth"}
              /\ (Answers(s, "e2ee_ready", 0) \/ Answers(s, "e2ee_authenticated", 0) \/ Answers(s, "e2ee_error", 0))
        \/ kind = "subscribe" /\ Becomes(Starts(Host, <<x[1], s>>, x[2]))
        \/ kind = "unsubscribe" /\ Becomes(CleanupSubscription(Host, x))
        \/ kind = "request" /\ Answers(s, "reply", x)
        \/ kind = "request" /\ UNCHANGED hostVars
      BY Zenon DEF HostReceives, kind, x
  <2> QED BY <2>1 DEF Handshake
<1> QED BY <1>8, <1>9, <1>10, <1>11, <1>12, <1>13

\* The order that the desktop refuses to read is lost, but the phone will hear of it.
LEMMA RejectsTokenOrder ==
    ASSUME MobileInv, OrderInv, NEW s \in Sockets, RejectsToken(s)
    PROVE  OrderInv'
<1> DEFINE g == Post(Host, s, "unauthorized", 0)
<1>1. /\ up[s] # <<>> /\ up' = [up EXCEPT ![s] = Tail(@)] /\ hostEnd[s] = "ready"
      /\ Answers(s, "unauthorized", 0) /\ UNCHANGED <<client, stream, rs, dead>>
    BY DEF RejectsToken
<1>2. Rejection = <<"unauthorized", 0>> /\ Rejection \in DownMessages
    BY DEF DownMessages, Rejection
<1>3. Proceeds(g, {})
    BY <1>1, <1>2, AnswerProceeds
<1>4. /\ \A t \in Sockets : t # s => up'[t] = up[t]
      /\ \A t \in Sockets : Left(up[t], up'[t])
  <2>1. up \in [Sockets -> Seq(UpMessages)] /\ up[s] \in Seq(UpMessages)
      BY PhoneFacts
  <2>2. Left(up[s], Tail(up[s])) /\ Tail(up[s]) \in Seq(UpMessages)
      BY <1>1, <2>1, LeftCases, TailKeeps
  <2>3. \A t \in Sockets : Left(up[t], up'[t])
      BY <1>1, <2>1, <2>2, QueueKept
  <2> QED BY <1>1, <2>1, <2>3
<1>5. rs[s] = "open" /\ s \notin dead => In(g.down[s], Rejection)
  <2> SUFFICES ASSUME rs[s] = "open", s \notin dead PROVE In(g.down[s], Rejection)
      OBVIOUS
  <2>1. g = [Host EXCEPT !.down[s] = Append(@, Rejection)]
      BY <1>1, <1>2 DEF Post
  <2>2. Host \in Hosts /\ Host.down[s] \in Seq(DownMessages)
      BY HostFacts DEF Hosts
  <2> HIDE DEF g
  <2>3. g.down[s] = Append(Host.down[s], Rejection)
      BY <2>1, <2>2 DEF Hosts
  <2> QED BY <1>2, <2>2, <2>3, InAppend
<1> HIDE DEF g
<1>6. Carried(Phone) /\ s = ws => In(g.down[ws], Rejection)
    BY <1>5, PhoneFacts DEF Carried, CanSend
<1>7. Carried(Phone) /\ s # ws => up'[ws] = up[ws]
    BY <1>4, PhoneFacts, Constants DEF Carried, CanSend
<1> QED BY <1>1, <1>3, <1>4, <1>6, <1>7, DesktopOrder

LEMMA HostClosesOrder ==
    ASSUME MobileInv, OrderInv, NEW s \in Sockets, HostCloses(s)
    PROVE  OrderInv'
<1> DEFINE on == {q \in Casts : Socket(q) = s /\ cast[q].at \in Registered}
<1>1. /\ IF on = {} THEN UNCHANGED hostVars ELSE Becomes(Cancel(Host, CHOOSE q \in on : TRUE, FALSE))
      /\ up' = [up EXCEPT ![s] = <<>>] /\ UNCHANGED <<rs, dead, client, stream>>
      /\ s \in dead \/ rs[s] = "closing"
    BY DEF HostCloses, HostClosed
<1>2. \E g : Proceeds(g, {})
  <2>1. CASE on = {}
    <3>1. Becomes(Host)
        BY <1>1, <2>1 DEF Becomes, Host, hostVars
    <3>2. Proceeds(Host, {})
        BY <3>1, HostFacts DEF Proceeds, Lawful, Onward, Held, Says
    <3> QED BY <3>2
  <2>2. CASE on # {}
    <3>1. (CHOOSE q \in on : TRUE) \in Casts
        BY <2>2
    <3> QED BY <1>1, <2>2, <3>1, CancelProceeds
  <2> QED BY <2>1, <2>2
<1>3. /\ \A t \in Sockets : t # s => up'[t] = up[t]
      /\ \A t \in Sockets : Left(up[t], up'[t])
  <2>1. up \in [Sockets -> Seq(UpMessages)]
      BY PhoneFacts
  <2>2. \A t \in Sockets : up'[t] = IF t = s THEN <<>> ELSE up[t]
      BY <1>1, <2>1
  <2> QED BY <2>1, <2>2, LeftCases
<1>4. Carried(Phone) => up'[ws] = up[ws]
  <2> SUFFICES ASSUME Carried(Phone) PROVE ws \in Sockets /\ ws # s
      BY <1>3
  <2> QED BY <1>1, PhoneFacts, Constants DEF Carried, CanSend
<1> QED BY <1>1, <1>2, <1>3, <1>4, DesktopOrder

LEMMA DesktopProceedsOrder ==
    ASSUME MobileInv, OrderInv, DesktopProceeds \/ PageFails \/ Streaming
    PROVE  OrderInv'
<1>1. CASE Resume /\ UNCHANGED <<client, stream>>
  <2>1. UNCHANGED <<client, stream, rs, dead, up>>
      BY <1>1 DEF Resume
  <2> QED BY <1>1, <2>1, ResumeProceeds, StretchOrder
<1>2. CASE HostStep \/ PageFails \/ Streaming
  <2>1. UNCHANGED <<client, stream>>
      BY <1>2 DEF HostStep, PageFails, Streaming
  <2>2. PICK p \in Casts : \/ Resolved(p) \/ Launched(p) \/ SessionDone(p) \/ LaunchFails(p)
                           \/ PageCloses(p) \/ reclaimBrowserForDesktop(p) \/ Frame(p)
      BY <1>2, Zenon DEF HostStep, PageFails, Streaming
  <2>3. UNCHANGED <<client, stream, rs, dead, up>>
      BY <2>1, <2>2 DEF Resolved, Launched, SessionDone, LaunchFails, PageCloses,
                        reclaimBrowserForDesktop, Frame
  <2> QED BY <2>2, <2>3, CastStepProceeds, StretchOrder
<1>3. CASE \E s \in Sockets : HostReceives(s) \/ HostCloses(s)
    BY <1>3, HostReceivesOrder, HostClosesOrder
<1> QED BY <1>1, <1>2, <1>3 DEF DesktopProceeds

LEMMA AppOrder ==
    ASSUME MobileInv, OrderInv, App
    PROVE  OrderInv'
<1>1. ASSUME NEW i \in Streams, Dispose(i)
      PROVE  OrderInv'
    BY <1>1, DisposeOrder
<1>2. ASSUME NEW i \in Streams, NEW page \in PagesOf[i], Subscribe(i, page)
      PROVE  OrderInv'
    BY <1>2, SubscribeOrder
<1>3. ASSUME NEW r \in Requests, CallRequest(r) \/ RequestTimeout(r)
      PROVE  OrderInv'
    BY <1>3, RequestOrder
<1>4. CASE Foreground \/ Close
    BY <1>4, RedialOrder, CloseOrder
<1> QED BY <1>1, <1>2, <1>3, <1>4 DEF App

LEMMA StepOrder ==
    ASSUME MobileInv, OrderInv, [Next]_vars
    PROVE  OrderInv'
<1>1. CASE DesktopProceeds \/ PageFails \/ Streaming
    BY <1>1, DesktopProceedsOrder
<1>2. CASE OnOpen \/ OnMessage \/ OnClose \/ ReconnectTimer
    BY <1>2, OnOpenOrder, OnMessageOrder, OnCloseOrder, RedialOrder
<1>3. CASE ConnectFails \/ LinkTimeout \/ LinkError \/ Break \/ Unpair
    BY <1>3, LostOrder, LinkTimeoutOrder, BreakOrder
<1>4. CASE App
    BY <1>4, AppOrder
<1>5. CASE \E s \in Sockets : RejectsToken(s)
    BY <1>5, RejectsTokenOrder
<1>6. CASE UNCHANGED vars
  <2>1. UNCHANGED <<hostVars, dead>> /\ PhoneBecomes(Phone)
      BY <1>6 DEF vars, phoneVars, hostVars, PhoneBecomes, Phone
  <2>2. Phone \in Phones /\ Tidy(Phone, down)
      BY PhoneFacts DEF Sound, OrderInv
  <2> QED BY <2>1, <2>2, CallbackOrder
<1> QED BY <1>1, <1>2, <1>3, <1>4, <1>5, <1>6 DEF Next, PhoneProceeds

LEMMA OrderInvHolds == Spec => [](MobileInv /\ OrderInv)
<1>1. Init => MobileInv /\ OrderInv
    BY InitSound, InitOrder
<1>2. MobileInv /\ OrderInv /\ [Next]_vars => (MobileInv /\ OrderInv)'
    BY StepKeeps, StepOrder
<1> QED BY <1>1, <1>2, PTL DEF Spec

\* rpc-client.ts, subscribe: the view that is shown gets no frame of another one, unless
\* that one's cast was admitted after a newer one: however many connections break, streams
\* are disposed of and casts wait for each other.
THEOREM FramesAreOwn == Spec => []FramesReachOwnStream
<1>1. MobileInv /\ OrderInv => FramesReachOwnStream
  <2> SUFFICES ASSUME MobileInv, OrderInv, ws # NoSocket, down[ws] # <<>>,
                      client.active # NoStream, NEW i \in Streams,
                      Head(down[ws]) = <<"frame", i>>, client.active # i
               PROVE  Late(<<i, ws>>)
      BY DEF FramesReachOwnStream
  <2> DEFINE k == client.active
             q == <<i, ws>>
  <2>1. Phone.client = client /\ Phone.client.ws = ws /\ ws \in Sockets /\ k \in Streams
      BY PhoneFacts, Constants DEF Clients
  <2>2. In(down[ws], <<"frame", i>>)
    <3>1. down[ws] \in Seq(DownMessages)
        BY <2>1, HostFacts
    <3> QED BY <3>1, TailKeeps
  <2>3. CASE i < k
      BY <2>1, <2>2, <2>3 DEF OrderInv, Tidy, Tuned
  \* A newer cast has not begun, and so has no frame on its way.
  <2>4. CASE k < i
    <3>1. k \in {Phone.client.active, Phone.client.pending} \ {NoStream}
        BY <2>1
    <3>2. cast[q].at = "none"
        BY <2>1, <2>4, <3>1 DEF OrderInv, Tidy, Newer, Untouched
    <3>3. q \in Casts /\ Stream(q) = i /\ Socket(q) = ws
        BY <2>1, CastParts
    <3>4. cast[q].at \in Started
      <4> HIDE DEF q
      <4> QED BY <2>2, <3>3, HostFacts DEF OrderInv, Orderly, Spoken
    <3> QED BY <3>2, <3>4 DEF Started
  <2>5. i < k \/ k < i
    <3>1. i \in Nat /\ k \in Nat /\ i # k
        BY <2>1, CastAssumption
    <3> HIDE DEF k
    <3> QED BY <3>1
  <2> QED BY <2>3, <2>4, <2>5
<1> QED BY <1>1, OrderInvHolds, PTL

\* rpc-client.ts and browser-screencast.ts: a cast that runs on the phone's connection
\* belongs to a listener, or the order to end it is on its way, or the news that makes the
\* phone give the connection up; unless its stream was disposed of under the subscription
\* id of an earlier connection.
THEOREM NoCastIsOrphaned == Spec => []NoOrphanCast
<1>1. MobileInv /\ OrderInv => NoOrphanCast
  <2> SUFFICES ASSUME MobileInv, OrderInv, client.state = "connected", rs[ws] = "open",
                      ws \notin dead, NEW i \in Streams, cast[<<i, ws>>].at = "running",
                      stream[i].st \notin {"live", "tomb"}, stream[i].sub \in {NoSocket, ws},
                      <<"unauthorized", 0>> \notin ToSet(down[ws])
               PROVE  <<"unsubscribe", <<i, ws>>>> \in ToSet(up[ws])
      BY DEF NoOrphanCast
  <2>1. /\ Phone.client = client /\ Phone.client.ws = ws /\ Phone.stream = stream
        /\ Phone.up = up /\ Phone.rs = rs /\ Sound(Phone)
      BY PhoneFacts
  <2>2. ws \in Sockets /\ ws # NoSocket
      BY <2>1, PhoneFacts, Constants DEF Sound, Linked, Alive
  <2>3. Loose(Phone, i)
    <3>1. ~In(down[ws], Rejection)
        BY DEF In, ToSet, Rejection
    <3> QED BY <2>1, <2>2, <3>1 DEF OrderInv, Tidy, Known, Carried, Rejected, CanSend
  <2>4. In(up[ws], <<"unsubscribe", <<i, ws>>>>)
      BY <2>1, <2>3 DEF Loose, Underway
  <2>5. up[ws] \in Seq(UpMessages)
      BY <2>2, PhoneFacts
  <2> QED BY <2>4, <2>5 DEF In, ToSet
<1> QED BY <1>1, OrderInvHolds, PTL
=============================================================================
