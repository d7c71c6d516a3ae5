------------------------- MODULE EventStreamProofs -------------------------
(***************************************************************************)
(* Proofs that a client of GET /v1/runs/{id}/events gets no event twice,   *)
(* none out of turn, and misses none but those its full channel dropped or *)
(* whose publication raced with its subscription: NoEventTwice and         *)
(* StreamInvariant of EventStream, for any number of publishers, clients   *)
(* and events, any channel, and any overlap of them.                       *)
(***************************************************************************)
EXTENDS EventStream, TLAPS

-----------------------------------------------------------------------------
(* The inductive invariant *)

\* An element of a sequence; a sequence without repetitions; and one in which
\* nothing follows an event whose publication began when its own was over.
In(e, s)     == \E i \in 1 .. Len(s) : s[i] = e
OnceEach(s)  == \A i, j \in 1 .. Len(s) : s[i] = s[j] => i = j
InTurn(b, s) == \A i, j \in 1 .. Len(s) : i < j => s[j] \notin b[s[i]]

\* A publisher at work, on which event, before its Publish, before its append,
\* and for whom.
Jobs         == [ev : Events, stage : Stages, todo : Seq(Clients)]
Active(p)    == job[p] # Idle
Ev(p)        == job[p].ev
Collecting(p) == job[p] # Idle /\ job[p].stage = "collect"
Appending(p) == job[p] # Idle /\ job[p].stage # "deliver"
Todo(p)      == job[p].todo
Owes(p, c)   == job[p] # Idle /\ In(c, job[p].todo)
Out(e)       == e < next /\ \A p \in Publishers : Collecting(p) => Ev(p) # e

StreamTypes ==
    /\ next \in 1 .. NumEvents + 1
    /\ stamp \in [Events -> Nat]
    /\ job \in [Publishers -> {Idle} \cup Jobs]
    /\ all \in Seq(Clients)
    /\ log \in Seq(Events)
    /\ stream \in [Clients -> StreamStates]
    /\ from \in [Clients -> 0 .. NumEvents]
    /\ history \in [Clients -> Seq(Events)]
    /\ events \in [Clients -> Seq(Events)]
    /\ seen \in [Clients -> SUBSET Events]
    /\ sent \in [Clients -> Seq(Events)]
    /\ dropped \in [Clients -> SUBSET Events]
    /\ early \in [Clients -> SUBSET Events]
    /\ racing \in [Clients -> SUBSET Events]
    /\ before \in [Events -> SUBSET Events]
    /\ \A c \in Clients : Len(events[c]) <= sseChannelBuffer

\* Publishers work on different events, whose stamps never fall, and what is in
\* progress was over before nothing.
Publishing ==
    /\ \A p \in Publishers : Active(p) => Ev(p) < next /\ OnceEach(Todo(p))
    /\ \A p, q \in Publishers : Active(p) /\ Active(q) /\ Ev(p) = Ev(q) => p = q
    /\ \A e, f \in Events : f \in before[e] =>
          e < next /\ f < e /\ \A p \in Publishers : Active(p) => Ev(p) # f
    /\ \A e, f \in Events : e < f /\ f < next => stamp[e] <= stamp[f]

\* The store has published events, once each, in turn, and none whose publisher
\* is still about to append it.
Stored ==
    /\ \A i \in 1 .. Len(log) : log[i] < next
    /\ OnceEach(log)
    /\ InTurn(before, log)
    /\ \A p \in Publishers : Appending(p) => ~In(Ev(p), log)

\* The bus lists the open streams, once each.
Membership ==
    /\ OnceEach(all)
    /\ \A c \in Clients : In(c, all) <=> Subscribed(c)

\* Nothing has come to a stream that has not subscribed, and nothing has been
\* replayed or written before its snapshot is taken.
Unheard(c) == stream[c] \in {"idle", "accepted"}

Begun(c) ==
    /\ \A e \in early[c] : Out(e)
    /\ Unheard(c) => events[c] = <<>> /\ \A p \in Publishers : ~Owes(p, c)
    /\ Unheard(c) \/ stream[c] = "loading" =>
          history[c] = <<>> /\ sent[c] = <<>> /\ seen[c] = {}
    /\ stream[c] = "live" => history[c] = <<>>

\* An event is on one way to a client: in what is left to replay, with its
\* publisher, in the channel, or written; the overlap with the replay is seen.
OneWay(c) ==
    /\ OnceEach(events[c])
    /\ OnceEach(sent[c])
    /\ \A e \in seen[c] : In(e, sent[c])
    /\ \A p \in Publishers : Owes(p, c) => ~In(Ev(p), events[c])
    /\ \A p \in Publishers : Owes(p, c) /\ In(Ev(p), sent[c]) => Ev(p) \in seen[c]
    /\ \A e \in Events : In(e, events[c]) /\ In(e, sent[c]) => e \in seen[c]

Replayed(c) ==
    stream[c] = "replaying" =>
       /\ OnceEach(history[c])
       /\ \A e \in Events : In(e, history[c]) => In(e, log) /\ ~In(e, sent[c])
       /\ \A e \in Events : In(e, sent[c]) => e \in seen[c]

\* What a client names is stored; neither that nor what it came too late for
\* comes live; and of what the store has up to there nothing else comes at all.
Old(c, e) == \E i, j \in 1 .. Len(log) : i <= j /\ log[j] = from[c] /\ log[i] = e

Gone(c, e) == e \in early[c] \/ e = from[c]

Past(c) ==
    /\ from[c] # 0 => In(from[c], log)
    /\ \A e \in Events : Gone(c, e) =>
          ~In(e, events[c]) /\ \A p \in Publishers : Owes(p, c) => Ev(p) # e
    /\ \A e \in Events : Old(c, e) =>
          /\ stream[c] = "replaying" => ~In(e, history[c])
          /\ Gone(c, e) => ~In(e, sent[c])

\* What has come to a stream is published and past its append.
Known(c) ==
    \A e \in Events : In(e, events[c]) \/ In(e, sent[c]) =>
       /\ e < next
       /\ \A p \in Publishers : Appending(p) => Ev(p) # e

\* Publications a stream is too late for raced with its subscription.
Late(c) ==
    Subscribed(c) =>
       \A p \in Publishers : Active(p) /\ Ev(p) \in early[c] => Ev(p) \in racing[c]

\* Whether an event has reached a stream or still will, or was dropped.
Comes(c, e) ==
    \/ In(e, sent[c]) \/ In(e, history[c]) \/ In(e, events[c]) \/ e \in dropped[c]
    \/ \E p \in Publishers : Owes(p, c) /\ Ev(p) = e

After(c, e) == \E i, j \in 1 .. Len(log) : j < i /\ log[j] = from[c] /\ log[i] = e

Seam(c) ==
    /\ Subscribed(c) => \A e \in Events : Out(e) /\ e \notin early[c] => Comes(c, e)
    /\ (from[c] # 0 /\ stream[c] \in {"replaying", "live"}) =>
          \A e \in Events : After(c, e) => Comes(c, e) \/ e \in racing[c]

\* The snapshot is in turn, and complete: of what the channel holds it has every
\* stored event that was over before one of its own, but for what is stored
\* behind the named one.
Snapshot(c) ==
    /\ stream[c] = "replaying" =>
          /\ InTurn(before, history[c])
          /\ \A x, e \in Events : In(x, sent[c]) /\ In(e, history[c]) => e \notin before[x]
    /\ stream[c] \in {"replaying", "live"} =>
          \A x, e \in Events :
             (/\ x \in seen[c] \/ In(x, history[c])
              /\ In(e, events[c]) /\ In(e, log) /\ e \in before[x])
             => e \in seen[c] \/ In(e, history[c]) \/ Old(c, e)

Channel(c) ==
    /\ InTurn(before, events[c])
    /\ \A x, e \in Events : In(x, sent[c]) /\ x \notin seen[c] /\ In(e, events[c]) => e \notin before[x]

SentInTurn(c) ==
    \A x, e \in Events : \A i, j \in 1 .. Len(sent[c]) :
       i < j /\ sent[c][i] = x /\ sent[c][j] = e /\ In(x, log) /\ In(e, log) /\ ~Old(c, e)
          => e \notin before[x]

Client(c) ==
    /\ Begun(c) /\ OneWay(c) /\ Replayed(c) /\ Past(c) /\ Known(c) /\ Late(c)
    /\ Seam(c) /\ Snapshot(c) /\ Channel(c) /\ SentInTurn(c)

StreamInd == StreamTypes /\ Publishing /\ Stored /\ Membership /\ \A c \in Clients : Client(c)

-----------------------------------------------------------------------------
(* Sequences *)

\* What a channel holds after a send.
LEMMA AppendFacts ==
    ASSUME NEW S, NEW s \in Seq(S), NEW e \in S
    PROVE  /\ Append(s, e) \in Seq(S)
           /\ Len(Append(s, e)) = Len(s) + 1
           /\ \A i \in 1 .. Len(s) : Append(s, e)[i] = s[i]
           /\ Append(s, e)[Len(s) + 1] = e
           /\ \A x : In(x, Append(s, e)) <=> In(x, s) \/ x = e
<1>1. /\ Append(s, e) \in Seq(S)
      /\ Len(Append(s, e)) = Len(s) + 1
      /\ \A i \in 1 .. Len(s) : Append(s, e)[i] = s[i]
      /\ Append(s, e)[Len(s) + 1] = e
  OBVIOUS
<1>2. Len(s) \in Nat
  OBVIOUS
<1> HIDE DEF In
<1>3. \A x : In(x, Append(s, e)) <=> In(x, s) \/ x = e
  <2> DEFINE t == Append(s, e)
  <2> HIDE DEF t
  <2>1. Len(t) = Len(s) + 1 /\ (\A i \in 1 .. Len(s) : t[i] = s[i]) /\ t[Len(s) + 1] = e
    BY <1>1 DEF t
  <2>2. \A x : In(x, t) <=> In(x, s) \/ x = e
    BY <2>1, <1>2 DEF In
  <2> QED
    BY <2>2 DEF t
<1> QED
  BY <1>1, <1>3

\* What a send does to a channel without repetitions.
LEMMA AppendOnce ==
    ASSUME NEW S, NEW s \in Seq(S), NEW e \in S, OnceEach(s), ~In(e, s)
    PROVE  OnceEach(Append(s, e))
<1> DEFINE t == Append(s, e)
<1>1. Len(t) = Len(s) + 1 /\ (\A i \in 1 .. Len(s) : t[i] = s[i]) /\ t[Len(s) + 1] = e
  BY AppendFacts
<1>2. Len(s) \in Nat
  OBVIOUS
<1> HIDE DEF t
<1>3. OnceEach(t)
  BY <1>1, <1>2 DEF OnceEach, In
<1> QED
  BY <1>3 DEF t

\* What a receive takes out, and what it leaves.
LEMMA TailFacts ==
    ASSUME NEW S, NEW s \in Seq(S), s # <<>>
    PROVE  /\ Head(s) \in S /\ In(Head(s), s) /\ Head(s) = s[1]
           /\ Tail(s) \in Seq(S)
           /\ Len(s) \in Nat \ {0}
           /\ Len(Tail(s)) = Len(s) - 1
           /\ \A i \in 1 .. Len(s) - 1 : Tail(s)[i] = s[i + 1]
           /\ \A x : In(x, s) <=> In(x, Tail(s)) \/ x = Head(s)
<1>1. /\ Head(s) \in S /\ Head(s) = s[1]
      /\ Tail(s) \in Seq(S)
      /\ Len(s) \in Nat \ {0}
      /\ Len(Tail(s)) = Len(s) - 1
      /\ \A i \in 1 .. Len(s) - 1 : Tail(s)[i] = s[i + 1]
  OBVIOUS
<1>2. In(Head(s), s)
  BY <1>1 DEF In
<1>3. \A x : In(x, s) <=> In(x, Tail(s)) \/ x = Head(s)
  <2> DEFINE t == Tail(s)  h == Head(s)
  <2> HIDE DEF t, h
  <2>1. Len(t) = Len(s) - 1 /\ (\A i \in 1 .. Len(s) - 1 : t[i] = s[i + 1]) /\ h = s[1]
    BY <1>1 DEF t, h
  <2>2. ASSUME NEW x, In(x, s) PROVE In(x, t) \/ x = h
    <3>1. PICK i \in 1 .. Len(s) : s[i] = x
      BY <2>2 DEF In
    <3>2. CASE i = 1
      BY <3>1, <3>2, <2>1
    <3>3. CASE i # 1
      <4>1. i - 1 \in 1 .. Len(t) /\ t[i - 1] = x
        BY <3>1, <3>3, <2>1, <1>1
      <4> QED
        BY <4>1 DEF In
    <3> QED
      BY <3>2, <3>3
  <2>3. ASSUME NEW x, In(x, t) \/ x = h PROVE In(x, s)
    BY <2>1, <2>3, <1>1 DEF In
  <2> QED
    BY <2>2, <2>3 DEF t, h
<1> QED
  BY <1>1, <1>2, <1>3

\* A receive from a channel without repetitions takes its event out for good.
LEMMA TailOnce ==
    ASSUME NEW S, NEW s \in Seq(S), s # <<>>, OnceEach(s)
    PROVE  OnceEach(Tail(s)) /\ ~In(Head(s), Tail(s))
<1> DEFINE t == Tail(s)  h == Head(s)
<1>1. /\ Len(t) = Len(s) - 1 /\ (\A i \in 1 .. Len(s) - 1 : t[i] = s[i + 1]) /\ h = s[1]
      /\ Len(s) \in Nat \ {0}
  BY TailFacts
<1> HIDE DEF t, h
<1>2. OnceEach(t)
  BY <1>1 DEF OnceEach
<1>3. ~In(h, t)
  BY <1>1 DEF OnceEach, In
<1> QED
  BY <1>2, <1>3 DEF t, h

\* An empty sequence has no elements.
LEMMA EmptyFacts ==
    /\ \A x : ~In(x, <<>>)
    /\ OnceEach(<<>>)
    /\ \A b : InTurn(b, <<>>)
BY DEF In, OnceEach, InTurn

\* The rest of a sequence, as the replay takes it from the log.
LEMMA RestFacts ==
    ASSUME NEW S, NEW s \in Seq(S), NEW i \in 1 .. Len(s)
    PROVE  /\ SubSeq(s, i + 1, Len(s)) \in Seq(S)
           /\ Len(SubSeq(s, i + 1, Len(s))) = Len(s) - i
           /\ \A k \in 1 .. Len(s) - i : SubSeq(s, i + 1, Len(s))[k] = s[i + k]
           /\ \A x : In(x, SubSeq(s, i + 1, Len(s))) <=> \E k \in i + 1 .. Len(s) : s[k] = x
<1>1. /\ SubSeq(s, i + 1, Len(s)) \in Seq(S)
      /\ Len(SubSeq(s, i + 1, Len(s))) = Len(s) - i
      /\ Len(s) \in Nat /\ i \in Nat /\ i <= Len(s) /\ i >= 1
  OBVIOUS
<1>2. \A k \in 1 .. Len(s) - i : SubSeq(s, i + 1, Len(s))[k] = s[i + k]
  BY <1>1
<1> DEFINE t == SubSeq(s, i + 1, Len(s))
<1>3. Len(t) = Len(s) - i /\ (\A k \in 1 .. Len(s) - i : t[k] = s[i + k])
  BY <1>1, <1>2
<1> HIDE DEF t
<1>4. ASSUME NEW x, In(x, t) PROVE \E k \in i + 1 .. Len(s) : s[k] = x
  <2>1. PICK k \in 1 .. Len(t) : t[k] = x
    BY <1>4 DEF In
  <2>2. i + k \in i + 1 .. Len(s) /\ s[i + k] = x
    BY <2>1, <1>3, <1>1
  <2> QED
    BY <2>2
<1>5. ASSUME NEW x, NEW k \in i + 1 .. Len(s), s[k] = x PROVE In(x, t)
  <2>1. k - i \in 1 .. Len(t) /\ t[k - i] = x
    BY <1>5, <1>3, <1>1
  <2> QED
    BY <2>1 DEF In
<1> QED
  BY <1>1, <1>2, <1>4, <1>5 DEF t

\* removeByID cuts one subscription out of the list and keeps the others.
LEMMA CutFacts ==
    ASSUME NEW S, NEW s \in Seq(S), NEW i \in 1 .. Len(s), OnceEach(s)
    PROVE  /\ SubSeq(s, 1, i - 1) \o SubSeq(s, i + 1, Len(s)) \in Seq(S)
           /\ OnceEach(SubSeq(s, 1, i - 1) \o SubSeq(s, i + 1, Len(s)))
           /\ \A x : In(x, SubSeq(s, 1, i - 1) \o SubSeq(s, i + 1, Len(s)))
                        <=> In(x, s) /\ x # s[i]
<1> DEFINE a == SubSeq(s, 1, i - 1)  b == SubSeq(s, i + 1, Len(s))  t == a \o b
<1>0. Len(s) \in Nat /\ i \in Nat /\ i <= Len(s) /\ i >= 1
  OBVIOUS
<1>1. a \in Seq(S) /\ Len(a) = i - 1 /\ \A k \in 1 .. i - 1 : a[k] = s[k]
  BY <1>0
<1>2. b \in Seq(S) /\ Len(b) = Len(s) - i /\ \A k \in 1 .. Len(s) - i : b[k] = s[i + k]
  BY RestFacts
<1> HIDE DEF a, b
<1>3. t \in Seq(S) /\ Len(t) = Len(s) - 1
  <2>1. \A u, v \in Seq(S) : u \o v \in Seq(S) /\ Len(u \o v) = Len(u) + Len(v)
    OBVIOUS
  <2>2. t \in Seq(S) /\ Len(t) = Len(a) + Len(b)
    BY <2>1, <1>1, <1>2
  <2> QED
    BY <2>2, <1>1, <1>2, <1>0
<1>4. \A k \in 1 .. Len(s) - 1 : t[k] = IF k < i THEN s[k] ELSE s[k + 1]
  <2> SUFFICES ASSUME NEW k \in 1 .. Len(s) - 1 PROVE t[k] = IF k < i THEN s[k] ELSE s[k + 1]
    OBVIOUS
  <2>1. CASE k < i
    BY <2>1, <1>0, <1>1, <1>2
  <2>2. CASE ~(k < i)
    <3>1. t[k] = b[k - (i - 1)]
      BY <2>2, <1>0, <1>1, <1>2
    <3>2. k - (i - 1) \in 1 .. Len(s) - i /\ i + (k - (i - 1)) = k + 1
      BY <2>2, <1>0
    <3> QED
      BY <3>1, <3>2, <1>2, <2>2
  <2> QED
    BY <2>1, <2>2
<1> HIDE DEF t
<1>5. OnceEach(t)
  BY <1>0, <1>3, <1>4 DEF OnceEach
<1>6. ASSUME NEW x, In(x, t) PROVE In(x, s) /\ x # s[i]
  BY <1>6, <1>0, <1>3, <1>4 DEF In, OnceEach
<1>7. ASSUME NEW x, In(x, s), x # s[i] PROVE In(x, t)
  <2>1. PICK k \in 1 .. Len(s) : s[k] = x /\ k # i
    BY <1>7 DEF In
  <2>2. CASE k < i
    <3>1. k \in 1 .. Len(t) /\ t[k] = x
      BY <2>1, <2>2, <1>0, <1>3, <1>4
    <3> QED
      BY <3>1 DEF In
  <2>3. CASE k > i
    <3>1. k - 1 \in 1 .. Len(t) /\ t[k - 1] = x
      BY <2>1, <2>3, <1>0, <1>3, <1>4
    <3> QED
      BY <3>1 DEF In
  <2> QED
    BY <2>1, <2>2, <2>3, <1>0
<1> QED
  BY <1>3, <1>5, <1>6, <1>7 DEF t, a, b

-----------------------------------------------------------------------------
(* What the publishers' steps do to their jobs *)

\* A job that is left alone.
Same(q) ==
    /\ Active(q)' <=> Active(q)
    /\ Appending(q)' <=> Appending(q)
    /\ Collecting(q)' <=> Collecting(q)
    /\ Ev(q)' = Ev(q)
    /\ Todo(q)' = Todo(q)

\* A publisher at work has an event and a list of streams.
LEMMA JobTypes ==
    ASSUME StreamTypes, NEW p \in Publishers, Active(p)
    PROVE  job[p] \in Jobs /\ Ev(p) \in Events /\ Todo(p) \in Seq(Clients)
BY DEF StreamTypes, Active, Ev, Todo, Jobs

\* A job as a record is not the idle one.
LEMMA JobIsActive ==
    ASSUME NEW e \in Events, NEW g \in Stages, NEW s \in Seq(Clients)
    PROVE  /\ [ev |-> e, stage |-> g, todo |-> s] \in Jobs
           /\ [ev |-> e, stage |-> g, todo |-> s] # Idle
BY StreamAssumption DEF Jobs

\* A publisher that has not moved.
LEMMA SameJob ==
    ASSUME NEW q, job'[q] = job[q]
    PROVE  Same(q)
BY DEF Same, Active, Appending, Collecting, Ev, Todo

\* An event is created.
LEMMA CreateView ==
    ASSUME StreamTypes, NEW p \in Publishers, Create(p)
    PROVE  /\ ~Active(p) /\ Active(p)' /\ Appending(p)' /\ Collecting(p)'
           /\ Ev(p)' = next /\ Todo(p)' = <<>>
           /\ next \in Events
           /\ job' \in [Publishers -> {Idle} \cup Jobs]
           /\ \A q \in Publishers : q # p => Same(q)
<1>1. next \in Events
  BY StreamAssumption DEF Create, StreamTypes, Events
<1> DEFINE n == <<>>
<1>0. n \in Seq(Clients) /\ n = <<>>
  OBVIOUS
<1> HIDE DEF n
<1> DEFINE r == [ev |-> next, stage |-> "collect", todo |-> n]
<1>2. job \in [Publishers -> {Idle} \cup Jobs]
  BY DEF StreamTypes
<1>3. r \in Jobs /\ r # Idle
  BY <1>0, <1>1, JobIsActive DEF Stages
<1>4. job' = [job EXCEPT ![p] = r] /\ job[p] = Idle
  BY <1>0 DEF Create
<1>5. r.ev = next /\ r.stage = "collect" /\ r.todo = n
  OBVIOUS
<1> HIDE DEF r
<1>6. job'[p] = r /\ \A q \in Publishers : q # p => job'[q] = job[q]
  BY <1>2, <1>4
<1>7. job' \in [Publishers -> {Idle} \cup Jobs]
  BY <1>2, <1>3, <1>4
<1>8. ~Active(p) /\ Active(p)' /\ Appending(p)' /\ Collecting(p)' /\ Ev(p)' = next /\ Todo(p)' = n
  BY <1>3, <1>4, <1>5, <1>6 DEF Active, Appending, Collecting, Ev, Todo
<1> QED
  BY <1>0, <1>1, <1>6, <1>7, <1>8, SameJob

\* Publish collects its handlers.
LEMMA CollectView ==
    ASSUME StreamTypes, NEW p \in Publishers, Collect(p)
    PROVE  /\ Active(p) /\ Appending(p) /\ Collecting(p)
           /\ Active(p)' /\ Appending(p)' /\ ~Collecting(p)'
           /\ Ev(p)' = Ev(p) /\ Todo(p)' = all
           /\ job' \in [Publishers -> {Idle} \cup Jobs]
           /\ \A q \in Publishers : q # p => Same(q)
<1>1. Active(p) /\ Appending(p) /\ Collecting(p)
  BY DEF Collect, Active, Appending, Collecting
<1>2. job \in [Publishers -> {Idle} \cup Jobs] /\ all \in Seq(Clients)
  BY DEF StreamTypes
<1>3. job[p] \in Jobs
  BY <1>1, JobTypes
<1> DEFINE r == [ev |-> job[p].ev, stage |-> "append", todo |-> all]
<1>4. job' = [job EXCEPT ![p] = r]
  BY DEF Collect
<1>5. r.ev = job[p].ev /\ r.stage = "append" /\ r.todo = all
  OBVIOUS
<1>6. r \in Jobs /\ r # Idle
  <2>1. job[p].ev \in Events
    BY <1>3 DEF Jobs
  <2> QED
    BY <2>1, <1>2, JobIsActive DEF Stages
<1> HIDE DEF r
<1>7. job'[p] = r /\ \A q \in Publishers : q # p => job'[q] = job[q]
  BY <1>2, <1>4
<1>8. job' \in [Publishers -> {Idle} \cup Jobs]
  BY <1>2, <1>6, <1>4
<1>9. Active(p)' /\ Appending(p)' /\ ~Collecting(p)' /\ Ev(p)' = Ev(p) /\ Todo(p)' = all
  BY <1>5, <1>6, <1>7 DEF Active, Appending, Collecting, Ev, Todo
<1> QED
  BY <1>1, <1>7, <1>8, <1>9, SameJob

\* The store's handler returns.
LEMMA AppendView ==
    ASSUME StreamTypes, NEW p \in Publishers, Append_(p)
    PROVE  /\ Active(p) /\ Appending(p) /\ Active(p)' /\ ~Appending(p)'
           /\ ~Collecting(p) /\ ~Collecting(p)'
           /\ Ev(p)' = Ev(p) /\ Todo(p)' = Todo(p)
           /\ job' \in [Publishers -> {Idle} \cup Jobs]
           /\ \A q \in Publishers : q # p => Same(q)
<1>1. Active(p) /\ Appending(p) /\ ~Collecting(p)
  BY DEF Append_, Active, Appending, Collecting
<1>2. job \in [Publishers -> {Idle} \cup Jobs]
  BY DEF StreamTypes
<1>3. job[p] \in Jobs
  BY <1>1, JobTypes
<1> DEFINE r == [job[p] EXCEPT !.stage = "deliver"]
<1>4. job' = [job EXCEPT ![p] = r]
  BY DEF Append_
<1>5. /\ r.ev = job[p].ev /\ r.stage = "deliver" /\ r.todo = job[p].todo
      /\ r = [ev |-> job[p].ev, stage |-> "deliver", todo |-> job[p].todo]
  BY <1>3 DEF Jobs
<1>6. r \in Jobs /\ r # Idle
  <2>1. job[p].ev \in Events /\ job[p].todo \in Seq(Clients)
    BY <1>3 DEF Jobs
  <2> QED
    BY <2>1, <1>5, JobIsActive DEF Stages
<1> HIDE DEF r
<1>7. job'[p] = r /\ \A q \in Publishers : q # p => job'[q] = job[q]
  BY <1>2, <1>4
<1>8. job' \in [Publishers -> {Idle} \cup Jobs]
  BY <1>2, <1>6, <1>4
<1>9. Active(p)' /\ ~Appending(p)' /\ ~Collecting(p)' /\ Ev(p)' = Ev(p) /\ Todo(p)' = Todo(p)
  BY <1>5, <1>6, <1>7 DEF Active, Appending, Collecting, Ev, Todo
<1> QED
  BY <1>1, <1>7, <1>8, <1>9, SameJob

\* One stream's handler has been called.
LEMMA DeliverView ==
    ASSUME StreamTypes, NEW p \in Publishers, Deliver(p)
    PROVE  /\ Active(p) /\ ~Appending(p) /\ Todo(p) # <<>>
           /\ ~Collecting(p) /\ ~Collecting(p)'
           /\ Active(p)' /\ ~Appending(p)' /\ Ev(p)' = Ev(p) /\ Todo(p)' = Tail(Todo(p))
           /\ job' \in [Publishers -> {Idle} \cup Jobs]
           /\ \A q \in Publishers : q # p => Same(q)
<1>1. Active(p) /\ ~Appending(p) /\ ~Collecting(p) /\ Todo(p) # <<>>
  BY DEF Deliver, Active, Appending, Collecting, Todo
<1>2. job \in [Publishers -> {Idle} \cup Jobs]
  BY DEF StreamTypes
<1>3. job[p] \in Jobs /\ job[p].stage = "deliver"
  BY <1>1, JobTypes DEF Deliver
<1> DEFINE r == [job[p] EXCEPT !.todo = Tail(job[p].todo)]
<1>4. job' = [job EXCEPT ![p] = r]
  BY DEF Deliver
<1>5. /\ r.ev = job[p].ev /\ r.stage = "deliver" /\ r.todo = Tail(job[p].todo)
      /\ r = [ev |-> job[p].ev, stage |-> "deliver", todo |-> Tail(job[p].todo)]
  <2> DEFINE d == Tail(job[p].todo)
  <2> HIDE DEF d
  <2>1. LET u == [job[p] EXCEPT !.todo = d]
        IN  /\ u.ev = job[p].ev /\ u.stage = "deliver" /\ u.todo = d
            /\ u = [ev |-> job[p].ev, stage |-> "deliver", todo |-> d]
    BY <1>3 DEF Jobs
  <2> QED
    BY <2>1 DEF d
<1>6. r \in Jobs /\ r # Idle
  <2>1. job[p].ev \in Events /\ job[p].todo \in Seq(Clients)
    BY <1>3 DEF Jobs
  <2>2. Tail(job[p].todo) \in Seq(Clients)
    BY <2>1, <1>1, TailFacts DEF Todo
  <2> QED
    BY <2>1, <2>2, <1>5, JobIsActive DEF Stages
<1> HIDE DEF r
<1>7. job'[p] = r /\ \A q \in Publishers : q # p => job'[q] = job[q]
  BY <1>2, <1>4
<1>8. job' \in [Publishers -> {Idle} \cup Jobs]
  BY <1>2, <1>6, <1>4
<1>9. Active(p)' /\ ~Appending(p)' /\ ~Collecting(p)' /\ Ev(p)' = Ev(p) /\ Todo(p)' = Tail(Todo(p))
  BY <1>5, <1>6, <1>7 DEF Active, Appending, Collecting, Ev, Todo
<1> QED
  BY <1>1, <1>7, <1>8, <1>9, SameJob

\* Publish returns.
LEMMA ReturnView ==
    ASSUME StreamTypes, NEW p \in Publishers, PublishReturns(p)
    PROVE  /\ Active(p) /\ Todo(p) = <<>> /\ ~Active(p)' /\ ~Appending(p)'
           /\ ~Collecting(p) /\ ~Collecting(p)'
           /\ job' \in [Publishers -> {Idle} \cup Jobs]
           /\ \A q \in Publishers : q # p => Same(q)
<1>1. Active(p) /\ Todo(p) = <<>> /\ ~Collecting(p)
  BY DEF PublishReturns, Active, Collecting, Todo
<1>2. job \in [Publishers -> {Idle} \cup Jobs] /\ job' = [job EXCEPT ![p] = Idle]
  BY DEF StreamTypes, PublishReturns
<1>3. job'[p] = Idle /\ \A q \in Publishers : q # p => job'[q] = job[q]
  BY <1>2
<1>4. job' \in [Publishers -> {Idle} \cup Jobs]
  BY <1>2
<1>5. ~Active(p)' /\ ~Appending(p)' /\ ~Collecting(p)'
  BY <1>3 DEF Active, Appending, Collecting
<1> QED
  BY <1>1, <1>3, <1>4, <1>5, SameJob

\* A publisher owes a stream what it has not delivered to it.
LEMMA OwesIs == \A p, c : Owes(p, c) <=> Active(p) /\ In(c, Todo(p))
BY DEF Owes, Active, Todo

-----------------------------------------------------------------------------
(* What the steps of a stream's handler do to it *)

\* A stream that is left alone.
Untouched(d) ==
    /\ stream'[d] = stream[d] /\ from'[d] = from[d] /\ history'[d] = history[d]
    /\ events'[d] = events[d] /\ seen'[d] = seen[d] /\ sent'[d] = sent[d]
    /\ dropped'[d] = dropped[d] /\ early'[d] = early[d] /\ racing'[d] = racing[d]

\* A step of the handler of c leaves the publishers, the store and the other
\* streams alone, and keeps the bus's list in step with the streams.
StepOf(c) ==
    /\ UNCHANGED <<next, stamp, job, log, before>>
    /\ \A d \in Clients : d # c => Untouched(d)
    /\ StreamTypes' /\ Membership'

\* The list without c has the others.
LEMMA UnsubscribedFacts ==
    ASSUME StreamTypes, Membership, NEW c \in Clients, Unsubscribed(c)
    PROVE  /\ all' \in Seq(Clients) /\ OnceEach(all)'
           /\ \A x : In(x, all)' <=> In(x, all) /\ x # c
<1>1. all \in Seq(Clients) /\ OnceEach(all)
  BY DEF StreamTypes, Membership
<1>2. CASE (\A i \in DOMAIN all : all[i] # c) /\ all' = all
  <2>1. DOMAIN all = 1 .. Len(all)
    BY <1>1
  <2>2. ~In(c, all)
    BY <2>1, <1>2 DEF In
  <2>3. OnceEach(all') /\ \A x : In(x, all') <=> In(x, all) /\ x # c
    BY <2>2, <1>1, <1>2
  <2> QED
    BY <2>3, <1>1, <1>2 DEF In, OnceEach
<1>3. ASSUME NEW i \in DOMAIN all, all[i] = c,
             all' = SubSeq(all, 1, i - 1) \o SubSeq(all, i + 1, Len(all))
      PROVE  /\ all' \in Seq(Clients) /\ OnceEach(all)'
             /\ \A x : In(x, all)' <=> In(x, all) /\ x # c
  <2>1. i \in 1 .. Len(all)
    BY <1>1
  <2>2. /\ all' \in Seq(Clients) /\ OnceEach(all')
        /\ \A x : In(x, all') <=> In(x, all) /\ x # c
    BY <2>1, <1>1, <1>3, CutFacts
  <2> QED
    BY <2>2 DEF In, OnceEach
<1> QED
  BY <1>2, <1>3 DEF Unsubscribed

\* The list and the streams stay in step when one stream changes.
LEMMA MembershipStep ==
    ASSUME Membership, OnceEach(all)', NEW c \in Clients,
           \A d \in Clients : d # c => stream'[d] = stream[d],
           \A d \in Clients : d # c => (In(d, all)' <=> In(d, all)),
           In(c, all)' <=> Subscribed(c)'
    PROVE  Membership'
BY DEF Membership, Subscribed

\* The request is accepted, with or without an event to resume from.
LEMMA OpenView ==
    ASSUME StreamTypes, Membership, NEW c \in Clients, Open(c)
    PROVE  /\ StepOf(c)
           /\ stream[c] = "idle" /\ stream'[c] = "accepted"
           /\ from'[c] # 0 => In(from'[c], log)
           /\ history'[c] = history[c] /\ events'[c] = events[c] /\ seen'[c] = seen[c]
           /\ sent'[c] = sent[c] /\ dropped'[c] = dropped[c] /\ early'[c] = early[c]
           /\ racing'[c] = racing[c]
<1>1. PICK f \in 0 .. NumEvents : (f = 0 \/ InLog(f)) /\ from' = [from EXCEPT ![c] = f]
  BY DEF Open
<1>2. stream[c] = "idle" /\ stream' = [stream EXCEPT ![c] = "accepted"]
  BY DEF Open
<1>3. UNCHANGED <<next, stamp, job, all, log, history, events, seen, sent, dropped, early, racing, before>>
  BY DEF Open
<1>4. StreamTypes'
  BY <1>1, <1>2, <1>3 DEF StreamTypes, StreamStates
<1>5. /\ stream'[c] = "accepted" /\ from'[c] = f
      /\ \A d \in Clients : d # c => stream'[d] = stream[d] /\ from'[d] = from[d]
  BY <1>1, <1>2 DEF StreamTypes
<1>6. from'[c] # 0 => In(from'[c], log)
  <2>1. DOMAIN log = 1 .. Len(log)
    BY DEF StreamTypes
  <2> QED
    BY <2>1, <1>1, <1>5 DEF InLog, In
<1>7. Membership'
  <2>1. OnceEach(all)' /\ (\A d : In(d, all)' <=> In(d, all))
    BY <1>3 DEF OnceEach, In, Membership
  <2>2. ~Subscribed(c) /\ ~Subscribed(c)'
    BY <1>2, <1>5 DEF Subscribed
  <2>3. In(c, all)' <=> Subscribed(c)'
    BY <2>1, <2>2 DEF Membership
  <2> QED
    BY <2>1, <2>3, <1>5, MembershipStep
<1> QED
  BY <1>2, <1>3, <1>4, <1>5, <1>6, <1>7 DEF StepOf, Untouched

\* The handler subscribes.
LEMMA SubscribeView ==
    ASSUME StreamTypes, Membership, NEW c \in Clients, Subscribe(c)
    PROVE  /\ StepOf(c)
           /\ stream[c] = "accepted" /\ stream'[c] = IF from[c] = 0 THEN "live" ELSE "loading"
           /\ from'[c] = from[c]
           /\ history'[c] = history[c] /\ events'[c] = events[c] /\ seen'[c] = seen[c]
           /\ sent'[c] = sent[c] /\ dropped'[c] = dropped[c]
           /\ early'[c] = Published /\ racing'[c] = Published \cap InProgress
<1> DEFINE g == IF from[c] = 0 THEN "live" ELSE "loading"
<1>1. /\ stream[c] = "accepted" /\ stream' = [stream EXCEPT ![c] = g]
      /\ early' = [early EXCEPT ![c] = Published]
      /\ racing' = [racing EXCEPT ![c] = Published \cap InProgress]
      /\ all' = Append(all, c)
  BY DEF Subscribe
<1>2. UNCHANGED <<next, stamp, job, log, from, history, events, seen, sent, dropped, before>>
  BY DEF Subscribe
<1>3. g \in StreamStates /\ g \in {"loading", "replaying", "live"}
  BY DEF StreamStates
<1> HIDE DEF g
<1>4. Published \in SUBSET Events /\ Published \cap InProgress \in SUBSET Events
  BY DEF Published
<1>6. all \in Seq(Clients) /\ all' \in Seq(Clients)
  BY <1>1, AppendFacts DEF StreamTypes
<1>7. StreamTypes'
  BY <1>1, <1>2, <1>3, <1>4, <1>6 DEF StreamTypes
<1>8. /\ stream'[c] = g /\ early'[c] = Published /\ racing'[c] = Published \cap InProgress
      /\ \A d \in Clients : d # c =>
            stream'[d] = stream[d] /\ early'[d] = early[d] /\ racing'[d] = racing[d]
  BY <1>1 DEF StreamTypes
<1>9. Membership'
  <2>1. ~In(c, all) /\ OnceEach(all)
    BY <1>1 DEF Membership, Subscribed
  <2>2. OnceEach(all') /\ \A d : In(d, all') <=> In(d, all) \/ d = c
    BY <2>1, <1>1, <1>6, AppendFacts, AppendOnce
  <2>3. OnceEach(all)' /\ (\A d : In(d, all)' <=> In(d, all) \/ d = c)
    BY <2>2 DEF OnceEach, In
  <2>4. In(c, all)' <=> Subscribed(c)'
    BY <2>3, <1>3, <1>8 DEF Subscribed
  <2> QED
    BY <2>3, <2>4, <1>8, MembershipStep
<1> QED
  BY <1>1, <1>2, <1>7, <1>8, <1>9 DEF StepOf, Untouched, g

\* The snapshot is read.
LEMMA LoadView ==
    ASSUME StreamTypes, Membership, NEW c \in Clients, Load(c)
    PROVE  /\ StepOf(c)
           /\ stream[c] = "loading" /\ stream'[c] = "replaying" /\ from'[c] = from[c]
           /\ \E i \in 1 .. Len(log) :
                 log[i] = from[c] /\ history'[c] = SubSeq(log, i + 1, Len(log))
           /\ events'[c] = events[c] /\ seen'[c] = seen[c]
           /\ sent'[c] = sent[c] /\ dropped'[c] = dropped[c] /\ early'[c] = early[c]
           /\ racing'[c] = racing[c]
<1>0. log \in Seq(Events) /\ DOMAIN log = 1 .. Len(log)
  BY DEF StreamTypes
<1>1. PICK i \in 1 .. Len(log) :
         log[i] = from[c] /\ history' = [history EXCEPT ![c] = SubSeq(log, i + 1, Len(log))]
  BY <1>0 DEF Load, ReplayFrom
<1>2. stream[c] = "loading" /\ stream' = [stream EXCEPT ![c] = "replaying"]
  BY DEF Load
<1>3. UNCHANGED <<next, stamp, job, all, log, from, events, seen, sent, dropped, early, racing, before>>
  BY DEF Load
<1>4. SubSeq(log, i + 1, Len(log)) \in Seq(Events)
  BY <1>0, RestFacts
<1>5. StreamTypes'
  BY <1>1, <1>2, <1>3, <1>4 DEF StreamTypes, StreamStates
<1>6. /\ stream'[c] = "replaying" /\ history'[c] = SubSeq(log, i + 1, Len(log))
      /\ \A d \in Clients : d # c => stream'[d] = stream[d] /\ history'[d] = history[d]
  BY <1>1, <1>2 DEF StreamTypes
<1>7. Membership'
  <2>1. OnceEach(all)' /\ (\A d : In(d, all)' <=> In(d, all))
    BY <1>3 DEF OnceEach, In, Membership
  <2>2. Subscribed(c) /\ Subscribed(c)'
    BY <1>2, <1>6 DEF Subscribed
  <2>3. In(c, all)' <=> Subscribed(c)'
    BY <2>1, <2>2 DEF Membership
  <2> QED
    BY <2>1, <2>3, <1>6, MembershipStep
<1> QED
  BY <1>1, <1>2, <1>3, <1>5, <1>6, <1>7 DEF StepOf, Untouched

\* The replay is over.
LEMMA EndReplayView ==
    ASSUME StreamTypes, Membership, NEW c \in Clients, EndReplay(c)
    PROVE  /\ StepOf(c)
           /\ stream[c] = "replaying" /\ stream'[c] = "live" /\ history[c] = <<>>
           /\ from'[c] = from[c]
           /\ history'[c] = history[c] /\ events'[c] = events[c] /\ seen'[c] = seen[c]
           /\ sent'[c] = sent[c] /\ dropped'[c] = dropped[c] /\ early'[c] = early[c]
           /\ racing'[c] = racing[c]
<1>1. stream[c] = "replaying" /\ stream' = [stream EXCEPT ![c] = "live"] /\ history[c] = <<>>
  BY DEF EndReplay
<1>2. UNCHANGED <<next, stamp, job, all, log, from, history, events, seen, sent, dropped, early, racing, before>>
  BY DEF EndReplay
<1>3. StreamTypes'
  BY <1>1, <1>2 DEF StreamTypes, StreamStates
<1>4. stream'[c] = "live" /\ \A d \in Clients : d # c => stream'[d] = stream[d]
  BY <1>1 DEF StreamTypes
<1>5. Membership'
  <2>1. OnceEach(all)' /\ (\A d : In(d, all)' <=> In(d, all))
    BY <1>2 DEF OnceEach, In, Membership
  <2>2. Subscribed(c) /\ Subscribed(c)'
    BY <1>1, <1>4 DEF Subscribed
  <2>3. In(c, all)' <=> Subscribed(c)'
    BY <2>1, <2>2 DEF Membership
  <2> QED
    BY <2>1, <2>3, <1>4, MembershipStep
<1> QED
  BY <1>1, <1>2, <1>3, <1>4, <1>5 DEF StepOf, Untouched

\* The stream ends early.
LEMMA DisconnectView ==
    ASSUME StreamTypes, Membership, NEW c \in Clients, Disconnect(c)
    PROVE  /\ StepOf(c)
           /\ stream[c] = "accepted" \/ Subscribed(c)
           /\ stream'[c] = "closed" /\ from'[c] = from[c]
           /\ history'[c] = history[c] /\ events'[c] = events[c] /\ seen'[c] = seen[c]
           /\ sent'[c] = sent[c] /\ dropped'[c] = dropped[c] /\ early'[c] = early[c]
           /\ racing'[c] = racing[c]
<1>1. (stream[c] = "accepted" \/ Subscribed(c)) /\ stream' = [stream EXCEPT ![c] = "closed"]
  BY DEF Disconnect, Subscribed
<1>2. UNCHANGED <<next, stamp, job, log, from, history, events, seen, sent, dropped, early, racing, before>>
  BY DEF Disconnect
<1>3. all' \in Seq(Clients) /\ OnceEach(all)' /\ \A x : In(x, all)' <=> In(x, all) /\ x # c
  BY UnsubscribedFacts DEF Disconnect
<1>4. StreamTypes'
  BY <1>1, <1>2, <1>3 DEF StreamTypes, StreamStates
<1>5. stream'[c] = "closed" /\ \A d \in Clients : d # c => stream'[d] = stream[d]
  BY <1>1 DEF StreamTypes
<1>6. Membership'
  <2>1. In(c, all)' <=> Subscribed(c)'
    BY <1>3, <1>5 DEF Subscribed
  <2> QED
    BY <2>1, <1>3, <1>5, MembershipStep
<1> QED
  BY <1>1, <1>2, <1>4, <1>5, <1>6 DEF StepOf, Untouched

\* An event is written, and the stream ends with the terminal one.
LEMMA WrittenFacts ==
    ASSUME StreamTypes, Membership, NEW c \in Clients, NEW e \in Events, Written(c, e),
           Subscribed(c), before' = before
    PROVE  /\ sent' \in [Clients -> Seq(Events)] /\ sent'[c] = Append(sent[c], e)
           /\ stream' \in [Clients -> StreamStates] /\ stream'[c] \in {stream[c], "closed"}
           /\ all' \in Seq(Clients)
           /\ \A d \in Clients : d # c => stream'[d] = stream[d] /\ sent'[d] = sent[d]
           /\ Membership'
<1>1. sent' = [sent EXCEPT ![c] = Append(sent[c], e)]
  BY DEF Written
<1>2. sent \in [Clients -> Seq(Events)] /\ Append(sent[c], e) \in Seq(Events)
  BY AppendFacts DEF StreamTypes
<1>3. sent' \in [Clients -> Seq(Events)] /\ sent'[c] = Append(sent[c], e)
      /\ \A d \in Clients : d # c => sent'[d] = sent[d]
  BY <1>1, <1>2
<1>4. CASE e = Terminal
  <2>1. stream' = [stream EXCEPT ![c] = "closed"] /\ Unsubscribed(c)
    BY <1>4 DEF Written
  <2>2. all' \in Seq(Clients) /\ OnceEach(all)' /\ \A x : In(x, all)' <=> In(x, all) /\ x # c
    BY <2>1, UnsubscribedFacts
  <2>3. /\ stream' \in [Clients -> StreamStates] /\ stream'[c] = "closed"
        /\ \A d \in Clients : d # c => stream'[d] = stream[d]
    BY <2>1 DEF StreamTypes, StreamStates
  <2>4. In(c, all)' <=> Subscribed(c)'
    BY <2>2, <2>3 DEF Subscribed
  <2>5. Membership'
    BY <2>2, <2>3, <2>4, MembershipStep
  <2> QED
    BY <1>3, <2>2, <2>3, <2>5
<1>5. CASE e # Terminal
  <2>1. stream' = stream /\ all' = all
    BY <1>5 DEF Written
  <2>2. Membership'
    BY <2>1 DEF Membership, OnceEach, In, Subscribed
  <2> QED
    BY <1>3, <2>1, <2>2 DEF StreamTypes
<1> QED
  BY <1>4, <1>5

\* The next event of the snapshot is written.
LEMMA ReplayView ==
    ASSUME StreamTypes, Membership, NEW c \in Clients, Replay(c)
    PROVE  /\ StepOf(c)
           /\ stream[c] = "replaying" /\ stream'[c] \in {"replaying", "closed"}
           /\ history[c] # <<>> /\ history'[c] = Tail(history[c])
           /\ sent'[c] = Append(sent[c], Head(history[c]))
           /\ seen'[c] = seen[c] \cup {Head(history[c])}
           /\ from'[c] = from[c] /\ events'[c] = events[c]
           /\ dropped'[c] = dropped[c] /\ early'[c] = early[c] /\ racing'[c] = racing[c]
<1> DEFINE e == Head(history[c])  t == Tail(history[c])
<1>1. /\ stream[c] = "replaying" /\ history[c] # <<>>
      /\ Written(c, e)
      /\ seen' = [seen EXCEPT ![c] = @ \cup {e}]
      /\ history' = [history EXCEPT ![c] = t]
  BY DEF Replay, Remember
<1>2. UNCHANGED <<next, stamp, job, log, from, events, dropped, early, racing, before>>
  BY DEF Replay
<1>3. history[c] \in Seq(Events)
  BY DEF StreamTypes
<1>4. e \in Events /\ t \in Seq(Events)
  BY <1>1, <1>3, TailFacts
<1> HIDE DEF e, t
<1>5. Subscribed(c)
  BY <1>1 DEF Subscribed
<1>6. /\ sent' \in [Clients -> Seq(Events)] /\ sent'[c] = Append(sent[c], e)
      /\ stream' \in [Clients -> StreamStates] /\ stream'[c] \in {stream[c], "closed"}
      /\ all' \in Seq(Clients)
      /\ \A d \in Clients : d # c => stream'[d] = stream[d] /\ sent'[d] = sent[d]
      /\ Membership'
  BY <1>1, <1>2, <1>4, <1>5, WrittenFacts
<1>7. /\ seen' \in [Clients -> SUBSET Events] /\ seen'[c] = seen[c] \cup {e}
      /\ history' \in [Clients -> Seq(Events)] /\ history'[c] = t
      /\ \A d \in Clients : d # c => seen'[d] = seen[d] /\ history'[d] = history[d]
  BY <1>1, <1>4 DEF StreamTypes
<1>8. StreamTypes'
  BY <1>2, <1>6, <1>7 DEF StreamTypes
<1> QED
  BY <1>1, <1>2, <1>6, <1>7, <1>8 DEF StepOf, Untouched, e, t

\* The next live event is skipped or written.
LEMMA LiveView ==
    ASSUME StreamTypes, Membership, NEW c \in Clients, Live(c)
    PROVE  /\ StepOf(c)
           /\ stream[c] = "live" /\ stream'[c] \in {"live", "closed"}
           /\ events[c] # <<>> /\ events'[c] = Tail(events[c])
           /\ \/ Head(events[c]) \in seen[c] /\ sent'[c] = sent[c]
              \/ Head(events[c]) \notin seen[c] /\ sent'[c] = Append(sent[c], Head(events[c]))
           /\ from'[c] = from[c] /\ history'[c] = history[c] /\ seen'[c] = seen[c]
           /\ dropped'[c] = dropped[c] /\ early'[c] = early[c] /\ racing'[c] = racing[c]
<1> DEFINE e == Head(events[c])  t == Tail(events[c])
<1>1. /\ stream[c] = "live" /\ events[c] # <<>>
      /\ events' = [events EXCEPT ![c] = t]
      /\ IF e \in seen[c] THEN UNCHANGED <<stream, all, sent, before>> ELSE Written(c, e)
  BY DEF Live
<1>2. UNCHANGED <<next, stamp, job, log, from, history, seen, dropped, early, racing, before>>
  BY DEF Live
<1>3. events[c] \in Seq(Events)
  BY DEF StreamTypes
<1>4. e \in Events /\ t \in Seq(Events) /\ Len(t) = Len(events[c]) - 1 /\ Len(events[c]) \in Nat
  BY <1>1, <1>3, TailFacts
<1> HIDE DEF e, t
<1>5. Subscribed(c)
  BY <1>1 DEF Subscribed
<1>6. /\ events' \in [Clients -> Seq(Events)] /\ events'[c] = t
      /\ \A d \in Clients : d # c => events'[d] = events[d]
  BY <1>1, <1>4 DEF StreamTypes
<1>7. \A d \in Clients : Len(events'[d]) <= sseChannelBuffer
  <2>1. \A d \in Clients : Len(events[d]) <= sseChannelBuffer
    BY DEF StreamTypes
  <2>2. Len(t) <= sseChannelBuffer
    BY <2>1, <1>4, StreamAssumption
  <2> QED
    BY <2>1, <2>2, <1>6
<1>8. CASE e \in seen[c]
  <2>1. UNCHANGED <<stream, all, sent>>
    BY <1>1, <1>8
  <2>2. Membership'
    BY <2>1 DEF Membership, OnceEach, In, Subscribed
  <2>3. StreamTypes'
    BY <2>1, <1>2, <1>6, <1>7 DEF StreamTypes
  <2> QED
    BY <2>1, <2>2, <2>3, <1>1, <1>2, <1>6, <1>8 DEF StepOf, Untouched, e, t
<1>9. CASE e \notin seen[c]
  <2>1. /\ sent' \in [Clients -> Seq(Events)] /\ sent'[c] = Append(sent[c], e)
        /\ stream' \in [Clients -> StreamStates] /\ stream'[c] \in {stream[c], "closed"}
        /\ all' \in Seq(Clients)
        /\ \A d \in Clients : d # c => stream'[d] = stream[d] /\ sent'[d] = sent[d]
        /\ Membership'
    BY <1>1, <1>2, <1>4, <1>5, <1>9, WrittenFacts
  <2>2. StreamTypes'
    BY <2>1, <1>2, <1>6, <1>7 DEF StreamTypes
  <2> QED
    BY <2>1, <2>2, <1>1, <1>2, <1>6, <1>9 DEF StepOf, Untouched, e, t
<1> QED
  BY <1>8, <1>9

-----------------------------------------------------------------------------
(* The publishers and the store *)

\* The clock does not go back.
LEMMA ClockStep ==
    ASSUME StreamTypes, NEW p \in Publishers, Create(p)
    PROVE  /\ stamp' \in [Events -> Nat]
           /\ \A e \in Events : e # next => stamp'[e] = stamp[e]
           /\ next > 1 => next - 1 \in Events /\ stamp[next - 1] <= stamp'[next]
<1>1. next \in Events /\ next \in Nat /\ stamp \in [Events -> Nat] /\ (next > 1 => next - 1 \in Events)
  BY CreateView, StreamAssumption DEF StreamTypes, Events
<1>2. PICK t \in Ticks : stamp' = [stamp EXCEPT ![next] = t]
  BY DEF Create
<1>3. t \in Nat /\ (next > 1 => stamp[next - 1] <= t)
  <2>1. Clock \in Nat /\ (next > 1 => Clock = stamp[next - 1])
    BY <1>1 DEF Clock, Events
  <2>2. t = Clock \/ t = Clock + 1
    BY DEF Ticks
  <2>3. t \in Nat /\ Clock <= t
    BY <2>1, <2>2
  <2> QED
    BY <2>1, <2>3
<1> QED
  BY <1>1, <1>2, <1>3

\* Where the store has put an event.
LEMMA InsertedFacts ==
    ASSUME log \in Seq(Events), NEW e \in Events, Inserted(e)
    PROVE  /\ log' \in Seq(Events) /\ Len(log') = Len(log) + 1
           /\ \A x : In(x, log') <=> In(x, log) \/ x = e
           /\ \E i \in 0 .. Len(log) :
                 /\ \A k \in 1 .. i : log'[k] = log[k]
                 /\ log'[i + 1] = e
                 /\ \A k \in i + 1 .. Len(log) : log'[k + 1] = log[k] /\ stamp[log[k]] > stamp[e]
<1>1. PICK i \in 0 .. Len(log) :
         /\ \A k \in i + 1 .. Len(log) : stamp[log[k]] > stamp[e]
         /\ log' = InsertAfter(log, i, e)
  BY DEF Inserted
<1> DEFINE a == SubSeq(log, 1, i)  b == SubSeq(log, i + 1, Len(log))  d == a \o <<e>>
           t == SubSeq(log, 1, i) \o <<e>> \o SubSeq(log, i + 1, Len(log))
<1>10. Len(log) \in Nat /\ i \in Nat /\ i <= Len(log)
  OBVIOUS
<1>11. a \in Seq(Events) /\ Len(a) = i /\ \A k \in 1 .. i : a[k] = log[k]
  BY <1>10
<1>12. b \in Seq(Events) /\ Len(b) = Len(log) - i /\ \A k \in 1 .. Len(log) - i : b[k] = log[i + k]
  BY <1>10
<1> HIDE DEF a, b
<1>13. d \in Seq(Events) /\ Len(d) = i + 1 /\ (\A k \in 1 .. i : d[k] = log[k]) /\ d[i + 1] = e
  BY <1>10, <1>11
<1> HIDE DEF d
<1>14. t = d \o b
  BY DEF a, b, d
<1> HIDE DEF t
<1>15. t \in Seq(Events) /\ Len(t) = Len(log) + 1
  <2>1. \A u, v \in Seq(Events) : u \o v \in Seq(Events) /\ Len(u \o v) = Len(u) + Len(v)
    OBVIOUS
  <2>2. t \in Seq(Events) /\ Len(t) = Len(d) + Len(b)
    BY <2>1, <1>12, <1>13, <1>14
  <2> QED
    BY <2>2, <1>10, <1>12, <1>13
<1>16. (\A k \in 1 .. i : t[k] = log[k]) /\ t[i + 1] = e
  BY <1>10, <1>12, <1>13, <1>14
<1>17. \A k \in i + 1 .. Len(log) : t[k + 1] = log[k]
  <2> SUFFICES ASSUME NEW k \in i + 1 .. Len(log) PROVE t[k + 1] = log[k]
    OBVIOUS
  <2>1. k - i \in 1 .. Len(log) - i /\ i + (k - i) = k /\ (k + 1) - (i + 1) = k - i
    BY <1>10
  <2>2. t[k + 1] = b[(k + 1) - (i + 1)]
    BY <1>10, <1>12, <1>13, <1>14
  <2> QED
    BY <2>1, <2>2, <1>12
<1>18. ASSUME NEW x, In(x, t) PROVE In(x, log) \/ x = e
  <2>1. PICK k \in 1 .. Len(t) : t[k] = x
    BY <1>18 DEF In
  <2>2. k \in 1 .. i \/ k = i + 1 \/ (k - 1 \in i + 1 .. Len(log) /\ (k - 1) + 1 = k)
    BY <2>1, <1>10, <1>15
  <2>3. CASE k \in 1 .. i
    BY <2>1, <2>3, <1>10, <1>16 DEF In
  <2>4. CASE k = i + 1
    BY <2>1, <2>4, <1>16
  <2>5. CASE k - 1 \in i + 1 .. Len(log) /\ (k - 1) + 1 = k
    <3>1. log[k - 1] = x /\ k - 1 \in 1 .. Len(log)
      BY <2>1, <2>5, <1>10, <1>17
    <3> QED
      BY <3>1 DEF In
  <2> QED
    BY <2>2, <2>3, <2>4, <2>5
<1>19. ASSUME NEW x, In(x, log) \/ x = e PROVE In(x, t)
  <2>1. CASE x = e
    <3>1. i + 1 \in 1 .. Len(t) /\ t[i + 1] = x
      BY <2>1, <1>10, <1>15, <1>16
    <3> QED
      BY <3>1 DEF In
  <2>2. CASE In(x, log)
    <3>1. PICK k \in 1 .. Len(log) : log[k] = x
      BY <2>2 DEF In
    <3>2. CASE k <= i
      <4>1. k \in 1 .. Len(t) /\ t[k] = x
        BY <3>1, <3>2, <1>10, <1>15, <1>16
      <4> QED
        BY <4>1 DEF In
    <3>3. CASE k > i
      <4>1. k + 1 \in 1 .. Len(t) /\ t[k + 1] = x
        BY <3>1, <3>3, <1>10, <1>15, <1>17
      <4> QED
        BY <4>1 DEF In
    <3> QED
      BY <3>2, <3>3, <1>10
  <2> QED
    BY <1>19, <2>1, <2>2
<1> QED
  <2>1. log' = t
    BY <1>1 DEF InsertAfter, t
  <2> QED
    BY <1>1, <2>1, <1>15, <1>16, <1>17, <1>18, <1>19

\* Where a position of the longer log was, and where one of the shorter goes:
\* the store keeps the order of what it had.
LEMMA InsertMoves ==
    ASSUME log \in Seq(Events), NEW e \in Events, Inserted(e), ~In(e, log)
    PROVE  /\ \A k, m \in 1 .. Len(log') : log'[k] # e /\ log'[m] # e =>
                 \E u, v \in 1 .. Len(log) : /\ log[u] = log'[k] /\ log[v] = log'[m]
                                             /\ k < m <=> u < v
                                             /\ k <= m <=> u <= v
           /\ \A u, v \in 1 .. Len(log) :
                 \E k, m \in 1 .. Len(log') : /\ log'[k] = log[u] /\ log'[m] = log[v]
                                              /\ k < m <=> u < v
                                              /\ k <= m <=> u <= v
           /\ OnceEach(log) => OnceEach(log')
<1> DEFINE s == log  t == log'
<1>00. PICK i \in 0 .. Len(s) :
         /\ \A k \in 1 .. i : t[k] = s[k]
         /\ t[i + 1] = e
         /\ \A k \in i + 1 .. Len(s) : t[k + 1] = s[k]
  BY InsertedFacts
<1>0. Len(s) \in Nat /\ i \in Nat /\ i <= Len(s) /\ ~In(e, s)
  OBVIOUS
<1>1. /\ t \in Seq(Events) /\ Len(t) = Len(s) + 1
      /\ \A k \in 1 .. i : t[k] = s[k]
      /\ t[i + 1] = e
      /\ \A k \in i + 1 .. Len(s) : t[k + 1] = s[k]
  BY <1>00, InsertedFacts
<1> HIDE DEF s, t
<1> DEFINE old(k) == IF k <= i THEN k ELSE k - 1
           new(u) == IF u <= i THEN u ELSE u + 1
<1>2. \A k \in 1 .. Len(t) : k # i + 1 => old(k) \in 1 .. Len(s) /\ s[old(k)] = t[k]
  <2> SUFFICES ASSUME NEW k \in 1 .. Len(t), k # i + 1 PROVE old(k) \in 1 .. Len(s) /\ s[old(k)] = t[k]
    OBVIOUS
  <2>1. CASE k <= i
    BY <2>1, <1>0, <1>1
  <2>2. CASE k > i
    <3>1. k - 1 \in i + 1 .. Len(s) /\ (k - 1) + 1 = k /\ k - 1 \in 1 .. Len(s) /\ old(k) = k - 1
      BY <2>2, <1>0, <1>1
    <3>2. t[(k - 1) + 1] = s[k - 1]
      BY <3>1, <1>1
    <3> QED
      BY <3>1, <3>2
  <2> QED
    BY <2>1, <2>2, <1>0
<1>3. \A u \in 1 .. Len(s) : new(u) \in 1 .. Len(t) /\ t[new(u)] = s[u]
  <2> SUFFICES ASSUME NEW u \in 1 .. Len(s) PROVE new(u) \in 1 .. Len(t) /\ t[new(u)] = s[u]
    OBVIOUS
  <2>1. CASE u <= i
    BY <2>1, <1>0, <1>1
  <2>2. CASE u > i
    <3>1. u \in i + 1 .. Len(s) /\ u + 1 \in 1 .. Len(t) /\ new(u) = u + 1
      BY <2>2, <1>0, <1>1
    <3> QED
      BY <3>1, <1>1
  <2> QED
    BY <2>1, <2>2, <1>0
<1>4. \A k, m \in 1 .. Len(t) : k # i + 1 /\ m # i + 1 =>
         (k < m <=> old(k) < old(m)) /\ (k <= m <=> old(k) <= old(m)) /\ (k = m <=> old(k) = old(m))
  BY <1>0, <1>1
<1>5. \A u, v \in 1 .. Len(s) : (new(u) < new(v) <=> u < v) /\ (new(u) <= new(v) <=> u <= v)
  BY <1>0
<1> HIDE DEF old, new
<1>6. ASSUME NEW k \in 1 .. Len(t), NEW m \in 1 .. Len(t), t[k] # e, t[m] # e
      PROVE  \E u, v \in 1 .. Len(s) : /\ s[u] = t[k] /\ s[v] = t[m]
                                       /\ k < m <=> u < v
                                       /\ k <= m <=> u <= v
  <2>1. k # i + 1 /\ m # i + 1
    BY <1>6, <1>1
  <2>2. old(k) \in 1 .. Len(s) /\ old(m) \in 1 .. Len(s) /\ s[old(k)] = t[k] /\ s[old(m)] = t[m]
    BY <2>1, <1>2
  <2>3. (k < m <=> old(k) < old(m)) /\ (k <= m <=> old(k) <= old(m))
    BY <2>1, <1>4
  <2> QED
    BY <2>2, <2>3
<1>7. ASSUME NEW u \in 1 .. Len(s), NEW v \in 1 .. Len(s)
      PROVE  \E k, m \in 1 .. Len(t) : /\ t[k] = s[u] /\ t[m] = s[v]
                                       /\ k < m <=> u < v
                                       /\ k <= m <=> u <= v
  <2>1. new(u) \in 1 .. Len(t) /\ new(v) \in 1 .. Len(t) /\ t[new(u)] = s[u] /\ t[new(v)] = s[v]
    BY <1>3
  <2>2. (new(u) < new(v) <=> u < v) /\ (new(u) <= new(v) <=> u <= v)
    BY <1>5
  <2> QED
    BY <2>1, <2>2
<1>8. ASSUME OnceEach(s) PROVE OnceEach(t)
  <2>1. ASSUME NEW k \in 1 .. Len(t), NEW m \in 1 .. Len(t), t[k] = t[m] PROVE k = m
    <3>1. \A n \in 1 .. Len(t) : n # i + 1 => t[n] # e
      BY <1>0, <1>2 DEF In
    <3>2. CASE k = i + 1 \/ m = i + 1
      BY <3>1, <3>2, <2>1, <1>1
    <3>3. CASE k # i + 1 /\ m # i + 1
      <4>1. old(k) = old(m)
        BY <3>3, <2>1, <1>2, <1>8 DEF OnceEach
      <4> QED
        BY <4>1, <3>3, <1>4
    <3> QED
      BY <3>2, <3>3
  <2> QED
    BY <2>1 DEF OnceEach
<1> QED
  BY <1>6, <1>7, <1>8 DEF s, t

\* What an event is behind or after does not change when another is stored.
LEMMA OrderKept ==
    ASSUME log \in Seq(Events), NEW e \in Events, Inserted(e), ~In(e, log),
           NEW c, from'[c] = from[c], from[c] # e
    PROVE  \A x : /\ Old(c, x) => Old(c, x)'
                  /\ x # e => (Old(c, x)' => Old(c, x)) /\ (After(c, x)' => After(c, x))
<1> DEFINE s == log  t == log'  f == from[c]
<1>1. /\ \A k, m \in 1 .. Len(t) : t[k] # e /\ t[m] # e =>
                 \E u, v \in 1 .. Len(s) : /\ s[u] = t[k] /\ s[v] = t[m]
                                           /\ k < m <=> u < v
                                           /\ k <= m <=> u <= v
      /\ \A u, v \in 1 .. Len(s) :
                 \E k, m \in 1 .. Len(t) : /\ t[k] = s[u] /\ t[m] = s[v]
                                           /\ k < m <=> u < v
                                           /\ k <= m <=> u <= v
  BY InsertMoves
<1>2. \A x : /\ Old(c, x) <=> \E m, k \in 1 .. Len(s) : m <= k /\ s[k] = f /\ s[m] = x
             /\ Old(c, x)' <=> \E m, k \in 1 .. Len(t) : m <= k /\ t[k] = f /\ t[m] = x
             /\ After(c, x) <=> \E m, k \in 1 .. Len(s) : k < m /\ s[k] = f /\ s[m] = x
             /\ After(c, x)' <=> \E m, k \in 1 .. Len(t) : k < m /\ t[k] = f /\ t[m] = x
  BY DEF Old, After
<1>0. f # e
  OBVIOUS
<1> HIDE DEF s, t, f
<1>3. ASSUME NEW x, \E m, k \in 1 .. Len(s) : m <= k /\ s[k] = f /\ s[m] = x
      PROVE  \E m, k \in 1 .. Len(t) : m <= k /\ t[k] = f /\ t[m] = x
  <2>1. PICK u \in 1 .. Len(s), v \in 1 .. Len(s) : u <= v /\ s[v] = f /\ s[u] = x
    BY <1>3
  <2>2. PICK k \in 1 .. Len(t), m \in 1 .. Len(t) : t[k] = s[u] /\ t[m] = s[v] /\ (k <= m <=> u <= v)
    BY <1>1
  <2> QED
    BY <2>1, <2>2
<1>4. ASSUME NEW x, x # e, \E m, k \in 1 .. Len(t) : m <= k /\ t[k] = f /\ t[m] = x
      PROVE  \E m, k \in 1 .. Len(s) : m <= k /\ s[k] = f /\ s[m] = x
  <2>1. PICK k \in 1 .. Len(t), m \in 1 .. Len(t) : k <= m /\ t[m] = f /\ t[k] = x
    BY <1>4
  <2>2. t[k] # e /\ t[m] # e
    BY <2>1, <1>0, <1>4
  <2>3. PICK u \in 1 .. Len(s), v \in 1 .. Len(s) : s[u] = t[k] /\ s[v] = t[m] /\ (k <= m <=> u <= v)
    BY <2>2, <1>1
  <2> QED
    BY <2>1, <2>3
<1>5. ASSUME NEW x, x # e, \E m, k \in 1 .. Len(t) : k < m /\ t[k] = f /\ t[m] = x
      PROVE  \E m, k \in 1 .. Len(s) : k < m /\ s[k] = f /\ s[m] = x
  <2>1. PICK k \in 1 .. Len(t), m \in 1 .. Len(t) : k < m /\ t[k] = f /\ t[m] = x
    BY <1>5
  <2>2. t[k] # e /\ t[m] # e
    BY <2>1, <1>0, <1>5
  <2>3. PICK u \in 1 .. Len(s), v \in 1 .. Len(s) : s[u] = t[k] /\ s[v] = t[m] /\ (k < m <=> u < v)
    BY <2>2, <1>1
  <2> QED
    BY <2>1, <2>3
<1> QED
  BY <1>2, <1>3, <1>4, <1>5

\* A publisher's steps leave the streams' handlers and the bus's list alone, and
\* what reaches a channel is the event of the publisher, in turn for that stream.
LEMMA PublisherTypes ==
    ASSUME StreamTypes, Membership, NEW p \in Publishers, Create(p) \/ Publish(p)
    PROVE  StreamTypes' /\ Membership'
<1>1. UNCHANGED <<all, clientVars, early, racing>>
  BY DEF Create, Publish, Collect, Append_, Deliver, PublishReturns
<1>2. UNCHANGED <<all, stream, from, history, seen, sent, early, racing>>
  BY <1>1 DEF clientVars
<1>3. Membership'
  BY <1>2 DEF Membership, OnceEach, In, Subscribed
<1>4. CASE Create(p)
  <2>1. next' = next + 1 /\ before' = [before EXCEPT ![next] = (1 .. next - 1) \ InProgress]
        /\ UNCHANGED <<log, events, dropped>> /\ next <= NumEvents
    BY <1>4 DEF Create
  <2>2. job' \in [Publishers -> {Idle} \cup Jobs] /\ next \in Events
    BY <1>4, CreateView
  <2>3. next' \in 1 .. NumEvents + 1
    BY <2>1, StreamAssumption DEF StreamTypes
  <2>4. (1 .. next - 1) \ InProgress \in SUBSET Events
    BY <2>1, StreamAssumption DEF StreamTypes, Events
  <2>5. before' \in [Events -> SUBSET Events]
    BY <2>1, <2>2, <2>4 DEF StreamTypes
  <2>6. stamp' \in [Events -> Nat]
    BY <1>4, ClockStep
  <2> QED
    BY <1>2, <1>3, <2>1, <2>2, <2>3, <2>5, <2>6 DEF StreamTypes
<1>8. CASE Collect(p)
  <2>1. UNCHANGED <<next, stamp, log, events, dropped, before>>
    BY <1>8 DEF Collect
  <2>2. job' \in [Publishers -> {Idle} \cup Jobs]
    BY <1>8, CollectView
  <2> QED
    BY <1>2, <1>3, <2>1, <2>2 DEF StreamTypes
<1>5. CASE Append_(p)
  <2>1. UNCHANGED <<next, stamp, events, dropped, before>> /\ (Inserted(Ev(p)) \/ log' = log)
    BY <1>5 DEF Append_, Ev
  <2>2. job' \in [Publishers -> {Idle} \cup Jobs] /\ Active(p)
    BY <1>5, AppendView
  <2>3. log' \in Seq(Events)
    <3>1. Ev(p) \in Events /\ log \in Seq(Events)
      BY <2>2, JobTypes DEF StreamTypes
    <3>2. ASSUME Inserted(Ev(p)) PROVE log' \in Seq(Events)
      BY <3>1, <3>2, InsertedFacts
    <3> QED
      BY <3>1, <3>2, <2>1
  <2> QED
    BY <1>2, <1>3, <2>1, <2>2, <2>3 DEF StreamTypes
<1>6. CASE Deliver(p)
  <2>1. UNCHANGED <<next, stamp, log, before>> /\ Offer(Head(Todo(p)), Ev(p))
    BY <1>6 DEF Deliver, Todo, Ev
  <2>2. job' \in [Publishers -> {Idle} \cup Jobs] /\ Active(p) /\ Todo(p) # <<>>
    BY <1>6, DeliverView
  <2>3. Head(Todo(p)) \in Clients /\ Ev(p) \in Events
    BY <2>2, JobTypes, TailFacts
  <2> DEFINE c == Head(Todo(p))  e == Ev(p)
  <2> HIDE DEF c, e
  <2>4. c \in Clients /\ e \in Events /\ Offer(c, e)
    BY <2>1, <2>3 DEF c, e
  <2>5. events' \in [Clients -> Seq(Events)] /\ dropped' \in [Clients -> SUBSET Events]
    <3>1. events \in [Clients -> Seq(Events)] /\ dropped \in [Clients -> SUBSET Events]
      BY DEF StreamTypes
    <3>2. Append(events[c], e) \in Seq(Events)
      BY <3>1, <2>4, AppendFacts
    <3>3. dropped[c] \cup {e} \in SUBSET Events
      BY <3>1, <2>4
    <3> QED
      BY <3>1, <3>2, <3>3, <2>4 DEF Offer
  <2>6. \A d \in Clients : Len(events'[d]) <= sseChannelBuffer
    <3>1. events \in [Clients -> Seq(Events)] /\ \A d \in Clients : Len(events[d]) <= sseChannelBuffer
      BY DEF StreamTypes
    <3>2. CASE events' = events
      BY <3>1, <3>2
    <3>3. CASE Len(events[c]) < sseChannelBuffer /\ events' = [events EXCEPT ![c] = Append(events[c], e)]
      <4>1. Len(Append(events[c], e)) = Len(events[c]) + 1 /\ Len(events[c]) \in Nat
        BY <3>1, <2>4, AppendFacts
      <4>2. Len(events'[c]) <= sseChannelBuffer
        BY <4>1, <3>1, <3>3, <2>4, StreamAssumption
      <4> QED
        BY <4>2, <3>1, <3>3, <2>4
    <3> QED
      BY <3>2, <3>3, <2>4 DEF Offer
  <2> QED
    BY <1>2, <1>3, <2>1, <2>2, <2>5, <2>6 DEF StreamTypes
<1>7. CASE PublishReturns(p)
  <2>1. UNCHANGED <<next, stamp, log, events, dropped, before>>
    BY <1>7 DEF PublishReturns
  <2>2. job' \in [Publishers -> {Idle} \cup Jobs]
    BY <1>7, ReturnView
  <2> QED
    BY <1>2, <1>3, <2>1, <2>2 DEF StreamTypes
<1> QED
  BY <1>4, <1>5, <1>6, <1>7, <1>8 DEF Publish

\* Events in progress have a publisher.
LEMMA InProgressIs ==
    \A e : e \in InProgress <=> \E p \in Publishers : Active(p) /\ Ev(p) = e
BY DEF InProgress, Active, Ev

\* Only the set of the event that begins changes, and it is not published yet.
LEMMA BeforeKept ==
    ASSUME StreamTypes, NEW p \in Publishers, Create(p) \/ Publish(p)
    PROVE  /\ \A e \in Events : e < next => before'[e] = before[e]
           /\ next' \in {next, next + 1} /\ next \in Nat
<1>1. next \in Nat /\ Events \subseteq Nat
  BY StreamAssumption DEF StreamTypes, Events
<1>2. CASE Create(p)
  <2>1. before' = [before EXCEPT ![next] = (1 .. next - 1) \ InProgress] /\ next' = next + 1
    BY <1>2 DEF Create
  <2> DEFINE s == (1 .. next - 1) \ InProgress
  <2> HIDE DEF s
  <2>2. \A e \in Events : e # next => before'[e] = before[e]
    BY <2>1 DEF StreamTypes, s
  <2> QED
    BY <1>1, <2>1, <2>2
<1>3. CASE Publish(p)
  BY <1>1, <1>3 DEF Publish, Collect, Append_, Deliver, PublishReturns
<1> QED
  BY <1>2, <1>3

\* A sequence of published events stays in turn.
LEMMA InTurnKept ==
    ASSUME NEW S, NEW s \in Seq(S), NEW b, NEW bb,
           \A i \in 1 .. Len(s) : bb[s[i]] = b[s[i]],
           InTurn(b, s)
    PROVE  InTurn(bb, s)
BY DEF InTurn

\* Publishers keep to themselves.
LEMMA PublishingStep ==
    ASSUME StreamTypes, Membership, Publishing, NEW p \in Publishers, Create(p) \/ Publish(p)
    PROVE  Publishing'
<1>0. Events \subseteq Nat /\ next \in Nat
  BY StreamAssumption DEF StreamTypes, Events
<1>1. CASE Create(p)
  <2>1. /\ ~Active(p) /\ Active(p)' /\ Ev(p)' = next /\ Todo(p)' = <<>> /\ next \in Events
        /\ \A q \in Publishers : q # p => Same(q)
    BY <1>1, CreateView
  <2>2. next' = next + 1 /\ before' = [before EXCEPT ![next] = (1 .. next - 1) \ InProgress]
    BY <1>1 DEF Create
  <2>3. before'[next] = (1 .. next - 1) \ InProgress /\ \A e \in Events : e # next => before'[e] = before[e]
    <3> DEFINE s == (1 .. next - 1) \ InProgress
    <3> HIDE DEF s
    <3>1. before'[next] = s /\ \A e \in Events : e # next => before'[e] = before[e]
      BY <2>1, <2>2 DEF StreamTypes, s
    <3> QED
      BY <3>1 DEF s
  <2>4. \A q \in Publishers : Active(q) => Ev(q) \in Events /\ Ev(q) < next /\ OnceEach(Todo(q))
    BY JobTypes DEF Publishing
  <2>5. \A q \in Publishers : Active(q)' => Ev(q)' < next' /\ OnceEach(Todo(q))'
    <3>1. OnceEach(<<>>)
      BY EmptyFacts
    <3>2. next < next'
      BY <1>0, <2>2
    <3> SUFFICES ASSUME NEW q \in Publishers, Active(q)' PROVE Ev(q)' < next' /\ OnceEach(Todo(q))'
      OBVIOUS
    <3>3. CASE q = p
      BY <3>1, <3>2, <3>3, <2>1
    <3>4. CASE q # p
      <4>1. Active(q) /\ Ev(q)' = Ev(q) /\ Todo(q)' = Todo(q)
        BY <3>4, <2>1 DEF Same
      <4>2. Ev(q) \in Nat /\ Ev(q) < next /\ OnceEach(Todo(q))
        BY <4>1, <2>4, <1>0
      <4>3. Ev(q) < next'
        BY <4>2, <1>0, <2>2
      <4> QED
        BY <4>1, <4>2, <4>3
    <3> QED
      BY <3>3, <3>4
  <2>6. \A q, r \in Publishers : Active(q)' /\ Active(r)' /\ Ev(q)' = Ev(r)' => q = r
    <3>1. \A q \in Publishers : q # p /\ Active(q)' => Active(q) /\ Ev(q)' = Ev(q) /\ Ev(q)' # next
      BY <2>1, <2>4, <1>0 DEF Same
    <3> QED
      BY <3>1, <2>1 DEF Publishing
  <2>7. ASSUME NEW e \in Events, NEW f \in Events, f \in before'[e]
        PROVE  e < next' /\ f < e /\ \A q \in Publishers : Active(q)' => Ev(q)' # f
    <3>1. \A q \in Publishers : q # p /\ Active(q)' => Active(q) /\ Ev(q)' = Ev(q)
      BY <2>1 DEF Same
    <3>2. CASE e = next
      <4>1. f \in 1 .. next - 1 /\ f \notin InProgress
        BY <3>2, <2>3, <2>7
      <4>2. e < next' /\ f < e
        BY <4>1, <3>2, <2>2, <1>0
      <4>3. \A q \in Publishers : Active(q) => Ev(q) # f
        BY <4>1, InProgressIs
      <4>4. next # f
        BY <4>1, <1>0
      <4> QED
        BY <4>2, <4>3, <4>4, <3>1, <2>1
    <3>3. CASE e # next
      <4>1. e < next /\ f < e /\ \A q \in Publishers : Active(q) => Ev(q) # f
        BY <3>3, <2>3, <2>7 DEF Publishing
      <4>2. e < next' /\ f # next
        BY <4>1, <2>2, <1>0
      <4> QED
        BY <4>1, <4>2, <3>1, <2>1
    <3> QED
      BY <3>2, <3>3
  <2>8. ASSUME NEW e \in Events, NEW f \in Events, e < f, f < next'
        PROVE  stamp'[e] <= stamp'[f]
    <3>1. /\ \A x \in Events : x # next => stamp'[x] = stamp[x]
          /\ next > 1 => next - 1 \in Events /\ stamp[next - 1] <= stamp'[next]
          /\ stamp' \in [Events -> Nat] /\ stamp \in [Events -> Nat]
      BY <1>1, ClockStep DEF StreamTypes
    <3>2. e \in Nat /\ f \in Nat /\ e < next /\ e # next /\ e >= 1
      BY <2>8, <2>2, <1>0 DEF Events
    <3>3. CASE f < next
      BY <3>1, <3>2, <3>3, <2>8, <1>0 DEF Publishing
    <3>4. CASE f = next
      <4>1. next - 1 \in Events /\ stamp[next - 1] <= stamp'[next] /\ next - 1 < next
        BY <3>1, <3>2, <1>0
      <4>2. e = next - 1 \/ e < next - 1
        BY <3>2, <1>0
      <4>3. stamp[e] <= stamp[next - 1]
        BY <4>1, <4>2, <3>1 DEF Publishing
      <4>4. stamp[e] \in Nat /\ stamp[next - 1] \in Nat /\ stamp'[next] \in Nat /\ stamp'[e] = stamp[e]
        BY <4>1, <3>1, <3>2, <2>1
      <4> QED
        BY <4>1, <4>3, <4>4, <3>4
    <3> QED
      BY <3>2, <3>3, <3>4, <2>8, <2>2, <1>0
  <2> QED
    BY <2>5, <2>6, <2>7, <2>8 DEF Publishing
<1>2. CASE Publish(p)
  <2>1. next' = next /\ before' = before /\ stamp' = stamp
    BY <1>2 DEF Publish, Collect, Append_, Deliver, PublishReturns
  <2>2. \A q \in Publishers : Active(q)' =>
           Active(q) /\ Ev(q)' = Ev(q) /\ (OnceEach(Todo(q)) => OnceEach(Todo(q)'))
    <3> SUFFICES ASSUME NEW q \in Publishers, Active(q)'
                 PROVE  Active(q) /\ Ev(q)' = Ev(q) /\ (OnceEach(Todo(q)) => OnceEach(Todo(q)'))
      OBVIOUS
    <3>1. CASE q # p
      BY <3>1, <1>2, CollectView, AppendView, DeliverView, ReturnView DEF Publish, Same
    <3>2. CASE q = p
      <4>1. CASE Append_(p)
        BY <4>1, <3>2, AppendView
      <4>2. CASE Deliver(p)
        <5>1. Active(p) /\ Ev(p)' = Ev(p) /\ Todo(p) # <<>> /\ Todo(p)' = Tail(Todo(p))
          BY <4>2, DeliverView
        <5>2. Todo(p) \in Seq(Clients)
          BY <5>1, JobTypes
        <5> QED
          BY <5>1, <5>2, <3>2, TailOnce
      <4>3. CASE PublishReturns(p)
        BY <4>3, <3>2, ReturnView
      <4>4. CASE Collect(p)
        BY <4>4, <3>2, CollectView DEF Membership
      <4> QED
        BY <4>1, <4>2, <4>3, <4>4, <1>2 DEF Publish
    <3> QED
      BY <3>1, <3>2
  <2> QED
    BY <2>1, <2>2 DEF Publishing
<1> QED
  BY <1>1, <1>2

\* The store stays in turn.
LEMMA StoredStep ==
    ASSUME StreamTypes, Publishing, Stored, NEW p \in Publishers, Create(p) \/ Publish(p)
    PROVE  Stored'
<1>0. Events \subseteq Nat /\ next \in Nat /\ log \in Seq(Events) /\ \A i \in 1 .. Len(log) : log[i] \in Events
  BY StreamAssumption DEF StreamTypes, Events
<1>1. CASE log' = log /\ \A q \in Publishers : Appending(q)' => (Appending(q) /\ Ev(q)' = Ev(q)) \/ Ev(q)' = next
  <2>1. InTurn(before', log)
    BY <1>0, BeforeKept, InTurnKept DEF Stored
  <2>2. \A i \in 1 .. Len(log) : log[i] < next /\ log[i] < next'
    <3>1. next' \in {next, next + 1}
      BY BeforeKept
    <3>2. \A i \in 1 .. Len(log) : log[i] \in Nat /\ log[i] < next
      BY <1>0 DEF Stored
    <3> QED
      BY <3>1, <3>2, <1>0
  <2>3. ~In(next, log)
    BY <2>2, <1>0 DEF In
  <2> QED
    BY <1>1, <2>1, <2>2, <2>3 DEF Stored
<1>2. CASE Create(p)
  <2>1. log' = log
    BY <1>2 DEF Create
  <2> QED
    BY <2>1, <1>1, <1>2, CreateView DEF Same
<1>5. CASE Collect(p)
  <2>1. log' = log
    BY <1>5 DEF Collect
  <2> QED
    BY <2>1, <1>1, <1>5, CollectView DEF Same
<1>3. CASE Append_(p)
  <2>1. /\ Appending(p) /\ Active(p) /\ ~Appending(p)' /\ Ev(p) \in Events
        /\ \A q \in Publishers : q # p => Same(q)
    BY <1>3, AppendView, JobTypes
  <2>2. next' = next /\ before' = before /\ (log' = log \/ Inserted(Ev(p)))
    BY <1>3 DEF Append_, Ev
  <2>3. CASE log' = log
    BY <2>1, <2>3, <1>1 DEF Same
  <2>4. CASE Inserted(Ev(p))
    <3>1. log' \in Seq(Events) /\ \A x : In(x, log') <=> In(x, log) \/ x = Ev(p)
      BY <2>1, <2>4, <1>0, InsertedFacts
    <3>2. ~In(Ev(p), log) /\ Ev(p) < next
      BY <2>1 DEF Stored, Publishing
    <3>3. OnceEach(log')
      BY <3>2, <2>1, <2>4, <1>0, InsertMoves DEF Stored
    <3>4. \A k \in 1 .. Len(log') : log'[k] < next
      <4> SUFFICES ASSUME NEW k \in 1 .. Len(log') PROVE log'[k] < next
        OBVIOUS
      <4>1. In(log'[k], log')
        BY DEF In
      <4>2. In(log'[k], log) \/ log'[k] = Ev(p)
        BY <4>1, <3>1
      <4> QED
        BY <4>2, <3>2 DEF Stored, In
    <3>7. \A k, m \in 1 .. Len(log') : log'[k] # Ev(p) /\ log'[m] # Ev(p) =>
             \E u, v \in 1 .. Len(log) : /\ log[u] = log'[k] /\ log[v] = log'[m]
                                         /\ k < m <=> u < v
                                         /\ k <= m <=> u <= v
      BY <3>2, <2>1, <2>4, <1>0, InsertMoves, Zenon
    <3>5. InTurn(before, log')
      <4> SUFFICES ASSUME NEW k \in 1 .. Len(log'), NEW m \in 1 .. Len(log'), k < m
                   PROVE  log'[m] \notin before[log'[k]]
        BY DEF InTurn
      <4> DEFINE s == log  t == log'  e == Ev(p)
      <4>0. In(t[k], t) /\ In(t[m], t) /\ t[k] \in Events /\ t[m] \in Events /\ e \in Events
        BY <3>1, <2>1 DEF In
      <4>1. CASE t[k] = e
        <5>1. PICK i \in 0 .. Len(s) :
                 /\ \A n \in 1 .. i : t[n] = s[n]
                 /\ t[i + 1] = e
                 /\ \A n \in i + 1 .. Len(s) : t[n + 1] = s[n] /\ stamp[s[n]] > stamp[e]
          BY <2>1, <2>4, <1>0, InsertedFacts
        <5>20. Len(log') = Len(log) + 1
          BY <2>1, <2>4, <1>0, InsertedFacts
        <5>21. Len(log) \in Nat
          BY <1>0
        <5>2. Len(t) = Len(s) + 1 /\ Len(s) \in Nat
          BY <5>20, <5>21
        <5>3. OnceEach(t)
          BY <3>3
        <5> HIDE DEF s, t, e
        <5>4. k = i + 1
          <6>1. i + 1 \in 1 .. Len(t)
            BY <5>1, <5>2
          <6>2. k \in 1 .. Len(t)
            BY DEF t
          <6> QED
            BY <6>1, <6>2, <5>1, <5>3, <4>1 DEF OnceEach
        <5>5. m - 1 \in i + 1 .. Len(s) /\ (m - 1) + 1 = m
          BY <5>1, <5>2, <5>4 DEF t
        <5>6. stamp[t[m]] > stamp[e]
          BY <5>1, <5>5
        <5>7. t[m] \in before[e] => t[m] < e /\ e < next
          BY <4>0 DEF Publishing
        <5>8. t[m] < e /\ e < next => stamp[t[m]] <= stamp[e]
          BY <4>0 DEF Publishing
        <5>9. stamp[t[m]] \in Nat /\ stamp[e] \in Nat
          BY <4>0 DEF StreamTypes
        <5> QED
          BY <5>6, <5>7, <5>8, <5>9, <4>1 DEF t
      <4>2. CASE t[m] = e
        BY <4>0, <4>2, <2>1 DEF Publishing
      <4>3. CASE t[k] # e /\ t[m] # e
        <5>1. PICK u \in 1 .. Len(log), v \in 1 .. Len(log) :
                 log[u] = log'[k] /\ log[v] = log'[m] /\ (k < m <=> u < v)
          BY <4>3, <3>7
        <5> QED
          BY <5>1 DEF Stored, InTurn
      <4> QED
        BY <4>1, <4>2, <4>3
    <3>6. ASSUME NEW q \in Publishers, Appending(q)' PROVE ~In(Ev(q)', log')
      <4>1. q # p /\ Appending(q) /\ Ev(q)' = Ev(q) /\ Active(q)
        BY <3>6, <2>1 DEF Same, Appending, Active
      <4>2. Ev(q) # Ev(p)
        BY <4>1, <2>1 DEF Publishing
      <4> QED
        BY <4>1, <4>2, <3>1 DEF Stored
    <3> QED
      BY <2>2, <3>3, <3>4, <3>5, <3>6 DEF Stored
  <2> QED
    BY <2>2, <2>3, <2>4
<1>4. CASE Deliver(p) \/ PublishReturns(p)
  <2>1. log' = log
    BY <1>4 DEF Deliver, PublishReturns
  <2> QED
    BY <2>1, <1>1, <1>4, DeliverView, ReturnView DEF Same
<1> QED
  BY <1>2, <1>3, <1>4, <1>5 DEF Publish

-----------------------------------------------------------------------------
(* What a publisher's step means to a stream *)

\* The handler's own state.
Handler(c) ==
    /\ stream'[c] = stream[c] /\ from'[c] = from[c] /\ history'[c] = history[c]
    /\ seen'[c] = seen[c] /\ sent'[c] = sent[c]
    /\ early'[c] = early[c] /\ racing'[c] = racing[c]

\* A step that has nothing for the stream: the publishers may only be done with
\* something, and owe it as much as before.
LEMMA NothingForIt ==
    ASSUME NEW c \in Clients, Client(c), Handler(c),
           events'[c] = events[c], dropped'[c] = dropped[c],
           UNCHANGED <<next, log, before>>,
           \A q \in Publishers :
              /\ Owes(q, c)' <=> Owes(q, c)
              /\ Active(q)' => Active(q) /\ Ev(q)' = Ev(q)
              /\ Appending(q)' => Appending(q)
              /\ Collecting(q)' <=> Collecting(q)
    PROVE  Client(c)'
<1>0. \A q \in Publishers : Owes(q, c) => Owes(q, c)' /\ Ev(q)' = Ev(q)
  BY OwesIs DEF Owes, Active
<1>00. \A q \in Publishers : Appending(q)' => Appending(q) /\ Ev(q)' = Ev(q)
  BY DEF Appending, Active
<1>000. \A e : (Out(e)' <=> Out(e)) /\ (Old(c, e)' <=> Old(c, e)) /\ (Gone(c, e)' <=> Gone(c, e))
  <2>1. \A e : Out(e)' <=> Out(e)
    <3>1. \A q \in Publishers : Collecting(q)' => Ev(q)' = Ev(q)
      BY DEF Collecting, Active
    <3> QED
      BY <3>1 DEF Out
  <2> QED
    BY <2>1 DEF Old, Gone, Handler
<1>1. Begun(c)'
  BY <1>000 DEF Client, Begun, Handler, Unheard
<1>2. OneWay(c)'
  BY <1>0 DEF Client, OneWay, Handler
<1>3. Replayed(c)'
  BY DEF Client, Replayed, Handler
<1>4. Past(c)'
  BY <1>0, <1>000 DEF Client, Past, Handler
<1>5. Known(c)'
  BY <1>00 DEF Client, Known, Handler
<1>6. Late(c)'
  BY DEF Client, Late, Subscribed, Handler
<1>7. Seam(c)'
  <2>1. \A e : Comes(c, e) => Comes(c, e)'
    BY <1>0 DEF Comes, Handler
  <2> QED
    BY <2>1, <1>000 DEF Client, Seam, After, Subscribed, Handler
<1>8. Snapshot(c)'
  BY <1>000 DEF Client, Snapshot, Handler
<1>9. Channel(c)'
  BY DEF Client, Channel, Handler
<1>10. SentInTurn(c)'
  BY <1>000 DEF Client, SentInTurn, Handler
<1> QED
  BY <1>1, <1>2, <1>3, <1>4, <1>5, <1>6, <1>7, <1>8, <1>9, <1>10 DEF Client

\* What a stream holds is published, and so is what it has left to replay.
LEMMA HeldIsPublished ==
    ASSUME StreamTypes, Stored, NEW c \in Clients, Client(c), NEW e \in Events
    PROVE  /\ In(e, events[c]) \/ In(e, sent[c]) \/ e \in seen[c] => e < next
           /\ In(e, log) => e < next
           /\ stream[c] \in {"replaying", "live"} /\ In(e, history[c]) => e < next
<1>1. In(e, events[c]) \/ In(e, sent[c]) => e < next
  BY DEF Client, Known
<1>2. e \in seen[c] => In(e, sent[c])
  BY DEF Client, OneWay
<1>3. In(e, log) => e < next
  BY DEF Stored, In
<1>4. stream[c] \in {"replaying", "live"} /\ In(e, history[c]) => In(e, log)
  BY EmptyFacts DEF Client, Begun, Replayed
<1> QED
  BY <1>1, <1>2, <1>3, <1>4

\* An event is created: nobody has it, and nobody will before it is published.
LEMMA EventCreated ==
    ASSUME StreamTypes, Membership, Publishing, Stored, NEW c \in Clients, Client(c),
           NEW p \in Publishers, Create(p)
    PROVE  Client(c)'
<1>0. /\ ~Active(p) /\ Active(p)' /\ Collecting(p)' /\ Ev(p)' = next /\ Todo(p)' = <<>>
      /\ next \in Events
      /\ \A q \in Publishers : q # p => Same(q)
  BY CreateView
<1>1. /\ UNCHANGED <<log, events, dropped>> /\ Handler(c) /\ next' = next + 1
  BY DEF Create, Handler, clientVars
<1>2. Events \subseteq Nat /\ next \in Nat
  BY StreamAssumption DEF StreamTypes, Events
<1>3. \A e \in Events : e < next => before'[e] = before[e]
  BY BeforeKept
<1>4. ~Owes(p, c) /\ ~Owes(p, c)' /\ ~Collecting(p)
  BY <1>0, EmptyFacts DEF Owes, Active, Todo, Collecting
<1>6. \A q \in Publishers : q # p =>
         (Owes(q, c)' <=> Owes(q, c)) /\ (Active(q)' <=> Active(q)) /\ Ev(q)' = Ev(q)
         /\ (Appending(q)' <=> Appending(q)) /\ (Collecting(q)' <=> Collecting(q))
  BY <1>0 DEF Same, Owes, Active, Todo
<1>7. \A e \in Events : /\ In(e, events[c]) \/ In(e, sent[c]) \/ e \in seen[c] => e < next /\ e # next
                        /\ In(e, log) => e < next /\ e # next
                        /\ stream[c] \in {"replaying", "live"} /\ In(e, history[c]) => e < next
  <2>1. \A e \in Events : e < next => e # next
    BY <1>2
  <2> QED
    BY HeldIsPublished, <2>1
<1>8. \A e \in Events : Out(e)' <=> Out(e)
  <2>1. \A e \in Events : e < next' /\ e # next <=> e < next
    BY <1>1, <1>2
  <2>2. \A e : (\A q \in Publishers : Collecting(q)' => Ev(q)' # e)
               <=> e # next /\ \A q \in Publishers : Collecting(q) => Ev(q) # e
    BY <1>0, <1>4, <1>6
  <2> QED
    BY <2>1, <2>2 DEF Out
<1>9. \A e : (Old(c, e)' <=> Old(c, e)) /\ (Gone(c, e)' <=> Gone(c, e))
  BY <1>1 DEF Old, Gone, Handler
<1>10. early[c] \in SUBSET Events
  BY DEF StreamTypes
<1>11. Begun(c)'
  BY <1>1, <1>4, <1>6, <1>8, <1>10 DEF Client, Begun, Handler, Unheard
<1>12. OneWay(c)'
  BY <1>0, <1>1, <1>4, <1>6 DEF Client, OneWay, Handler
<1>13. Replayed(c)'
  BY <1>1 DEF Client, Replayed, Handler
<1>14. Past(c)'
  BY <1>0, <1>1, <1>4, <1>6, <1>9 DEF Client, Past, Handler
<1>15. Known(c)'
  <2>1. \A e \in Events : In(e, events[c]) \/ In(e, sent[c]) => e < next'
    <3>1. \A e \in Events : e < next => e < next'
      BY <1>1, <1>2
    <3> QED
      BY <3>1, <1>7
  <2>2. \A e \in Events : In(e, events[c]) \/ In(e, sent[c]) => \A q \in Publishers : Appending(q)' => Ev(q)' # e
    BY <1>0, <1>6, <1>7 DEF Client, Known
  <2> QED
    BY <1>1, <2>1, <2>2 DEF Known, Handler
<1>16. Late(c)'
  <2>1. next \notin early[c]
    <3>1. Out(next) => next < next
      BY DEF Out
    <3> QED
      BY <3>1, <1>2 DEF Client, Begun
  <2> QED
    BY <1>0, <1>1, <1>6, <2>1 DEF Client, Late, Subscribed, Handler
<1>17. Seam(c)'
  <2>1. \A e : Comes(c, e) => Comes(c, e)'
    BY <1>1, <1>4, <1>6 DEF Comes, Handler
  <2> QED
    BY <1>1, <1>8, <2>1 DEF Client, Seam, After, Subscribed, Handler
<1>18. Snapshot(c)'
  <2>1. stream[c] = "replaying" => InTurn(before', history[c])
    <3>1. history[c] \in Seq(Events) /\ \A i \in 1 .. Len(history[c]) : history[c][i] \in Events /\ In(history[c][i], history[c])
      BY DEF StreamTypes, In
    <3>2. stream[c] = "replaying" => \A i \in 1 .. Len(history[c]) : before'[history[c][i]] = before[history[c][i]]
      BY <3>1, <1>3, <1>7
    <3> QED
      BY <3>1, <3>2, InTurnKept DEF Client, Snapshot
  <2>2. \A x \in Events : In(x, sent[c]) \/ x \in seen[c] => before'[x] = before[x]
    BY <1>3, <1>7
  <2>3. stream[c] \in {"replaying", "live"} => \A x \in Events : In(x, history[c]) => before'[x] = before[x]
    BY <1>3, <1>7
  <2> QED
    BY <1>1, <1>9, <2>1, <2>2, <2>3 DEF Client, Snapshot, Handler
<1>19. Channel(c)'
  <2>1. InTurn(before', events[c])
    <3>1. events[c] \in Seq(Events) /\ \A i \in 1 .. Len(events[c]) : events[c][i] \in Events /\ In(events[c][i], events[c])
      BY DEF StreamTypes, In
    <3>2. \A i \in 1 .. Len(events[c]) : before'[events[c][i]] = before[events[c][i]]
      BY <3>1, <1>3, <1>7
    <3> QED
      BY <3>1, <3>2, InTurnKept DEF Client, Channel
  <2>2. \A x \in Events : In(x, sent[c]) => before'[x] = before[x]
    BY <1>3, <1>7
  <2> QED
    BY <1>1, <2>1, <2>2 DEF Client, Channel, Handler
<1>20. SentInTurn(c)'
  <2>1. \A x \in Events : In(x, log) => before'[x] = before[x]
    BY <1>3, <1>7
  <2> QED
    BY <1>1, <1>9, <2>1 DEF Client, SentInTurn, Handler
<1> QED
  BY <1>11, <1>12, <1>13, <1>14, <1>15, <1>16, <1>17, <1>18, <1>19, <1>20 DEF Client

\* The event a client names is in the store, so no publisher has yet to append it.
LEMMA NamedIsStored ==
    ASSUME StreamTypes, Stored, NEW c \in Clients, Client(c), NEW p \in Publishers, Appending(p),
           Ev(p) \in Events
    PROVE  from[c] # Ev(p)
<1>1. 0 \notin Events
  BY StreamAssumption DEF Events
<1>2. ~In(Ev(p), log)
  BY DEF Stored
<1> QED
  BY <1>1, <1>2 DEF Client, Past

\* A publication begins: an open stream will get it.
LEMMA PublicationBegins ==
    ASSUME StreamTypes, Membership, Publishing, Stored, NEW c \in Clients, Client(c),
           NEW p \in Publishers, Collect(p)
    PROVE  Client(c)'
<1>0. /\ Active(p) /\ Appending(p) /\ Collecting(p) /\ Ev(p) \in Events
      /\ Active(p)' /\ Appending(p)' /\ ~Collecting(p)' /\ Ev(p)' = Ev(p) /\ Todo(p)' = all
      /\ \A q \in Publishers : q # p => Same(q)
  BY CollectView, JobTypes
<1>1. /\ UNCHANGED <<next, before, log, events, dropped>> /\ Handler(c)
  BY DEF Collect, Handler, clientVars
<1>2. Owes(p, c)' <=> Subscribed(c)
  BY <1>0, OwesIs DEF Membership, Owes, Active, Todo
<1>3. \A q \in Publishers :
         /\ q # p => (Owes(q, c)' <=> Owes(q, c)) /\ (Collecting(q)' <=> Collecting(q))
         /\ Active(q)' <=> Active(q)
         /\ Ev(q)' = Ev(q)
         /\ Appending(q)' <=> Appending(q)
  BY <1>0 DEF Same, Owes, Active, Todo
<1>4. ~In(Ev(p), events[c]) /\ ~In(Ev(p), sent[c])
  BY <1>0 DEF Client, Known
<1>5. Ev(p) \notin early[c] /\ from[c] # Ev(p)
  <2>1. ~Out(Ev(p))
    BY <1>0 DEF Out
  <2> QED
    BY <2>1, <1>0, NamedIsStored DEF Client, Begun
<1>6. \A e : (Out(e) => Out(e)') /\ (Out(e)' => Out(e) \/ e = Ev(p))
  BY <1>0, <1>1, <1>3 DEF Out
<1>7. \A e : (Old(c, e)' <=> Old(c, e)) /\ (Gone(c, e)' <=> Gone(c, e))
  BY <1>1 DEF Old, Gone, Handler
<1>11. Begun(c)'
  <2>1. Unheard(c) => ~Subscribed(c)
    BY DEF Unheard, Subscribed
  <2> QED
    BY <2>1, <1>1, <1>2, <1>3, <1>6 DEF Client, Begun, Handler, Unheard
<1>12. OneWay(c)'
  BY <1>1, <1>3, <1>4 DEF Client, OneWay, Handler
<1>13. Replayed(c)'
  BY <1>1 DEF Client, Replayed, Handler
<1>14. Past(c)'
  <2>1. ~Gone(c, Ev(p))
    BY <1>5 DEF Gone
  <2> QED
    BY <2>1, <1>1, <1>3, <1>7 DEF Client, Past, Handler
<1>15. Known(c)'
  BY <1>1, <1>3 DEF Client, Known, Handler
<1>16. Late(c)'
  BY <1>1, <1>3 DEF Client, Late, Subscribed, Handler
<1>17. Seam(c)'
  <2>1. \A e : Subscribed(c) /\ Comes(c, e) => Comes(c, e)'
    BY <1>1, <1>2, <1>3 DEF Comes, Handler
  <2>3. Subscribed(c)' <=> Subscribed(c)
    BY <1>1 DEF Subscribed, Handler
  <2>4. stream[c] \in {"replaying", "live"} => Subscribed(c)
    BY DEF Subscribed
  <2>5. ASSUME Subscribed(c), NEW e \in Events, Out(e)', e \notin early[c] PROVE Comes(c, e)'
    <3>1. CASE Out(e)
      BY <3>1, <2>1, <2>5 DEF Client, Seam
    <3>2. CASE e = Ev(p)
      BY <3>2, <2>5, <1>0, <1>2 DEF Comes
    <3> QED
      BY <3>1, <3>2, <2>5, <1>6
  <2>6. \A e : After(c, e)' <=> After(c, e)
    BY <1>1 DEF After, Handler
  <2> QED
    BY <1>1, <2>1, <2>3, <2>4, <2>5, <2>6 DEF Client, Seam, Handler
<1>18. Snapshot(c)'
  BY <1>1, <1>7 DEF Client, Snapshot, Handler
<1>19. Channel(c)'
  BY <1>1 DEF Client, Channel, Handler
<1>20. SentInTurn(c)'
  BY <1>1, <1>7 DEF Client, SentInTurn, Handler
<1> QED
  BY <1>11, <1>12, <1>13, <1>14, <1>15, <1>16, <1>17, <1>18, <1>19, <1>20 DEF Client

\* An event is stored, perhaps among others: what it adds after the named one
\* comes to the stream or raced with it, and what it adds behind it may come live.
LEMMA EventStored ==
    ASSUME StreamTypes, Publishing, Stored, NEW c \in Clients, Client(c),
           NEW p \in Publishers, Append_(p), Inserted(Ev(p))
    PROVE  Client(c)'
<1>0. /\ Active(p) /\ Appending(p) /\ Active(p)' /\ ~Appending(p)' /\ Ev(p) \in Events
      /\ ~Collecting(p) /\ ~Collecting(p)'
      /\ Ev(p)' = Ev(p) /\ Todo(p)' = Todo(p)
      /\ \A q \in Publishers : q # p => Same(q)
  BY AppendView, JobTypes
<1>1. /\ UNCHANGED <<next, events, dropped, before>> /\ Handler(c)
  BY DEF Append_, Handler, clientVars
<1>2. log \in Seq(Events)
  BY DEF StreamTypes
<1>3. \A x : In(x, log') <=> In(x, log) \/ x = Ev(p)
  BY <1>0, <1>2, InsertedFacts
<1>4. \A q \in Publishers :
         /\ Owes(q, c)' <=> Owes(q, c)
         /\ Active(q)' <=> Active(q)
         /\ Ev(q)' = Ev(q)
         /\ Appending(q)' => Appending(q)
         /\ Collecting(q)' <=> Collecting(q)
  BY <1>0 DEF Same, Owes, Active, Todo
<1>5. ~In(Ev(p), log) /\ ~In(Ev(p), events[c]) /\ ~In(Ev(p), sent[c])
  BY <1>0 DEF Stored, Client, Known
<1>6. from[c] # Ev(p)
  BY <1>0, NamedIsStored
<1>7. \A x : /\ Old(c, x) => Old(c, x)'
             /\ x # Ev(p) => (Old(c, x)' => Old(c, x)) /\ (After(c, x)' => After(c, x))
  BY <1>0, <1>1, <1>2, <1>5, <1>6, OrderKept DEF Handler
<1>8. \A e : Out(e)' <=> Out(e)
  BY <1>1, <1>4 DEF Out
<1>9. \A e : Gone(c, e)' <=> Gone(c, e)
  BY <1>1 DEF Gone, Handler
<1>11. Begun(c)'
  BY <1>1, <1>4, <1>8 DEF Client, Begun, Handler, Unheard
<1>12. OneWay(c)'
  BY <1>1, <1>4 DEF Client, OneWay, Handler
<1>13. Replayed(c)'
  BY <1>1, <1>3 DEF Client, Replayed, Handler
<1>14. Past(c)'
  <2>1. ASSUME NEW e \in Events, Old(c, e)'
        PROVE  (stream[c] = "replaying" => ~In(e, history[c])) /\ (Gone(c, e) => ~In(e, sent[c]))
    <3>1. CASE e = Ev(p)
      BY <3>1, <1>5 DEF Client, Replayed
    <3>2. CASE e # Ev(p)
      BY <3>2, <2>1, <1>7 DEF Client, Past
    <3> QED
      BY <3>1, <3>2
  <2>2. from[c] # 0 => In(from[c], log')
    BY <1>3 DEF Client, Past
  <2>3. \A e \in Events : Gone(c, e) =>
           ~In(e, events[c]) /\ \A q \in Publishers : Owes(q, c) => Ev(q) # e
    BY DEF Client, Past
  <2> QED
    BY <2>1, <2>2, <2>3, <1>1, <1>4, <1>9 DEF Past, Handler
<1>15. Known(c)'
  BY <1>1, <1>4 DEF Client, Known, Handler
<1>16. Late(c)'
  BY <1>1, <1>4 DEF Client, Late, Subscribed, Handler
<1>17. Seam(c)'
  <2>1. \A e : Comes(c, e) => Comes(c, e)'
    BY <1>1, <1>4 DEF Comes, Handler
  <2>2. ASSUME from[c] # 0, stream[c] \in {"replaying", "live"}, NEW e \in Events, After(c, e)'
        PROVE  Comes(c, e) \/ e \in racing[c]
    <3>1. CASE e = Ev(p)
      <4>1. Subscribed(c)
        BY <2>2 DEF Subscribed
      <4>2. Out(Ev(p))
        <5>1. \A q \in Publishers : Collecting(q) => Active(q) /\ q # p
          BY <1>0 DEF Collecting, Active
        <5> QED
          BY <5>1, <1>0 DEF Out, Publishing
      <4>3. CASE Ev(p) \in early[c]
        BY <4>1, <4>3, <3>1, <1>0 DEF Client, Late
      <4>4. CASE Ev(p) \notin early[c]
        BY <4>1, <4>2, <4>4, <3>1 DEF Client, Seam
      <4> QED
        BY <4>3, <4>4
    <3>2. CASE e # Ev(p)
      BY <3>2, <2>2, <1>7 DEF Client, Seam
    <3> QED
      BY <3>1, <3>2
  <2>3. Subscribed(c) => \A e \in Events : Out(e) /\ e \notin early[c] => Comes(c, e)'
    BY <2>1 DEF Client, Seam
  <2> QED
    BY <2>1, <2>2, <2>3, <1>1, <1>8 DEF Seam, Subscribed, Handler
<1>18. Snapshot(c)'
  <2>1. \A e \in Events : In(e, events[c]) /\ In(e, log') => In(e, log)
    BY <1>3, <1>5
  <2> QED
    BY <1>1, <1>7, <2>1 DEF Client, Snapshot, Handler
<1>19. Channel(c)'
  BY <1>1 DEF Client, Channel, Handler
<1>20. SentInTurn(c)'
  <2>1. \A i \in 1 .. Len(sent[c]) : In(sent[c][i], log') => In(sent[c][i], log)
    BY <1>3, <1>5 DEF In
  <2>2. ASSUME NEW x \in Events, NEW e \in Events, NEW i \in 1 .. Len(sent[c]), NEW j \in 1 .. Len(sent[c]),
               i < j, sent[c][i] = x, sent[c][j] = e, In(x, log'), In(e, log'), ~Old(c, e)'
        PROVE  e \notin before[x]
    BY <2>1, <2>2, <1>7 DEF Client, SentInTurn
  <2> QED
    BY <1>1, <2>2 DEF SentInTurn, Handler
<1> QED
  BY <1>11, <1>12, <1>13, <1>14, <1>15, <1>16, <1>17, <1>18, <1>19, <1>20 DEF Client

\* An event is offered to the stream: it was owed once, is in progress, so over
\* before nothing, and goes into the channel or is dropped.
LEMMA EventOffered ==
    ASSUME StreamTypes, Publishing, NEW c \in Clients, Client(c),
           NEW p \in Publishers, Deliver(p), Head(Todo(p)) = c
    PROVE  Client(c)'
<1>0. /\ Active(p) /\ ~Appending(p) /\ Todo(p) # <<>> /\ Ev(p) \in Events /\ Todo(p) \in Seq(Clients)
      /\ Active(p)' /\ ~Appending(p)' /\ Ev(p)' = Ev(p) /\ Todo(p)' = Tail(Todo(p))
      /\ ~Collecting(p) /\ ~Collecting(p)'
      /\ \A q \in Publishers : q # p => Same(q)
  BY DeliverView, JobTypes
<1>1. /\ UNCHANGED <<next, log, before>> /\ Handler(c) /\ Offer(c, Ev(p))
  BY DEF Deliver, Handler, clientVars, Ev, Todo
<1>2. events \in [Clients -> Seq(Events)] /\ dropped \in [Clients -> SUBSET Events] /\ events[c] \in Seq(Events)
  BY DEF StreamTypes
<1>3. Owes(p, c) /\ ~Owes(p, c)'
  <2>1. OnceEach(Todo(p))
    BY <1>0 DEF Publishing
  <2>2. In(c, Todo(p)) /\ ~In(c, Tail(Todo(p)))
    BY <2>1, <1>0, TailFacts, TailOnce
  <2> QED
    BY <2>2, <1>0 DEF Owes, Active, Todo
<1>4. \A q \in Publishers : q # p =>
         (Owes(q, c)' <=> Owes(q, c)) /\ (Active(q)' <=> Active(q)) /\ Ev(q)' = Ev(q)
         /\ (Appending(q)' <=> Appending(q))
  BY <1>0 DEF Same, Owes, Active, Todo
<1>5. \A q \in Publishers : q # p /\ Active(q) => Ev(q) # Ev(p)
  BY <1>0 DEF Publishing
<1>6. \A q \in Publishers : Owes(q, c)' => q # p /\ Owes(q, c) /\ Ev(q)' = Ev(q) /\ Ev(q) # Ev(p)
  BY <1>3, <1>4, <1>5 DEF Owes, Active
<1>7. \A q \in Publishers : Appending(q)' => q # p /\ Appending(q) /\ Ev(q)' = Ev(q) /\ Ev(q) # Ev(p)
  BY <1>0, <1>4, <1>5 DEF Appending, Active
<1>8. \A q \in Publishers : Active(q)' => Active(q) /\ Ev(q)' = Ev(q)
  BY <1>0, <1>4
<1>9. \A x \in Events : Ev(p) \notin before[x]
  BY <1>0 DEF Publishing
<1>90. \A e : (Out(e)' <=> Out(e)) /\ (Old(c, e)' <=> Old(c, e)) /\ (Gone(c, e)' <=> Gone(c, e))
  <2>1. \A q \in Publishers : (Collecting(q)' <=> Collecting(q)) /\ Ev(q)' = Ev(q)
    BY <1>0 DEF Same
  <2> QED
    BY <2>1, <1>1 DEF Out, Old, Gone, Handler
<1>10. \/ /\ events'[c] = Append(events[c], Ev(p)) /\ dropped'[c] = dropped[c]
          /\ OnceEach(events[c]) /\ ~In(Ev(p), events[c])
          /\ OnceEach(events'[c])
          /\ InTurn(before, events'[c])
          /\ \A x : In(x, events'[c]) <=> In(x, events[c]) \/ x = Ev(p)
       \/ events'[c] = events[c] /\ dropped'[c] = dropped[c] \cup {Ev(p)}
  <2>1. CASE Len(events[c]) < sseChannelBuffer
    <3> DEFINE s == events[c]  t == Append(events[c], Ev(p))
    <3>1. events' = [events EXCEPT ![c] = t] /\ dropped' = dropped
      BY <2>1, <1>1 DEF Offer
    <3>2. events'[c] = t /\ dropped'[c] = dropped[c]
      BY <3>1, <1>2
    <3>3. OnceEach(s) /\ ~In(Ev(p), s) /\ InTurn(before, s)
      BY <1>3 DEF Client, OneWay, Channel
    <3>4. OnceEach(t) /\ \A x : In(x, t) <=> In(x, s) \/ x = Ev(p)
      BY <3>3, <1>0, <1>2, AppendFacts, AppendOnce
    <3>5. InTurn(before, t)
      <4>1. Len(t) = Len(s) + 1 /\ Len(s) \in Nat /\ (\A i \in 1 .. Len(s) : t[i] = s[i] /\ s[i] \in Events) /\ t[Len(s) + 1] = Ev(p)
        BY <1>0, <1>2, AppendFacts
      <4> HIDE DEF s, t
      <4> QED
        BY <4>1, <3>3, <1>9 DEF InTurn
    <3> QED
      BY <3>2, <3>3, <3>4, <3>5
  <2>2. CASE ~(Len(events[c]) < sseChannelBuffer)
    BY <2>2, <1>1, <1>2 DEF Offer
  <2> QED
    BY <2>1, <2>2
<1>11. Begun(c)'
  <2>1. ~Unheard(c)
    BY <1>3 DEF Client, Begun
  <2> QED
    BY <2>1, <1>1, <1>90 DEF Client, Begun, Handler, Unheard
<1>12. OneWay(c)'
  <2>1. In(Ev(p), sent[c]) => Ev(p) \in seen[c]
    BY <1>3 DEF Client, OneWay
  <2>3. CASE events'[c] = events[c]
    BY <2>3, <1>1, <1>6 DEF Client, OneWay, Handler
  <2>4. CASE OnceEach(events'[c]) /\ \A x : In(x, events'[c]) <=> In(x, events[c]) \/ x = Ev(p)
    BY <2>1, <2>4, <1>1, <1>6 DEF Client, OneWay, Handler
  <2> QED
    BY <2>3, <2>4, <1>10
<1>13. Replayed(c)'
  BY <1>1 DEF Client, Replayed, Handler
<1>14. Past(c)'
  <2>1. \A x : In(x, events'[c]) => In(x, events[c]) \/ x = Ev(p)
    BY <1>10
  <2> QED
    BY <2>1, <1>1, <1>3, <1>6, <1>90 DEF Client, Past, Handler
<1>15. Known(c)'
  <2>1. \A x : In(x, events'[c]) => In(x, events[c]) \/ x = Ev(p)
    BY <1>10
  <2>2. Ev(p) < next
    BY <1>0 DEF Publishing
  <2> QED
    BY <2>1, <2>2, <1>1, <1>7 DEF Client, Known, Handler
<1>16. Late(c)'
  BY <1>1, <1>8 DEF Client, Late, Subscribed, Handler
<1>17. Seam(c)'
  <2>1. ASSUME NEW e, Comes(c, e) PROVE Comes(c, e)'
    <3>1. CASE e = Ev(p)
      BY <3>1, <1>10 DEF Comes
    <3>2. CASE e # Ev(p)
      BY <2>1, <3>2, <1>1, <1>4, <1>10 DEF Comes, Handler
    <3> QED
      BY <3>1, <3>2
  <2> QED
    BY <2>1, <1>1, <1>90 DEF Client, Seam, After, Subscribed, Handler
<1>18. Snapshot(c)'
  <2>1. \A x : In(x, events'[c]) => In(x, events[c]) \/ x = Ev(p)
    BY <1>10
  <2> QED
    BY <2>1, <1>1, <1>9, <1>90 DEF Client, Snapshot, Handler
<1>19. Channel(c)'
  <2>1. \A x : In(x, events'[c]) => In(x, events[c]) \/ x = Ev(p)
    BY <1>10
  <2>2. InTurn(before, events'[c])
    BY <1>10 DEF Client, Channel
  <2> QED
    BY <2>1, <2>2, <1>1, <1>9 DEF Client, Channel, Handler
<1>20. SentInTurn(c)'
  BY <1>1, <1>90 DEF Client, SentInTurn, Handler
<1> QED
  BY <1>11, <1>12, <1>13, <1>14, <1>15, <1>16, <1>17, <1>18, <1>19, <1>20 DEF Client

\* A publisher's step preserves what holds of every stream.
LEMMA PublisherStep ==
    ASSUME StreamInd, NEW p \in Publishers, Create(p) \/ Publish(p)
    PROVE  StreamInd'
<1>0. StreamTypes /\ Membership /\ Publishing /\ Stored /\ \A c \in Clients : Client(c)
  BY DEF StreamInd
<1>1. StreamTypes' /\ Membership' /\ Publishing' /\ Stored'
  BY <1>0, PublisherTypes, PublishingStep, StoredStep
<1>2. ASSUME NEW c \in Clients PROVE Client(c)'
  <2>0. CASE Create(p)
    BY <2>0, <1>0, EventCreated
  <2>1. CASE Collect(p)
    BY <2>1, <1>0, PublicationBegins
  <2>2. CASE Append_(p)
    <3>1. CASE Inserted(Ev(p))
      BY <3>1, <2>2, <1>0, EventStored
    <3>2. CASE log' = log
      <4>1. UNCHANGED <<next, events, dropped, before>> /\ Handler(c)
        BY <2>2 DEF Append_, Handler, clientVars
      <4>2. \A q \in Publishers :
              /\ Owes(q, c)' <=> Owes(q, c)
              /\ Active(q)' => Active(q) /\ Ev(q)' = Ev(q)
              /\ Appending(q)' => Appending(q)
              /\ Collecting(q)' <=> Collecting(q)
        BY <2>2, <1>0, AppendView DEF Same, Owes, Active, Todo
      <4> QED
        BY <3>2, <4>1, <4>2, <1>0, NothingForIt
    <3> QED
      BY <3>1, <3>2, <2>2 DEF Append_, Ev
  <2>3. CASE Deliver(p)
    <3>1. CASE Head(Todo(p)) = c
      BY <3>1, <2>3, <1>0, EventOffered
    <3>2. CASE Head(Todo(p)) # c
      <4>1. /\ Active(p) /\ Todo(p) # <<>> /\ Todo(p) \in Seq(Clients)
            /\ Active(p)' /\ ~Appending(p)' /\ Ev(p)' = Ev(p) /\ Todo(p)' = Tail(Todo(p))
            /\ ~Collecting(p) /\ ~Collecting(p)'
            /\ \A q \in Publishers : q # p => Same(q)
        BY <2>3, <1>0, DeliverView, JobTypes
      <4>2. UNCHANGED <<next, log, before>> /\ Handler(c) /\ Offer(Head(Todo(p)), Ev(p))
        BY <2>3 DEF Deliver, Handler, clientVars, Ev, Todo
      <4>3. events'[c] = events[c] /\ dropped'[c] = dropped[c]
        <5> DEFINE d == Head(Todo(p))  e == Ev(p)
        <5> HIDE DEF d, e
        <5>1. d # c /\ Offer(d, e)
          BY <4>2, <3>2 DEF d, e
        <5>2. events \in [Clients -> Seq(Events)] /\ dropped \in [Clients -> SUBSET Events]
          BY <1>0 DEF StreamTypes
        <5> QED
          BY <5>1, <5>2 DEF Offer
      <4>4. In(c, Tail(Todo(p))) <=> In(c, Todo(p))
        BY <4>1, <3>2, TailFacts
      <4>5. \A q \in Publishers :
              /\ Owes(q, c)' <=> Owes(q, c)
              /\ Active(q)' => Active(q) /\ Ev(q)' = Ev(q)
              /\ Appending(q)' => Appending(q)
              /\ Collecting(q)' <=> Collecting(q)
        BY <4>1, <4>4 DEF Same, Owes, Active, Todo
      <4> QED
        BY <4>2, <4>3, <4>5, <1>0, NothingForIt
    <3> QED
      BY <3>1, <3>2
  <2>4. CASE PublishReturns(p)
    <3>1. UNCHANGED <<next, log, events, dropped, before>> /\ Handler(c)
      BY <2>4 DEF PublishReturns, Handler, clientVars
    <3>2. /\ Active(p) /\ Todo(p) = <<>> /\ ~Active(p)' /\ ~Appending(p)'
          /\ ~Collecting(p) /\ ~Collecting(p)'
          /\ \A q \in Publishers : q # p => Same(q)
      BY <2>4, <1>0, ReturnView
    <3>3. ~Owes(p, c) /\ ~Owes(p, c)'
      BY <3>2, EmptyFacts DEF Owes, Active, Todo
    <3>4. \A q \in Publishers :
            /\ Owes(q, c)' <=> Owes(q, c)
            /\ Active(q)' => Active(q) /\ Ev(q)' = Ev(q)
            /\ Appending(q)' => Appending(q)
            /\ Collecting(q)' <=> Collecting(q)
      BY <3>2, <3>3 DEF Same, Owes, Active, Todo
    <3> QED
      BY <3>1, <3>4, <1>0, NothingForIt
  <2> QED
    BY <2>0, <2>1, <2>2, <2>3, <2>4 DEF Publish
<1> QED
  BY <1>1, <1>2 DEF StreamInd

-----------------------------------------------------------------------------
(* What a handler's own step means to its stream *)

\* The publishers do not move.
LEMMA PublishersWait ==
    ASSUME job' = job
    PROVE  \A q, c : /\ Owes(q, c)' <=> Owes(q, c)
                     /\ Active(q)' <=> Active(q)
                     /\ Ev(q)' = Ev(q)
                     /\ Appending(q)' <=> Appending(q)
                     /\ Collecting(q)' <=> Collecting(q)
BY DEF Owes, Active, Ev, Appending, Collecting

\* What is published, and where the store has it, does not change either.
LEMMA StoreWaits ==
    ASSUME UNCHANGED <<next, stamp, job, log, before>>, NEW c \in Clients
    PROVE  /\ \A e : Out(e)' <=> Out(e)
           /\ from'[c] = from[c] => \A e : (Old(c, e)' <=> Old(c, e)) /\ (After(c, e)' <=> After(c, e))
           /\ from'[c] = from[c] /\ early'[c] = early[c] => \A e : Gone(c, e)' <=> Gone(c, e)
BY PublishersWait DEF Out, Old, After, Gone

\* What is published when a stream subscribes.
LEMMA PublishedIs ==
    \A e : e \in Published <=> e \in Events /\ Out(e)
BY DEF Published, Out, Collecting, Ev

\* A stream before its subscription: nothing has come to it and nothing will.
LEMMA Fresh ==
    ASSUME NEW c \in Clients, Client(c), stream[c] \in {"idle", "accepted"}
    PROVE  /\ history[c] = <<>> /\ events[c] = <<>> /\ sent[c] = <<>> /\ seen[c] = {}
           /\ \A q \in Publishers : ~Owes(q, c)
BY DEF Client, Begun, Unheard

\* The request is accepted.
LEMMA StreamOpens ==
    ASSUME StreamTypes, Membership, NEW c \in Clients, Client(c), Open(c)
    PROVE  Client(c)'
<1>1. /\ UNCHANGED <<next, stamp, job, log, before>>
      /\ stream[c] = "idle" /\ stream'[c] = "accepted"
      /\ from'[c] # 0 => In(from'[c], log)
      /\ history'[c] = history[c] /\ events'[c] = events[c] /\ seen'[c] = seen[c]
      /\ sent'[c] = sent[c] /\ dropped'[c] = dropped[c] /\ early'[c] = early[c]
      /\ racing'[c] = racing[c]
  BY OpenView DEF StepOf
<1>2. /\ history[c] = <<>> /\ events[c] = <<>> /\ sent[c] = <<>> /\ seen[c] = {}
      /\ \A q \in Publishers : ~Owes(q, c)
  BY <1>1, Fresh
<1>3. \A q \in Publishers : ~Owes(q, c)'
  BY <1>1, <1>2, PublishersWait
<1>5. ~Subscribed(c)'
  BY <1>1 DEF Subscribed
<1>6. Begun(c)'
  <2>1. \A e \in early[c] : Out(e)'
    BY <1>1, StoreWaits DEF Client, Begun
  <2> QED
    BY <2>1, <1>1, <1>2, <1>3 DEF Begun
<1>7. OneWay(c)' /\ Replayed(c)' /\ Past(c)' /\ Known(c)'
  <2>1. OneWay(c)' /\ Replayed(c)' /\ Known(c)'
    BY <1>1, <1>2, <1>3, EmptyFacts DEF OneWay, Replayed, Known
  <2>2. Past(c)'
    BY <1>1, <1>2, <1>3, EmptyFacts DEF Past
  <2> QED
    BY <2>1, <2>2
<1>8. Late(c)' /\ Seam(c)'
  BY <1>1, <1>5 DEF Late, Seam
<1>9. Snapshot(c)' /\ Channel(c)'
  BY <1>1, <1>2, EmptyFacts DEF Snapshot, Channel
<1>10. SentInTurn(c)'
  BY <1>1, <1>2 DEF SentInTurn
<1> QED
  BY <1>6, <1>7, <1>8, <1>9, <1>10 DEF Client

\* The stream ends early: nothing is promised to it any more.
LEMMA StreamQuits ==
    ASSUME StreamTypes, Membership, NEW c \in Clients, Client(c), Disconnect(c)
    PROVE  Client(c)'
<1>1. /\ UNCHANGED <<next, stamp, job, log, before>>
      /\ stream'[c] = "closed"
      /\ from'[c] = from[c]
      /\ history'[c] = history[c] /\ events'[c] = events[c] /\ seen'[c] = seen[c]
      /\ sent'[c] = sent[c] /\ dropped'[c] = dropped[c] /\ early'[c] = early[c]
      /\ racing'[c] = racing[c]
  BY DisconnectView DEF StepOf
<1>2. \A q \in Publishers : /\ Owes(q, c)' <=> Owes(q, c)
                            /\ Ev(q)' = Ev(q)
                            /\ Appending(q)' <=> Appending(q)
  BY <1>1, PublishersWait
<1>3. ~Subscribed(c)' /\ stream'[c] \notin {"replaying", "live", "loading"}
  BY <1>1 DEF Subscribed
<1>4. ~Unheard(c)'
  BY <1>1 DEF Unheard
<1>5. Begun(c)'
  <2>1. \A e \in early[c] : Out(e)'
    BY <1>1, StoreWaits DEF Client, Begun
  <2> QED
    BY <2>1, <1>4, <1>1, <1>2, <1>3 DEF Client, Begun
<1>6. OneWay(c)' /\ Known(c)'
  BY <1>1, <1>2 DEF Client, OneWay, Known
<1>7. Past(c)'
  BY <1>1, <1>2, <1>3, StoreWaits DEF Client, Past
<1>8. Replayed(c)' /\ Late(c)' /\ Seam(c)' /\ Snapshot(c)'
  <2>1. Replayed(c)' /\ Snapshot(c)'
    BY <1>3 DEF Replayed, Snapshot
  <2>2. Late(c)' /\ Seam(c)'
    BY <1>3 DEF Late, Seam
  <2> QED
    BY <2>1, <2>2
<1>9. Channel(c)' /\ SentInTurn(c)'
  BY <1>1, StoreWaits DEF Client, Channel, SentInTurn
<1> QED
  BY <1>5, <1>6, <1>7, <1>8, <1>9 DEF Client

\* The handler subscribes: publications under way race with it.
LEMMA StreamSubscribes ==
    ASSUME StreamTypes, Membership, NEW c \in Clients, Client(c), Subscribe(c)
    PROVE  Client(c)'
<1>1. /\ UNCHANGED <<next, stamp, job, log, before>>
      /\ stream[c] = "accepted" /\ stream'[c] = IF from[c] = 0 THEN "live" ELSE "loading"
      /\ from'[c] = from[c]
      /\ history'[c] = history[c] /\ events'[c] = events[c] /\ seen'[c] = seen[c]
      /\ sent'[c] = sent[c] /\ dropped'[c] = dropped[c]
      /\ early'[c] = Published /\ racing'[c] = Published \cap InProgress
  BY SubscribeView DEF StepOf
<1>2. /\ history[c] = <<>> /\ events[c] = <<>> /\ sent[c] = <<>> /\ seen[c] = {}
      /\ \A q \in Publishers : ~Owes(q, c)
  BY <1>1, Fresh
<1>3. \A q \in Publishers : ~Owes(q, c)' /\ (Active(q)' <=> Active(q)) /\ Ev(q)' = Ev(q)
  BY <1>1, <1>2, PublishersWait
<1>4. \A e \in Events : e \in early'[c] <=> Out(e)'
  BY <1>1, PublishedIs, StoreWaits
<1>5. stream'[c] \in {"live", "loading"}
  BY <1>1
<1>6. Begun(c)'
  <2>1. ~Unheard(c)' /\ early'[c] \subseteq Events
    BY <1>1, <1>5, PublishedIs DEF Unheard
  <2> QED
    BY <2>1, <1>1, <1>2, <1>4 DEF Begun
<1>7. OneWay(c)' /\ Known(c)' /\ Replayed(c)'
  BY <1>1, <1>2, <1>3, <1>5, EmptyFacts DEF OneWay, Known, Replayed
<1>8. Past(c)'
  BY <1>1, <1>2, <1>3, EmptyFacts DEF Client, Past
<1>9. Late(c)'
  BY <1>1, <1>3, InProgressIs, Zenon DEF Late
<1>10. Seam(c)'
  <2>2. ~(from'[c] # 0 /\ stream'[c] \in {"replaying", "live"})
    BY <1>1
  <2> QED
    BY <1>4, <2>2 DEF Seam
<1>11. Snapshot(c)' /\ Channel(c)'
  BY <1>1, <1>2, <1>5, EmptyFacts DEF Snapshot, Channel
<1>12. SentInTurn(c)'
  BY <1>1, <1>2 DEF SentInTurn
<1> QED
  BY <1>6, <1>7, <1>8, <1>9, <1>10, <1>11, <1>12 DEF Client

\* The snapshot is taken: it is what the store has after the named event, in
\* turn, and of the stored events the channel holds it lacks none that matters.
LEMMA SnapshotTaken ==
    ASSUME StreamTypes, Membership, Publishing, Stored, NEW c \in Clients, Client(c), Load(c)
    PROVE  Client(c)'
<1>1. /\ UNCHANGED <<next, stamp, job, log, before>>
      /\ stream[c] = "loading" /\ stream'[c] = "replaying" /\ from'[c] = from[c]
      /\ \E i \in 1 .. Len(log) :
            log[i] = from[c] /\ history'[c] = SubSeq(log, i + 1, Len(log))
      /\ events'[c] = events[c] /\ seen'[c] = seen[c]
      /\ sent'[c] = sent[c] /\ dropped'[c] = dropped[c] /\ early'[c] = early[c]
      /\ racing'[c] = racing[c]
  BY LoadView DEF StepOf
<1>2. PICK i \in 1 .. Len(log) : log[i] = from[c] /\ history'[c] = SubSeq(log, i + 1, Len(log))
  BY <1>1
<1> DEFINE h == history'[c]
<1>3. log \in Seq(Events) /\ Len(log) \in Nat /\ OnceEach(log) /\ InTurn(before, log)
      /\ \A k \in 1 .. Len(log) : log[k] \in Events
  BY DEF StreamTypes, Stored
<1>4. /\ Len(h) = Len(log) - i /\ h \in Seq(Events)
      /\ \A k \in 1 .. Len(log) - i : h[k] = log[i + k]
      /\ \A x : In(x, h) <=> \E k \in i + 1 .. Len(log) : log[k] = x
  <2> DEFINE t == SubSeq(log, i + 1, Len(log))
  <2>1. /\ Len(t) = Len(log) - i /\ t \in Seq(Events)
        /\ \A k \in 1 .. Len(log) - i : t[k] = log[i + k]
        /\ \A x : In(x, t) <=> \E k \in i + 1 .. Len(log) : log[k] = x
    BY <1>3, RestFacts
  <2>2. h = t
    BY <1>2
  <2> HIDE DEF h, t
  <2> QED
    BY <2>1, <2>2
<1> HIDE DEF h
<1>5. from[c] # 0
  <2>1. 0 \notin Events
    BY StreamAssumption DEF Events
  <2> QED
    BY <2>1, <1>2, <1>3
<1>6. history[c] = <<>> /\ sent[c] = <<>> /\ seen[c] = {}
  BY <1>1 DEF Client, Begun
<1>7. \A q \in Publishers : /\ Owes(q, c)' <=> Owes(q, c)
                            /\ Active(q)' <=> Active(q)
                            /\ Ev(q)' = Ev(q)
                            /\ Appending(q)' <=> Appending(q)
  BY <1>1, PublishersWait
<1>8. Subscribed(c) /\ Subscribed(c)'
  BY <1>1 DEF Subscribed
<1>9. Begun(c)'
  <2>1. ~Unheard(c)' /\ \A e \in early[c] : Out(e)'
    BY <1>1, StoreWaits DEF Client, Begun, Unheard
  <2> QED
    BY <2>1, <1>1 DEF Begun
<1>10. OneWay(c)' /\ Known(c)' /\ Late(c)'
  <2>1. OneWay(c)' /\ Known(c)'
    BY <1>1, <1>7 DEF Client, OneWay, Known
  <2>2. Late(c)'
    BY <1>1, <1>7, <1>8 DEF Client, Late
  <2> QED
    BY <2>1, <2>2
<1>11. Replayed(c)'
  <2>1. OnceEach(h)
    <3>1. \A k \in 1 .. Len(h) : i + k \in 1 .. Len(log) /\ h[k] = log[i + k]
      BY <1>3, <1>4
    <3>2. \A k, m \in 1 .. Len(h) : i + k = i + m => k = m
      BY <1>3, <1>4
    <3> QED
      BY <3>1, <3>2, <1>3 DEF OnceEach
  <2>2. \A x : In(x, h) => In(x, log)
    BY <1>3, <1>4 DEF In
  <2> QED
    BY <2>1, <2>2, <1>1, <1>6, EmptyFacts DEF Replayed, h
<1>12. \A e \in Events : In(e, log) => Old(c, e) \/ In(e, h)
  <2> SUFFICES ASSUME NEW e \in Events, In(e, log) PROVE Old(c, e) \/ In(e, h)
    OBVIOUS
  <2>1. PICK k \in 1 .. Len(log) : log[k] = e
    BY DEF In
  <2>2. CASE k <= i
    BY <2>1, <2>2, <1>2 DEF Old
  <2>3. CASE k > i
    BY <2>1, <2>3, <1>3, <1>4
  <2> QED
    BY <2>2, <2>3, <1>3
<1>13. \A e \in Events : Old(c, e) => ~In(e, h)
  <2> SUFFICES ASSUME NEW e \in Events, Old(c, e), In(e, h) PROVE FALSE
    OBVIOUS
  <2>1. PICK k \in i + 1 .. Len(log) : log[k] = e
    BY <1>4
  <2>2. PICK m \in 1 .. Len(log), j \in 1 .. Len(log) : m <= j /\ log[j] = from[c] /\ log[m] = e
    BY DEF Old
  <2>3. j = i /\ m = k
    BY <2>1, <2>2, <1>2, <1>3 DEF OnceEach
  <2> QED
    BY <2>1, <2>2, <2>3, <1>3
<1>14. Past(c)'
  <2>1. \A e : (Old(c, e)' <=> Old(c, e)) /\ (Gone(c, e)' <=> Gone(c, e))
    BY <1>1, StoreWaits
  <2> QED
    BY <2>1, <1>1, <1>7, <1>13 DEF Client, Past, h
<1>15. Seam(c)'
  <2>1. \A e : Comes(c, e) => Comes(c, e)'
    BY <1>1, <1>6, <1>7, EmptyFacts DEF Comes
  <2>2. ASSUME NEW e \in Events, After(c, e)' PROVE Comes(c, e)'
    <3>1. PICK m \in 1 .. Len(log), j \in 1 .. Len(log) : j < m /\ log[j] = from[c] /\ log[m] = e
      BY <2>2, <1>1 DEF After
    <3>2. j = i
      BY <3>1, <1>2, <1>3 DEF OnceEach
    <3>3. In(e, h)
      BY <3>1, <3>2, <1>3, <1>4
    <3> QED
      BY <3>3 DEF Comes, h
  <2> QED
    BY <2>1, <2>2, <1>1, <1>8, StoreWaits DEF Client, Seam
<1>16. Snapshot(c)'
  <2>1. InTurn(before, h)
    <3>1. \A k \in 1 .. Len(h) : i + k \in 1 .. Len(log) /\ h[k] = log[i + k]
      BY <1>3, <1>4
    <3>2. \A k, m \in 1 .. Len(h) : k < m => i + k < i + m
      BY <1>3, <1>4
    <3> QED
      BY <3>1, <3>2, <1>3 DEF InTurn
  <2>2. ASSUME NEW x \in Events, NEW e \in Events, In(x, h), In(e, events[c]), In(e, log), e \in before[x]
        PROVE  In(e, h) \/ Old(c, e)'
    BY <2>2, <1>1, <1>12, StoreWaits
  <2> QED
    BY <2>1, <2>2, <1>1, <1>6, EmptyFacts DEF Snapshot, h
<1>17. Channel(c)' /\ SentInTurn(c)'
  BY <1>1, StoreWaits DEF Client, Channel, SentInTurn
<1> QED
  BY <1>9, <1>10, <1>11, <1>14, <1>15, <1>16, <1>17 DEF Client

\* The snapshot is used up.
LEMMA ReplayEnds ==
    ASSUME StreamTypes, Membership, NEW c \in Clients, Client(c), EndReplay(c)
    PROVE  Client(c)'
<1>1. /\ UNCHANGED <<next, stamp, job, log, before>>
      /\ stream[c] = "replaying" /\ stream'[c] = "live" /\ history[c] = <<>>
      /\ from'[c] = from[c]
      /\ history'[c] = history[c] /\ events'[c] = events[c] /\ seen'[c] = seen[c]
      /\ sent'[c] = sent[c] /\ dropped'[c] = dropped[c] /\ early'[c] = early[c]
      /\ racing'[c] = racing[c]
  BY EndReplayView DEF StepOf
<1>2. \A q \in Publishers : /\ Owes(q, c)' <=> Owes(q, c)
                            /\ Active(q)' <=> Active(q)
                            /\ Ev(q)' = Ev(q)
                            /\ Appending(q)' <=> Appending(q)
  BY <1>1, PublishersWait
<1>3. Subscribed(c) /\ Subscribed(c)'
  BY <1>1 DEF Subscribed
<1>4. Begun(c)'
  <2>1. ~Unheard(c)' /\ \A e \in early[c] : Out(e)'
    BY <1>1, StoreWaits DEF Client, Begun, Unheard
  <2> QED
    BY <2>1, <1>1 DEF Begun
<1>5. OneWay(c)' /\ Known(c)' /\ Replayed(c)'
  BY <1>1, <1>2 DEF Client, OneWay, Known, Replayed
<1>6. Past(c)'
  BY <1>1, <1>2, StoreWaits DEF Client, Past
<1>7. Late(c)'
  BY <1>1, <1>2, <1>3 DEF Client, Late
<1>8. Seam(c)'
  <2>1. \A e : Comes(c, e) => Comes(c, e)'
    BY <1>1, <1>2 DEF Comes
  <2>2. \A e : After(c, e)' <=> After(c, e)
    BY <1>1 DEF After
  <2> QED
    BY <2>1, <2>2, <1>1, <1>3, StoreWaits DEF Client, Seam
<1>9. Snapshot(c)' /\ Channel(c)' /\ SentInTurn(c)'
  BY <1>1, StoreWaits DEF Client, Snapshot, Channel, SentInTurn
<1> QED
  BY <1>4, <1>5, <1>6, <1>7, <1>8, <1>9 DEF Client

\* An event of the snapshot is written.
LEMMA EventReplayed ==
    ASSUME StreamTypes, Membership, Publishing, Stored, NEW c \in Clients, Client(c), Replay(c)
    PROVE  Client(c)'
<1> DEFINE h == history[c]  e0 == Head(history[c])  s == sent[c]
<1>1. /\ UNCHANGED <<next, stamp, job, log, before>>
      /\ stream[c] = "replaying" /\ stream'[c] \in {"replaying", "closed"}
      /\ h # <<>> /\ history'[c] = Tail(h)
      /\ sent'[c] = Append(s, e0)
      /\ seen'[c] = seen[c] \cup {e0}
      /\ from'[c] = from[c] /\ events'[c] = events[c]
      /\ dropped'[c] = dropped[c] /\ early'[c] = early[c] /\ racing'[c] = racing[c]
  BY ReplayView DEF StepOf
<1>2. \A q \in Publishers : /\ Owes(q, c)' <=> Owes(q, c)
                            /\ Active(q)' <=> Active(q)
                            /\ Ev(q)' = Ev(q)
                            /\ Appending(q)' <=> Appending(q)
  BY <1>1, PublishersWait
<1>3. h \in Seq(Events) /\ s \in Seq(Events)
  BY DEF StreamTypes
<1>4. OnceEach(h) /\ InTurn(before, h)
  BY <1>1 DEF Client, Replayed, Snapshot
<1>5. /\ e0 \in Events /\ In(e0, h) /\ e0 = h[1]
      /\ Len(h) \in Nat \ {0} /\ Len(Tail(h)) = Len(h) - 1
      /\ \A i \in 1 .. Len(h) - 1 : Tail(h)[i] = h[i + 1]
      /\ \A x : In(x, h) <=> In(x, Tail(h)) \/ x = e0
      /\ OnceEach(Tail(h)) /\ ~In(e0, Tail(h))
  BY <1>1, <1>3, <1>4, TailFacts, TailOnce
<1>6. In(e0, log) /\ ~In(e0, s) /\ OnceEach(s)
  BY <1>1, <1>5 DEF Client, Replayed, OneWay
<1>7. /\ Len(Append(s, e0)) = Len(s) + 1 /\ Len(s) \in Nat
      /\ \A i \in 1 .. Len(s) : Append(s, e0)[i] = s[i]
      /\ Append(s, e0)[Len(s) + 1] = e0
      /\ \A x : In(x, Append(s, e0)) <=> In(x, s) \/ x = e0
      /\ OnceEach(Append(s, e0))
  BY <1>3, <1>5, <1>6, AppendFacts, AppendOnce
<1> DEFINE hh == history'[c]  ss == sent'[c]
<1> HIDE DEF h, e0, s, hh, ss
<1>8. /\ \A x : In(x, h) <=> In(x, hh) \/ x = e0
      /\ OnceEach(hh) /\ ~In(e0, hh)
      /\ Len(hh) = Len(h) - 1 /\ \A i \in 1 .. Len(h) - 1 : hh[i] = h[i + 1]
  BY <1>1, <1>5 DEF hh
<1>9. /\ Len(ss) = Len(s) + 1 /\ (\A i \in 1 .. Len(s) : ss[i] = s[i]) /\ ss[Len(s) + 1] = e0
      /\ \A x : In(x, ss) <=> In(x, s) \/ x = e0
      /\ OnceEach(ss)
  BY <1>1, <1>7 DEF ss
<1>10. Subscribed(c) /\ (Subscribed(c)' => stream'[c] = "replaying")
  BY <1>1 DEF Subscribed
<1>11. Begun(c)'
  <2>1. ~Unheard(c)' /\ \A e \in early[c] : Out(e)'
    BY <1>1, StoreWaits DEF Client, Begun, Unheard
  <2> QED
    BY <2>1, <1>1 DEF Client, Begun
<1>12. OneWay(c)'
  BY <1>1, <1>2, <1>9 DEF Client, OneWay, s, ss
<1>13. Replayed(c)'
  <2>1. \A e \in Events : In(e, hh) => In(e, log) /\ ~In(e, ss)
    BY <1>1, <1>8, <1>9 DEF Client, Replayed, h, s
  <2>2. \A e \in Events : In(e, ss) => e \in seen'[c]
    BY <1>1, <1>9 DEF Client, Replayed, s
  <2> QED
    BY <2>1, <2>2, <1>1, <1>8 DEF Replayed, hh, ss
<1>14. Past(c)'
  <2>1. \A e : (Old(c, e)' <=> Old(c, e)) /\ (Gone(c, e)' <=> Gone(c, e))
    BY <1>1, StoreWaits
  <2>2. ASSUME NEW e \in Events, Old(c, e) PROVE ~In(e, hh) /\ (Gone(c, e) => ~In(e, ss))
    BY <2>2, <1>1, <1>5, <1>8, <1>9 DEF Client, Past, h, s
  <2> QED
    BY <2>1, <2>2, <1>1, <1>2 DEF Client, Past, hh, ss
<1>15. Known(c)'
  <2>1. e0 < next /\ \A q \in Publishers : Appending(q) => Ev(q) # e0
    BY <1>5, <1>6, HeldIsPublished DEF Stored
  <2> QED
    BY <2>1, <1>1, <1>2, <1>9 DEF Client, Known, s, ss
<1>16. Late(c)'
  BY <1>1, <1>2, <1>10 DEF Client, Late
<1>17. Seam(c)'
  <2>1. \A e : Comes(c, e) => Comes(c, e)'
    BY <1>1, <1>2, <1>8, <1>9 DEF Comes, h, hh, s, ss
  <2>2. \A e : After(c, e)' <=> After(c, e)
    BY <1>1 DEF After
  <2> QED
    BY <2>1, <2>2, <1>1, <1>10, StoreWaits DEF Client, Seam
<1>18. Snapshot(c)'
  <2>1. InTurn(before, hh)
    <3>1. \A k \in 1 .. Len(hh) : k + 1 \in 1 .. Len(h) /\ hh[k] = h[k + 1]
      BY <1>5, <1>8
    <3>2. \A k, m \in 1 .. Len(hh) : k < m => k + 1 < m + 1
      BY <1>5, <1>8
    <3> QED
      BY <3>1, <3>2, <1>4 DEF InTurn
  <2>2. \A e : In(e, hh) => e \notin before[e0]
    <3> SUFFICES ASSUME NEW e, In(e, hh) PROVE e \notin before[e0]
      OBVIOUS
    <3>1. PICK k \in 1 .. Len(hh) : hh[k] = e
      BY DEF In
    <3>2. k + 1 \in 1 .. Len(h) /\ 1 \in 1 .. Len(h) /\ 1 < k + 1 /\ h[k + 1] = e
      BY <3>1, <1>5, <1>8
    <3> QED
      BY <3>2, <1>4, <1>5 DEF InTurn
  <2>3. \A x, e \in Events : In(x, ss) /\ In(e, hh) => e \notin before[x]
    BY <2>2, <1>1, <1>8, <1>9 DEF Client, Snapshot, h, s
  <2>4. \A x : x \in seen'[c] \/ In(x, hh) <=> x \in seen[c] \/ In(x, h)
    BY <1>1, <1>8
  <2>5. \A x, e \in Events :
           (x \in seen'[c] \/ In(x, hh)) /\ In(e, events[c]) /\ In(e, log) /\ e \in before[x]
           => e \in seen'[c] \/ In(e, hh) \/ Old(c, e)'
    BY <2>4, <1>1, StoreWaits DEF Client, Snapshot, h
  <2> QED
    BY <2>1, <2>3, <2>5, <1>1 DEF Snapshot, hh, ss
<1>19. Channel(c)'
  BY <1>1, <1>9 DEF Client, Channel, s, ss
<1>20. SentInTurn(c)'
  <2>1. \A i \in 1 .. Len(s) : e0 \notin before[s[i]]
    <3>1. \A i \in 1 .. Len(s) : s[i] \in Events /\ In(s[i], s)
      BY <1>3 DEF In
    <3> QED
      BY <3>1, <1>1, <1>5 DEF Client, Snapshot, h, s
  <2>2. ASSUME NEW x \in Events, NEW e \in Events, NEW i \in 1 .. Len(ss), NEW j \in 1 .. Len(ss),
               i < j, ss[i] = x, ss[j] = e, In(x, log), In(e, log), ~Old(c, e)
        PROVE  e \notin before[x]
    <3>1. i \in 1 .. Len(s) /\ (j \in 1 .. Len(s) \/ j = Len(s) + 1)
      BY <2>2, <1>7, <1>9
    <3>2. CASE j \in 1 .. Len(s)
      BY <3>1, <3>2, <2>2, <1>9 DEF Client, SentInTurn, s
    <3>3. CASE j = Len(s) + 1
      BY <3>1, <3>3, <2>1, <2>2, <1>9
    <3> QED
      BY <3>1, <3>2, <3>3
  <2> QED
    BY <2>2, <1>1, StoreWaits DEF SentInTurn, ss
<1> QED
  BY <1>11, <1>12, <1>13, <1>14, <1>15, <1>16, <1>17, <1>18, <1>19, <1>20 DEF Client

\* A live event is skipped, because the replay has shown it, or written.
LEMMA LiveEventTaken ==
    ASSUME StreamTypes, Membership, Publishing, Stored, NEW c \in Clients, Client(c), Live(c)
    PROVE  Client(c)'
<1> DEFINE v == events[c]  e0 == Head(events[c])  s == sent[c]
<1>1. /\ UNCHANGED <<next, stamp, job, log, before>>
      /\ stream[c] = "live" /\ stream'[c] \in {"live", "closed"}
      /\ v # <<>> /\ events'[c] = Tail(v)
      /\ \/ e0 \in seen[c] /\ sent'[c] = s
         \/ e0 \notin seen[c] /\ sent'[c] = Append(s, e0)
      /\ from'[c] = from[c] /\ history'[c] = history[c] /\ seen'[c] = seen[c]
      /\ dropped'[c] = dropped[c] /\ early'[c] = early[c] /\ racing'[c] = racing[c]
  BY LiveView DEF StepOf
<1>2. \A q \in Publishers : /\ Owes(q, c)' <=> Owes(q, c)
                            /\ Active(q)' <=> Active(q)
                            /\ Ev(q)' = Ev(q)
                            /\ Appending(q)' <=> Appending(q)
  BY <1>1, PublishersWait
<1>3. v \in Seq(Events) /\ s \in Seq(Events) /\ Len(s) \in Nat
  BY DEF StreamTypes
<1>4. OnceEach(v) /\ InTurn(before, v) /\ OnceEach(s)
  BY DEF Client, OneWay, Channel
<1>5. /\ e0 \in Events /\ In(e0, v) /\ e0 = v[1]
      /\ Len(v) \in Nat \ {0} /\ Len(Tail(v)) = Len(v) - 1
      /\ \A i \in 1 .. Len(v) - 1 : Tail(v)[i] = v[i + 1]
      /\ \A x : In(x, v) <=> In(x, Tail(v)) \/ x = e0
      /\ OnceEach(Tail(v)) /\ ~In(e0, Tail(v))
  BY <1>1, <1>3, <1>4, TailFacts, TailOnce
<1>6. history[c] = <<>>
  BY <1>1 DEF Client, Begun
<1>7. e0 \notin seen[c] => ~In(e0, s)
  BY <1>5 DEF Client, OneWay
<1>8. e0 \notin seen[c] =>
      /\ Len(Append(s, e0)) = Len(s) + 1
      /\ \A i \in 1 .. Len(s) : Append(s, e0)[i] = s[i]
      /\ Append(s, e0)[Len(s) + 1] = e0
      /\ \A x : In(x, Append(s, e0)) <=> In(x, s) \/ x = e0
      /\ OnceEach(Append(s, e0))
  BY <1>3, <1>4, <1>5, <1>7, AppendFacts, AppendOnce
<1> DEFINE vv == events'[c]  ss == sent'[c]
<1> HIDE DEF v, e0, s, vv, ss
<1>9. /\ \A x : In(x, v) <=> In(x, vv) \/ x = e0
      /\ OnceEach(vv) /\ ~In(e0, vv)
      /\ Len(vv) = Len(v) - 1 /\ \A i \in 1 .. Len(v) - 1 : vv[i] = v[i + 1]
  BY <1>1, <1>5 DEF vv
<1>10. \/ e0 \in seen[c] /\ ss = s
       \/ /\ e0 \notin seen[c] /\ Len(ss) = Len(s) + 1
          /\ \A i \in 1 .. Len(s) : ss[i] = s[i]
          /\ ss[Len(s) + 1] = e0
  BY <1>1, <1>8 DEF ss
<1>11. /\ OnceEach(ss)
       /\ \A x : In(x, s) => In(x, ss)
       /\ \A x : In(x, ss) => In(x, s) \/ x = e0
       /\ In(e0, ss)
       /\ e0 \in seen[c] => ss = s
  <2>1. e0 \in seen[c] => In(e0, s)
    BY DEF Client, OneWay, s
  <2>2. CASE e0 \in seen[c]
    BY <2>1, <2>2, <1>10, <1>4
  <2>3. CASE e0 \notin seen[c]
    <3>1. ss = Append(s, e0)
      BY <2>3, <1>1 DEF ss
    <3> QED
      BY <3>1, <2>3, <1>8
  <2> QED
    BY <2>2, <2>3
<1>12. Subscribed(c) /\ (Subscribed(c)' => stream'[c] = "live")
  BY <1>1 DEF Subscribed
<1>13. Begun(c)'
  <2>1. ~Unheard(c)' /\ \A e \in early[c] : Out(e)'
    BY <1>1, StoreWaits DEF Client, Begun, Unheard
  <2> QED
    BY <2>1, <1>1 DEF Client, Begun
<1>14. OneWay(c)'
  <2>1. \A e : e \in seen[c] => In(e, ss)
    BY <1>11 DEF Client, OneWay, s
  <2>2. \A q \in Publishers : Owes(q, c) => ~In(Ev(q), vv) /\ Ev(q) # e0
    BY <1>5, <1>9 DEF Client, OneWay, v
  <2>3. \A q \in Publishers : Owes(q, c) /\ In(Ev(q), ss) => Ev(q) \in seen[c]
    BY <2>2, <1>11 DEF Client, OneWay, s
  <2>4. \A e \in Events : In(e, vv) /\ In(e, ss) => e \in seen[c]
    BY <1>9, <1>11 DEF Client, OneWay, s, v
  <2> QED
    BY <2>1, <2>2, <2>3, <2>4, <1>1, <1>2, <1>9, <1>11 DEF OneWay, vv, ss
<1>15. Replayed(c)'
  BY <1>1 DEF Replayed
<1>16. Past(c)'
  <2>1. \A e : (Old(c, e)' <=> Old(c, e)) /\ (Gone(c, e)' <=> Gone(c, e))
    BY <1>1, StoreWaits
  <2>2. ASSUME NEW e \in Events, Gone(c, e) PROVE ~In(e, vv) /\ (Old(c, e) => ~In(e, ss))
    BY <2>2, <1>5, <1>9, <1>11 DEF Client, Past, v, s
  <2>3. stream'[c] # "replaying"
    BY <1>1
  <2> QED
    BY <2>1, <2>2, <2>3, <1>1, <1>2 DEF Client, Past, vv, ss
<1>17. Known(c)'
  <2>1. \A e : In(e, vv) \/ In(e, ss) => In(e, v) \/ In(e, s)
    BY <1>5, <1>9, <1>11
  <2> QED
    BY <2>1, <1>1, <1>2 DEF Client, Known, s, ss, v, vv
<1>18. Late(c)'
  BY <1>1, <1>2, <1>12 DEF Client, Late
<1>19. Seam(c)'
  <2>1. \A e : Comes(c, e) => Comes(c, e)'
    BY <1>1, <1>2, <1>9, <1>11 DEF Comes, v, vv, s, ss
  <2>2. \A e : After(c, e)' <=> After(c, e)
    BY <1>1 DEF After
  <2> QED
    BY <2>1, <2>2, <1>1, <1>12, StoreWaits DEF Client, Seam
<1>20. Snapshot(c)'
  <2>1. \A e : In(e, vv) => In(e, v)
    BY <1>9
  <2> QED
    BY <2>1, <1>1, StoreWaits DEF Client, Snapshot, v, vv
<1>21. \A e : In(e, vv) => e \notin before[e0]
  <2> SUFFICES ASSUME NEW e, In(e, vv) PROVE e \notin before[e0]
    OBVIOUS
  <2>1. PICK k \in 1 .. Len(vv) : vv[k] = e
    BY DEF In
  <2>2. k + 1 \in 1 .. Len(v) /\ 1 \in 1 .. Len(v) /\ 1 < k + 1 /\ v[k + 1] = e
    BY <2>1, <1>5, <1>9
  <2> QED
    BY <2>2, <1>4, <1>5 DEF InTurn
<1>22. Channel(c)'
  <2>1. InTurn(before, vv)
    <3>1. \A k \in 1 .. Len(vv) : k + 1 \in 1 .. Len(v) /\ vv[k] = v[k + 1]
      BY <1>5, <1>9
    <3>2. \A k, m \in 1 .. Len(vv) : k < m => k + 1 < m + 1
      BY <1>5, <1>9
    <3> QED
      BY <3>1, <3>2, <1>4 DEF InTurn
  <2>2. \A x, e \in Events : In(x, ss) /\ x \notin seen[c] /\ In(e, vv) => e \notin before[x]
    BY <1>9, <1>11, <1>21 DEF Client, Channel, s, v
  <2> QED
    BY <2>1, <2>2, <1>1 DEF Channel, vv, ss
<1>23. SentInTurn(c)'
  <2>1. ASSUME e0 \notin seen[c], In(e0, log), ~Old(c, e0), NEW i \in 1 .. Len(s) PROVE e0 \notin before[s[i]]
    <3>1. s[i] \in Events /\ In(s[i], s)
      BY <1>3 DEF In
    <3>2. CASE s[i] \in seen[c]
      BY <2>1, <3>1, <3>2, <1>1, <1>5, <1>6, EmptyFacts DEF Client, Snapshot, v
    <3>3. CASE s[i] \notin seen[c]
      BY <3>1, <3>3, <1>5 DEF Client, Channel, s, v
    <3> QED
      BY <3>2, <3>3
  <2>2. ASSUME NEW x \in Events, NEW e \in Events, NEW i \in 1 .. Len(ss), NEW j \in 1 .. Len(ss),
               i < j, ss[i] = x, ss[j] = e, In(x, log), In(e, log), ~Old(c, e)
        PROVE  e \notin before[x]
    <3>1. CASE ss = s
      BY <3>1, <2>2 DEF Client, SentInTurn, s
    <3>2. CASE e0 \notin seen[c] /\ Len(ss) = Len(s) + 1 /\ (\A k \in 1 .. Len(s) : ss[k] = s[k]) /\ ss[Len(s) + 1] = e0
      <4>1. i \in 1 .. Len(s) /\ (j \in 1 .. Len(s) \/ j = Len(s) + 1)
        BY <2>2, <3>2, <1>3
      <4>2. CASE j \in 1 .. Len(s)
        BY <4>1, <4>2, <3>2, <2>2 DEF Client, SentInTurn, s
      <4>3. CASE j = Len(s) + 1
        BY <4>1, <4>3, <3>2, <2>1, <2>2
      <4> QED
        BY <4>1, <4>2, <4>3
    <3> QED
      BY <3>1, <3>2, <1>10
  <2> QED
    BY <2>2, <1>1, StoreWaits DEF SentInTurn, ss
<1> QED
  BY <1>13, <1>14, <1>15, <1>16, <1>17, <1>18, <1>19, <1>20, <1>22, <1>23 DEF Client

\* A handler's step preserves what holds of its stream and of the others.
LEMMA HandlerStep ==
    ASSUME StreamInd, NEW c \in Clients,
           Open(c) \/ StreamStep(c) \/ Disconnect(c)
    PROVE  StreamInd'
<1>0. StreamTypes /\ Membership /\ Publishing /\ Stored /\ \A d \in Clients : Client(d)
  BY DEF StreamInd
<1>1. StepOf(c)
  BY <1>0, OpenView, SubscribeView, LoadView, ReplayView, EndReplayView,
     LiveView, DisconnectView DEF StreamStep
<1>2. Client(c)'
  <2>1. Client(c)
    BY <1>0
  <2> QED
    BY <2>1, <1>0, StreamOpens, StreamQuits, StreamSubscribes, SnapshotTaken, EventReplayed,
       ReplayEnds, LiveEventTaken DEF StreamStep
<1>3. ASSUME NEW d \in Clients, d # c PROVE Client(d)'
  <2>1. UNCHANGED <<next, stamp, job, log, before>> /\ Untouched(d)
    BY <1>1, <1>3 DEF StepOf
  <2>2. Handler(d) /\ events'[d] = events[d] /\ dropped'[d] = dropped[d]
    BY <2>1 DEF Untouched, Handler
  <2>3. \A q \in Publishers :
          /\ Owes(q, d)' <=> Owes(q, d)
          /\ Active(q)' => Active(q) /\ Ev(q)' = Ev(q)
          /\ Appending(q)' => Appending(q)
          /\ Collecting(q)' <=> Collecting(q)
    BY <2>1, PublishersWait
  <2> QED
    BY <2>1, <2>2, <2>3, <1>0, NothingForIt
<1>4. Publishing' /\ Stored'
  <2>1. UNCHANGED <<next, stamp, job, log, before>>
    BY <1>1 DEF StepOf
  <2>2. \A q : (Active(q)' <=> Active(q)) /\ Ev(q)' = Ev(q) /\ Todo(q)' = Todo(q) /\ (Appending(q)' <=> Appending(q))
    BY <2>1 DEF Active, Ev, Todo, Appending
  <2> QED
    BY <2>1, <2>2, <1>0 DEF Publishing, Stored
<1> QED
  BY <1>1, <1>2, <1>3, <1>4 DEF StreamInd, StepOf

-----------------------------------------------------------------------------
(* The theorems *)

\* Nothing is published and nobody listens.
LEMMA StreamInitially ==
    ASSUME Init
    PROVE  StreamInd
<1>0. NumEvents \in Nat \ {0} /\ sseChannelBuffer \in Nat \ {0}
  BY StreamAssumption
<1>1. <<>> \in Seq(Events) /\ <<>> \in Seq(Clients) /\ Len(<<>>) = 0
  OBVIOUS
<1>2. StreamTypes
  <2>1. next \in 1 .. NumEvents + 1 /\ 0 \in 0 .. NumEvents /\ 0 \in Nat /\ 0 <= sseChannelBuffer
    BY <1>0 DEF Init
  <2> QED
    BY <1>1, <2>1 DEF Init, StreamTypes, StreamStates
<1>3. \A p \in Publishers : ~Active(p) /\ ~Appending(p) /\ \A c : ~Owes(p, c)
  BY DEF Init, Active, Appending, Owes
<1>4. Publishing
  <2>1. \A e, f \in Events : ~(f < next)
    BY <1>0 DEF Init, Events
  <2>2. \A e \in Events : before[e] = {}
    BY DEF Init
  <2> QED
    BY <1>3, <2>1, <2>2 DEF Publishing
<1>5. Stored
  BY <1>1, <1>3, EmptyFacts DEF Stored, Init
<1>6. \A c \in Clients : ~Subscribed(c)
  BY DEF Init, Subscribed
<1>7. Membership
  BY <1>6, EmptyFacts DEF Init, Membership
<1>8. ASSUME NEW c \in Clients PROVE Client(c)
  <2>1. /\ stream[c] = "idle" /\ from[c] = 0 /\ early[c] = {} /\ next = 1
        /\ history[c] = <<>> /\ events[c] = <<>> /\ sent[c] = <<>> /\ seen[c] = {}
    BY DEF Init
  <2>2. Begun(c)
    BY <2>1, <1>3, <1>6 DEF Begun
  <2>3. OneWay(c) /\ Replayed(c) /\ Past(c) /\ Known(c)
    BY <2>1, <1>3, EmptyFacts DEF OneWay, Replayed, Past, Known
  <2>4. Late(c) /\ Seam(c)
    BY <2>1, <1>6 DEF Late, Seam
  <2>5. Snapshot(c) /\ Channel(c)
    BY <2>1, EmptyFacts DEF Snapshot, Channel
  <2>6. SentInTurn(c)
    BY <2>1, <1>1 DEF SentInTurn
  <2> QED
    BY <2>2, <2>3, <2>4, <2>5, <2>6 DEF Client
<1> QED
  BY <1>2, <1>4, <1>5, <1>7, <1>8 DEF StreamInd

\* Every step of publishers, store and handlers preserves the inductive
\* invariant.
THEOREM StreamIndHolds == Spec => []StreamInd
<1>1. ASSUME StreamInd, [Next]_vars PROVE StreamInd'
  <2>1. CASE UNCHANGED vars
    <3>1. /\ UNCHANGED <<next, stamp, job, all, log, before>>
          /\ UNCHANGED <<stream, from, history, events, seen, sent, dropped, early, racing>>
      BY <2>1 DEF vars, clientVars
    <3>2. \A q, c : /\ Owes(q, c)' <=> Owes(q, c)
                    /\ Active(q)' <=> Active(q)
                    /\ Ev(q)' = Ev(q)
                    /\ Appending(q)' <=> Appending(q)
                    /\ Collecting(q)' <=> Collecting(q)
      BY <3>1, PublishersWait
    <3>3. StreamTypes' /\ Membership'
      BY <1>1, <3>1 DEF StreamInd, StreamTypes, Membership, Subscribed
    <3>4. Publishing' /\ Stored'
      <4>1. \A q : Todo(q)' = Todo(q)
        BY <3>1 DEF Todo
      <4> QED
        BY <1>1, <3>1, <3>2, <4>1 DEF StreamInd, Publishing, Stored
    <3>5. ASSUME NEW c \in Clients PROVE Client(c)'
      <4>1. Handler(c) /\ events'[c] = events[c] /\ dropped'[c] = dropped[c] /\ Client(c)
        BY <1>1, <3>1 DEF Handler, StreamInd
      <4> QED
        BY <4>1, <3>1, <3>2, NothingForIt
    <3> QED
      BY <3>3, <3>4, <3>5 DEF StreamInd
  <2>2. ASSUME NEW p \in Publishers, Create(p) \/ Publish(p) PROVE StreamInd'
    BY <1>1, <2>2, PublisherStep
  <2>3. ASSUME NEW c \in Clients, Open(c) \/ StreamStep(c) \/ Disconnect(c)
        PROVE  StreamInd'
    BY <1>1, <2>3, HandlerStep
  <2> QED
    BY <1>1, <2>1, <2>2, <2>3 DEF Next, Quiet
<1> QED
  BY <1>1, StreamInitially, PTL DEF Spec

\* The elements of a sequence, as a set and by position.
LEMMA RangeIs ==
    ASSUME NEW S, NEW s \in Seq(S)
    PROVE  DOMAIN s = 1 .. Len(s) /\ \A e : e \in Range(s) <=> In(e, s)
<1>1. DOMAIN s = 1 .. Len(s)
  OBVIOUS
<1> QED
  BY <1>1 DEF Range, In

\* Behind the named event, as a set and by position.
LEMMA BehindIs ==
    ASSUME StreamTypes, NEW c \in Clients
    PROVE  \A e : e \in Behind(c) <=> Old(c, e)
<1>1. log \in Seq(Events) /\ DOMAIN log = 1 .. Len(log) /\ Len(log) \in Nat
  BY DEF StreamTypes
<1>2. \A k \in 1 .. Len(log) : \A j \in 1 .. Len(log) : j \in k .. Len(log) <=> k <= j
  BY <1>1
<1>3. ASSUME NEW e, e \in Behind(c) PROVE Old(c, e)
  <2>1. PICK k \in 1 .. Len(log) : log[k] = e /\ \E j \in k .. Len(log) : log[j] = from[c]
    BY <1>1, <1>3 DEF Behind
  <2>2. PICK j \in k .. Len(log) : log[j] = from[c]
    BY <2>1
  <2>3. j \in 1 .. Len(log) /\ k <= j
    BY <2>1, <2>2, <1>1
  <2> QED
    BY <2>1, <2>2, <2>3 DEF Old
<1>4. ASSUME NEW e, Old(c, e) PROVE e \in Behind(c)
  <2>1. PICK k \in 1 .. Len(log), j \in 1 .. Len(log) : k <= j /\ log[j] = from[c] /\ log[k] = e
    BY <1>4 DEF Old
  <2>2. j \in k .. Len(log)
    BY <2>1, <1>2
  <2> QED
    BY <2>1, <2>2, <1>1 DEF Behind
<1> QED
  BY <1>3, <1>4

\* A client never sees an event twice across the seam of replay and live tail,
\* nor the event it named, nor any that LoadRun puts before it and whose Publish
\* had begun when the client subscribed (the seen set of handleRunEventsSSE).
THEOREM NoEventComesTwice == Spec => []NoEventTwice
<1>1. ASSUME StreamInd PROVE NoEventTwice
  <2> SUFFICES ASSUME NEW c \in Clients
               PROVE  /\ IsInjective(sent[c])
                      /\ from[c] \notin Range(sent[c])
                      /\ Range(sent[c]) \cap Behind(c) \cap early[c] = {}
    BY DEF NoEventTwice
  <2>1. StreamTypes /\ Client(c)
    BY <1>1 DEF StreamInd
  <2>2. sent[c] \in Seq(Events)
    BY <2>1 DEF StreamTypes
  <2>3. DOMAIN sent[c] = 1 .. Len(sent[c]) /\ \A e : e \in Range(sent[c]) <=> In(e, sent[c])
    BY <2>2, RangeIs
  <2>4. IsInjective(sent[c])
    BY <2>1, <2>3 DEF Client, OneWay, OnceEach, IsInjective
  <2>5. ASSUME NEW e, In(e, sent[c]), Old(c, e), Gone(c, e) PROVE FALSE
    <3>1. e \in Events
      BY <2>2, <2>5 DEF In
    <3> QED
      BY <3>1, <2>1, <2>5 DEF Client, Past
  <2>6. ~In(from[c], sent[c])
    <3> SUFFICES ASSUME In(from[c], sent[c]) PROVE FALSE
      OBVIOUS
    <3>1. from[c] \in Events /\ 0 \notin Events
      BY <2>2, StreamAssumption DEF In, Events
    <3>2. In(from[c], log)
      BY <3>1, <2>1 DEF Client, Past
    <3>3. PICK k \in 1 .. Len(log) : log[k] = from[c]
      BY <3>2 DEF In
    <3>4. k <= k
      OBVIOUS
    <3>5. Old(c, from[c]) /\ Gone(c, from[c])
      BY <3>3, <3>4 DEF Old, Gone
    <3> QED
      BY <3>5, <2>5
  <2>7. Range(sent[c]) \cap Behind(c) \cap early[c] = {}
    BY <2>1, <2>3, <2>5, BehindIs DEF Gone
  <2> QED
    BY <2>3, <2>4, <2>6, <2>7
<1> QED
  BY <1>1, StreamIndHolds, PTL

\* A client sees stored events in turn, misses of the live ones only what its
\* full channel dropped, and of the stored ones only what raced with its
\* subscription: handleRunEventsSSE over LocalBus and PersistTo.
THEOREM StreamIsFaithful == Spec => []StreamInvariant
<1>1. ASSUME StreamInd PROVE StreamInvariant
  <2>0. StreamTypes /\ Publishing /\ Stored /\ \A c \in Clients : Client(c)
    BY <1>1 DEF StreamInd
  <2>00. log \in Seq(Events) /\ DOMAIN log = 1 .. Len(log)
    BY <2>0 DEF StreamTypes
  <2>1. TypeOK
    <3>1. next \in 1 .. NumEvents + 1 /\ stream \in [Clients -> StreamStates]
          /\ from \in [Clients -> 0 .. NumEvents] /\ stamp \in [Events -> Nat]
          /\ before \in [Events -> SUBSET Events]
      BY <2>0 DEF StreamTypes
    <3>2. ASSUME NEW p \in Publishers, job[p] # Idle
          PROVE  /\ job[p].ev \in Events
                 /\ job[p].stage \in Stages
                 /\ \A i \in DOMAIN job[p].todo : job[p].todo[i] \in Clients
      <4>1. job[p] \in Jobs
        BY <2>0, <3>2, JobTypes DEF Active
      <4>2. job[p].ev \in Events /\ job[p].stage \in Stages /\ job[p].todo \in Seq(Clients)
        BY <4>1 DEF Jobs
      <4> QED
        BY <4>2
    <3>3. (\A i \in DOMAIN all : all[i] \in Clients) /\ (\A i \in DOMAIN log : log[i] \in Events)
      <4>1. all \in Seq(Clients) /\ log \in Seq(Events)
        BY <2>0 DEF StreamTypes
      <4> QED
        BY <4>1
    <3>4. ASSUME NEW c \in Clients
          PROVE  /\ \A i \in DOMAIN history[c] : history[c][i] \in Events
                 /\ \A i \in DOMAIN events[c] : events[c][i] \in Events
                 /\ Len(events[c]) <= sseChannelBuffer
                 /\ \A i \in DOMAIN sent[c] : sent[c][i] \in Events
                 /\ seen[c] \cup dropped[c] \cup early[c] \cup racing[c] \subseteq Events
      <4>1. history[c] \in Seq(Events) /\ events[c] \in Seq(Events) /\ sent[c] \in Seq(Events)
        BY <2>0 DEF StreamTypes
      <4>2. /\ Len(events[c]) <= sseChannelBuffer
            /\ seen[c] \in SUBSET Events /\ dropped[c] \in SUBSET Events
            /\ early[c] \in SUBSET Events /\ racing[c] \in SUBSET Events
        BY <2>0 DEF StreamTypes
      <4> QED
        BY <4>1, <4>2
    <3> QED
      BY <3>1, <3>2, <3>3, <3>4 DEF TypeOK
  <2>2. ASSUME NEW c \in Clients, NEW e \in Events, Comes(c, e)
        PROVE  e \in dropped[c] \/ Reaches(c, e)
    <3>1. history[c] \in Seq(Events) /\ events[c] \in Seq(Events) /\ sent[c] \in Seq(Events)
      BY <2>0 DEF StreamTypes
    <3>2. /\ e \in Range(sent[c]) <=> In(e, sent[c])
          /\ e \in Range(history[c]) <=> In(e, history[c])
          /\ e \in Range(events[c]) <=> In(e, events[c])
      BY <3>1, RangeIs
    <3>3. ASSUME NEW p \in Publishers, Owes(p, c), Ev(p) = e PROVE Reaches(c, e)
      <4>1. Active(p) /\ In(c, Todo(p)) /\ Todo(p) \in Seq(Clients)
        BY <3>3, <2>0, OwesIs, JobTypes
      <4>2. c \in Range(Todo(p))
        BY <4>1, RangeIs
      <4> QED
        BY <4>1, <4>2, <3>3 DEF Reaches, Active, Ev, Todo
    <3> QED
      BY <2>2, <3>2, <3>3 DEF Comes, Reaches
  <2>3. LiveMissesNothing
    BY <2>0, <2>2, PublishedIs DEF LiveMissesNothing, Client, Seam
  <2>4. SeamOnlyLosesRacing
    <3> SUFFICES ASSUME NEW c \in Clients, from[c] # 0, stream[c] \in {"replaying", "live"},
                        NEW e \in Resumed(c), e \notin dropped[c]
                 PROVE  Reaches(c, e) \/ e \in racing[c]
      BY DEF SeamOnlyLosesRacing
    <3>1. PICK i \in 1 .. Len(log) : e = log[i] /\ \E j \in 1 .. i - 1 : log[j] = from[c]
      BY <2>00 DEF Resumed
    <3>2. PICK j \in 1 .. i - 1 : log[j] = from[c]
      BY <3>1
    <3>3. j \in 1 .. Len(log) /\ j < i /\ e \in Events
      BY <3>1, <3>2, <2>00
    <3>4. After(c, e)
      BY <3>1, <3>2, <3>3 DEF After
    <3>5. Comes(c, e) \/ e \in racing[c]
      BY <3>3, <3>4, <2>0 DEF Client, Seam
    <3> QED
      BY <3>3, <3>5, <2>2
  <2>5. InOrder
    <3> SUFFICES ASSUME NEW c \in Clients, NEW i \in DOMAIN sent[c], NEW j \in DOMAIN sent[c],
                        i < j, InLog(sent[c][i]), InLog(sent[c][j]), sent[c][j] \notin Behind(c)
                 PROVE  sent[c][j] \notin before[sent[c][i]]
      BY DEF InOrder
    <3>1. DOMAIN sent[c] = 1 .. Len(sent[c])
      BY <2>0 DEF StreamTypes
    <3> DEFINE x == sent[c][i]  e == sent[c][j]
    <3>2. In(x, log) /\ In(e, log) /\ x \in Events /\ e \in Events
      BY <2>00 DEF InLog, In
    <3>3. ~Old(c, e)
      BY <2>0, BehindIs
    <3> HIDE DEF x, e
    <3>4. e \notin before[x]
      BY <3>1, <3>2, <3>3, <2>0 DEF Client, SentInTurn, x, e
    <3> QED
      BY <3>4 DEF x, e
  <2> QED
    BY <2>1, <2>3, <2>4, <2>5 DEF StreamInvariant
<1> QED
  BY <1>1, StreamIndHolds, PTL
=============================================================================
