------------------------ MODULE AgentEventStreamProofs ------------------------
(***************************************************************************)
(* Theorems about AgentEventStream, for any publishers, events, buffer and *)
(* page sizes, and any number of lost connections, transcripts and crashes.*)
(*                                                                         *)
(* That no miss goes unnoticed and nothing is shown twice depends on where *)
(* an event can be.  StreamInv says that an event is stored once, that a   *)
(* frame in a buffer or a page carries the place of its event in the file  *)
(* (or the event is in no place at all), that no event is seen before it   *)
(* is published, and that the panel has shown nothing behind its cursor.   *)
(* After a crash the cursor may be ahead of the file; but then nothing is  *)
(* appended any more.                                                      *)
(***************************************************************************)
EXTENDS AgentEventStream, FiniteSetTheorems, TLAPS

PubStates    == [next : Nat \ {0}, stage : {"idle", "stored", "sending"},
                 frame : Frames \cup {None}, todo : SUBSET Streams,
                 full : Streams \cup {None}, tries : Nat]
ConnStates   == [pc : {"off", "replay", "live"}, page : Seq(Frames), short : BOOLEAN,
                 cursor : Nat]
SourceStates == [open : BOOLEAN, lastId : Nat]
PanelStates  == [cursor : Nat, running : BOOLEAN, replaying : BOOLEAN,
                 skipped : SUBSET Nat, shown : [Events -> Nat]]
Transcripts  == [log : Seq(Events), running : BOOLEAN]

\* The variables and their records.
StoreShape ==
  /\ log \in Seq(Events) /\ flushed \in Nat
  /\ run \in [ended : BOOLEAN, upTo : Nat]
  /\ pub \in [Publishers -> PubStates]

StreamShape ==
  /\ chan \in [Streams -> Seq(Frames)]
  /\ conn \in [Streams -> ConnStates]
  /\ source \in [Streams -> SourceStates]

PanelShape ==
  /\ client \in PanelStates
  /\ due \subseteq {"resync", "settle"}
  /\ inflight \in Seq(Transcripts)

\* A publisher waits for room only at a subscriber it is to serve.
FullIsTodo ==
  \A p \in Publishers :
    pub[p].full # None => pub[p].full \in pub[p].todo /\ pub[p].stage = "sending"

\* Buffers, pages and requests keep to their limits, and a closed event source
\* has no connection.
StreamLimits ==
  \A s \in Streams : /\ Len(chan[s]) <= Buffer
                     /\ Len(conn[s].page) <= PageSize
                     /\ ~source[s].open => conn[s] = Off

Limits == FullIsTodo /\ StreamLimits /\ Len(inflight) <= MaxFetches

\* The publisher of e has yet to store it or to fail to.
YetToCome(e) ==
  /\ e # Old
  /\ \/ pub[e[1]].next < e[2]
     \/ pub[e[1]].next = e[2] /\ pub[e[1]].stage = "idle"

\* A frame carries the place of its event, or the event has none.
FrameOK(f) ==
  /\ ~YetToCome(f.event)
  /\ f.seq = 0 => \A i \in 1 .. Len(log) : log[i] # f.event
  /\ f.seq # 0 => f.seq <= Len(log) /\ log[f.seq] = f.event

FramesOK(queue) == \A k \in 1 .. Len(queue) : FrameOK(queue[k])

\* The history: every event is in it once, and none that is yet to come.
LogOK ==
  /\ 0 < flushed /\ flushed <= Len(log) /\ run.upTo <= Len(log)
  /\ \A i, j \in 1 .. Len(log) : log[i] = log[j] => i = j
  /\ \A i \in 1 .. Len(log) : ~YetToCome(log[i])

PubsOK ==
  \A p \in Publishers : pub[p].stage # "idle" =>
    /\ pub[p].next <= Len(Emits[p])
    /\ pub[p].frame \in Frames /\ FrameOK(pub[p].frame)

QueuesOK == \A s \in Streams : FramesOK(chan[s]) /\ FramesOK(conn[s].page)

NothingToCome == \A e \in Events : ~YetToCome(e)

PanelOK ==
  /\ 0 < client.cursor
  /\ Len(log) < client.cursor => NothingToCome
  /\ \A e \in Events : YetToCome(e) => client.shown[e] = 0
  /\ \A i \in 1 .. Len(log) : client.cursor < i => client.shown[log[i]] = 0
  /\ MissesAreNoticed
  /\ NothingShownTwice

\* The transcript t is a beginning of the history.
IsPrefix(t) ==
  /\ 0 < Len(t) /\ Len(t) <= Len(log)
  /\ \A i \in 1 .. Len(t) : t[i] = log[i]

AnswersOK == \A k \in 1 .. Len(inflight) : IsPrefix(inflight[k].log)

StreamInv ==
  /\ StoreShape /\ StreamShape /\ PanelShape /\ Limits
  /\ LogOK /\ PubsOK /\ QueuesOK /\ PanelOK /\ AnswersOK

-----------------------------------------------------------------------------
(* Sequences.                                                              *)

LEMMA Appending ==
  ASSUME NEW S, NEW q \in Seq(S), NEW x \in S
  PROVE  /\ Append(q, x) \in Seq(S) /\ Len(Append(q, x)) = Len(q) + 1
         /\ \A k \in 1 .. Len(q) : Append(q, x)[k] = q[k]
         /\ Append(q, x)[Len(q) + 1] = x
  OBVIOUS

LEMMA Lengths ==
  ASSUME NEW S, NEW q \in Seq(S)
  PROVE  /\ Len(q) \in Nat /\ (q = <<>> <=> Len(q) = 0)
         /\ \A k \in 1 .. Len(q) : q[k] \in S
  OBVIOUS

LEMMA Taking ==
  ASSUME NEW S, NEW q \in Seq(S), q # <<>>
  PROVE  /\ Head(q) \in S /\ Head(q) = q[1] /\ 0 < Len(q)
         /\ Tail(q) \in Seq(S) /\ Len(Tail(q)) = Len(q) - 1
         /\ \A k \in 1 .. Len(q) - 1 : Tail(q)[k] = q[k + 1]
  OBVIOUS

LEMMA Cutting ==
  ASSUME NEW S, NEW q \in Seq(S), NEW n \in 0 .. Len(q)
  PROVE  /\ SubSeq(q, 1, n) \in Seq(S) /\ Len(SubSeq(q, 1, n)) = n
         /\ \A k \in 1 .. n : SubSeq(q, 1, n)[k] = q[k]
  OBVIOUS

LEMMA Joining ==
  ASSUME NEW S, NEW a \in Seq(S), NEW b \in Seq(S)
  PROVE  /\ a \o b \in Seq(S) /\ Len(a \o b) = Len(a) + Len(b)
         /\ \A k \in 1 .. Len(a) + Len(b) :
              (a \o b)[k] = IF k <= Len(a) THEN a[k] ELSE b[k - Len(a)]
  OBVIOUS

Without(q, n) == SubSeq(q, 1, n - 1) \o SubSeq(q, n + 1, Len(q))

\* A sequence with one element less than q, and no others.
OneLess(S, r, q) ==
  /\ r \in Seq(S) /\ Len(r) = Len(q) - 1
  /\ \A k \in 1 .. Len(r) : \E j \in 1 .. Len(q) : r[k] = q[j]

LEMMA Removing ==
  ASSUME NEW S, NEW q \in Seq(S), NEW n \in 1 .. Len(q)
  PROVE  OneLess(S, Without(q, n), q)
<1> DEFINE a == SubSeq(q, 1, n - 1)
           b == SubSeq(q, n + 1, Len(q))
           r == Without(q, n)
<1>0. Len(q) \in Nat /\ n \in Nat /\ 0 < n /\ n <= Len(q)
  OBVIOUS
<1>1. /\ a \in Seq(S) /\ Len(a) = n - 1
      /\ \A k \in 1 .. n - 1 : a[k] = q[k]
  OBVIOUS
<1>2. /\ b \in Seq(S) /\ Len(b) = Len(q) - n
      /\ \A k \in 1 .. Len(q) - n : b[k] = q[k + n]
  OBVIOUS
<1>3. /\ r \in Seq(S) /\ Len(r) = Len(a) + Len(b)
      /\ \A k \in 1 .. Len(a) + Len(b) :
           r[k] = IF k <= Len(a) THEN a[k] ELSE b[k - Len(a)]
  <2>1. r = a \o b
    BY DEF Without
  <2> HIDE DEF r, a, b
  <2>2. a \in Seq(S) /\ b \in Seq(S)
    BY <1>1, <1>2
  <2> QED BY <2>1, <2>2, Joining
<1> HIDE DEF a, b, r
<1>4. Len(a) + Len(b) = Len(q) - 1
  <2>1. (n - 1) + (Len(q) - n) = Len(q) - 1
    BY <1>0
  <2> QED BY <1>1, <1>2, <2>1
<1>5. ASSUME NEW k \in 1 .. Len(q) - 1
      PROVE  \E j \in 1 .. Len(q) : r[k] = q[j]
  <2>0. k \in 1 .. Len(a) + Len(b)
    BY <1>4
  <2>1. CASE k <= n - 1
    <3>1. k \in 1 .. n - 1 /\ k \in 1 .. Len(q)
      BY <1>0, <2>1
    <3> QED BY <1>1, <1>3, <2>0, <3>1
  <2>2. CASE ~(k <= n - 1)
    <3>1. k - (n - 1) \in 1 .. Len(q) - n /\ k - (n - 1) + n \in 1 .. Len(q)
      BY <1>0, <2>2
    <3>2. r[k] = b[k - (n - 1)] /\ b[k - (n - 1)] = q[k - (n - 1) + n]
      BY <1>1, <1>2, <1>3, <2>0, <2>2, <3>1
    <3> QED BY <3>1, <3>2
  <2> QED BY <2>1, <2>2
<1>6. /\ r \in Seq(S) /\ Len(r) = Len(q) - 1
      /\ \A k \in 1 .. Len(r) : \E j \in 1 .. Len(q) : r[k] = q[j]
  BY <1>3, <1>4, <1>5
<1> QED BY <1>6 DEF r, OneLess

-----------------------------------------------------------------------------
(* What is kept while the history grows.                                   *)

LEMMA EventFacts ==
  ASSUME NEW e \in Events, e # Old
  PROVE  \E p \in Publishers : \E i \in 1 .. Len(Emits[p]) : e = <<p, i>>
  BY DEF Events

LEMMA ScriptFacts ==
  ASSUME NEW p \in Publishers
  PROVE  /\ Len(Emits[p]) \in Nat
         /\ \A i \in 1 .. Len(Emits[p]) : <<p, i>> \in Events /\ <<p, i>> # Old
<1>1. Len(Emits[p]) \in Nat
  BY StreamAssumption
<1>2. \A i \in 1 .. Len(Emits[p]) : <<p, i>> # Old
  BY StreamAssumption
<1>3. \A i \in 1 .. Len(Emits[p]) : <<p, i>> \in Events
  BY DEF Events
<1> QED BY <1>1, <1>2, <1>3

NothingReturns == \A e \in Events : YetToCome(e)' => YetToCome(e)

\* The history has become longer at most, by what was to come.
Extends ==
  /\ log' \in Seq(Events) /\ Len(log) <= Len(log')
  /\ \A i \in 1 .. Len(log) : log'[i] = log[i]
  /\ \A i \in 1 .. Len(log') : i <= Len(log) \/ YetToCome(log'[i])
  /\ NothingReturns

\* A frame stays as it should be.
Carries(f) == FrameOK(f) => FrameOK(f)'

LEMMA FrameStays ==
  ASSUME StoreShape, Extends, NEW f \in Frames
  PROVE  Carries(f)
<1>1. Len(log) \in Nat /\ Len(log') \in Nat /\ Len(log) <= Len(log')
  BY Lengths DEF StoreShape, Extends
<1>2. f.event \in Events /\ f.seq \in Nat
  BY DEF Frames
<1>3. ASSUME FrameOK(f) PROVE FrameOK(f)'
  <2>1. ~YetToCome(f.event)'
    BY <1>2, <1>3 DEF FrameOK, Extends, NothingReturns
  <2>2. f.seq = 0 => \A i \in 1 .. Len(log') : log'[i] # f.event
    BY <1>1, <1>3 DEF FrameOK, Extends
  <2>3. f.seq # 0 => f.seq <= Len(log') /\ log'[f.seq] = f.event
    BY <1>1, <1>2, <1>3 DEF FrameOK, Extends
  <2> QED BY <2>1, <2>2, <2>3 DEF FrameOK
<1> QED BY <1>3 DEF Carries

LEMMA QueueStays ==
  ASSUME StoreShape, Extends, NEW q \in Seq(Frames), FramesOK(q)
  PROVE  \A k \in 1 .. Len(q) : FrameOK(q[k])'
  BY FrameStays, Lengths DEF FramesOK, Carries

LEMMA PanelStays ==
  ASSUME StoreShape, PanelShape, PanelOK, Extends, client' = client
  PROVE  PanelOK'
<1>1. Len(log) \in Nat /\ Len(log') \in Nat /\ Len(log) <= Len(log') /\ client.cursor \in Nat
  BY Lengths DEF StoreShape, Extends, PanelShape, PanelStates
<1>2. \A i \in 1 .. Len(log') : log'[i] \in Events
  BY Lengths DEF Extends
<1>3. \A i \in 1 .. Len(log') : \/ i \in 1 .. Len(log) /\ log'[i] = log[i]
                                \/ Len(log) < i /\ YetToCome(log'[i])
  BY <1>1 DEF Extends
<1>4. \A i \in 1 .. Len(log') :
        Len(log) < i => client.cursor < i /\ client.shown[log'[i]] = 0
  BY <1>1, <1>2, <1>3 DEF PanelOK, NothingToCome
<1>5. Len(log') < client'.cursor => NothingToCome'
  BY <1>1 DEF PanelOK, NothingToCome, Extends, NothingReturns
<1>6. \A e \in Events : YetToCome(e)' => client'.shown[e] = 0
  BY DEF PanelOK, Extends, NothingReturns
<1>7. \A i \in 1 .. Len(log') : client'.cursor < i => client'.shown[log'[i]] = 0
  BY <1>1, <1>3, <1>4 DEF PanelOK
<1>8. MissesAreNoticed'
  BY <1>1, <1>3, <1>4 DEF PanelOK, MissesAreNoticed, Missed
<1>9. NothingShownTwice'
  BY <1>1, <1>3, <1>4 DEF PanelOK, NothingShownTwice
<1> QED BY <1>5, <1>6, <1>7, <1>8, <1>9 DEF PanelOK

LEMMA PrefixStays ==
  ASSUME StoreShape, Extends, NEW t \in Seq(Events), IsPrefix(t)
  PROVE  IsPrefix(t)'
<1>1. Len(log) \in Nat /\ Len(log') \in Nat /\ Len(log) <= Len(log') /\ Len(t) \in Nat
  BY Lengths DEF StoreShape, Extends
<1> QED BY <1>1 DEF IsPrefix, Extends

LEMMA AnswersStay ==
  ASSUME StoreShape, PanelShape, AnswersOK, Extends, inflight' = inflight
  PROVE  AnswersOK'
<1>1. \A k \in 1 .. Len(inflight) : inflight[k].log \in Seq(Events) /\ IsPrefix(inflight[k].log)
  <2>1. \A k \in 1 .. Len(inflight) : inflight[k] \in Transcripts
    BY Lengths DEF PanelShape
  <2> QED BY <2>1 DEF AnswersOK, Transcripts
<1> QED BY <1>1, PrefixStays DEF AnswersOK

LEMMA SameHistory ==
  ASSUME StoreShape, UNCHANGED <<log, pub>>
  PROVE  Extends /\ \A e : YetToCome(e)' <=> YetToCome(e)
<1>1. \A e : YetToCome(e)' <=> YetToCome(e)
  BY DEF YetToCome
<1>2. Len(log) \in Nat
  BY Lengths DEF StoreShape
<1> QED BY <1>1, <1>2 DEF Extends, NothingReturns, StoreShape

-----------------------------------------------------------------------------
(* Publishers.                                                             *)

\* A publisher goes on to its next event, or its event is no longer to come.
Moves(p, q) ==
  /\ pub' = [pub EXCEPT ![p] = q]
  /\ q \in PubStates
  /\ \/ q.next = pub[p].next /\ (q.stage = "idle" => pub[p].stage = "idle")
     \/ q.next = pub[p].next + 1 /\ q.stage = "idle"
  /\ q.full # None => q.full \in q.todo /\ q.stage = "sending"

LEMMA MovesOn ==
  ASSUME StoreShape, NEW p \in Publishers, NEW q, Moves(p, q)
  PROVE  /\ pub' \in [Publishers -> PubStates] /\ pub'[p] = q
         /\ \A r \in Publishers \ {p} : pub'[r] = pub[r]
         /\ NothingReturns
<1>1. /\ pub' \in [Publishers -> PubStates] /\ pub'[p] = q
      /\ \A r \in Publishers \ {p} : pub'[r] = pub[r]
  BY DEF StoreShape, Moves
<1>2. ASSUME NEW e \in Events, YetToCome(e)' PROVE YetToCome(e)
  <2>0. PICK r \in Publishers : \E i \in 1 .. Len(Emits[r]) : e = <<r, i>>
    BY <1>2, EventFacts DEF YetToCome
  <2>1. PICK i \in 1 .. Len(Emits[r]) : e = <<r, i>>
    BY <2>0
  <2>2. e[1] = r /\ e[2] = i /\ e # Old /\ i \in Nat
    BY <1>2, <2>1, ScriptFacts DEF YetToCome
  <2>3. CASE r # p
    BY <1>1, <1>2, <2>2, <2>3 DEF YetToCome
  <2>4. CASE r = p
    <3>1. pub[p].next \in Nat /\ q.next \in Nat
      BY DEF StoreShape, PubStates, Moves
    <3>2. q.next < i \/ (q.next = i /\ q.stage = "idle")
      BY <1>1, <1>2, <2>2, <2>4 DEF YetToCome
    <3>3. pub[p].next < i \/ (pub[p].next = i /\ pub[p].stage = "idle")
      BY <2>2, <3>1, <3>2 DEF Moves
    <3> QED BY <2>2, <2>4, <3>3 DEF YetToCome
  <2> QED BY <2>3, <2>4
<1> QED BY <1>1, <1>2 DEF NothingReturns

\* The buffers hold frames as they should be.
Fed ==
  /\ chan' \in [Streams -> Seq(Frames)]
  /\ \A s \in Streams : Len(chan'[s]) <= Buffer /\ FramesOK(chan'[s])

LEMMA UnfedKeeps ==
  ASSUME StreamInv, UNCHANGED chan
  PROVE  Fed
  BY DEF StreamInv, StreamShape, Limits, StreamLimits, QueuesOK, Fed

LEMMA FedKeeps ==
  ASSUME StreamInv, Extends, Fed, UNCHANGED conn
  PROVE  QueuesOK'
<1> SUFFICES ASSUME NEW s \in Streams
             PROVE  FramesOK(chan[s])' /\ FramesOK(conn[s].page)'
  BY DEF QueuesOK
<1>1. PICK q : q = chan'[s]
  OBVIOUS
<1>2. q \in Seq(Frames) /\ FramesOK(q)
  BY <1>1 DEF Fed
<1>3. \A k \in 1 .. Len(q) : FrameOK(q[k])'
  BY <1>2, QueueStays DEF StreamInv
<1>4. FramesOK(conn[s].page)'
  BY QueueStays DEF StreamInv, QueuesOK, FramesOK, StreamShape, ConnStates
<1> QED BY <1>1, <1>3, <1>4 DEF FramesOK

\* A step of a publisher keeps the invariant if it does so for the history and
\* for what the publisher sends.
LEMMA PublisherKeeps ==
  ASSUME StreamInv, NEW p \in Publishers, NEW q, Moves(p, q), Extends, Fed,
         q.stage # "idle" => /\ q.next <= Len(Emits[p])
                             /\ q.frame \in Frames /\ FrameOK(q.frame)',
         flushed' \in Nat, LogOK', run' = run,
         UNCHANGED <<conn, source, client, due, inflight>>
  PROVE  StreamInv'
<1>1. /\ pub' \in [Publishers -> PubStates] /\ pub'[p] = q
      /\ \A r \in Publishers \ {p} : pub'[r] = pub[r]
  BY MovesOn DEF StreamInv
<1>2. StoreShape' /\ StreamShape' /\ PanelShape'
  BY <1>1 DEF StreamInv, StoreShape, StreamShape, PanelShape, Extends, Fed
<1>3. Limits'
  BY <1>1 DEF StreamInv, Limits, FullIsTodo, StreamLimits, Moves, Fed
<1>4. PubsOK'
  BY <1>1, FrameStays DEF StreamInv, PubsOK, Carries
<1>5. QueuesOK'
  BY FedKeeps
<1>6. PanelOK' /\ AnswersOK'
  BY PanelStays, AnswersStay DEF StreamInv
<1> QED BY <1>2, <1>3, <1>4, <1>5, <1>6 DEF StreamInv

\* Nothing in the history is disturbed.
LEMMA LogStays ==
  ASSUME StoreShape, LogOK, NothingReturns, UNCHANGED <<log, flushed, run>>
  PROVE  LogOK' /\ Extends
<1>1. \A i \in 1 .. Len(log) : log[i] \in Events
  BY Lengths DEF StoreShape
<1>2. Len(log) \in Nat
  BY Lengths DEF StoreShape
<1> QED BY <1>1, <1>2 DEF LogOK, NothingReturns, Extends, StoreShape

LEMMA EmittingFacts ==
  ASSUME StoreShape, NEW p \in Publishers, NEW e \in Events, Emitting(p, e)
  PROVE  /\ YetToCome(e) /\ e[1] = p /\ e[2] = pub[p].next
         /\ pub[p].stage = "idle" /\ pub[p].next <= Len(Emits[p])
         /\ pub[p] \in PubStates
<1>1. pub[p] \in PubStates
  BY DEF StoreShape
<1>2. pub[p].next \in 1 .. Len(Emits[p])
  BY <1>1, ScriptFacts DEF Emitting, PubStates
<1>3. e = <<p, pub[p].next>> /\ e # Old
  BY <1>2, ScriptFacts DEF Emitting
<1> QED BY <1>1, <1>2, <1>3 DEF Emitting, YetToCome

LEMMA AppendKeeps ==
  ASSUME StreamInv, NEW p \in Publishers, appendAgentEvent(p)
  PROVE  StreamInv'
<1>0. StoreShape /\ LogOK
  BY DEF StreamInv
<1>1. PICK e \in Events :
        /\ Emitting(p, e)
        /\ log' = Append(log, e)
        /\ flushed' \in IF isBufferedAgentEvent(Kind(e)) THEN {flushed, Len(log')} ELSE {Len(log')}
        /\ pub' = [pub EXCEPT ![p].stage = "stored", ![p].frame = [event |-> e, seq |-> Len(log')]]
  BY DEF appendAgentEvent
<1>a. PICK f : f = [event |-> e, seq |-> Len(log')]
  OBVIOUS
<1>b. PICK q : q = [pub[p] EXCEPT !.stage = "stored", !.frame = f]
  OBVIOUS
<1>2. /\ YetToCome(e) /\ e[1] = p /\ e[2] = pub[p].next
      /\ pub[p].stage = "idle" /\ pub[p].next <= Len(Emits[p]) /\ pub[p] \in PubStates
  BY <1>0, <1>1, EmittingFacts
<1>3. /\ log \in Seq(Events) /\ log' \in Seq(Events) /\ Len(log) \in Nat
      /\ Len(log') = Len(log) + 1
      /\ \A k \in 1 .. Len(log) : log'[k] = log[k]
      /\ log'[Len(log) + 1] = e
  BY <1>0, <1>1, Appending, Lengths DEF StoreShape
<1>4. f \in Frames /\ f.event = e /\ f.seq = Len(log')
  BY <1>3, <1>a DEF Frames
<1>5. q \in PubStates /\ q.stage = "stored" /\ q.frame = f /\ q.next = pub[p].next
      /\ q.full = pub[p].full /\ q.todo = pub[p].todo
  BY <1>2, <1>4, <1>b DEF PubStates
<1>6. pub' = [pub EXCEPT ![p] = q]
  BY <1>1, <1>a, <1>b
<1>7. Moves(p, q)
  BY <1>2, <1>5, <1>6 DEF Moves, StreamInv, Limits, FullIsTodo
<1>8. NothingReturns /\ ~YetToCome(e)' /\ pub'[p] = q
  <2>1. NothingReturns /\ pub'[p] = q
    BY <1>0, <1>7, MovesOn
  <2>2. pub[p].next \in Nat
    BY <1>2 DEF PubStates
  <2> QED BY <1>2, <1>5, <2>1, <2>2 DEF YetToCome
<1>9. \A i \in 1 .. Len(log') : i \in 1 .. Len(log) \/ i = Len(log) + 1
  BY <1>3
<1>10. Extends
  <2>1. \A i \in 1 .. Len(log') : i <= Len(log) \/ YetToCome(log'[i])
    BY <1>2, <1>3, <1>9
  <2>2. Len(log) <= Len(log')
    BY <1>3
  <2> QED BY <1>3, <1>8, <2>1, <2>2 DEF Extends
<1>11. FrameOK(f)'
  <2>1. log'[f.seq] = f.event /\ f.seq # 0 /\ f.seq <= Len(log')
    BY <1>3, <1>4
  <2> QED BY <1>4, <1>8, <2>1 DEF FrameOK
<1>12. LogOK'
  <2>1. 0 < flushed' /\ flushed' <= Len(log') /\ run'.upTo <= Len(log')
    BY <1>0, <1>1, <1>3 DEF LogOK, StoreShape, appendAgentEvent
  <2>2. \A i \in 1 .. Len(log) : log[i] # e /\ log[i] \in Events
    BY <1>0, <1>2, <1>3, Lengths DEF LogOK
  <2>3. \A i, j \in 1 .. Len(log') : log'[i] = log'[j] => i = j
    BY <1>0, <1>3, <1>9, <2>2 DEF LogOK
  <2>4. \A i \in 1 .. Len(log') : \A x \in Events : log'[i] = x => ~YetToCome(x)'
    BY <1>0, <1>3, <1>8, <1>9, <2>2 DEF LogOK, NothingReturns
  <2>5. \A i \in 1 .. Len(log') : log'[i] \in Events
    BY <1>3, Lengths
  <2> QED BY <2>1, <2>3, <2>4, <2>5 DEF LogOK
<1>13. flushed' \in Nat /\ run' = run /\ UNCHANGED <<chan, conn, source, client, due, inflight>>
  <2>1. flushed \in Nat /\ Len(log') \in Nat
    BY <1>0, <1>3 DEF StoreShape
  <2> QED BY <1>1, <2>1 DEF appendAgentEvent, clientVars
<1> QED
  BY <1>2, <1>4, <1>5, <1>7, <1>10, <1>11, <1>12, <1>13, UnfedKeeps, PublisherKeeps

LEMMA StoreFailsKeeps ==
  ASSUME StreamInv, NEW p \in Publishers, StoreFails(p)
  PROVE  StreamInv'
<1>0. StoreShape /\ LogOK
  BY DEF StreamInv
<1>1. PICK e \in Events :
        /\ Emitting(p, e)
        /\ pub' = [pub EXCEPT ![p].stage = "stored", ![p].frame = [event |-> e, seq |-> 0]]
  BY DEF StoreFails
<1> DEFINE f == [event |-> e, seq |-> 0]
           q == [pub[p] EXCEPT !.stage = "stored", !.frame = f]
<1>2. /\ YetToCome(e) /\ e[1] = p /\ e[2] = pub[p].next
      /\ pub[p].stage = "idle" /\ pub[p].next <= Len(Emits[p]) /\ pub[p] \in PubStates
  BY <1>0, <1>1, EmittingFacts
<1>4. f \in Frames /\ f.event = e /\ f.seq = 0
  BY DEF Frames
<1>5. q \in PubStates /\ q.stage = "stored" /\ q.frame = f /\ q.next = pub[p].next
      /\ q.full = pub[p].full /\ q.todo = pub[p].todo
  <2> HIDE DEF f
  <2> QED BY <1>2, <1>4 DEF PubStates
<1>6. pub' = [pub EXCEPT ![p] = q]
  BY <1>1
<1> HIDE DEF f, q
<1>7. Moves(p, q)
  BY <1>2, <1>5, <1>6 DEF Moves, StreamInv, Limits, FullIsTodo
<1>8. NothingReturns /\ ~YetToCome(e)'
  <2>1. NothingReturns /\ pub'[p] = q
    BY <1>0, <1>7, MovesOn
  <2>2. pub[p].next \in Nat
    BY <1>2 DEF PubStates
  <2> QED BY <1>2, <1>5, <2>1, <2>2 DEF YetToCome
<1>9. UNCHANGED <<log, flushed, run, chan, conn, source, client, due, inflight>>
  BY <1>1 DEF StoreFails, clientVars
<1>10. LogOK' /\ Extends
  BY <1>0, <1>8, <1>9, LogStays
<1>11. FrameOK(f)'
  <2>1. \A i \in 1 .. Len(log) : log[i] # e
    BY <1>0, <1>2 DEF LogOK
  <2> QED BY <1>4, <1>8, <1>9, <2>1 DEF FrameOK
<1>12. flushed' \in Nat
  BY <1>0, <1>9 DEF StoreShape
<1> QED
  BY <1>2, <1>4, <1>5, <1>7, <1>9, <1>10, <1>11, <1>12, UnfedKeeps, PublisherKeeps

\* A publisher that has served a subscriber goes on with the next one, or with
\* its next event.
LEMMA ServedMoves ==
  ASSUME StreamInv, NEW p \in Publishers, pub[p].stage # "idle",
         NEW todo \in SUBSET Streams, Served(p, todo)
  PROVE  \E q : /\ Moves(p, q)
                /\ q.stage # "idle" => q.next = pub[p].next /\ q.frame = pub[p].frame
<1> DEFINE q == IF todo = {} THEN Idle(pub[p].next + 1)
                ELSE [pub[p] EXCEPT !.stage = "sending", !.todo = todo,
                                    !.full = None, !.tries = 0]
<1>1. pub' = [pub EXCEPT ![p] = q]
  BY DEF Served
<1>2. pub[p] \in PubStates
  BY DEF StreamInv, StoreShape
<1>3. CASE todo = {}
  <2>1. q = Idle(pub[p].next + 1)
    BY <1>3
  <2>2. pub[p].next + 1 \in Nat \ {0} /\ 0 \in Nat
    BY <1>2 DEF PubStates
  <2>3. q \in PubStates /\ q.next = pub[p].next + 1 /\ q.stage = "idle" /\ q.full = None
    <3> DEFINE n == pub[p].next + 1
    <3>1. n \in Nat \ {0} /\ 0 \in Nat
      BY <2>2
    <3> HIDE DEF n, q
    <3>2. q = Idle(n)
      BY <2>1 DEF n
    <3>3. q \in PubStates /\ q.next = n /\ q.stage = "idle" /\ q.full = None
      BY <3>1, <3>2 DEF Idle, PubStates
    <3> QED BY <3>3 DEF n
  <2> QED BY <1>1, <2>3 DEF Moves
<1>4. CASE todo # {}
  <2>1. q = [pub[p] EXCEPT !.stage = "sending", !.todo = todo, !.full = None, !.tries = 0]
    BY <1>4
  <2>2. /\ q \in PubStates /\ q.next = pub[p].next /\ q.stage = "sending" /\ q.full = None
        /\ q.frame = pub[p].frame
    <3>1. todo \in SUBSET Streams /\ 0 \in Nat
      OBVIOUS
    <3> HIDE DEF q
    <3> QED BY <1>2, <2>1, <3>1 DEF PubStates
  <2> QED BY <1>1, <2>2 DEF Moves
<1> QED BY <1>3, <1>4

\* The history stays as it is while its frames are handed out.
LEMMA HandingOutKeeps ==
  ASSUME StreamInv, NEW p \in Publishers, pub[p].stage # "idle",
         NEW q, Moves(p, q), Fed,
         q.stage # "idle" => q.next = pub[p].next /\ q.frame = pub[p].frame,
         UNCHANGED <<log, flushed, run, conn, source, client, due, inflight>>
  PROVE  StreamInv'
<1>1. StoreShape /\ LogOK /\ PubsOK
  BY DEF StreamInv
<1>2. NothingReturns
  BY <1>1, MovesOn
<1>3. LogOK' /\ Extends
  BY <1>1, <1>2, LogStays
<1>4. q.stage # "idle" => /\ q.next <= Len(Emits[p])
                          /\ q.frame \in Frames /\ FrameOK(q.frame)'
  <2>1. PICK f : f = pub[p].frame
    OBVIOUS
  <2>2. f \in Frames /\ FrameOK(f) /\ pub[p].next <= Len(Emits[p])
    BY <1>1, <2>1 DEF PubsOK
  <2>3. FrameOK(f)'
    BY <1>1, <1>3, <2>2, FrameStays DEF Carries
  <2> QED BY <2>1, <2>2, <2>3
<1>5. flushed' \in Nat
  BY <1>1 DEF StoreShape
<1> QED BY <1>3, <1>4, <1>5, PublisherKeeps

LEMMA FanOutKeeps ==
  ASSUME StreamInv, NEW p \in Publishers, BeginFanOut(p)
  PROVE  StreamInv'
<1>1. pub[p].stage # "idle" /\ Served(p, Subscribed) /\ Subscribed \in SUBSET Streams
  BY DEF BeginFanOut, Subscribed
<1>2. PICK q : /\ Moves(p, q)
               /\ q.stage # "idle" => q.next = pub[p].next /\ q.frame = pub[p].frame
  BY <1>1, ServedMoves
<1>3. Fed /\ UNCHANGED <<log, flushed, run, conn, source, client, due, inflight>>
  BY UnfedKeeps DEF BeginFanOut, clientVars
<1> QED BY <1>1, <1>2, <1>3, HandingOutKeeps

LEMMA PublishKeeps ==
  ASSUME StreamInv, NEW p \in Publishers, Publish(p)
  PROVE  StreamInv'
<1>1. PICK s \in pub[p].todo :
        /\ pub[p].stage = "sending"
        /\ IF conn[s].pc # "off" /\ HasRoom(s)
             THEN chan' = [chan EXCEPT ![s] = Append(@, pub[p].frame)]
             ELSE UNCHANGED chan
        /\ IF conn[s].pc # "off" /\ ~HasRoom(s) /\ IsGuaranteedAgentEvent(Kind(pub[p].frame.event))
             THEN pub' = [pub EXCEPT ![p].full = s]
             ELSE Served(p, pub[p].todo \ {s})
  BY DEF Publish
<1>2. pub[p] \in PubStates /\ pub[p].stage # "idle" /\ s \in Streams
      /\ pub[p].todo \in SUBSET Streams
  <2>1. pub[p] \in PubStates
    BY DEF StreamInv, StoreShape
  <2> QED BY <1>1, <2>1 DEF PubStates
<1>3. \E q : /\ Moves(p, q)
             /\ q.stage # "idle" => q.next = pub[p].next /\ q.frame = pub[p].frame
  <2>1. CASE pub' = [pub EXCEPT ![p].full = s]
    <3> DEFINE q == [pub[p] EXCEPT !.full = s]
    <3>1. /\ q \in PubStates /\ q.next = pub[p].next /\ q.stage = pub[p].stage
          /\ q.full = s /\ q.todo = pub[p].todo /\ q.frame = pub[p].frame
      BY <1>2 DEF PubStates
    <3>2. pub' = [pub EXCEPT ![p] = q]
      BY <2>1
    <3> QED BY <1>1, <3>1, <3>2 DEF Moves
  <2>2. CASE Served(p, pub[p].todo \ {s})
    <3>1. pub[p].todo \ {s} \in SUBSET Streams
      BY <1>2
    <3> QED BY <1>2, <2>2, <3>1, ServedMoves
  <2> QED BY <1>1, <2>1, <2>2
<1>4. Fed
  <2>1. CASE UNCHANGED chan
    BY <2>1, UnfedKeeps
  <2>2. CASE HasRoom(s) /\ chan' = [chan EXCEPT ![s] = Append(@, pub[p].frame)]
    <3>1. PICK f : f = pub[p].frame
      OBVIOUS
    <3>2. f \in Frames /\ FrameOK(f)
      BY <1>2, <3>1 DEF StreamInv, PubsOK
    <3>3. chan \in [Streams -> Seq(Frames)] /\ chan[s] \in Seq(Frames)
      BY <1>2 DEF StreamInv, StreamShape
    <3>4. PICK old : old = chan[s]
      OBVIOUS
    <3>5. PICK new : new = Append(old, f)
      OBVIOUS
    <3>6. /\ old \in Seq(Frames) /\ new \in Seq(Frames) /\ Len(new) = Len(old) + 1
          /\ \A k \in 1 .. Len(old) : new[k] = old[k]
          /\ new[Len(old) + 1] = f /\ Len(old) \in Nat
      BY <3>2, <3>3, <3>4, <3>5, Appending, Lengths
    <3>7. FramesOK(old) /\ Len(old) < Buffer /\ Buffer \in Nat
      BY <1>2, <2>2, <3>4, StreamAssumption DEF StreamInv, QueuesOK, HasRoom
    <3>8. \A k \in 1 .. Len(new) : k \in 1 .. Len(old) \/ k = Len(old) + 1
      BY <3>6
    <3>9. FramesOK(new) /\ Len(new) <= Buffer
      BY <3>2, <3>6, <3>7, <3>8 DEF FramesOK
    <3>10. chan'[s] = new /\ \A t \in Streams \ {s} : chan'[t] = chan[t]
      BY <1>2, <2>2, <3>1, <3>3, <3>4, <3>5
    <3>11. chan' \in [Streams -> Seq(Frames)]
      BY <1>2, <2>2, <3>1, <3>3, <3>4, <3>5, <3>6
    <3> QED BY <3>9, <3>10, <3>11 DEF Fed, StreamInv, Limits, StreamLimits, QueuesOK
  <2> QED BY <1>1, <2>1, <2>2
<1>5. UNCHANGED <<log, flushed, run, conn, source, client, due, inflight>>
  BY DEF Publish, clientVars
<1> QED BY <1>2, <1>3, <1>4, <1>5, HandingOutKeeps

\* The oldest frame leaves a buffer.
LEMMA TakenFed ==
  ASSUME StreamInv, NEW s \in Streams, chan[s] # <<>>,
         chan' = [chan EXCEPT ![s] = Tail(@)]
  PROVE  Fed
<1>1. chan \in [Streams -> Seq(Frames)] /\ chan[s] \in Seq(Frames)
  BY DEF StreamInv, StreamShape
<1>2. PICK old : old = chan[s]
  OBVIOUS
<1>3. PICK new : new = Tail(old)
  OBVIOUS
<1>4. /\ old \in Seq(Frames) /\ new \in Seq(Frames) /\ Len(new) = Len(old) - 1
      /\ \A k \in 1 .. Len(old) - 1 : new[k] = old[k + 1]
      /\ Len(old) \in Nat
  BY <1>1, <1>2, <1>3, Taking, Lengths
<1>5. FramesOK(old) /\ Len(old) <= Buffer /\ Buffer \in Nat
  BY <1>2, StreamAssumption DEF StreamInv, QueuesOK, Limits, StreamLimits
<1>6. FramesOK(new) /\ Len(new) <= Buffer
  <2>1. \A k \in 1 .. Len(new) : k + 1 \in 1 .. Len(old)
    BY <1>4
  <2> QED BY <1>4, <1>5, <2>1 DEF FramesOK
<1>7. chan'[s] = new /\ \A t \in Streams \ {s} : chan'[t] = chan[t]
  BY <1>1, <1>2, <1>3
<1>8. chan' \in [Streams -> Seq(Frames)]
  BY <1>1, <1>2, <1>3, <1>4
<1> QED BY <1>6, <1>7, <1>8 DEF Fed, StreamInv, Limits, StreamLimits, QueuesOK

\* The subscriber whose buffer is full is one of those to be served.
LEMMA GuaranteedKeeps ==
  ASSUME StreamInv, NEW p \in Publishers, publishGuaranteedAgentEvent(p)
  PROVE  StreamInv'
<1> DEFINE s == pub[p].full
<1>0. pub[p] \in PubStates
  BY DEF StreamInv, StoreShape
<1>1. s # None /\ s \in pub[p].todo /\ s \in Streams /\ pub[p].todo \in SUBSET Streams
  BY <1>0 DEF StreamInv, Limits, FullIsTodo, publishGuaranteedAgentEvent, PubStates
<1>a. pub[p].stage # "idle"
  BY <1>1 DEF StreamInv, Limits, FullIsTodo
<1>2. /\ chan' = [chan EXCEPT ![s] = IF @ = <<>> THEN @ ELSE Tail(@)]
      /\ \/ Served(p, pub[p].todo \ {s})
         \/ pub' = [pub EXCEPT ![p].full = None, ![p].tries = @ + 1]
  BY DEF publishGuaranteedAgentEvent
<1>3. \E q : /\ Moves(p, q)
             /\ q.stage # "idle" => q.next = pub[p].next /\ q.frame = pub[p].frame
  <2>1. CASE pub' = [pub EXCEPT ![p].full = None, ![p].tries = @ + 1]
    <3> DEFINE q == [pub[p] EXCEPT !.full = None, !.tries = @ + 1]
    <3>1. /\ q \in PubStates /\ q.next = pub[p].next /\ q.stage = pub[p].stage
          /\ q.full = None /\ q.frame = pub[p].frame
      <4>1. PICK n : n = pub[p].tries + 1
        OBVIOUS
      <4>2. n \in Nat
        BY <1>0, <4>1 DEF PubStates
      <4>3. q = [pub[p] EXCEPT !.full = None, !.tries = n]
        BY <4>1
      <4> HIDE DEF q
      <4> QED BY <1>0, <4>2, <4>3 DEF PubStates
    <3>2. pub' = [pub EXCEPT ![p] = q]
      BY <2>1
    <3> QED BY <3>1, <3>2 DEF Moves
  <2>2. CASE Served(p, pub[p].todo \ {s})
    <3>1. pub[p].todo \ {s} \in SUBSET Streams
      BY <1>1
    <3> QED BY <1>a, <2>2, <3>1, ServedMoves
  <2> QED BY <1>2, <2>1, <2>2
<1>4. Fed
  <2>1. CASE UNCHANGED chan
    BY <2>1, UnfedKeeps
  <2>2. CASE ~UNCHANGED chan
    <3>1. chan[s] # <<>> /\ chan' = [chan EXCEPT ![s] = Tail(@)]
      BY <1>1, <1>2, <2>2 DEF StreamInv, StreamShape
    <3> QED BY <1>1, <3>1, TakenFed
  <2> QED BY <2>1, <2>2
<1>5. UNCHANGED <<log, flushed, run, conn, source, client, due, inflight>>
  BY DEF publishGuaranteedAgentEvent, clientVars
<1> QED BY <1>a, <1>3, <1>4, <1>5, HandingOutKeeps

-----------------------------------------------------------------------------
(* Connections.                                                            *)

\* One connection: its handler, its buffer, and whether its source is open.
StreamOK(h, queue, open) ==
  /\ FramesOK(queue) /\ FramesOK(h.page)
  /\ Len(queue) <= Buffer /\ Len(h.page) <= PageSize
  /\ ~open => h = Off

LEMMA OffFacts ==
  /\ Off \in ConnStates /\ <<>> \in Seq(Frames)
  /\ \A open : StreamOK(Off, <<>>, open)
<1>1. Off \in ConnStates /\ Off.page = <<>> /\ <<>> \in Seq(Frames) /\ Len(<<>>) = 0
  BY DEF Off, ConnStates
<1> QED BY <1>1, StreamAssumption DEF StreamOK, FramesOK

LEMMA EachStream ==
  ASSUME StreamInv, NEW s \in Streams
  PROVE  /\ conn[s] \in ConnStates /\ chan[s] \in Seq(Frames) /\ source[s] \in SourceStates
         /\ StreamOK(conn[s], chan[s], source[s].open)
  BY DEF StreamInv, StreamShape, Limits, StreamLimits, QueuesOK, StreamOK

\* The connections are in order if each of them is.
StreamsMove ==
  /\ source' \in [Streams -> SourceStates]
  /\ conn' \in [Streams -> ConnStates]
  /\ chan' \in [Streams -> Seq(Frames)]
  /\ \A s \in Streams : StreamOK(conn'[s], chan'[s], source'[s].open)

LEMMA StreamsKeep ==
  ASSUME StoreShape, UNCHANGED <<log, pub>>, StreamsMove
  PROVE  StreamShape' /\ StreamLimits' /\ QueuesOK'
<1>1. \A f : FrameOK(f)' <=> FrameOK(f)
  BY SameHistory DEF FrameOK
<1>2. \A s \in Streams : FramesOK(chan[s])' /\ FramesOK(conn[s].page)'
  <2> TAKE s \in Streams
  <2>1. PICK q, h : q = chan'[s] /\ h = conn'[s].page
    OBVIOUS
  <2>2. FramesOK(q) /\ FramesOK(h)
    BY <2>1 DEF StreamsMove, StreamOK
  <2> QED BY <1>1, <2>1, <2>2 DEF FramesOK
<1> QED BY <1>2 DEF StreamsMove, StreamOK, StreamShape, StreamLimits, QueuesOK

\* The file may be flushed, and the run may end.
StoreMoves ==
  /\ UNCHANGED <<log, pub>>
  /\ flushed' \in {flushed, Len(log)}
  /\ run' = run \/ run' = [ended |-> TRUE, upTo |-> Len(log)]

\* A step at the client or of a handler keeps the invariant if it does so for the
\* connections and for the panel.
LEMMA ClientKeeps ==
  ASSUME StreamInv, StoreMoves, StreamsMove,
         PanelShape', PanelOK', AnswersOK', Len(inflight') <= MaxFetches
  PROVE  StreamInv'
<1>1. StoreShape /\ LogOK /\ PubsOK /\ FullIsTodo
  BY DEF StreamInv, Limits
<1>2. Extends /\ \A e : YetToCome(e)' <=> YetToCome(e)
  BY <1>1, SameHistory DEF StoreMoves
<1>3. Len(log) \in Nat
  BY <1>1, Lengths DEF StoreShape
<1>4. StoreShape' /\ LogOK'
  <2>1. /\ flushed' \in Nat /\ 0 < flushed' /\ flushed' <= Len(log)
    BY <1>1, <1>3 DEF StoreShape, LogOK, StoreMoves
  <2>2. run' \in [ended : BOOLEAN, upTo : Nat] /\ run'.upTo <= Len(log)
    <3>1. CASE run' = run
      BY <1>1, <3>1 DEF StoreShape, LogOK
    <3>2. CASE run' = [ended |-> TRUE, upTo |-> Len(log)]
      BY <1>3, <3>2
    <3> QED BY <3>1, <3>2 DEF StoreMoves
  <2> QED BY <1>1, <1>2, <2>1, <2>2 DEF StoreShape, LogOK, StoreMoves
<1>5. PubsOK'
  <2>1. \A f : FrameOK(f)' <=> FrameOK(f)
    BY <1>2 DEF FrameOK, StoreMoves
  <2> QED BY <1>1, <2>1 DEF PubsOK, StoreMoves
<1>6. FullIsTodo'
  BY <1>1 DEF FullIsTodo, StoreMoves
<1> QED BY <1>1, <1>4, <1>5, <1>6, StreamsKeep DEF StreamInv, Limits, StoreMoves

\* The panel is not concerned.
LEMMA PanelUnconcerned ==
  ASSUME StreamInv, StoreMoves, UNCHANGED <<client, inflight>>,
         due' \subseteq {"resync", "settle"}
  PROVE  PanelShape' /\ PanelOK' /\ AnswersOK' /\ Len(inflight') <= MaxFetches
<1>1. Extends
  BY SameHistory DEF StreamInv, StoreMoves
<1> QED
  BY <1>1, PanelStays, AnswersStay DEF StreamInv, PanelShape, Limits

LEMMA StreamsUnconcerned ==
  ASSUME StreamInv, UNCHANGED <<chan, conn, source>>
  PROVE  StreamsMove
  BY EachStream DEF StreamsMove, StreamInv, StreamShape

\* The handler of one connection goes on.
LEMMA OneStreamMoves ==
  ASSUME StreamInv, NEW s \in Streams, NEW h \in ConnStates, NEW q \in Seq(Frames),
         StreamOK(h, q, source[s].open),
         conn' = [conn EXCEPT ![s] = h], chan' = [chan EXCEPT ![s] = q], source' = source
  PROVE  StreamsMove
<1>1. /\ conn' \in [Streams -> ConnStates] /\ chan' \in [Streams -> Seq(Frames)]
      /\ conn'[s] = h /\ chan'[s] = q
      /\ \A t \in Streams \ {s} : conn'[t] = conn[t] /\ chan'[t] = chan[t]
  BY DEF StreamInv, StreamShape
<1> QED BY <1>1, EachStream DEF StreamsMove, StreamInv, StreamShape

LEMMA RunEndsKeeps ==
  ASSUME StreamInv, RunEnds
  PROVE  StreamInv'
<1>1. StoreMoves /\ UNCHANGED <<chan, conn, source, client, due, inflight>>
  BY DEF RunEnds, StoreMoves, clientVars
<1>2. due' \subseteq {"resync", "settle"}
  BY <1>1 DEF StreamInv, PanelShape
<1> QED BY <1>1, <1>2, ClientKeeps, PanelUnconcerned, StreamsUnconcerned

LEMMA ConnectKeeps ==
  ASSUME StreamInv, NEW s \in Streams, Connect(s) \/ Disconnect(s)
  PROVE  StreamInv'
<1>0. /\ conn[s] \in ConnStates /\ chan[s] \in Seq(Frames) /\ source[s] \in SourceStates
      /\ StreamOK(conn[s], chan[s], source[s].open)
      /\ Off \in ConnStates /\ <<>> \in Seq(Frames) /\ StreamOK(Off, <<>>, source[s].open)
      /\ chan = [chan EXCEPT ![s] = chan[s]]
  BY EachStream, OffFacts DEF StreamInv, StreamShape
<1>1. StreamsMove
  <2>1. CASE Connect(s)
    <3>1. PICK h : h = [Off EXCEPT !.pc = "replay", !.cursor = source[s].lastId]
      OBVIOUS
    <3>2. h \in ConnStates /\ h.page = Off.page
      BY <1>0, <3>1 DEF ConnStates, SourceStates
    <3>3. StreamOK(h, chan[s], source[s].open)
      BY <1>0, <2>1, <3>2 DEF StreamOK, Connect
    <3>4. /\ conn' = [conn EXCEPT ![s] = h] /\ chan' = [chan EXCEPT ![s] = chan[s]]
          /\ source' = source
      BY <1>0, <2>1, <3>1 DEF Connect, clientVars
    <3> QED BY <1>0, <3>2, <3>3, <3>4, OneStreamMoves
  <2>2. CASE Disconnect(s)
    <3>1. /\ conn' = [conn EXCEPT ![s] = Off] /\ chan' = [chan EXCEPT ![s] = <<>>]
          /\ source' = source
      BY <2>2 DEF Disconnect, clientVars
    <3> QED BY <1>0, <3>1, OneStreamMoves
  <2> QED BY <2>1, <2>2
<1>2. StoreMoves /\ UNCHANGED <<client, due, inflight>>
  BY DEF Connect, Disconnect, StoreMoves, serverVars, clientVars
<1>3. due' \subseteq {"resync", "settle"}
  BY <1>2 DEF StreamInv, PanelShape
<1> QED BY <1>1, <1>2, <1>3, ClientKeeps, PanelUnconcerned

-----------------------------------------------------------------------------
(* The replay and the live events.                                         *)

\* A page holds the events behind the cursor, with their places.
LEMMA LoadKeeps ==
  ASSUME StreamInv, NEW s \in Streams, LoadAgentEvents(s)
  PROVE  StreamInv'
<1> DEFINE from == conn[s].cursor
           to   == AtMost(Len(log), from + PageSize)
           n    == IF from < to THEN to - from ELSE 0
<1>0. /\ conn[s] \in ConnStates /\ chan[s] \in Seq(Frames)
      /\ StreamOK(conn[s], chan[s], source[s].open)
      /\ chan = [chan EXCEPT ![s] = chan[s]]
      /\ log \in Seq(Events) /\ Len(log) \in Nat /\ PageSize \in Nat /\ LogOK
  BY EachStream, Lengths, StreamAssumption DEF StreamInv, StreamShape, StoreShape
<1>1. PICK page : page = [i \in 1 .. n |-> [event |-> log[from + i], seq |-> from + i]]
  OBVIOUS
<1>2. from \in Nat /\ n \in Nat /\ n <= PageSize
      /\ \A i \in 1 .. n : from + i \in 1 .. Len(log)
  <2>1. from \in Nat
    BY <1>0 DEF ConnStates
  <2>2. to \in Nat /\ to <= Len(log) /\ to <= from + PageSize
    BY <1>0, <2>1 DEF AtMost
  <2> HIDE DEF from, to
  <2> QED BY <1>0, <2>1, <2>2
<1> HIDE DEF n
<1>3. \A i \in 1 .. n : /\ [event |-> log[from + i], seq |-> from + i] \in Frames
                        /\ FrameOK([event |-> log[from + i], seq |-> from + i])
  <2> TAKE i \in 1 .. n
  <2>1. /\ from + i \in 1 .. Len(log) /\ from + i \in Nat /\ from + i # 0
        /\ log[from + i] \in Events
    BY <1>0, <1>2, Lengths
  <2> QED BY <1>0, <2>1 DEF Frames, FrameOK, LogOK
<1>4. page \in Seq(Frames) /\ Len(page) = n /\ FramesOK(page)
  <2>1. page \in Seq(Frames) /\ Len(page) = n
    BY <1>1, <1>2, <1>3
  <2>2. \A i \in 1 .. n : page[i] = [event |-> log[from + i], seq |-> from + i]
    BY <1>1
  <2> QED BY <1>3, <2>1, <2>2 DEF FramesOK
<1>a. PICK short : short = (Len(page) < PageSize)
  OBVIOUS
<1>5. PICK h : h = [conn[s] EXCEPT !.page = page, !.short = short]
  OBVIOUS
<1>6. h \in ConnStates /\ h.page = page
  <2>0. short \in BOOLEAN
    BY <1>a
  <2>1. page \in Seq(Frames) /\ short \in BOOLEAN /\ conn[s] \in ConnStates
    BY <1>0, <1>4, <2>0
  <2> HIDE DEF from
  <2> QED BY <1>5, <2>1 DEF ConnStates
<1>7. conn[s].pc = "replay" /\ conn' = [conn EXCEPT ![s] = h] /\ flushed' = Len(log)
      /\ UNCHANGED <<log, pub, run, chan, source, client, due, inflight>>
  BY <1>1, <1>a, <1>5 DEF LoadAgentEvents, clientVars, n
<1>8. StreamOK(h, chan[s], source[s].open)
  BY <1>0, <1>2, <1>4, <1>6, <1>7 DEF StreamOK, Off
<1>9. StreamsMove
  BY <1>0, <1>6, <1>7, <1>8, OneStreamMoves
<1>10. StoreMoves /\ due' \subseteq {"resync", "settle"}
  BY <1>7 DEF StoreMoves, StreamInv, PanelShape
<1> QED BY <1>7, <1>9, <1>10, ClientKeeps, PanelUnconcerned

\* The end of the replay changes nothing that the panel shows.
LEMMA CompletedKeeps ==
  ASSUME StreamInv, NEW s \in Streams, ReplayCompleted(s)
  PROVE  StreamInv'
<1>0. /\ conn[s] \in ConnStates /\ chan[s] \in Seq(Frames)
      /\ StreamOK(conn[s], chan[s], source[s].open)
      /\ chan = [chan EXCEPT ![s] = chan[s]]
      /\ client \in PanelStates
  BY EachStream DEF StreamInv, StreamShape, PanelShape
<1>1. PICK h : h = [conn[s] EXCEPT !.pc = "live"]
  OBVIOUS
<1>2. h \in ConnStates /\ h.page = conn[s].page
  BY <1>0, <1>1 DEF ConnStates
<1>3. /\ conn[s].pc = "replay" /\ conn' = [conn EXCEPT ![s] = h]
      /\ UNCHANGED <<log, flushed, run, pub, chan, source, due, inflight>>
      /\ client' \in {client, [client EXCEPT !.replaying = FALSE]}
  BY <1>1 DEF ReplayCompleted, serverVars
<1>4. StreamsMove
  <2>1. StreamOK(h, chan[s], source[s].open)
    BY <1>0, <1>2, <1>3 DEF StreamOK, Off
  <2> QED BY <1>0, <1>2, <1>3, <2>1, OneStreamMoves
<1>5. StoreMoves
  BY <1>3 DEF StoreMoves
<1>6. /\ client' \in PanelStates /\ client'.cursor = client.cursor
      /\ client'.shown = client.shown /\ client'.skipped = client.skipped
  BY <1>0, <1>3 DEF PanelStates
<1>7. AnswersOK'
  BY <1>3, AnswersStay, SameHistory DEF StreamInv
<1>8. PanelOK'
  <2>1. \A e : YetToCome(e)' <=> YetToCome(e)
    BY <1>3, SameHistory DEF StreamInv
  <2> QED BY <1>3, <1>6, <2>1
          DEF StreamInv, PanelOK, NothingToCome, MissesAreNoticed, Missed, NothingShownTwice
<1> QED BY <1>3, <1>4, <1>5, <1>6, <1>7, <1>8, ClientKeeps DEF StreamInv, PanelShape, Limits

\* The panel shows a frame that is no duplicate: what it skips lies between its
\* old cursor and the new one.
LEMMA ShowsPanel ==
  ASSUME StreamInv, UNCHANGED <<log, pub>>, NEW f \in Frames, FrameOK(f), ~Duplicate(f.seq),
         NEW on \in BOOLEAN, client' = [applyEventSequence(f) EXCEPT !.running = on]
  PROVE  client' \in PanelStates /\ PanelOK'
<1> DEFINE c == IF f.seq > 0 THEN f.seq ELSE client.cursor
           shown == [client.shown EXCEPT ![f.event] = @ + 1]
           skipped == IF IsGap(f.seq)
                      THEN client.skipped \cup (client.cursor + 1 .. f.seq - 1)
                      ELSE client.skipped
<1>0. /\ client \in PanelStates /\ client.cursor \in Nat /\ 0 < client.cursor
      /\ client.shown \in [Events -> Nat] /\ client.skipped \in SUBSET Nat
      /\ f.seq \in Nat /\ f.event \in Events
      /\ Len(log) \in Nat /\ \A i \in 1 .. Len(log) : log[i] \in Events
      /\ PanelOK /\ LogOK
  BY Lengths DEF StreamInv, StoreShape, PanelShape, PanelStates, PanelOK, Frames
<1>a. \A e : YetToCome(e)' <=> YetToCome(e)
  BY SameHistory DEF StreamInv
<1>1. /\ shown \in [Events -> Nat] /\ shown[f.event] = client.shown[f.event] + 1
      /\ \A e \in Events : e # f.event => shown[e] = client.shown[e]
  BY <1>0
<1>2. c \in Nat /\ skipped \in SUBSET Nat /\ client.skipped \subseteq skipped
  BY <1>0
<1>b. /\ applyEventSequence(f).cursor = c
      /\ applyEventSequence(f).shown = shown
      /\ applyEventSequence(f).skipped = skipped
      /\ applyEventSequence(f).running = client.running
      /\ applyEventSequence(f).replaying = client.replaying
  BY <1>0 DEF applyEventSequence, PanelStates
<1>c. applyEventSequence(f) \in PanelStates
  <2>1. applyEventSequence(f) = [client EXCEPT !.cursor = c, !.shown = shown, !.skipped = skipped]
    BY DEF applyEventSequence
  <2> HIDE DEF c, shown, skipped
  <2> QED BY <1>0, <1>1, <1>2, <2>1 DEF PanelStates
<1>4. /\ f.seq = 0 => c = client.cursor
      /\ f.seq # 0 => /\ c = f.seq /\ client.cursor < f.seq
                      /\ \A i \in Nat : client.cursor < i /\ i < f.seq => i \in skipped
  BY <1>0 DEF Duplicate, IsGap
<1> HIDE DEF c, shown, skipped
<1>5. /\ client' \in PanelStates /\ client'.cursor = c
      /\ client'.shown = shown /\ client'.skipped = skipped
  <2>1. PICK a : a = applyEventSequence(f)
    OBVIOUS
  <2>2. /\ a \in PanelStates /\ a.cursor = c /\ a.shown = shown /\ a.skipped = skipped
        /\ client' = [a EXCEPT !.running = on]
    BY <1>b, <1>c, <2>1
  <2> QED BY <2>2 DEF PanelStates
<1>6. CASE f.seq = 0
  <2>1. \A i \in 1 .. Len(log) : shown[log[i]] = client.shown[log[i]]
    BY <1>0, <1>1, <1>6 DEF FrameOK
  <2>2. \A e \in Events : YetToCome(e) => shown[e] = 0
    BY <1>0, <1>1 DEF FrameOK, PanelOK
  <2> QED
    BY <1>0, <1>a, <1>2, <1>4, <1>5, <1>6, <2>1, <2>2
       DEF PanelOK, NothingToCome, MissesAreNoticed, Missed, NothingShownTwice
<1>7. CASE f.seq # 0
  <2>1. f.seq \in 1 .. Len(log) /\ log[f.seq] = f.event /\ client.shown[f.event] = 0
        /\ c = f.seq /\ client.cursor < f.seq
    BY <1>0, <1>4, <1>7 DEF FrameOK, PanelOK
  <2>2. \A i \in 1 .. Len(log) : shown[log[i]] = IF i = f.seq THEN 1 ELSE client.shown[log[i]]
    BY <1>0, <1>1, <2>1 DEF LogOK
  <2>3. \A e \in Events : YetToCome(e) => shown[e] = 0
    BY <1>0, <1>1 DEF FrameOK, PanelOK
  <2>4. /\ 0 < c /\ c <= Len(log)
        /\ \A i \in 1 .. Len(log) : c < i => shown[log[i]] = 0
        /\ \A i \in 1 .. Len(log) : shown[log[i]] <= 1
    BY <1>0, <2>1, <2>2 DEF PanelOK, NothingShownTwice
  <2>5. \A i \in 1 .. Len(log) : i <= c /\ shown[log[i]] = 0 => i \in skipped
    <3> SUFFICES ASSUME NEW i \in 1 .. Len(log), i <= c, shown[log[i]] = 0
                 PROVE  i \in skipped
      OBVIOUS
    <3>1. i # f.seq /\ client.shown[log[i]] = 0 /\ i \in Nat /\ i < f.seq
      BY <1>0, <2>1, <2>2
    <3>2. CASE i <= client.cursor
      BY <1>0, <1>2, <3>1, <3>2 DEF PanelOK, MissesAreNoticed, Missed
    <3>3. CASE client.cursor < i
      BY <1>4, <1>7, <3>1, <3>3
    <3> QED BY <1>0, <3>1, <3>2, <3>3
  <2>6. \A i \in 1 .. Len(log') : client'.shown[log'[i]] = shown[log[i]]
    BY <1>5
  <2>7. MissesAreNoticed' /\ NothingShownTwice'
    BY <1>5, <2>4, <2>5 DEF MissesAreNoticed, Missed, NothingShownTwice
  <2>8. 0 < client'.cursor /\ (Len(log') < client'.cursor => NothingToCome')
    BY <1>0, <1>2, <1>5, <2>4
  <2>9. \A e \in Events : YetToCome(e)' => client'.shown[e] = 0
    BY <1>a, <1>5, <2>3
  <2>10. \A i \in 1 .. Len(log') : client'.cursor < i => client'.shown[log'[i]] = 0
    BY <1>5, <2>4
  <2> QED BY <1>5, <2>7, <2>8, <2>9, <2>10 DEF PanelOK
<1> QED BY <1>5, <1>6, <1>7

\* A frame arrives at the panel, and the handler goes on with h and the buffer q.
LEMMA HandledKeeps ==
  ASSUME StreamInv, NEW s \in Streams, NEW f \in Frames, FrameOK(f),
         NEW h \in ConnStates, NEW q \in Seq(Frames), StreamOK(h, q, TRUE),
         handleStreamingAgentEvent(s, f), HandlerContinues(s, h, q),
         UNCHANGED <<log, flushed, run, pub, inflight>>
  PROVE  StreamInv'
<1>0. /\ client \in PanelStates /\ client.running \in BOOLEAN
      /\ source \in [Streams -> SourceStates]
      /\ conn \in [Streams -> ConnStates] /\ chan \in [Streams -> Seq(Frames)]
      /\ Off \in ConnStates /\ <<>> \in Seq(Frames)
      /\ f.seq \in Nat
  BY OffFacts DEF StreamInv, StreamShape, PanelShape, PanelStates, Frames
<1>1. StoreMoves
  BY DEF StoreMoves
<1>2. client' \in PanelStates /\ PanelOK'
  <2>1. CASE Duplicate(f.seq)
    <3>1. client' = client
      BY <2>1 DEF handleStreamingAgentEvent
    <3> QED BY <1>0, <3>1, PanelStays, SameHistory DEF StreamInv
  <2>2. CASE ~Duplicate(f.seq)
    <3>1. \E on \in BOOLEAN : client' = [applyEventSequence(f) EXCEPT !.running = on]
      <4>1. applyEventSequence(f).running = client.running
        BY <1>0 DEF applyEventSequence, PanelStates
      <4> QED BY <1>0, <2>2, <4>1 DEF handleStreamingAgentEvent
    <3> QED BY <2>2, <3>1, ShowsPanel
  <2> QED BY <2>1, <2>2
<1>3. due' \subseteq {"resync", "settle"}
  BY DEF handleStreamingAgentEvent, StreamInv, PanelShape
<1>4. source' \in [Streams -> SourceStates] /\ \A t \in Streams : source'[t].open => source[t].open
  <2>1. PICK n : n = IF f.seq > 0 THEN f.seq ELSE source[s].lastId
    OBVIOUS
  <2>2. n \in Nat
    BY <1>0, <2>1 DEF SourceStates
  <2>3. PICK seen : seen = [source EXCEPT ![s].lastId = n]
    OBVIOUS
  <2>4. seen \in [Streams -> SourceStates] /\ \A t \in Streams : seen[t].open = source[t].open
    BY <1>0, <2>2, <2>3 DEF SourceStates
  <2>5. /\ \A t \in Streams : source'[t] \in {seen[t], [seen[t] EXCEPT !.open = FALSE]}
        /\ source' = [t \in Streams |-> source'[t]]
    BY <2>1, <2>3 DEF handleStreamingAgentEvent
  <2>6. \A t \in Streams : /\ source'[t] \in SourceStates
                           /\ source'[t].open => source[t].open
    <3> TAKE t \in Streams
    <3>1. PICK a, b : a = seen[t] /\ b = source'[t]
      OBVIOUS
    <3>2. /\ a \in SourceStates /\ a.open = source[t].open
          /\ b = a \/ b = [a EXCEPT !.open = FALSE]
      BY <2>4, <2>5, <3>1
    <3>3. b \in SourceStates /\ (b.open => a.open)
      BY <3>2 DEF SourceStates
    <3> QED BY <3>1, <3>2, <3>3
  <2> QED BY <2>5, <2>6
<1>5. StreamsMove
  <2>1. \A t \in Streams :
          \/ ~source'[t].open /\ conn'[t] = Off /\ chan'[t] = <<>>
          \/ source'[t].open /\ t = s /\ conn'[t] = h /\ chan'[t] = q
          \/ source'[t].open /\ conn'[t] = conn[t] /\ chan'[t] = chan[t]
    BY DEF HandlerContinues
  <2>2. conn' \in [Streams -> ConnStates] /\ chan' \in [Streams -> Seq(Frames)]
    BY <1>0 DEF HandlerContinues
  <2>3. \A t \in Streams : StreamOK(conn'[t], chan'[t], source'[t].open)
    <3> TAKE t \in Streams
    <3>1. source'[t].open \in BOOLEAN /\ StreamOK(conn[t], chan[t], source[t].open)
          /\ StreamOK(Off, <<>>, FALSE)
      BY <1>4, EachStream, OffFacts DEF SourceStates
    <3> QED BY <1>4, <2>1, <3>1 DEF StreamOK
  <2> QED BY <1>4, <2>2, <2>3 DEF StreamsMove
<1>6. AnswersOK' /\ PanelShape' /\ Len(inflight') <= MaxFetches
  BY <1>2, <1>3, AnswersStay, SameHistory DEF StreamInv, PanelShape, Limits
<1> QED BY <1>1, <1>2, <1>5, <1>6, ClientKeeps

LEMMA ReplayedKeeps ==
  ASSUME StreamInv, NEW s \in Streams, SendReplayed(s)
  PROVE  StreamInv'
<1>0. /\ conn[s] \in ConnStates /\ chan[s] \in Seq(Frames) /\ conn[s].page \in Seq(Frames)
      /\ StreamOK(conn[s], chan[s], source[s].open) /\ PageSize \in Nat
  BY EachStream, StreamAssumption DEF ConnStates
<1>1. PICK page : page = conn[s].page
  OBVIOUS
<1>2. PICK f, rest : f = Head(page) /\ rest = Tail(page)
  OBVIOUS
<1>3. page # <<>> /\ page \in Seq(Frames)
  BY <1>0, <1>1 DEF SendReplayed
<1>4. /\ f \in Frames /\ f = page[1] /\ 0 < Len(page) /\ Len(page) \in Nat
      /\ rest \in Seq(Frames) /\ Len(rest) = Len(page) - 1
      /\ \A k \in 1 .. Len(page) - 1 : rest[k] = page[k + 1]
  BY <1>2, <1>3, Taking, Lengths
<1>5. FramesOK(page) /\ Len(page) <= PageSize
  BY <1>0, <1>1 DEF StreamOK
<1>6. FrameOK(f) /\ FramesOK(rest) /\ Len(rest) <= PageSize
  <2>1. 1 \in 1 .. Len(page) /\ \A k \in 1 .. Len(rest) : k + 1 \in 1 .. Len(page)
    BY <1>4
  <2> QED BY <1>0, <1>4, <1>5, <2>1 DEF FramesOK
<1>7. PICK h : h = [conn[s] EXCEPT !.page = rest, !.cursor = f.seq]
  OBVIOUS
<1>8. h \in ConnStates /\ h.page = rest
  BY <1>0, <1>4, <1>7 DEF ConnStates, Frames
<1>9. StreamOK(h, chan[s], TRUE)
  BY <1>0, <1>6, <1>8 DEF StreamOK
<1>10. handleStreamingAgentEvent(s, f) /\ HandlerContinues(s, h, chan[s])
       /\ UNCHANGED <<log, flushed, run, pub, inflight>>
  BY <1>1, <1>2, <1>7 DEF SendReplayed, serverVars
<1> QED BY <1>0, <1>4, <1>6, <1>8, <1>9, <1>10, HandledKeeps

LEMMA LiveKeeps ==
  ASSUME StreamInv, NEW s \in Streams, SendLive(s)
  PROVE  StreamInv'
<1>0. /\ conn[s] \in ConnStates /\ chan[s] \in Seq(Frames)
      /\ StreamOK(conn[s], chan[s], source[s].open) /\ Buffer \in Nat
  BY EachStream, StreamAssumption
<1>1. PICK queue : queue = chan[s]
  OBVIOUS
<1>2. PICK f, rest : f = Head(queue) /\ rest = Tail(queue)
  OBVIOUS
<1>3. queue # <<>> /\ queue \in Seq(Frames)
  BY <1>0, <1>1 DEF SendLive
<1>4. /\ f \in Frames /\ f = queue[1] /\ 0 < Len(queue) /\ Len(queue) \in Nat
      /\ rest \in Seq(Frames) /\ Len(rest) = Len(queue) - 1
      /\ \A k \in 1 .. Len(queue) - 1 : rest[k] = queue[k + 1]
  BY <1>2, <1>3, Taking, Lengths
<1>5. FramesOK(queue) /\ Len(queue) <= Buffer
  BY <1>0, <1>1 DEF StreamOK
<1>6. FrameOK(f) /\ FramesOK(rest) /\ Len(rest) <= Buffer
  <2>1. 1 \in 1 .. Len(queue) /\ \A k \in 1 .. Len(rest) : k + 1 \in 1 .. Len(queue)
    BY <1>4
  <2> QED BY <1>0, <1>4, <1>5, <2>1 DEF FramesOK
<1>7. StreamOK(conn[s], rest, source[s].open) /\ StreamOK(conn[s], rest, TRUE)
  BY <1>0, <1>6 DEF StreamOK
<1>8. UNCHANGED <<log, flushed, run, pub, inflight>>
  BY DEF SendLive, serverVars
<1>9. CASE /\ chan' = [chan EXCEPT ![s] = Tail(@)]
           /\ UNCHANGED <<conn, source, client, due>>
  <2>1. chan' = [chan EXCEPT ![s] = rest] /\ conn' = [conn EXCEPT ![s] = conn[s]]
    BY <1>1, <1>2, <1>9 DEF StreamInv, StreamShape
  <2>2. StreamsMove
    BY <1>0, <1>4, <1>7, <1>9, <2>1, OneStreamMoves
  <2>3. StoreMoves /\ due' \subseteq {"resync", "settle"}
    BY <1>8, <1>9 DEF StoreMoves, StreamInv, PanelShape
  <2> QED BY <1>8, <1>9, <2>2, <2>3, ClientKeeps, PanelUnconcerned
<1>10. CASE handleStreamingAgentEvent(s, f) /\ HandlerContinues(s, conn[s], rest)
  BY <1>0, <1>4, <1>6, <1>7, <1>8, <1>10, HandledKeeps
<1> QED BY <1>1, <1>2, <1>9, <1>10 DEF SendLive

-----------------------------------------------------------------------------
(* The transcript.                                                         *)

\* How often the history t holds the event e.
Count(t, e) == Cardinality({i \in 1 .. Len(t) : t[i] = e})

LEMMA CountFacts ==
  ASSUME NEW S, NEW t \in Seq(S), \A i, j \in 1 .. Len(t) : t[i] = t[j] => i = j
  PROVE  /\ \A e : Count(t, e) \in {0, 1}
         /\ \A i \in 1 .. Len(t) : Count(t, t[i]) = 1
         /\ \A e : (\A i \in 1 .. Len(t) : t[i] # e) => Count(t, e) = 0
<1>1. ASSUME NEW e, \A i \in 1 .. Len(t) : t[i] # e
      PROVE  Count(t, e) = 0
  <2>1. {i \in 1 .. Len(t) : t[i] = e} = {}
    BY <1>1
  <2> QED BY <2>1, FS_EmptySet DEF Count
<1>2. ASSUME NEW i \in 1 .. Len(t)
      PROVE  Count(t, t[i]) = 1
  <2>1. {j \in 1 .. Len(t) : t[j] = t[i]} = {i}
    OBVIOUS
  <2> QED BY <2>1, FS_Singleton DEF Count
<1> QED BY <1>1, <1>2

\* A fetched transcript replaces what the panel showed.
LEMMA HydratedPanel ==
  ASSUME StreamInv, UNCHANGED <<log, pub>>, NEW t \in Transcripts, IsPrefix(t.log),
         hydrateAgentChatState(t)
  PROVE  client' \in PanelStates /\ PanelOK'
<1>0. /\ client \in PanelStates /\ t.log \in Seq(Events) /\ Len(t.log) \in Nat
      /\ t.running \in BOOLEAN
      /\ Len(log) \in Nat /\ \A i \in 1 .. Len(log) : log[i] \in Events
      /\ LogOK
  BY Lengths DEF StreamInv, StoreShape, PanelShape, Transcripts
<1>1. /\ 0 < Len(t.log) /\ Len(t.log) <= Len(log)
      /\ \A i \in 1 .. Len(t.log) : t.log[i] = log[i]
  BY DEF IsPrefix
<1>2. \A i, j \in 1 .. Len(t.log) : t.log[i] = t.log[j] => i = j
  BY <1>0, <1>1 DEF LogOK
<1>a. \A e : YetToCome(e)' <=> YetToCome(e)
  BY SameHistory DEF StreamInv
<1> DEFINE shown == [e \in Events |-> Count(t.log, e)]
<1>3. /\ \A e : Count(t.log, e) \in {0, 1}
      /\ \A i \in 1 .. Len(t.log) : Count(t.log, t.log[i]) = 1
      /\ \A e : (\A i \in 1 .. Len(t.log) : t.log[i] # e) => Count(t.log, e) = 0
  BY <1>0, <1>2, CountFacts
<1>4. shown \in [Events -> Nat]
  BY <1>3
<1>5. client' = [client EXCEPT !.cursor = Len(t.log), !.running = t.running, !.skipped = {},
                               !.shown = shown]
  BY DEF hydrateAgentChatState, Count
<1>6. \A i \in 1 .. Len(log) : /\ shown[log[i]] \in {0, 1}
                               /\ i <= Len(t.log) => shown[log[i]] = 1
                               /\ Len(t.log) < i => shown[log[i]] = 0
  <2> TAKE i \in 1 .. Len(log)
  <2>1. shown[log[i]] = Count(t.log, log[i])
    BY <1>0
  <2>2. CASE i <= Len(t.log)
    <3>1. i \in 1 .. Len(t.log)
      BY <2>2
    <3>2. Count(t.log, log[i]) = 1
      BY <1>1, <1>3, <3>1
    <3> QED BY <1>0, <2>1, <2>2, <3>2
  <2>3. CASE Len(t.log) < i
    <3>1. \A j \in 1 .. Len(t.log) : t.log[j] # log[i]
      BY <1>0, <1>1, <2>3 DEF LogOK
    <3>2. Count(t.log, log[i]) = 0
      BY <1>3, <3>1
    <3> QED BY <1>0, <2>1, <2>3, <3>2
  <2> QED BY <1>0, <2>2, <2>3
<1>7. \A e \in Events : YetToCome(e) => shown[e] = 0
  <2> SUFFICES ASSUME NEW e \in Events, YetToCome(e) PROVE Count(t.log, e) = 0
    OBVIOUS
  <2>1. \A i \in 1 .. Len(t.log) : t.log[i] # e
    BY <1>0, <1>1 DEF LogOK
  <2> QED BY <1>3, <2>1
<1> HIDE DEF shown
<1>8. /\ client' \in PanelStates /\ client'.cursor = Len(t.log)
      /\ client'.shown = shown /\ client'.skipped = {}
  <2>1. PICK n : n = Len(t.log)
    OBVIOUS
  <2>2. n \in Nat /\ {} \in SUBSET Nat
    BY <1>0, <2>1
  <2> QED BY <1>0, <1>4, <1>5, <2>1, <2>2 DEF PanelStates
<1>9. MissesAreNoticed'
  BY <1>0, <1>6, <1>8 DEF MissesAreNoticed, Missed
<1>10. NothingShownTwice'
  BY <1>0, <1>6, <1>8 DEF NothingShownTwice
<1>11. \A i \in 1 .. Len(log') : client'.cursor < i => client'.shown[log'[i]] = 0
  BY <1>0, <1>6, <1>8
<1>12. \A e \in Events : YetToCome(e)' => client'.shown[e] = 0
  BY <1>7, <1>8, <1>a
<1>13. 0 < client'.cursor /\ ~(Len(log') < client'.cursor)
  BY <1>0, <1>1, <1>8
<1> QED BY <1>8, <1>9, <1>10, <1>11, <1>12, <1>13 DEF PanelOK

\* Closing event sources closes their connections.
LEMMA ConnectedMoves ==
  ASSUME StreamInv, NEW src \in [Streams -> SourceStates], Connected(src),
         \A s \in Streams : source[s].open = src[s].open \/ ~src[s].open \/ conn[s] = Off
  PROVE  StreamsMove
<1>0. /\ conn \in [Streams -> ConnStates] /\ chan \in [Streams -> Seq(Frames)]
      /\ Off \in ConnStates /\ <<>> \in Seq(Frames)
  BY OffFacts DEF StreamInv, StreamShape
<1>1. /\ source' = src
      /\ conn' \in [Streams -> ConnStates] /\ chan' \in [Streams -> Seq(Frames)]
      /\ \A s \in Streams : /\ src[s].open => conn'[s] = conn[s] /\ chan'[s] = chan[s]
                            /\ ~src[s].open => conn'[s] = Off /\ chan'[s] = <<>>
  BY <1>0 DEF Connected
<1>2. \A s \in Streams : StreamOK(conn'[s], chan'[s], source'[s].open)
  <2> TAKE s \in Streams
  <2>1. /\ StreamOK(conn[s], chan[s], source[s].open) /\ StreamOK(Off, <<>>, FALSE)
        /\ src[s].open \in BOOLEAN
    BY EachStream, OffFacts DEF SourceStates
  <2>2. CASE src[s].open
    BY <1>1, <2>1, <2>2 DEF StreamOK
  <2>3. CASE ~src[s].open
    BY <1>1, <2>1, <2>3 DEF StreamOK
  <2> QED BY <2>2, <2>3
<1> QED BY <1>1, <1>2 DEF StreamsMove

LEMMA RefreshKeeps ==
  ASSUME StreamInv, NEW d \in due, refreshAgentChatTranscript(d)
  PROVE  StreamInv'
<1>1. PICK t : t = [log |-> log, running |-> ~run.ended]
  OBVIOUS
<1>2. /\ inflight \in Seq(Transcripts) /\ log \in Seq(Events) /\ Len(log) \in Nat
      /\ Len(inflight) \in Nat /\ LogOK /\ run.ended \in BOOLEAN /\ MaxFetches \in Nat
      /\ flushed \in Nat
  BY Lengths, StreamAssumption DEF StreamInv, StoreShape, PanelShape
<1>3. t \in Transcripts /\ t.log = log
  BY <1>1, <1>2 DEF Transcripts
<1>4. /\ inflight' = Append(inflight, t) /\ Len(inflight) < MaxFetches
      /\ due' = due \ {d} /\ flushed' = Len(log)
      /\ UNCHANGED <<log, run, pub, chan, conn, source, client>>
  BY <1>1 DEF refreshAgentChatTranscript
<1>5. /\ inflight' \in Seq(Transcripts) /\ Len(inflight') = Len(inflight) + 1
      /\ \A k \in 1 .. Len(inflight) : inflight'[k] = inflight[k]
      /\ inflight'[Len(inflight) + 1] = t
  BY <1>2, <1>3, <1>4, Appending
<1>6. AnswersOK'
  <2>1. IsPrefix(log)
    BY <1>2 DEF IsPrefix, LogOK
  <2>2. \A k \in 1 .. Len(inflight') : k \in 1 .. Len(inflight) \/ k = Len(inflight) + 1
    BY <1>2, <1>5
  <2>3. \A k \in 1 .. Len(inflight') : IsPrefix(inflight'[k].log)
    BY <1>3, <1>5, <2>1, <2>2 DEF StreamInv, AnswersOK
  <2> QED BY <1>4, <2>3 DEF AnswersOK, IsPrefix
<1>7. PanelOK'
  BY <1>4, PanelStays, SameHistory DEF StreamInv
<1>8. PanelShape' /\ Len(inflight') <= MaxFetches
  BY <1>2, <1>4, <1>5 DEF StreamInv, PanelShape
<1>9. StoreMoves /\ StreamsMove
  BY <1>4, StreamsUnconcerned DEF StoreMoves
<1> QED BY <1>6, <1>7, <1>8, <1>9, ClientKeeps

LEMMA ArrivalKeeps ==
  ASSUME StreamInv, TranscriptArrives
  PROVE  StreamInv'
<1>0. /\ inflight \in Seq(Transcripts) /\ Len(inflight) \in Nat /\ AnswersOK
      /\ Len(inflight) <= MaxFetches /\ MaxFetches \in Nat
      /\ source \in [Streams -> SourceStates] /\ log \in Seq(Events)
  BY Lengths, StreamAssumption
     DEF StreamInv, StoreShape, StreamShape, PanelShape, Limits
<1>1. PICK i \in 1 .. Len(inflight) :
        /\ inflight' = Without(inflight, i)
        /\ IF shouldPreserveLocalTranscript(inflight[i])
           THEN UNCHANGED <<client, source, conn, chan>>
           ELSE /\ hydrateAgentChatState(inflight[i])
                /\ Connected([source EXCEPT
                     !["run"].open = @ /\ inflight[i].running,
                     !["resumed"] = IF inflight[i].running /\ ~@.open
                                    THEN [open |-> TRUE, lastId |-> Len(inflight[i].log)] ELSE @])
  BY DEF TranscriptArrives, Without
<1>2. PICK t : t = inflight[i]
  OBVIOUS
<1>3. /\ t \in Transcripts /\ IsPrefix(t.log) /\ t.log \in Seq(Events) /\ Len(t.log) \in Nat
      /\ t.running \in BOOLEAN
  <2>1. t \in Transcripts /\ IsPrefix(t.log)
    BY <1>0, <1>2, Lengths DEF AnswersOK
  <2> QED BY <2>1, Lengths DEF Transcripts
<1>4. UNCHANGED <<log, flushed, run, pub, due>>
  BY DEF TranscriptArrives, serverVars
<1>5. AnswersOK' /\ inflight' \in Seq(Transcripts) /\ Len(inflight') <= MaxFetches
  <2>1. PICK new : new = Without(inflight, i)
    OBVIOUS
  <2>2. /\ new \in Seq(Transcripts) /\ Len(new) = Len(inflight) - 1
        /\ \A k \in 1 .. Len(new) : \E j \in 1 .. Len(inflight) : new[k] = inflight[j]
    <3>1. OneLess(Transcripts, Without(inflight, i), inflight)
      BY <1>0, Removing
    <3> QED BY <2>1, <3>1 DEF OneLess
  <2>3. \A k \in 1 .. Len(new) : IsPrefix(new[k].log)
    BY <1>0, <2>2 DEF AnswersOK
  <2> QED BY <1>0, <1>1, <1>4, <2>1, <2>2, <2>3 DEF AnswersOK, IsPrefix
<1>6. client' \in PanelStates /\ PanelOK'
  <2>1. CASE UNCHANGED client
    BY <1>4, <2>1, PanelStays, SameHistory DEF StreamInv, PanelShape
  <2>2. CASE hydrateAgentChatState(t)
    BY <1>3, <1>4, <2>2, HydratedPanel
  <2> QED BY <1>1, <1>2, <2>1, <2>2
<1>7. StreamsMove
  <2>1. CASE UNCHANGED <<client, source, conn, chan>>
    BY <2>1, StreamsUnconcerned
  <2>2. CASE Connected([source EXCEPT
                 !["run"].open = @ /\ t.running,
                 !["resumed"] = IF t.running /\ ~@.open
                                THEN [open |-> TRUE, lastId |-> Len(t.log)] ELSE @])
    <3> DEFINE fresh == [open |-> TRUE, lastId |-> Len(t.log)]
               one == [source["run"] EXCEPT !.open = source["run"].open /\ t.running]
               two == IF t.running /\ ~source["resumed"].open THEN fresh ELSE source["resumed"]
               src == [s \in Streams |-> IF s = "run" THEN one ELSE two]
    <3>1. source["run"] \in SourceStates /\ source["resumed"] \in SourceStates
      BY <1>0 DEF Streams
    <3>2. fresh \in SourceStates /\ one \in SourceStates
          /\ (one.open => source["run"].open)
      BY <1>3, <3>1 DEF SourceStates
    <3>3. two \in SourceStates
      BY <3>1, <3>2
    <3>4. src \in [Streams -> SourceStates]
      BY <3>2, <3>3
    <3>5. Connected(src)
      BY <1>0, <2>2 DEF Streams
    <3>6. source["resumed"].open = two.open \/ conn["resumed"] = Off
      BY EachStream DEF Streams, StreamOK
    <3>7. \A s \in Streams : source[s].open = src[s].open \/ ~src[s].open \/ conn[s] = Off
      BY <3>1, <3>2, <3>3, <3>6 DEF Streams, SourceStates
    <3> HIDE DEF src
    <3> QED BY <3>4, <3>5, <3>7, ConnectedMoves
  <2> QED BY <1>1, <1>2, <2>1, <2>2
<1>8. StoreMoves
  BY <1>4 DEF StoreMoves
<1> QED BY <1>4, <1>5, <1>6, <1>7, <1>8, ClientKeeps DEF StreamInv, PanelShape

\* The status poll settles the panel without showing anything.
LEMMA SyncKeeps ==
  ASSUME StreamInv, syncAgentSessionStatus
  PROVE  StreamInv'
<1>0. client \in PanelStates /\ source \in [Streams -> SourceStates]
      /\ due \subseteq {"resync", "settle"}
  BY DEF StreamInv, StreamShape, PanelShape
<1>1. /\ client' = [client EXCEPT !.running = FALSE] /\ due' = due \cup {"settle"}
      /\ UNCHANGED <<log, flushed, run, pub, inflight>>
      /\ Connected([source EXCEPT !["run"].open = FALSE])
  BY DEF syncAgentSessionStatus, serverVars
<1>2. StreamsMove
  <2>1. PICK src : src = [source EXCEPT !["run"].open = FALSE]
    OBVIOUS
  <2>2. /\ src \in [Streams -> SourceStates] /\ ~src["run"].open
        /\ src["resumed"] = source["resumed"]
    BY <1>0, <2>1 DEF SourceStates, Streams
  <2>3. \A s \in Streams : source[s].open = src[s].open \/ ~src[s].open \/ conn[s] = Off
    BY <2>2 DEF Streams
  <2> QED BY <1>1, <2>1, <2>2, <2>3, ConnectedMoves
<1>3. /\ client' \in PanelStates /\ client'.cursor = client.cursor
      /\ client'.shown = client.shown /\ client'.skipped = client.skipped
  BY <1>0, <1>1 DEF PanelStates
<1>4. AnswersOK' /\ PanelShape' /\ Len(inflight') <= MaxFetches
  BY <1>0, <1>1, <1>3, AnswersStay, SameHistory DEF StreamInv, PanelShape, Limits
<1>5. PanelOK'
  <2>1. \A e : YetToCome(e)' <=> YetToCome(e)
    BY <1>1, SameHistory DEF StreamInv
  <2> QED BY <1>1, <1>3, <2>1
          DEF StreamInv, PanelOK, NothingToCome, MissesAreNoticed, Missed, NothingShownTwice
<1>6. StoreMoves
  BY <1>1 DEF StoreMoves
<1> QED BY <1>2, <1>4, <1>5, <1>6, ClientKeeps

-----------------------------------------------------------------------------
(* The crash, the initial states, and the invariant.                       *)

\* After a crash nothing is appended any more.
LEMMA NothingToComeAfter ==
  ASSUME pub' = [p \in Publishers |-> Idle(Len(Emits[p]) + 1)]
  PROVE  NothingToCome' /\ pub' \in [Publishers -> PubStates]
         /\ \A p \in Publishers : pub'[p].stage = "idle" /\ pub'[p].full = None
<1>1. \A p \in Publishers : /\ pub'[p] \in PubStates /\ pub'[p].stage = "idle"
                            /\ pub'[p].next = Len(Emits[p]) + 1 /\ pub'[p].full = None
  <2> TAKE p \in Publishers
  <2>1. PICK n : n = Len(Emits[p]) + 1
    OBVIOUS
  <2>2. n \in Nat \ {0} /\ 0 \in Nat
    BY <2>1, ScriptFacts
  <2>3. pub'[p] = Idle(n)
    BY <2>1
  <2> QED BY <2>1, <2>2, <2>3 DEF PubStates, Idle
<1>2. ASSUME NEW e \in Events, YetToCome(e)' PROVE FALSE
  <2>0. PICK r \in Publishers : \E i \in 1 .. Len(Emits[r]) : e = <<r, i>>
    BY <1>2, EventFacts DEF YetToCome
  <2>1. PICK i \in 1 .. Len(Emits[r]) : e = <<r, i>>
    BY <2>0
  <2>2. e[1] = r /\ e[2] = i /\ i \in Nat /\ i <= Len(Emits[r]) /\ Len(Emits[r]) \in Nat
    BY <2>1, ScriptFacts
  <2>3. Len(Emits[r]) + 1 <= i
    BY <1>1, <1>2, <2>2 DEF YetToCome
  <2> QED BY <2>2, <2>3
<1>3. pub' = [p \in Publishers |-> pub'[p]]
  OBVIOUS
<1> QED BY <1>1, <1>2, <1>3 DEF NothingToCome

LEMMA CrashKeeps ==
  ASSUME StreamInv, Crash
  PROVE  StreamInv'
<1>0. /\ log \in Seq(Events) /\ Len(log) \in Nat /\ flushed \in Nat /\ LogOK /\ PanelOK
      /\ run \in [ended : BOOLEAN, upTo : Nat] /\ PanelShape /\ MaxFetches \in Nat
      /\ client.cursor \in Nat
  BY Lengths, StreamAssumption
     DEF StreamInv, StoreShape, StreamShape, PanelShape, PanelStates
<1>1. PICK k \in flushed .. Len(log) :
        /\ log' = SubSeq(log, 1, k)
        /\ flushed' = k
        /\ run' = [ended |-> TRUE, upTo |-> IF run.ended THEN AtMost(run.upTo, k) ELSE k]
  BY DEF Crash
<1>2. /\ pub' = [p \in Publishers |-> Idle(Len(Emits[p]) + 1)]
      /\ conn' = [s \in Streams |-> Off] /\ chan' = [s \in Streams |-> <<>>]
      /\ inflight' = <<>> /\ UNCHANGED <<source, client, due>>
  BY DEF Crash
<1>3. k \in Nat /\ 0 < k /\ k <= Len(log) /\ k \in 0 .. Len(log)
  BY <1>0 DEF LogOK
<1>4. /\ log' \in Seq(Events) /\ Len(log') = k
      /\ \A i \in 1 .. k : i \in 1 .. Len(log) /\ log'[i] = log[i] /\ log'[i] \in Events
  <2>1. log' \in Seq(Events) /\ Len(log') = k /\ \A i \in 1 .. k : log'[i] = log[i]
    BY <1>0, <1>1, <1>3, Cutting
  <2>2. \A i \in 1 .. k : i \in 1 .. Len(log)
    BY <1>0, <1>3
  <2> QED BY <1>0, <2>1, <2>2, Lengths
<1>5. /\ NothingToCome' /\ pub' \in [Publishers -> PubStates]
      /\ \A p \in Publishers : pub'[p].stage = "idle" /\ pub'[p].full = None
  BY <1>2, NothingToComeAfter
<1>6. run' \in [ended : BOOLEAN, upTo : Nat] /\ run'.upTo <= k
  <2>1. PICK n : n = IF run.ended THEN AtMost(run.upTo, k) ELSE k
    OBVIOUS
  <2>2. n \in Nat /\ n <= k
    BY <1>0, <1>3, <2>1 DEF AtMost
  <2> QED BY <1>1, <2>1, <2>2
<1>7. StoreShape'
  BY <1>1, <1>3, <1>4, <1>5, <1>6 DEF StoreShape
<1>8. LogOK'
  <2>1. \A i, j \in 1 .. Len(log') : log'[i] = log'[j] => i = j
    BY <1>0, <1>4 DEF LogOK
  <2>2. \A i \in 1 .. Len(log') : \A e \in Events : log'[i] = e => ~YetToCome(e)'
    BY <1>5 DEF NothingToCome
  <2>3. 0 < flushed' /\ flushed' <= Len(log') /\ run'.upTo <= Len(log')
    BY <1>1, <1>3, <1>4, <1>6
  <2> QED BY <1>4, <2>1, <2>2, <2>3 DEF LogOK
<1>9. PubsOK' /\ FullIsTodo'
  BY <1>5 DEF PubsOK, FullIsTodo
<1>10. StreamShape' /\ StreamLimits' /\ QueuesOK'
  <2>1. \A s \in Streams : conn'[s] = Off /\ chan'[s] = <<>>
    BY <1>2
  <2>2. Off \in ConnStates /\ <<>> \in Seq(Frames) /\ Off.page = <<>> /\ Len(<<>>) = 0
        /\ Buffer \in Nat /\ PageSize \in Nat
    BY OffFacts, StreamAssumption DEF Off
  <2>3. StreamShape'
    BY <1>2, <2>2 DEF StreamInv, StreamShape
  <2>4. StreamLimits'
    BY <2>1, <2>2 DEF StreamLimits
  <2>5. QueuesOK'
    BY <2>1, <2>2 DEF QueuesOK, FramesOK
  <2> QED BY <2>3, <2>4, <2>5
<1>11. PanelShape' /\ AnswersOK' /\ Len(inflight') <= MaxFetches
  BY <1>0, <1>2 DEF PanelShape, AnswersOK
<1>12. PanelOK'
  <2>1. \A i \in 1 .. Len(log') : client'.cursor < i => client'.shown[log'[i]] = 0
    BY <1>0, <1>2, <1>4 DEF PanelOK
  <2>2. MissesAreNoticed'
    BY <1>0, <1>2, <1>4 DEF PanelOK, MissesAreNoticed, Missed
  <2>3. NothingShownTwice'
    BY <1>0, <1>2, <1>4 DEF PanelOK, NothingShownTwice
  <2>4. \A e \in Events : ~YetToCome(e)'
    BY <1>5 DEF NothingToCome
  <2> QED BY <1>0, <1>2, <1>5, <2>1, <2>2, <2>3, <2>4 DEF PanelOK
<1> QED BY <1>7, <1>8, <1>9, <1>10, <1>11, <1>12 DEF StreamInv, Limits

\* At first the panel shows the event of the earlier run.
LEMMA InitialStream ==
  ASSUME StreamInit
  PROVE  StreamInv
<1>1. /\ log = <<Old>> /\ flushed = 1 /\ run = [ended |-> FALSE, upTo |-> 0]
      /\ pub = [p \in Publishers |-> Idle(1)]
      /\ chan = [s \in Streams |-> <<>>] /\ conn = [s \in Streams |-> Off]
      /\ source = [s \in Streams |-> [open |-> s = "run", lastId |-> IF s = "run" THEN 1 ELSE 0]]
      /\ client = [cursor |-> 1, running |-> TRUE, replaying |-> TRUE, skipped |-> {},
                   shown |-> [e \in Events |-> IF e = Old THEN 1 ELSE 0]]
      /\ due = {} /\ inflight = <<>>
  BY DEF StreamInit
<1>2. /\ log \in Seq(Events) /\ Len(log) = 1 /\ log[1] = Old /\ Old \in Events
      /\ \A i \in 1 .. Len(log) : i = 1
  BY <1>1 DEF Events
<1>3. StoreShape
  <2>1. \A p \in Publishers : Idle(1) \in PubStates
    BY DEF Idle, PubStates
  <2> QED BY <1>1, <1>2, <2>1 DEF StoreShape
<1>4. StreamShape
  <2>1. \A s \in Streams : [open |-> s = "run", lastId |-> IF s = "run" THEN 1 ELSE 0] \in SourceStates
    BY DEF SourceStates, Streams
  <2>2. Off \in ConnStates /\ <<>> \in Seq(Frames)
    BY OffFacts
  <2>3. chan \in [Streams -> Seq(Frames)] /\ conn \in [Streams -> ConnStates]
    BY <1>1, <2>2
  <2>4. source \in [Streams -> SourceStates]
    BY <1>1, <2>1
  <2> QED BY <2>3, <2>4 DEF StreamShape
<1>5. PanelShape
  <2>1. [e \in Events |-> IF e = Old THEN 1 ELSE 0] \in [Events -> Nat]
    OBVIOUS
  <2>2. client \in PanelStates
    BY <1>1, <2>1 DEF PanelStates
  <2> QED BY <1>1, <2>2 DEF PanelShape
<1>6. Limits
  <2>1. FullIsTodo
    BY <1>1 DEF FullIsTodo, Idle
  <2>2. StreamLimits
    <3>1. Off.page = <<>> /\ Len(<<>>) = 0 /\ Buffer \in Nat /\ PageSize \in Nat
      BY StreamAssumption DEF Off
    <3>2. \A s \in Streams : conn[s] = Off /\ chan[s] = <<>>
      BY <1>1
    <3> QED BY <3>1, <3>2 DEF StreamLimits
  <2>3. Len(inflight) <= MaxFetches
    BY <1>1, StreamAssumption
  <2> QED BY <2>1, <2>2, <2>3 DEF Limits
<1>7. LogOK
  <2>1. ~YetToCome(Old)
    BY DEF YetToCome
  <2> QED BY <1>1, <1>2, <2>1 DEF LogOK
<1>8. PubsOK
  BY <1>1 DEF PubsOK, Idle
<1>9. QueuesOK
  BY <1>1 DEF QueuesOK, FramesOK, Off
<1>10. PanelOK
  <2>1. client.cursor = 1 /\ client.shown[Old] = 1
        /\ \A e \in Events : e # Old => client.shown[e] = 0
    BY <1>1, <1>2
  <2>2. \A e \in Events : YetToCome(e) => client.shown[e] = 0
    BY <2>1 DEF YetToCome
  <2>3. MissesAreNoticed /\ NothingShownTwice
    BY <1>2, <2>1 DEF MissesAreNoticed, Missed, NothingShownTwice
  <2> QED BY <1>2, <2>1, <2>2, <2>3 DEF PanelOK
<1>11. AnswersOK
  BY <1>1 DEF AnswersOK
<1> QED BY <1>3, <1>4, <1>5, <1>6, <1>7, <1>8, <1>9, <1>10, <1>11 DEF StreamInv

LEMMA StutterKeeps ==
  ASSUME StreamInv, UNCHANGED streamVars
  PROVE  StreamInv'
<1>1. /\ StoreMoves /\ UNCHANGED <<chan, conn, source, client, due, inflight>>
  BY DEF streamVars, StoreMoves
<1>2. due' \subseteq {"resync", "settle"}
  BY <1>1 DEF StreamInv, PanelShape
<1> QED BY <1>1, <1>2, ClientKeeps, PanelUnconcerned, StreamsUnconcerned

LEMMA StreamStepKeeps ==
  ASSUME StreamInv, [StreamNext]_streamVars
  PROVE  StreamInv'
<1>1. ASSUME NEW p \in Publishers, PublisherStep(p) PROVE StreamInv'
  BY <1>1, AppendKeeps, StoreFailsKeeps, FanOutKeeps, PublishKeeps, GuaranteedKeeps
     DEF PublisherStep
<1>2. ASSUME NEW s \in Streams, StreamStep(s) \/ Disconnect(s) PROVE StreamInv'
  BY <1>2, ConnectKeeps, LoadKeeps, ReplayedKeeps, CompletedKeeps, LiveKeeps DEF StreamStep
<1>3. CASE PanelStep
  BY <1>3, RefreshKeeps, ArrivalKeeps, SyncKeeps DEF PanelStep
<1>4. CASE RunEnds
  BY <1>4, RunEndsKeeps
<1>5. CASE Crash
  BY <1>5, CrashKeeps
<1>6. CASE UNCHANGED streamVars
  BY <1>6, StutterKeeps
<1> QED BY <1>1, <1>2, <1>3, <1>4, <1>5, <1>6 DEF StreamNext

\* An event is stored once; a frame, in a buffer, in a page or at its publisher,
\* names the place of its event; the panel shows nothing behind its cursor.
THEOREM StreamInvariant == StreamSpec => []StreamInv
<1>1. StreamInit => StreamInv
  BY InitialStream
<1>2. StreamInv /\ [StreamNext]_streamVars => StreamInv'
  BY StreamStepKeeps
<1> QED BY <1>1, <1>2, PTL DEF StreamSpec

\* The type invariant; buffers, pages and requests keep to their limits.
THEOREM StreamTypes == StreamSpec => []StreamTypeOK
<1>1. StreamInv => StreamTypeOK
  <2> SUFFICES ASSUME StreamInv PROVE StreamTypeOK
    OBVIOUS
  <2>1. log \in Seq(Events) /\ flushed \in 0 .. Len(log)
    BY Lengths DEF StreamInv, StoreShape, LogOK
  <2>2. run \in [ended : BOOLEAN, upTo : 0 .. Len(log)]
    BY Lengths DEF StreamInv, StoreShape, LogOK
  <2>3. \A p \in Publishers :
          /\ pub[p].stage \in {"idle", "stored", "sending"}
          /\ pub[p].frame \in Frames \cup {None}
          /\ pub[p].full # None => pub[p].full \in pub[p].todo
    BY DEF StreamInv, StoreShape, PubStates, Limits, FullIsTodo
  <2>4. \A s \in Streams :
          /\ chan[s] \in Seq(Frames) /\ Len(chan[s]) <= Buffer
          /\ conn[s].pc \in {"off", "replay", "live"}
          /\ conn[s].page \in Seq(Frames) /\ Len(conn[s].page) <= PageSize
          /\ ~source[s].open => conn[s] = Off
    BY DEF StreamInv, StreamShape, ConnStates, Limits, StreamLimits
  <2>5. client.cursor \in Nat /\ client.shown \in [Events -> Nat]
        /\ due \subseteq {"resync", "settle"} /\ Len(inflight) <= MaxFetches
    BY DEF StreamInv, PanelShape, PanelStates, Limits
  <2> QED BY <2>1, <2>2, <2>3, <2>4, <2>5 DEF StreamTypeOK
<1> QED BY <1>1, StreamInvariant, PTL

\* Whatever full buffers drop, reconnections repeat and crashes cut off, an event
\* that the panel's cursor has passed unseen is known to it as a gap.
THEOREM MissesNoticed == StreamSpec => []MissesAreNoticed
<1>1. StreamInv => MissesAreNoticed
  BY DEF StreamInv, PanelOK
<1> QED BY <1>1, StreamInvariant, PTL

\* Replay, live delivery, both connections and transcripts overlap, and no stored
\* event is shown twice.
THEOREM ShownOnce == StreamSpec => []NothingShownTwice
<1>1. StreamInv => NothingShownTwice
  BY DEF StreamInv, PanelOK
<1> QED BY <1>1, StreamInvariant, PTL

=============================================================================
