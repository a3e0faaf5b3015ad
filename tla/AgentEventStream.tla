--------------------------- MODULE AgentEventStream ---------------------------
(***************************************************************************)
(* How the events of a run get into the chat panel.                        *)
(*                                                                         *)
(* Server: the session's history file with its buffered writer             *)
(* (service/chat/store.go), the broker that hands events to subscribers    *)
(* with bounded buffers (service/events/broker.go), and the SSE handler    *)
(* that replays the file and goes on live (http/handlers/agent_events.go). *)
(*                                                                         *)
(* Client: the event source that reconnects, the cursor that tells         *)
(* duplicates and gaps, the transcript fetched anew after a gap and after  *)
(* the run (apps/workspace/src/domains/agent).                             *)
(*                                                                         *)
(* One session, one run, one panel.  The sequence number of a stored event *)
(* is its place in the file.  A frame on its way over the network is one   *)
(* the handler has not yet sent: a lost connection loses both.             *)
(***************************************************************************)
EXTENDS Naturals, Sequences, FiniteSets

CONSTANTS
  Publishers,      \* goroutines that publish events of the session
  Emits,           \* the kinds of the events each of them publishes in turn
  Runner,          \* the publisher that ends with the terminal event
  Old,             \* an event of an earlier run, stored and shown
  Unstorable,      \* bound: kinds whose storing may fail
  Buffer,          \* AgentEventBufferSize
  PageSize,        \* agentEventReplayPageSize
  MaxFetches,      \* bound: transcript requests on their way
  MaxDisconnects,  \* bound: lost connections
  MaxCrashes,      \* bound: crashes of the server
  None

Kinds  == {"delta", "editDelta", "activity", "terminal"}
Events == {Old} \cup UNION { {<<p, i>> : i \in 1 .. Len(Emits[p])} : p \in Publishers }
Kind(e) == IF e = Old THEN "terminal" ELSE Emits[e[1]][e[2]]

\* The panel's connections: the one of the run it started, and the one it
\* resumes when a fetched transcript says that a run is going on.
Streams == {"run", "resumed"}

ASSUME StreamAssumption ==
  /\ Emits \in [Publishers -> Seq(Kinds)] /\ Runner \in Publishers
  /\ \A p \in Publishers : \A i \in 1 .. Len(Emits[p]) :
       /\ Emits[p][i] = "terminal" <=> p = Runner /\ i = Len(Emits[p])
       /\ Old # <<p, i>>
  /\ Len(Emits[Runner]) > 0
  /\ Unstorable \subseteq Kinds
  /\ Buffer \in Nat \ {0} /\ PageSize \in Nat \ {0}
  /\ MaxFetches \in Nat /\ MaxDisconnects \in Nat /\ MaxCrashes \in Nat

VARIABLES
  log,       \* the history: what is in the file, then what is in the writer
  flushed,   \* how much of it is in the file
  run,       \* at the server: has the run ended, and what was stored by then
  pub,       \* each publisher's position
  chan,      \* the buffer of each subscriber
  conn,      \* the SSE handler of each connection
  source,    \* the event source of each connection, at the client
  client,    \* the panel
  due,       \* transcript requests it is to send
  inflight,  \* answers on their way
  faults     \* how many disconnects and crashes there were, and whether a crash
             \* cut off the answer to a transcript request

streamVars == <<log, flushed, run, pub, chan, conn, source, client, due, inflight, faults>>

-----------------------------------------------------------------------------
Frames == [event : Events, seq : Nat]   \* seq 0: not stored

isBufferedAgentEvent(kind)    == kind \in {"delta", "editDelta"}
IsGuaranteedAgentEvent(kind)  == kind \in {"editDelta", "terminal"}

Idle(next) == [next |-> next, stage |-> "idle", frame |-> None, todo |-> {},
               full |-> None, tries |-> 0]
Off == [pc |-> "off", page |-> <<>>, short |-> FALSE, cursor |-> 0]

StreamInit ==
  /\ log      = <<Old>>
  /\ flushed  = 1
  /\ run      = [ended |-> FALSE, upTo |-> 0]
  /\ pub      = [p \in Publishers |-> Idle(1)]
  /\ chan     = [s \in Streams |-> <<>>]
  /\ conn     = [s \in Streams |-> Off]
  /\ source   = [s \in Streams |-> [open |-> s = "run", lastId |-> IF s = "run" THEN 1 ELSE 0]]
  /\ client   = [cursor |-> 1, running |-> TRUE, replaying |-> TRUE, skipped |-> {},
                 shown |-> [e \in Events |-> IF e = Old THEN 1 ELSE 0]]
  /\ due      = {}
  /\ inflight = <<>>
  /\ faults   = [disconnects |-> 0, crashes |-> 0, unanswered |-> FALSE]

clientVars == <<source, client, due, inflight>>

-----------------------------------------------------------------------------
(* Publishing.                                                             *)

\* The publisher has an event to publish; the terminal one, once the session
\* service has recorded the end of the run.
Emitting(p, e) ==
  /\ pub[p].stage = "idle" /\ pub[p].next <= Len(Emits[p])
  /\ e = <<p, pub[p].next>>
  /\ Kind(e) = "terminal" => run.ended

\* A delta stays in the writer, unless the last flush is long enough ago.
appendAgentEvent(p) ==
  \E e \in Events :
    /\ Emitting(p, e)
    /\ log' = Append(log, e)
    /\ flushed' \in IF isBufferedAgentEvent(Kind(e)) THEN {flushed, Len(log')} ELSE {Len(log')}
    /\ pub' = [pub EXCEPT ![p].stage = "stored", ![p].frame = [event |-> e, seq |-> Len(log')]]
    /\ UNCHANGED <<run, chan, conn, faults, clientVars>>

\* An event that could not be stored is delivered without a sequence number.
StoreFails(p) ==
  \E e \in Events :
    /\ Emitting(p, e) /\ Kind(e) \in Unstorable
    /\ pub' = [pub EXCEPT ![p].stage = "stored", ![p].frame = [event |-> e, seq |-> 0]]
    /\ UNCHANGED <<log, flushed, run, chan, conn, faults, clientVars>>

Subscribed == { s \in Streams : conn[s].pc # "off" }

\* The publisher after serving all but the subscribers in todo.
Served(p, todo) ==
  pub' = [pub EXCEPT ![p] = IF todo = {} THEN Idle(@.next + 1)
                            ELSE [@ EXCEPT !.stage = "sending", !.todo = todo,
                                           !.full = None, !.tries = 0]]

\* The read lock is taken; who subscribes from now on is not served.
BeginFanOut(p) ==
  /\ pub[p].stage = "stored"
  /\ Served(p, Subscribed)
  /\ UNCHANGED <<log, flushed, run, chan, conn, faults, clientVars>>

HasRoom(s) == Len(chan[s]) < Buffer

\* A subscriber that left takes nothing, an ordinary event is dropped when the
\* buffer is full, a guaranteed one makes the oldest event leave.
Publish(p) ==
  \E s \in pub[p].todo :
    /\ pub[p].stage = "sending" /\ pub[p].full = None
    /\ IF conn[s].pc # "off" /\ HasRoom(s)
         THEN chan' = [chan EXCEPT ![s] = Append(@, pub[p].frame)]
         ELSE UNCHANGED chan
    /\ IF conn[s].pc # "off" /\ ~HasRoom(s) /\ IsGuaranteedAgentEvent(Kind(pub[p].frame.event))
         THEN pub' = [pub EXCEPT ![p].full = s]
         ELSE Served(p, pub[p].todo \ {s})
    /\ UNCHANGED <<log, flushed, run, conn, faults, clientVars>>

\* The second half of the loop: the oldest event leaves, guaranteed or not, and
\* the next attempt begins.  If the reader has emptied the buffer meanwhile, or
\* after Buffer + 1 attempts, the event is not delivered.
publishGuaranteedAgentEvent(p) ==
  LET s       == pub[p].full
      givesUp == chan[s] = <<>> \/ pub[p].tries = Buffer IN
    /\ s # None
    /\ chan' = [chan EXCEPT ![s] = IF @ = <<>> THEN @ ELSE Tail(@)]
    /\ IF givesUp THEN Served(p, pub[p].todo \ {s})
                  ELSE pub' = [pub EXCEPT ![p].full = None, ![p].tries = @ + 1]
    /\ UNCHANGED <<log, flushed, run, conn, faults, clientVars>>

\* FinishRun of the session service, before the terminal event is published.
RunEnds ==
  /\ ~run.ended
  /\ pub[Runner].stage = "idle" /\ pub[Runner].next = Len(Emits[Runner])
  /\ run' = [ended |-> TRUE, upTo |-> Len(log)]
  /\ UNCHANGED <<log, flushed, pub, chan, conn, faults, clientVars>>

-----------------------------------------------------------------------------
(* The panel.                                                              *)

\* What a close of event sources means for their connections.
Connected(src) ==
  /\ source' = src
  /\ conn' = [s \in Streams |-> IF src[s].open THEN conn[s] ELSE Off]
  /\ chan' = [s \in Streams |-> IF src[s].open THEN chan[s] ELSE <<>>]

\* Mutants: nothing is a duplicate; the gap of a single event is overlooked.
Duplicate_Never(seq) == FALSE
IsGap_Wide(seq)      == client.cursor # 0 /\ seq > client.cursor + 2

Duplicate(seq) == 0 < seq /\ client.cursor # 0 /\ seq <= client.cursor
IsGap(seq)     == client.cursor # 0 /\ seq > client.cursor + 1

\* The panel after a frame that is no duplicate.
applyEventSequence(f) ==
  [client EXCEPT !.cursor  = IF f.seq > 0 THEN f.seq ELSE @,
                 !.shown[f.event] = @ + 1,
                 !.skipped = IF IsGap(f.seq) THEN @ \cup (client.cursor + 1 .. f.seq - 1) ELSE @]

\* A terminal event of the replay that a run's own connection begins with is
\* left to the status poll.
EndsRun(s, f) ==
  Kind(f.event) = "terminal" /\ f.event # Old /\ ~(s = "run" /\ client.replaying)

\* A frame arrives.  The run's connection is closed with the run, the resumed
\* one at a terminal event when no run goes on.
handleStreamingAgentEvent(s, f) ==
  LET seen   == [source EXCEPT ![s].lastId = IF f.seq > 0 THEN f.seq ELSE @]
      ends   == ~Duplicate(f.seq) /\ EndsRun(s, f)
      leaves == s = "resumed" /\ Kind(f.event) = "terminal" /\ (ends \/ ~client.running)
  IN
  /\ client' = IF Duplicate(f.seq) THEN client
               ELSE [applyEventSequence(f) EXCEPT !.running = @ /\ ~ends]
  /\ due' = due \cup (IF ~Duplicate(f.seq) /\ IsGap(f.seq) THEN {"resync"} ELSE {})
                \cup (IF ends THEN {"settle"} ELSE {})
  /\ source' = [t \in Streams |->
       IF (t = "run" /\ ends) \/ (t = s /\ leaves) THEN [seen[t] EXCEPT !.open = FALSE] ELSE seen[t]]

\* The handler's state h of stream s, unless that is closed with this step.
HandlerContinues(s, h, queue) ==
  /\ conn' = [t \in Streams |-> IF ~source'[t].open THEN Off ELSE IF t = s THEN h ELSE conn[t]]
  /\ chan' = [t \in Streams |-> IF ~source'[t].open THEN <<>> ELSE IF t = s THEN queue ELSE chan[t]]

serverVars == <<log, flushed, run, pub, faults>>

\* The handler subscribes before it replays.
Connect(s) ==
  /\ source[s].open /\ conn[s].pc = "off"
  /\ conn' = [conn EXCEPT ![s] = [Off EXCEPT !.pc = "replay", !.cursor = source[s].lastId]]
  /\ UNCHANGED <<serverVars, chan, clientVars>>

AtMost(a, b) == IF a <= b THEN a ELSE b

\* The writer is flushed before its file is read.
LoadAgentEvents(s) ==
  LET from == conn[s].cursor
      to   == AtMost(Len(log), from + PageSize)
      page == [i \in 1 .. (IF from < to THEN to - from ELSE 0) |->
                 [event |-> log[from + i], seq |-> from + i]] IN
  /\ conn[s].pc = "replay" /\ conn[s].page = <<>> /\ ~conn[s].short
  /\ conn' = [conn EXCEPT ![s].page = page, ![s].short = Len(page) < PageSize]
  /\ flushed' = Len(log)
  /\ UNCHANGED <<log, run, pub, chan, faults, clientVars>>

SendReplayed(s) ==
  /\ conn[s].page # <<>>
  /\ LET f == Head(conn[s].page) IN
       /\ handleStreamingAgentEvent(s, f)
       /\ HandlerContinues(s, [conn[s] EXCEPT !.page = Tail(@), !.cursor = f.seq], chan[s])
  /\ UNCHANGED <<serverVars, inflight>>

\* From here on, the cursor is the watermark.
ReplayCompleted(s) ==
  /\ conn[s].pc = "replay" /\ conn[s].page = <<>> /\ conn[s].short
  /\ conn' = [conn EXCEPT ![s].pc = "live"]
  /\ client' = IF s = "run" THEN [client EXCEPT !.replaying = FALSE] ELSE client
  /\ UNCHANGED <<serverVars, chan, source, due, inflight>>

\* Stored frames up to the watermark were part of the replay.
SendLive(s) ==
  /\ conn[s].pc = "live" /\ chan[s] # <<>>
  /\ LET f == Head(chan[s]) IN
       IF 0 < f.seq /\ f.seq <= conn[s].cursor
       THEN /\ chan' = [chan EXCEPT ![s] = Tail(@)]
            /\ UNCHANGED <<conn, source, client, due>>
       ELSE /\ handleStreamingAgentEvent(s, f)
            /\ HandlerContinues(s, conn[s], Tail(chan[s]))
  /\ UNCHANGED <<serverVars, inflight>>

Disconnect(s) ==
  /\ conn[s].pc # "off" /\ faults.disconnects < MaxDisconnects
  /\ conn' = [conn EXCEPT ![s] = Off]
  /\ chan' = [chan EXCEPT ![s] = <<>>]
  /\ faults' = [faults EXCEPT !.disconnects = @ + 1]
  /\ UNCHANGED <<log, flushed, run, pub, clientVars>>

-----------------------------------------------------------------------------
(* The transcript.                                                         *)

\* The request is answered from the history and the status of the session.
refreshAgentChatTranscript(d) ==
  /\ d \in due /\ Len(inflight) < MaxFetches
  /\ due' = due \ {d}
  /\ inflight' = Append(inflight, [log |-> log, running |-> ~run.ended])
  /\ flushed' = Len(log)
  /\ UNCHANGED <<log, run, pub, chan, conn, source, client, faults>>

\* Mutant: what the panel has seen is protected after the run as well.
shouldPreserveLocalTranscript_Always(t) == Len(t.log) <= client.cursor

shouldPreserveLocalTranscript(t) == client.running /\ Len(t.log) <= client.cursor

hydrateAgentChatState(t) ==
  client' = [client EXCEPT !.cursor = Len(t.log), !.running = t.running, !.skipped = {},
    !.shown = [e \in Events |-> Cardinality({i \in 1 .. Len(t.log) : t.log[i] = e})]]

\* Answers arrive in any order.  A transcript that says a run goes on makes the
\* panel resume its stream; the run's connection ends with the run.
TranscriptArrives ==
  \E i \in 1 .. Len(inflight) :
    LET t == inflight[i] IN
    /\ inflight' = SubSeq(inflight, 1, i - 1) \o SubSeq(inflight, i + 1, Len(inflight))
    /\ IF shouldPreserveLocalTranscript(t)
       THEN UNCHANGED <<client, source, conn, chan>>
       ELSE /\ hydrateAgentChatState(t)
            /\ Connected([source EXCEPT
                 !["run"].open = @ /\ t.running,
                 !["resumed"] = IF t.running /\ ~@.open
                                THEN [open |-> TRUE, lastId |-> Len(t.log)] ELSE @])
    /\ UNCHANGED <<serverVars, due>>

\* While the panel waits for its run, it asks for the status once a second.
syncAgentSessionStatus ==
  /\ source["run"].open /\ client.running /\ run.ended
  /\ client' = [client EXCEPT !.running = FALSE]
  /\ due' = due \cup {"settle"}
  /\ Connected([source EXCEPT !["run"].open = FALSE])
  /\ UNCHANGED <<serverVars, inflight>>

\* What the writer held may be lost; the boot ends the run.
Crash ==
  /\ faults.crashes < MaxCrashes
  /\ \E k \in flushed .. Len(log) :
       /\ log' = SubSeq(log, 1, k)
       /\ flushed' = k
       /\ run' = [ended |-> TRUE, upTo |-> IF run.ended THEN AtMost(run.upTo, k) ELSE k]
  /\ pub'  = [p \in Publishers |-> Idle(Len(Emits[p]) + 1)]
  /\ conn' = [s \in Streams |-> Off]
  /\ chan' = [s \in Streams |-> <<>>]
  /\ inflight' = <<>>
  /\ faults' = [faults EXCEPT !.crashes = @ + 1, !.unanswered = @ \/ inflight # <<>>]
  /\ UNCHANGED <<source, client, due>>

-----------------------------------------------------------------------------
PublisherStep(p) ==
  \/ appendAgentEvent(p) \/ StoreFails(p) \/ BeginFanOut(p)
  \/ Publish(p) \/ publishGuaranteedAgentEvent(p)

StreamStep(s) ==
  \/ Connect(s) \/ LoadAgentEvents(s) \/ SendReplayed(s) \/ ReplayCompleted(s) \/ SendLive(s)

PanelStep ==
  \/ \E d \in due : refreshAgentChatTranscript(d)
  \/ TranscriptArrives \/ syncAgentSessionStatus

StreamNext ==
  \/ \E p \in Publishers : PublisherStep(p)
  \/ RunEnds
  \/ \E s \in Streams : StreamStep(s) \/ Disconnect(s)
  \/ PanelStep
  \/ Crash

\* Goroutines go on, the run ends, connections are made again, requests are
\* answered.
StreamFairness ==
  /\ \A p \in Publishers : WF_streamVars(PublisherStep(p))
  /\ WF_streamVars(RunEnds)
  /\ \A s \in Streams : WF_streamVars(StreamStep(s))
  /\ WF_streamVars(\E d \in due : refreshAgentChatTranscript(d))
  /\ WF_streamVars(TranscriptArrives)
  /\ WF_streamVars(syncAgentSessionStatus)

StreamSpec == StreamInit /\ [][StreamNext]_streamVars
FairStreamSpec == StreamSpec /\ StreamFairness

-----------------------------------------------------------------------------
(* Properties.                                                             *)

\* Type invariant; buffers keep to their size.
StreamTypeOK ==
  /\ log \in Seq(Events) /\ flushed \in 0 .. Len(log)
  /\ run \in [ended : BOOLEAN, upTo : 0 .. Len(log)]
  /\ \A p \in Publishers :
       /\ pub[p].stage \in {"idle", "stored", "sending"}
       /\ pub[p].frame \in Frames \cup {None}
       /\ pub[p].full # None => pub[p].full \in pub[p].todo
  /\ \A s \in Streams :
       /\ chan[s] \in Seq(Frames) /\ Len(chan[s]) <= Buffer
       /\ conn[s].pc \in {"off", "replay", "live"}
       /\ conn[s].page \in Seq(Frames) /\ Len(conn[s].page) <= PageSize
       /\ ~source[s].open => conn[s] = Off
  /\ client.cursor \in Nat /\ client.shown \in [Events -> Nat]
  /\ due \subseteq {"resync", "settle"} /\ Len(inflight) <= MaxFetches

\* The stored events that the panel's cursor has passed and that it never showed.
Missed == { i \in 1 .. Len(log) : i <= client.cursor /\ client.shown[log[i]] = 0 }

\* A stored event that a full buffer dropped, or that was delivered behind a
\* later one, is noticed as a gap, across replays and reconnections.
MissesAreNoticed == Missed \subseteq client.skipped

\* A gap that was noticed is repaired: as long as events are missing, a request
\* for the transcript is to be sent or on its way.
MissesAreRepaired == Missed # {} => due # {} \/ inflight # <<>>

\* Replay, live delivery, a second connection and fetched transcripts overlap,
\* and no stored event is shown twice.
NothingShownTwice == \A i \in 1 .. Len(log) : client.shown[log[i]] <= 1

\* Once the run has ended, the panel stops waiting and shows, and goes on
\* showing, all that was stored by then, whatever was dropped, reordered or cut
\* off before.  Left out is what the code has no remedy for: a request that a
\* crash leaves unanswered is not repeated, and a panel that waits on a resumed
\* connection learns of the end by the terminal event only, which may be lost or
\* overtaken.
TranscriptConverges ==
  <>[](\/ faults.unanswered
       \/ client.running /\ source["resumed"].open
       \/ ~client.running /\ \A i \in 1 .. run.upTo : client.shown[log[i]] > 0)

\* A resumed connection, whose panel was told that a run goes on, gets a terminal
\* event and is closed.
ResumedStreamEnds == source["resumed"].open ~> ~source["resumed"].open
=============================================================================
