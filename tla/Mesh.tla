--------------------------------- MODULE Mesh ---------------------------------
(***************************************************************************)
(* The mesh: every instance of a service announces its contract to the     *)
(* collector and exports the traces of what it handles; the collector      *)
(* keeps, in memory, the declared graph, a ring of the latest traces with  *)
(* an index of their spans, and the issues it finds in them.               *)
(*                                                                         *)
(* An event is a trace event, named for its span; events are numbered in   *)
(* the order in which they began.  Calls to the collector may be lost on   *)
(* their way there or back.                                                *)
(*                                                                         *)
(* Bound: MaxFaults calls are lost or restarts of the collector happen.    *)
(***************************************************************************)
EXTENDS Integers, FiniteSets, Sequences, SequencesExt

CONSTANTS
  Services, Topics, Instances, EventCount,
  ServiceOf(_),         \* of an instance
  Requests(_),          \* the topics an instance's document says it handles,
  Provides(_),          \* and its events and sends; with Unknown, for a member
  Unknown,              \* that is missing or degraded
  InstanceOf(_),        \* the instance an event comes from
  TopicOf(_), Parent(_),
  BatchSize, BufferSize, Capacity, MaxIssues, MaxFaults

Events == 1 .. EventCount
None == 0

ASSUME MeshAssumption ==
  /\ EventCount \in Nat /\ MaxFaults \in Nat
  /\ {BatchSize, BufferSize, Capacity, MaxIssues} \subseteq Nat \ {0}
  /\ \A i \in Instances : /\ ServiceOf(i) \in Services
                          /\ Requests(i) \cup Provides(i) \subseteq Topics \cup {Unknown}
  /\ \A e \in Events : /\ InstanceOf(e) \in Instances /\ TopicOf(e) \in Topics
                       /\ Parent(e) \in 0 .. e - 1
  /\ None \notin Services \cup Instances /\ Unknown \notin Topics

VARIABLES
  announcer,    \* what runAsync awaits
  buffer,       \* the events of an exporter that wait to be sent
  inFlight,     \* the batches it has sent and awaits the answer of
  timer,        \* whether its interval runs
  disposed,     \* exporters that were disposed of
  registered,   \* collector: the instance whose document it has of a service
  edges,        \* collector: consumers and providers of the topics
  traces,       \* collector: ring, next, index and issues
  faults,
  exported,     \* history: the events exported, and of these those buffered and
  accepted,     \* those sent and answered or given up, by instance, in order
  sent,
  arrived       \* history: what the collector got since it started, in order

exporterVars == <<buffer, inFlight, timer, disposed, exported, accepted, sent>>
graphVars == <<registered, edges>>
traceVars == <<traces, arrived>>
vars == <<announcer, exporterVars, graphVars, traceVars, faults>>

Fault == faults < MaxFaults /\ faults' = faults + 1

-----------------------------------------------------------------------------
(* The collector.                                                          *)

\* Mutant: the edges of a service are added to those it had.
MutReplaced(held, s, ts) == held \cup {<<s, t>> : t \in ts \ {Unknown}}

\* A service's edges of one kind, replaced wholesale.
Replaced(held, s, ts) ==
  {p \in held : p[1] # s} \cup {<<s, t>> : t \in ts \ {Unknown}}

Register(i) ==
  LET s == ServiceOf(i)
  IN /\ registered' = [registered EXCEPT ![s] = i]
     /\ edges' = [consumers |-> Replaced(edges.consumers, s, Requests(i)),
                  providers |-> Replaced(edges.providers, s, Provides(i))]

Undeclared(ts, t) == Unknown \notin ts /\ t \notin ts

Repeated(issue, at) ==
  [issue EXCEPT !.count = @ + 1, !.lastSeen = IF at > @ THEN at ELSE @]

\* mergeIssue: the issue least recently seen makes room for a new one.
Merged(issues, s, t, at) ==
  LET k == SelectInSeq(issues, LAMBDA x : x.service = s /\ x.topic = t)
      oldest == CHOOSE n \in DOMAIN issues : \A x \in DOMAIN issues :
                  \/ issues[n].lastSeen < issues[x].lastSeen
                  \/ issues[n].lastSeen = issues[x].lastSeen /\ n <= x
      kept == IF Len(issues) < MaxIssues THEN issues ELSE RemoveAt(issues, oldest)
  IN IF k # 0
     THEN [issues EXCEPT ![k] = Repeated(@, at)]
     ELSE Append(kept, [service |-> s, topic |-> t, count |-> 1, lastSeen |-> at])

\* detectContractDrift: what the handler or the caller never declared.
Drifted(issues, e, caller) ==
  LET s == ServiceOf(InstanceOf(e))
      t == TopicOf(e)
      handler == IF registered[s] # None /\ Undeclared(Requests(registered[s]), t)
                 THEN Merged(issues, s, t, e) ELSE issues
  IN IF /\ caller \notin {None, s}
        /\ registered[caller] # None /\ Undeclared(Provides(registered[caller]), t)
     THEN Merged(handler, caller, t, e) ELSE handler

\* Mutant: the span that leaves the ring stays in the index.
MutEvicted(c) == {}

\* The span a new event takes the place of.
Evicted(c) == IF Len(c.ring) < Capacity THEN {} ELSE {c.ring[c.next + 1]}

\* addEvents, for one event.
AddEvent(c, e) ==
  LET full == Len(c.ring) = Capacity
      caller == IF Parent(e) \in DOMAIN c.index THEN c.index[Parent(e)] ELSE None
  IN [ring   |-> IF full THEN [c.ring EXCEPT ![c.next + 1] = e] ELSE Append(c.ring, e),
      next   |-> IF full THEN (c.next + 1) % Capacity ELSE c.next,
      index  |-> [x \in (DOMAIN c.index \ Evicted(c)) \cup {e} |->
                    IF x = e THEN ServiceOf(InstanceOf(e)) ELSE c.index[x]],
      issues |-> Drifted(c.issues, e, caller)]

AddEvents(batch) ==
  /\ traces' = FoldLeft(AddEvent, traces, batch)
  /\ arrived' = arrived \o batch

NoDocuments == [s \in Services |-> None]
NoEdges == [consumers |-> {}, providers |-> {}]
NoTraces == [ring |-> <<>>, next |-> 0, index |-> <<>>, issues |-> <<>>]

\* The collector's process is replaced; all it held is gone.
CollectorRestarts ==
  /\ Fault
  /\ registered' = NoDocuments /\ edges' = NoEdges
  /\ traces' = NoTraces /\ arrived' = <<>>
  /\ UNCHANGED <<announcer, exporterVars>>

-----------------------------------------------------------------------------
(* MeshAnnouncer.                                                          *)

At(i, pc) == announcer' = [announcer EXCEPT ![i] = pc]

RegisterEnds(i) ==
  /\ announcer[i] = "registering"
  /\ \/ Register(i) /\ At(i, "announced") /\ UNCHANGED faults
     \/ Fault /\ At(i, "retrying") /\ (Register(i) \/ UNCHANGED graphVars)
  /\ UNCHANGED <<exporterVars, traceVars>>

RetryDelayEnds(i) ==
  /\ announcer[i] = "retrying" /\ At(i, "registering")
  /\ UNCHANGED <<exporterVars, graphVars, traceVars, faults>>

-----------------------------------------------------------------------------
(* HttpMeshTraceExporter.                                                  *)

FirstOf(s) == SubSeq(s, 1, IF Len(s) < BatchSize THEN Len(s) ELSE BatchSize)
RestOf(s) == SubSeq(s, Len(FirstOf(s)) + 1, Len(s))

\* Mutant: two drains may run at once.
MutDrain(i, b, flights) ==
  IF b = <<>>
  THEN buffer' = [buffer EXCEPT ![i] = b] /\ inFlight' = [inFlight EXCEPT ![i] = flights]
  ELSE /\ buffer' = [buffer EXCEPT ![i] = RestOf(b)]
       /\ inFlight' = [inFlight EXCEPT ![i] = Append(flights, FirstOf(b))]

\* drain with b buffered, up to the answer it awaits; one at a time.
Drain(i, b, flights) ==
  IF b = <<>> \/ flights # <<>>
  THEN buffer' = [buffer EXCEPT ![i] = b] /\ inFlight' = [inFlight EXCEPT ![i] = flights]
  ELSE /\ buffer' = [buffer EXCEPT ![i] = RestOf(b)]
       /\ inFlight' = [inFlight EXCEPT ![i] = <<FirstOf(b)>>]

\* An invocation has ended and its event is exported: dropped after disposal and
\* when the buffer is full.
Export(e) ==
  LET i == InstanceOf(e)
      b == Append(buffer[i], e)
  IN /\ e \notin exported /\ exported' = exported \cup {e}
     /\ IF i \in disposed \/ Len(buffer[i]) >= BufferSize
        THEN UNCHANGED <<accepted, timer, buffer, inFlight>>
        ELSE /\ accepted' = [accepted EXCEPT ![i] = Append(@, e)]
             /\ timer' = timer \cup {i}
             /\ IF Len(b) >= BatchSize THEN Drain(i, b, inFlight[i])
                ELSE buffer' = [buffer EXCEPT ![i] = b] /\ UNCHANGED inFlight
     /\ UNCHANGED <<announcer, disposed, sent, graphVars, traceVars, faults>>

TimerFires(i) ==
  /\ i \in timer /\ Drain(i, buffer[i], inFlight[i])
  /\ UNCHANGED <<announcer, timer, disposed, exported, accepted, sent,
                 graphVars, traceVars, faults>>

\* The container disposes of both: the registration being sent is aborted, and
\* may have been received; the exporter drains its tail.
Dispose(i) ==
  /\ i \notin disposed /\ disposed' = disposed \cup {i}
  /\ At(i, "stopped")
  /\ UNCHANGED graphVars \/ (announcer[i] = "registering" /\ Register(i))
  /\ timer' = timer \ {i}
  /\ Drain(i, buffer[i], inFlight[i])
  /\ UNCHANGED <<exported, accepted, sent, traceVars, faults>>

\* Mutant: drain sends one batch.
MutNextBatch(i, flights) == inFlight' = [inFlight EXCEPT ![i] = flights] /\ UNCHANGED buffer

\* The loop of drain goes on.
NextBatch(i, flights) == Drain(i, buffer[i], flights)

\* A batch has been answered, or was lost and is given up.
FlushEnds(i) ==
  \E k \in DOMAIN inFlight[i] :
    LET batch == inFlight[i][k]
    IN /\ \/ AddEvents(batch) /\ UNCHANGED faults
          \/ Fault /\ (AddEvents(batch) \/ UNCHANGED traceVars)
       /\ sent' = [sent EXCEPT ![i] = @ \o batch]
       /\ NextBatch(i, RemoveAt(inFlight[i], k))
       /\ UNCHANGED <<announcer, timer, disposed, exported, accepted, graphVars>>

-----------------------------------------------------------------------------
Init ==
  /\ announcer = [i \in Instances |-> "registering"]
  /\ buffer = [i \in Instances |-> <<>>]
  /\ inFlight = [i \in Instances |-> <<>>]
  /\ timer = {} /\ disposed = {} /\ exported = {}
  /\ accepted = [i \in Instances |-> <<>>]
  /\ sent = [i \in Instances |-> <<>>]
  /\ registered = NoDocuments /\ edges = NoEdges
  /\ traces = NoTraces /\ arrived = <<>> /\ faults = 0

SendSteps(i) == RegisterEnds(i) \/ RetryDelayEnds(i)

Next ==
  \/ \E i \in Instances :
       SendSteps(i) \/ TimerFires(i) \/ FlushEnds(i) \/ Dispose(i)
  \/ \E e \in Events : Export(e)
  \/ CollectorRestarts

Spec == Init /\ [][Next]_vars

\* Calls end, timers fire.
FairSpec ==
  /\ Spec
  /\ \A i \in Instances : WF_vars(SendSteps(i)) /\ WF_vars(TimerFires(i) \/ FlushEnds(i))

-----------------------------------------------------------------------------
(* Properties.                                                             *)

\* Every variable stays within its type.
TypeOK ==
  /\ announcer \in [Instances -> {"registering", "retrying", "announced", "stopped"}]
  /\ \A i \in Instances : /\ Len(buffer[i]) <= BufferSize
                          /\ \A k \in DOMAIN inFlight[i] : Len(inFlight[i][k]) <= BatchSize
  /\ timer \subseteq Instances \ disposed
  /\ registered \in [Services -> Instances \cup {None}]
  /\ Len(traces.ring) <= Capacity /\ traces.next \in 0 .. Capacity - 1
  /\ Len(traces.issues) <= MaxIssues

\* However exports, timers and disposal meet, every event the buffer took is
\* sent once, in the order taken, and nothing overtakes a batch in flight.
SentOnceInOrder ==
  \A i \in Instances :
    accepted[i] = sent[i] \o FlattenSeq(inFlight[i]) \o buffer[i]

\* The ring holds the latest events that arrived, in order from next on; the
\* index holds exactly their spans; and each names its own service.
WindowIndexed ==
  LET n == Len(traces.ring)
  IN /\ n = IF Len(arrived) < Capacity THEN Len(arrived) ELSE Capacity
     /\ \A k \in 1 .. n :
          traces.ring[((traces.next + k - 1) % n) + 1] = arrived[Len(arrived) - n + k]
     /\ DOMAIN traces.index = {traces.ring[k] : k \in 1 .. n}
     /\ \A e \in DOMAIN traces.index : traces.index[e] = ServiceOf(InstanceOf(e))

\* The declared graph is what the last document received of each service says,
\* whatever traffic arrived; and no issue blames a service that never registered,
\* or whose documents all declare the topic or leave it unknown.
GraphDeclared ==
  /\ edges.consumers = {p \in Services \X Topics :
                          registered[p[1]] # None /\ p[2] \in Requests(registered[p[1]])}
  /\ edges.providers = {p \in Services \X Topics :
                          registered[p[1]] # None /\ p[2] \in Provides(registered[p[1]])}
  /\ \A k \in DOMAIN traces.issues :
       LET issue == traces.issues[k]
       IN /\ registered[issue.service] # None
          /\ \E i \in Instances :
               /\ ServiceOf(i) = issue.service
               /\ \/ Undeclared(Requests(i), issue.topic)
                  \/ Undeclared(Provides(i), issue.topic)

\* In the end every document was registered, unless its announcer was stopped,
\* and nothing is left in a buffer, disposed of or not.
CatchesUp ==
  <>[](\A i \in Instances : /\ announcer[i] \in {"announced", "stopped"}
                            /\ buffer[i] = <<>> /\ inFlight[i] = <<>>)
=============================================================================
