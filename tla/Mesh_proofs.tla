----------------------------- MODULE Mesh_proofs -----------------------------
(***************************************************************************)
(* Type correctness of the mesh, SentOnceInOrder, WindowIndexed and        *)
(* GraphDeclared, for any services, documents, instances, events and       *)
(* sizes, with every lost call and restart.                                *)
(*                                                                         *)
(* The exporters: one batch is in flight at most.  The window is said      *)
(* place by place, which a new event moves by one; the index follows only  *)
(* where no span arrives twice, which is so because none is sent twice.    *)
(* What one event does is lifted to a batch, a fold over a sequence, by    *)
(* the shortest prefix that would break it.                                *)
(***************************************************************************)
EXTENDS Mesh, SequenceTheorems, WellFoundedInduction, TLAPS

Issue == [service : Services, topic : Topics, count : Nat, lastSeen : Nat]

MeshType ==
  /\ announcer \in [Instances -> {"registering", "retrying", "announced", "stopped"}]
  /\ buffer \in [Instances -> Seq(Events)] /\ inFlight \in [Instances -> Seq(Seq(Events))]
  /\ accepted \in [Instances -> Seq(Events)] /\ sent \in [Instances -> Seq(Events)]
  /\ exported \subseteq Events /\ timer \subseteq Instances \ disposed
  /\ \A i \in Instances :
       /\ Len(buffer[i]) <= BufferSize /\ Len(inFlight[i]) <= 1
       /\ \A k \in DOMAIN inFlight[i] : Len(inFlight[i][k]) <= BatchSize

\* An exporter takes an event once, and what arrived had been sent.
Fresh ==
  /\ \A i \in Instances :
       /\ IsInjective(accepted[i])
       /\ \A e \in ToSet(accepted[i]) : e \in exported /\ InstanceOf(e) = i
  /\ arrived \in Seq(Events) /\ IsInjective(arrived)
  /\ \A e \in ToSet(arrived) : e \in ToSet(sent[InstanceOf(e)])

SendInv == MeshType /\ SentOnceInOrder /\ Fresh

\* Where, in a sequence of l events, the one is that a ring of its last n holds at
\* place j, the oldest being at place x + 1.
Place(l, n, x, j) == l - n + (IF j > x THEN j - x ELSE j - x + n)

\* The ring of c holds the last of a, each at its place from next on.
Window(c, a) ==
  LET n == Len(c.ring)
  IN /\ c.ring \in Seq(Events) /\ IsInjective(c.ring) /\ c.next \in 0 .. Capacity - 1
     /\ n = IF Len(a) < Capacity THEN Len(a) ELSE Capacity
     /\ n < Capacity => c.next = 0
     /\ \A j \in 1 .. n : c.ring[j] = a[Place(Len(a), n, c.next, j)]

Indexed(c) ==
  /\ DOMAIN c.index = ToSet(c.ring)
  /\ \A e \in DOMAIN c.index : c.index[e] = ServiceOf(InstanceOf(e))

\* A service that has registered, and has a release that does not declare t.
Blamed(s, t) ==
  /\ registered[s] # None
  /\ \E i \in Instances :
       ServiceOf(i) = s /\ (Undeclared(Requests(i), t) \/ Undeclared(Provides(i), t))

Listed(issues) ==
  /\ issues \in Seq(Issue) /\ Len(issues) <= MaxIssues
  /\ \A k \in DOMAIN issues : Blamed(issues[k].service, issues[k].topic)

Collected(c, a) == Window(c, a) /\ Indexed(c) /\ Listed(c.issues)

Documents ==
  /\ registered \in [Services -> Instances \cup {None}]
  /\ \A s \in Services : registered[s] # None => ServiceOf(registered[s]) = s
  /\ edges.consumers = {p \in Services \X Topics :
                          registered[p[1]] # None /\ p[2] \in Requests(registered[p[1]])}
  /\ edges.providers = {p \in Services \X Topics :
                          registered[p[1]] # None /\ p[2] \in Provides(registered[p[1]])}

CollectInv == Documents /\ Collected(traces, arrived)

-----------------------------------------------------------------------------
(* Constants and sequences.                                                *)

LEMMA Given ==
  /\ {BatchSize, BufferSize, Capacity, MaxIssues} \subseteq Nat \ {0}
  /\ \A e \in Events : /\ e \in Nat /\ InstanceOf(e) \in Instances /\ TopicOf(e) \in Topics
                       /\ ServiceOf(InstanceOf(e)) \in Services
  /\ \A i \in Instances : /\ ServiceOf(i) \in Services /\ i # None
                          /\ Requests(i) \cup Provides(i) \subseteq Topics \cup {Unknown}
  /\ \A s \in Services : s # None
  /\ Unknown \notin Topics
BY MeshAssumption DEF MeshAssumption, Events, None

LEMMA Least ==
  ASSUME NEW I, I \subseteq Nat, I # {}
  PROVE  \E x \in I : \A y \in I : x <= y
<1> DEFINE Less == {p \in Nat \X Nat : p[1] < p[2]}
<1>1. IsWellFoundedOn(Less, Nat)
  <2>1. Less = OpToRel(<, Nat)
    BY Zenon DEF OpToRel
  <2>2. IsWellFoundedOn(OpToRel(<, Nat), Nat)
    BY NatLessThanWellFounded, Zenon
  <2> QED BY <2>1, <2>2, Zenon
<1>2. PICK x \in I : \A y \in I : ~(<<y, x>> \in Less)
  BY <1>1, WFMin, Zenon
<1>3. \A y \in I : x <= y
  <2> TAKE y \in I
  <2>1. ~(<<y, x>> \in Less)
    BY <1>2
  <2> QED BY <2>1
<1> QED BY <1>3

\* What is in flight is one batch or none.
LEMMA Flat ==
  ASSUME NEW fl \in Seq(Seq(Events)), Len(fl) <= 1
  PROVE  /\ FlattenSeq(fl) = IF fl = <<>> THEN <<>> ELSE fl[1]
         /\ FlattenSeq(fl) \in Seq(Events)
         /\ fl # <<>> => fl = <<fl[1]>> /\ fl[1] \in Seq(Events) /\ DOMAIN fl = {1}
<1>1. CASE fl = <<>>
  BY <1>1 DEF FlattenSeq
<1>2. CASE fl # <<>>
  <2>1. Len(fl) = 1 /\ DOMAIN fl = {1} /\ fl[1] \in Seq(Events) /\ fl = <<fl[1]>>
    <3>1. Len(fl) \in Nat \ {0} /\ DOMAIN fl = 1 .. Len(fl) /\ fl \in [1 .. Len(fl) -> Seq(Events)]
      BY <1>2, EmptySeq, LenProperties
    <3>2. Len(fl) = 1 /\ 1 .. 1 = {1}
      BY <3>1
    <3>3. fl[1] \in Seq(Events)
      BY <3>1, <3>2
    <3>4. <<fl[1]>> \in Seq(Seq(Events)) /\ Len(<<fl[1]>>) = 1 /\ <<fl[1]>>[1] = fl[1]
      BY <3>3
    <3>5. fl = <<fl[1]>>
      BY <3>2, <3>4, SeqEqual
    <3> QED BY <3>1, <3>2, <3>3, <3>5
  <2> DEFINE F(g) == g = [i \in 1 .. Len(fl) |-> IF i = 1 THEN fl[i] ELSE g[i - 1] \o fl[i]]
             f == [i \in 1 .. Len(fl) |-> fl[i]]
  <2>2. F(f)
    BY <2>1
  <2>3. F(CHOOSE g : F(g))
    <3> HIDE DEF F, f
    <3> QED BY <2>2, Zenon
  <2>4. FlattenSeq(fl) = (CHOOSE g : F(g))[Len(fl)]
    <3>1. ~(Len(fl) = 0)
      BY <2>1
    <3> QED BY <3>1, Zenon DEF FlattenSeq, F
  <2>5. \A g : F(g) => g[1] = fl[1]
    BY <2>1
  <2> HIDE DEF F
  <2>6. (CHOOSE g : F(g))[1] = fl[1]
    BY <2>3, <2>5, Zenon
  <2>7. FlattenSeq(fl) = fl[1]
    BY <2>1, <2>4, <2>6, Zenon
  <2> QED BY <1>2, <2>1, <2>7, Zenon
<1> QED BY <1>1, <1>2

\* A batch is cut from the front of the buffer.
LEMMA Cut ==
  ASSUME NEW s \in Seq(Events)
  PROVE  /\ FirstOf(s) \in Seq(Events) /\ RestOf(s) \in Seq(Events)
         /\ FirstOf(s) \o RestOf(s) = s
         /\ Len(FirstOf(s)) <= BatchSize /\ Len(RestOf(s)) <= Len(s)
<1> DEFINE n == IF Len(s) < BatchSize THEN Len(s) ELSE BatchSize
<1>1. n \in Nat /\ n <= Len(s) /\ n <= BatchSize /\ Len(s) \in Nat
  BY Given
<1>2. FirstOf(s) = SubSeq(s, 1, n)
  BY DEF FirstOf
<1> HIDE DEF n
<1>3. FirstOf(s) \in Seq(Events) /\ Len(FirstOf(s)) = n
  BY <1>1, <1>2
<1>4. RestOf(s) = SubSeq(s, n + 1, Len(s))
  BY <1>3 DEF RestOf
<1>5. SubSeq(s, n + 1, Len(s)) \in Seq(Events) /\ Len(SubSeq(s, n + 1, Len(s))) = Len(s) - n
  BY <1>1
<1>6. SubSeq(s, 1, n) \o SubSeq(s, n + 1, Len(s)) = s
  <2>1. 1 \in 1 .. Len(s) + 1 /\ n \in 1 - 1 .. Len(s) /\ Len(s) \in n .. Len(s)
    BY <1>1
  <2>2. SubSeq(s, 1, n) \o SubSeq(s, n + 1, Len(s)) = SubSeq(s, 1, Len(s))
    BY <2>1, ConcatAdjacentSubSeq
  <2> QED BY <2>2, SubSeqFull
<1>7. Len(FirstOf(s)) <= BatchSize /\ Len(RestOf(s)) <= Len(s)
  <2>1. Len(RestOf(s)) = Len(s) - n
    BY <1>4, <1>5
  <2> QED BY <1>1, <1>3, <2>1
<1>8. FirstOf(s) \o RestOf(s) = s
  BY <1>2, <1>4, <1>6, Zenon
<1> QED BY <1>3, <1>4, <1>5, <1>7, <1>8

\* drain loses nothing, repeats nothing and keeps the order.
LEMMA DrainKeeps ==
  ASSUME MeshType, NEW i \in Instances, NEW b \in Seq(Events), Len(b) <= BufferSize,
         NEW fl \in Seq(Seq(Events)), Len(fl) <= 1, \A k \in DOMAIN fl : Len(fl[k]) <= BatchSize,
         Drain(i, b, fl)
  PROVE  /\ buffer' \in [Instances -> Seq(Events)] /\ inFlight' \in [Instances -> Seq(Seq(Events))]
         /\ \A j \in Instances : /\ Len(buffer'[j]) <= BufferSize /\ Len(inFlight'[j]) <= 1
                                 /\ \A k \in DOMAIN inFlight'[j] : Len(inFlight'[j][k]) <= BatchSize
         /\ \A j \in Instances \ {i} : buffer'[j] = buffer[j] /\ inFlight'[j] = inFlight[j]
         /\ FlattenSeq(inFlight'[i]) \o buffer'[i] = FlattenSeq(fl) \o b
<1>0. buffer \in [Instances -> Seq(Events)] /\ inFlight \in [Instances -> Seq(Seq(Events))]
  BY DEF MeshType
<1>1. CASE b = <<>> \/ fl # <<>>
  <2>1. buffer' = [buffer EXCEPT ![i] = b] /\ inFlight' = [inFlight EXCEPT ![i] = fl]
    BY <1>1 DEF Drain
  <2> QED BY <1>0, <2>1 DEF MeshType
<1>2. CASE b # <<>> /\ fl = <<>>
  <2> DEFINE g == <<FirstOf(b)>>
  <2>1. buffer' = [buffer EXCEPT ![i] = RestOf(b)] /\ inFlight' = [inFlight EXCEPT ![i] = g]
    BY <1>2 DEF Drain
  <2>2. g \in Seq(Seq(Events)) /\ Len(g) = 1 /\ g # <<>> /\ g[1] = FirstOf(b) /\ DOMAIN g = {1}
    BY Cut
  <2> HIDE DEF g
  <2>3. FlattenSeq(g) = FirstOf(b) /\ FlattenSeq(fl) = <<>>
    <3>1. Len(g) <= 1 /\ Len(fl) <= 1
      BY <2>2
    <3>2. FlattenSeq(g) = g[1]
      BY <2>2, <3>1, Flat
    <3>3. FlattenSeq(fl) = <<>>
      BY <1>2, <3>1, Flat
    <3> QED BY <2>2, <3>2, <3>3
  <2>4. FlattenSeq(g) \o RestOf(b) = FlattenSeq(fl) \o b
    <3>1. <<>> \o b = b
      BY ConcatEmptySeq
    <3>2. FirstOf(b) \o RestOf(b) = b
      BY Cut
    <3> QED BY <2>3, <3>1, <3>2, Zenon
  <2>5. Len(RestOf(b)) <= BufferSize /\ RestOf(b) \in Seq(Events) /\ Len(FirstOf(b)) <= BatchSize
    <3>1. Len(RestOf(b)) \in Nat /\ Len(b) \in Nat /\ BufferSize \in Nat
      <4>1. RestOf(b) \in Seq(Events)
        BY Cut
      <4> QED BY <4>1, Given
    <3>2. Len(RestOf(b)) <= Len(b) /\ RestOf(b) \in Seq(Events) /\ Len(FirstOf(b)) <= BatchSize
      BY Cut
    <3> QED BY <3>1, <3>2
  <2>6. /\ buffer' \in [Instances -> Seq(Events)] /\ inFlight' \in [Instances -> Seq(Seq(Events))]
        /\ buffer'[i] = RestOf(b) /\ inFlight'[i] = g
        /\ \A j \in Instances \ {i} : buffer'[j] = buffer[j] /\ inFlight'[j] = inFlight[j]
    BY <1>0, <2>1, <2>2, <2>5
  <2>7. \A k \in DOMAIN g : Len(g[k]) <= BatchSize
    BY <2>2, <2>5
  <2>8. \A j \in Instances : /\ Len(buffer'[j]) <= BufferSize /\ Len(inFlight'[j]) <= 1
                             /\ \A k \in DOMAIN inFlight'[j] : Len(inFlight'[j][k]) <= BatchSize
    <3> TAKE j \in Instances
    <3>1. CASE j = i
      <4>1. buffer'[j] = RestOf(b) /\ inFlight'[j] = g
        BY <2>6, <3>1
      <4>2. Len(g) <= 1
        BY <2>2
      <4> QED BY <2>5, <2>7, <4>1, <4>2, Zenon
    <3>2. CASE j # i
      <4>1. buffer'[j] = buffer[j] /\ inFlight'[j] = inFlight[j]
        BY <2>6, <3>2
      <4> QED BY <4>1 DEF MeshType
    <3> QED BY <3>1, <3>2
  <2> QED BY <2>4, <2>6, <2>8
<1> QED BY <1>1, <1>2

\* The parts of a sequence without repetition have nothing in common.
LEMMA Apart ==
  ASSUME NEW s \in Seq(Events), NEW t \in Seq(Events), NEW u \in Seq(Events), IsInjective((s \o t) \o u)
  PROVE  /\ IsInjective(t) /\ ToSet(s) \cap ToSet(t) = {}
         /\ ToSet(t) \subseteq ToSet((s \o t) \o u)
<1> DEFINE a == (s \o t) \o u
<1>1. /\ s \o t \in Seq(Events) /\ a \in Seq(Events)
      /\ Len(s \o t) = Len(s) + Len(t) /\ Len(a) = Len(s \o t) + Len(u)
      /\ Len(s) \in Nat /\ Len(t) \in Nat /\ Len(u) \in Nat
      /\ DOMAIN s = 1 .. Len(s) /\ DOMAIN t = 1 .. Len(t)
  BY ConcatProperties, LenProperties
<1>2. DOMAIN a = 1 .. Len(a)
  BY <1>1, LenProperties
<1>3. \A k \in DOMAIN s : k \in DOMAIN a /\ a[k] = s[k]
  <2> TAKE k \in DOMAIN s
  <2>1. k \in 1 .. Len(s) + Len(t) /\ k \in 1 .. Len(s \o t) + Len(u) /\ k <= Len(s) /\ k <= Len(s \o t)
    BY <1>1
  <2>2. (s \o t)[k] = s[k]
    BY <2>1, ConcatProperties
  <2>3. a[k] = (s \o t)[k]
    BY <1>1, <2>1, ConcatProperties
  <2> QED BY <1>1, <1>2, <2>1, <2>2, <2>3
<1>4. \A k \in DOMAIN t : Len(s) + k \in DOMAIN a /\ a[Len(s) + k] = t[k]
  <2> TAKE k \in DOMAIN t
  <2> DEFINE n == Len(s) + k
  <2>1. n \in 1 .. Len(s) + Len(t) /\ n \in 1 .. Len(s \o t) + Len(u) /\ ~(n <= Len(s)) /\ n <= Len(s \o t)
        /\ n - Len(s) = k
    BY <1>1
  <2> HIDE DEF n
  <2>2. (s \o t)[n] = t[n - Len(s)]
    BY <2>1, ConcatProperties
  <2>3. a[n] = (s \o t)[n]
    BY <1>1, <2>1, ConcatProperties
  <2>4. n \in DOMAIN a /\ a[n] = t[k]
    BY <1>1, <1>2, <2>1, <2>2, <2>3
  <2> QED BY <2>4 DEF n
<1>5. \A j, k \in DOMAIN a : a[j] = a[k] => j = k
  BY DEF IsInjective
<1> HIDE DEF a
<1>6. \A j, k \in DOMAIN t : t[j] = t[k] => j = k
  BY <1>1, <1>4, <1>5
<1>7. \A j \in DOMAIN s : \A k \in DOMAIN t : s[j] # t[k]
  <2> SUFFICES ASSUME NEW j \in DOMAIN s, NEW k \in DOMAIN t, s[j] = t[k] PROVE FALSE
    OBVIOUS
  <2>1. j = Len(s) + k
    BY <1>3, <1>4, <1>5
  <2> QED BY <1>1, <2>1
<1>8. \A k \in DOMAIN t : t[k] \in ToSet(a)
  BY <1>4, Zenon DEF ToSet
<1> QED BY <1>6, <1>7, <1>8, Zenon DEF a, IsInjective, ToSet

LEMMA Joined ==
  ASSUME NEW s \in Seq(Events), NEW t \in Seq(Events), IsInjective(s), IsInjective(t), ToSet(s) \cap ToSet(t) = {}
  PROVE  IsInjective(s \o t)
<1>1. /\ s \o t \in Seq(Events) /\ Len(s \o t) = Len(s) + Len(t)
      /\ Len(s) \in Nat /\ Len(t) \in Nat
      /\ DOMAIN s = 1 .. Len(s) /\ DOMAIN t = 1 .. Len(t) /\ DOMAIN (s \o t) = 1 .. Len(s) + Len(t)
      /\ \A k \in 1 .. Len(s) + Len(t) : (s \o t)[k] = IF k <= Len(s) THEN s[k] ELSE t[k - Len(s)]
  BY ConcatProperties, LenProperties
<1>2. \A j \in DOMAIN s : \A k \in DOMAIN t : s[j] # t[k]
  BY DEF ToSet
<1>3. /\ \A j, k \in DOMAIN s : s[j] = s[k] => j = k
      /\ \A j, k \in DOMAIN t : t[j] = t[k] => j = k
  BY DEF IsInjective
<1>4. ASSUME NEW j \in DOMAIN (s \o t), NEW k \in DOMAIN (s \o t), (s \o t)[j] = (s \o t)[k]
      PROVE  j = k
  <2>1. /\ j \in Int /\ (j <= Len(s) => j \in DOMAIN s) /\ (~(j <= Len(s)) => j - Len(s) \in DOMAIN t)
        /\ k \in Int /\ (k <= Len(s) => k \in DOMAIN s) /\ (~(k <= Len(s)) => k - Len(s) \in DOMAIN t)
    BY <1>1
  <2>2. /\ (s \o t)[j] = IF j <= Len(s) THEN s[j] ELSE t[j - Len(s)]
        /\ (s \o t)[k] = IF k <= Len(s) THEN s[k] ELSE t[k - Len(s)]
    BY <1>1
  <2>3. CASE j <= Len(s)
    BY <1>2, <1>3, <1>4, <2>1, <2>2, <2>3
  <2>4. CASE ~(j <= Len(s))
    <3>1. ~(k <= Len(s))
      BY <1>2, <1>4, <2>1, <2>2, <2>4
    <3>2. j - Len(s) = k - Len(s)
      BY <1>3, <1>4, <2>1, <2>2, <2>4, <3>1
    <3> QED BY <1>1, <2>1, <3>2
  <2> QED BY <2>3, <2>4
<1> QED BY <1>4 DEF IsInjective

\* What a sequence and its continuation hold.
LEMMA Union ==
  ASSUME NEW s \in Seq(Events), NEW t \in Seq(Events)
  PROVE  ToSet(s \o t) = ToSet(s) \cup ToSet(t)
<1>1. /\ s \o t \in Seq(Events) /\ Len(s \o t) = Len(s) + Len(t)
      /\ Len(s) \in Nat /\ Len(t) \in Nat
      /\ DOMAIN s = 1 .. Len(s) /\ DOMAIN t = 1 .. Len(t) /\ DOMAIN (s \o t) = 1 .. Len(s) + Len(t)
      /\ \A k \in 1 .. Len(s) + Len(t) : (s \o t)[k] = IF k <= Len(s) THEN s[k] ELSE t[k - Len(s)]
  BY ConcatProperties, LenProperties
<1>2. ASSUME NEW k \in DOMAIN s PROVE s[k] \in ToSet(s \o t)
  <2>1. k \in DOMAIN (s \o t) /\ (s \o t)[k] = s[k]
    BY <1>1
  <2> QED BY <2>1 DEF ToSet
<1>3. ASSUME NEW k \in DOMAIN t PROVE t[k] \in ToSet(s \o t)
  <2> DEFINE n == Len(s) + k
  <2>1. n \in DOMAIN (s \o t) /\ (s \o t)[n] = t[n - Len(s)] /\ n - Len(s) = k
    BY <1>1
  <2> HIDE DEF n
  <2> QED BY <2>1 DEF ToSet
<1>4. ASSUME NEW k \in DOMAIN (s \o t) PROVE (s \o t)[k] \in ToSet(s) \cup ToSet(t)
  <2>1. /\ (s \o t)[k] = IF k <= Len(s) THEN s[k] ELSE t[k - Len(s)]
        /\ (k <= Len(s) => k \in DOMAIN s) /\ (~(k <= Len(s)) => k - Len(s) \in DOMAIN t)
    BY <1>1
  <2> QED BY <2>1 DEF ToSet
<1> QED BY <1>2, <1>3, <1>4 DEF ToSet

LEMMA Regroup ==
  \A s, t, u \in Seq(Events) : (s \o t) \o u = s \o (t \o u)
<1> TAKE s, t, u \in Seq(Events)
<1> QED BY ConcatAssociative

-----------------------------------------------------------------------------
(* The exporters.                                                          *)

Taken(i) == (sent[i] \o FlattenSeq(inFlight[i])) \o buffer[i]

LEMMA TakenNext ==
  \A i : Taken(i)' = (sent'[i] \o FlattenSeq(inFlight'[i])) \o buffer'[i]
<1>1. \A i : FlattenSeq(inFlight[i])' = FlattenSeq(inFlight'[i])
  BY Zenon DEF FlattenSeq
<1> QED BY <1>1, Zenon DEF Taken

LEMMA Lines ==
  ASSUME MeshType, NEW i \in Instances
  PROVE  /\ sent[i] \in Seq(Events) /\ buffer[i] \in Seq(Events) /\ accepted[i] \in Seq(Events)
         /\ inFlight[i] \in Seq(Seq(Events)) /\ Len(inFlight[i]) <= 1
         /\ FlattenSeq(inFlight[i]) \in Seq(Events)
         /\ \A k \in DOMAIN inFlight[i] : Len(inFlight[i][k]) <= BatchSize
         /\ Len(buffer[i]) <= BufferSize
<1>1. /\ sent[i] \in Seq(Events) /\ buffer[i] \in Seq(Events) /\ accepted[i] \in Seq(Events)
      /\ inFlight[i] \in Seq(Seq(Events)) /\ Len(inFlight[i]) <= 1
      /\ \A k \in DOMAIN inFlight[i] : Len(inFlight[i][k]) <= BatchSize
      /\ Len(buffer[i]) <= BufferSize
  BY DEF MeshType
<1> QED BY <1>1, Flat

\* A step that moves no event.
LEMMA NothingSent ==
  ASSUME SendInv, UNCHANGED <<buffer, inFlight, exported, accepted, sent>>,
         announcer' \in [Instances -> {"registering", "retrying", "announced", "stopped"}],
         timer' \subseteq Instances \ disposed', arrived' \in {arrived, <<>>}
  PROVE  SendInv'
<1>1. MeshType' /\ SentOnceInOrder'
  BY DEF SendInv, MeshType, SentOnceInOrder
<1>2. <<>> \in Seq(Events) /\ IsInjective(<<>>) /\ ToSet(<<>>) = {}
  BY DEF IsInjective, ToSet
<1>3. Fresh'
  <2>1. CASE arrived' = arrived
    BY <2>1 DEF SendInv, Fresh
  <2>2. CASE arrived' = <<>>
    <3>1. arrived' \in Seq(Events) /\ IsInjective(arrived') /\ ToSet(arrived') = {}
      BY <1>2, <2>2
    <3> QED BY <3>1 DEF SendInv, Fresh
  <2> QED BY <2>1, <2>2
<1> QED BY <1>1, <1>3 DEF SendInv

\* A drain of what is buffered, by the timer or by disposal.
LEMMA Drained ==
  ASSUME SendInv, NEW i \in Instances, Drain(i, buffer[i], inFlight[i]),
         UNCHANGED <<exported, accepted, sent, arrived>>,
         announcer' \in [Instances -> {"registering", "retrying", "announced", "stopped"}],
         timer' \subseteq Instances \ disposed'
  PROVE  SendInv'
<1>1. MeshType
  BY DEF SendInv
<1>2. /\ buffer' \in [Instances -> Seq(Events)] /\ inFlight' \in [Instances -> Seq(Seq(Events))]
      /\ \A j \in Instances : /\ Len(buffer'[j]) <= BufferSize /\ Len(inFlight'[j]) <= 1
                              /\ \A k \in DOMAIN inFlight'[j] : Len(inFlight'[j][k]) <= BatchSize
      /\ \A j \in Instances \ {i} : buffer'[j] = buffer[j] /\ inFlight'[j] = inFlight[j]
      /\ FlattenSeq(inFlight'[i]) \o buffer'[i] = FlattenSeq(inFlight[i]) \o buffer[i]
  BY <1>1, Lines, DrainKeeps
<1>3. MeshType'
  BY <1>1, <1>2 DEF MeshType
<1>4. Taken(i)' = Taken(i)
  <2>1. /\ sent[i] \in Seq(Events) /\ FlattenSeq(inFlight[i]) \in Seq(Events) /\ buffer[i] \in Seq(Events)
        /\ FlattenSeq(inFlight'[i]) \in Seq(Events) /\ buffer'[i] \in Seq(Events)
    <3>1. FlattenSeq(inFlight'[i]) \in Seq(Events)
      BY <1>2, Flat
    <3> QED BY <1>1, <1>2, <3>1, Lines
  <2>2. (sent[i] \o FlattenSeq(inFlight[i])) \o buffer[i] = sent[i] \o (FlattenSeq(inFlight[i]) \o buffer[i])
    BY <2>1, Regroup, ZenonT(40)
  <2>3. (sent[i] \o FlattenSeq(inFlight'[i])) \o buffer'[i] = sent[i] \o (FlattenSeq(inFlight'[i]) \o buffer'[i])
    BY <2>1, Regroup, ZenonT(40)
  <2> QED BY <1>2, <2>2, <2>3, TakenNext, Zenon DEF Taken
<1>5. SentOnceInOrder'
  <2> SUFFICES ASSUME NEW j \in Instances PROVE accepted'[j] = Taken(j)'
    BY DEF SentOnceInOrder, Taken
  <2>1. accepted[j] = Taken(j) /\ accepted'[j] = accepted[j]
    BY DEF SendInv, SentOnceInOrder, Taken
  <2>2. CASE j # i
    <3>1. inFlight'[j] = inFlight[j] /\ buffer'[j] = buffer[j] /\ sent' = sent
      BY <1>2, <2>2
    <3>2. Taken(j)' = Taken(j)
      BY <3>1, TakenNext, Zenon DEF Taken
    <3> QED BY <2>1, <3>2
  <2> QED BY <1>4, <2>1, <2>2
<1>6. Fresh'
  BY DEF SendInv, Fresh
<1> QED BY <1>3, <1>5, <1>6 DEF SendInv

\* An event is exported: it is dropped, or is the last the exporter has taken.
LEMMA Exported ==
  ASSUME SendInv, NEW e \in Events, Export(e)
  PROVE  SendInv'
<1> DEFINE i == InstanceOf(e)
           b == Append(buffer[i], e)
           one == <<e>>
<1>0. MeshType /\ i \in Instances /\ BufferSize \in Nat
  BY Given DEF SendInv
<1>1. /\ e \notin exported /\ exported' = exported \cup {e}
      /\ UNCHANGED <<announcer, disposed, sent, arrived>>
      /\ \/ UNCHANGED <<accepted, timer, buffer, inFlight>>
         \/ /\ i \notin disposed /\ Len(buffer[i]) < BufferSize
            /\ accepted' = [accepted EXCEPT ![i] = Append(@, e)] /\ timer' = timer \cup {i}
            /\ \/ Drain(i, b, inFlight[i])
               \/ buffer' = [buffer EXCEPT ![i] = b] /\ UNCHANGED inFlight
  <2>1. ~(Len(buffer[i]) >= BufferSize) => Len(buffer[i]) < BufferSize
    BY <1>0, Lines
  <2> QED BY <2>1 DEF Export, traceVars
<1>2. CASE UNCHANGED <<accepted, timer, buffer, inFlight>>
  <2>1. MeshType' /\ SentOnceInOrder'
    BY <1>1, <1>2 DEF SendInv, MeshType, SentOnceInOrder
  <2>2. Fresh'
    BY <1>1, <1>2 DEF SendInv, Fresh
  <2> QED BY <2>1, <2>2 DEF SendInv
<1>3. CASE /\ i \notin disposed /\ Len(buffer[i]) < BufferSize
           /\ accepted' = [accepted EXCEPT ![i] = Append(@, e)] /\ timer' = timer \cup {i}
           /\ Drain(i, b, inFlight[i]) \/ (buffer' = [buffer EXCEPT ![i] = b] /\ UNCHANGED inFlight)
  <2>1. /\ sent[i] \in Seq(Events) /\ buffer[i] \in Seq(Events) /\ accepted[i] \in Seq(Events)
        /\ inFlight[i] \in Seq(Seq(Events)) /\ Len(inFlight[i]) <= 1 /\ FlattenSeq(inFlight[i]) \in Seq(Events)
        /\ \A k \in DOMAIN inFlight[i] : Len(inFlight[i][k]) <= BatchSize
    BY <1>0, Lines
  <2>2. b \in Seq(Events) /\ Len(b) <= BufferSize /\ b = buffer[i] \o one /\ one \in Seq(Events)
        /\ IsInjective(one) /\ ToSet(one) = {e}
    <3>1. b \in Seq(Events) /\ Len(b) = Len(buffer[i]) + 1 /\ Len(buffer[i]) \in Nat
      BY <2>1, AppendProperties, LenProperties
    <3>2. b = buffer[i] \o one
      BY <2>1, AppendIsConcat
    <3>3. IsInjective(one) /\ ToSet(one) = {e}
      BY DEF IsInjective, ToSet
    <3> QED BY <1>0, <1>3, <3>1, <3>2, <3>3
  <2> HIDE DEF b, one
  <2>3. /\ buffer' \in [Instances -> Seq(Events)] /\ inFlight' \in [Instances -> Seq(Seq(Events))]
        /\ \A j \in Instances : /\ Len(buffer'[j]) <= BufferSize /\ Len(inFlight'[j]) <= 1
                                /\ \A k \in DOMAIN inFlight'[j] : Len(inFlight'[j][k]) <= BatchSize
        /\ \A j \in Instances \ {i} : buffer'[j] = buffer[j] /\ inFlight'[j] = inFlight[j]
        /\ FlattenSeq(inFlight'[i]) \o buffer'[i] = FlattenSeq(inFlight[i]) \o b
    <3> HIDE DEF i
    <3>1. CASE Drain(i, b, inFlight[i])
      BY <1>0, <2>1, <2>2, <3>1, DrainKeeps
    <3>2. CASE buffer' = [buffer EXCEPT ![i] = b] /\ UNCHANGED inFlight
      BY <1>0, <2>2, <3>2 DEF MeshType
    <3> QED BY <1>3, <3>1, <3>2
  <2>4. /\ accepted' \in [Instances -> Seq(Events)] /\ accepted'[i] = accepted[i] \o one
        /\ \A j \in Instances \ {i} : accepted'[j] = accepted[j]
    <3> HIDE DEF i
    <3>1. Append(accepted[i], e) = accepted[i] \o one /\ Append(accepted[i], e) \in Seq(Events)
      BY <2>1, AppendIsConcat, AppendProperties DEF one
    <3> QED BY <1>0, <1>3, <3>1 DEF MeshType
  <2>5. MeshType'
    BY <1>0, <1>1, <1>3, <2>3, <2>4 DEF MeshType
  <2>6. Taken(i)' = accepted[i] \o one
    <3> DEFINE f == FlattenSeq(inFlight[i])
               g == FlattenSeq(inFlight'[i])
    <3>1. sent[i] \in Seq(Events) /\ f \in Seq(Events) /\ g \in Seq(Events) /\ buffer'[i] \in Seq(Events)
      BY <1>0, <2>1, <2>3, Flat
    <3>2. accepted[i] = (sent[i] \o f) \o buffer[i]
      BY <1>0 DEF SendInv, SentOnceInOrder
    <3>3. Taken(i)' = (sent[i] \o g) \o buffer'[i]
      BY <1>1, TakenNext, Zenon
    <3>4. g \o buffer'[i] = f \o b
      BY <2>3
    <3> HIDE DEF f, g
    <3>5. (sent[i] \o g) \o buffer'[i] = (sent[i] \o f) \o b
      <4>1. b \in Seq(Events)
        BY <2>2
      <4>2. (sent[i] \o g) \o buffer'[i] = sent[i] \o (g \o buffer'[i])
        BY <3>1, Regroup, ZenonT(40)
      <4>3. (sent[i] \o f) \o b = sent[i] \o (f \o b)
        BY <3>1, <4>1, Regroup, ZenonT(40)
      <4> QED BY <3>4, <4>2, <4>3, Zenon
    <3>6. (sent[i] \o f) \o b = ((sent[i] \o f) \o buffer[i]) \o one
      <4>1. sent[i] \o f \in Seq(Events) /\ buffer[i] \in Seq(Events) /\ one \in Seq(Events)
        BY <2>1, <2>2, <3>1
      <4>2. ((sent[i] \o f) \o buffer[i]) \o one = (sent[i] \o f) \o (buffer[i] \o one)
        BY <4>1, Regroup
      <4> QED BY <2>2, <4>2
    <3> QED BY <3>2, <3>3, <3>5, <3>6
  <2>7. SentOnceInOrder'
    <3> SUFFICES ASSUME NEW j \in Instances PROVE accepted'[j] = Taken(j)'
      BY DEF SentOnceInOrder, Taken
    <3>1. CASE j # i
      <4>1. accepted'[j] = accepted[j] /\ inFlight'[j] = inFlight[j] /\ buffer'[j] = buffer[j] /\ sent' = sent
        BY <1>1, <2>3, <2>4, <3>1
      <4>2. Taken(j)' = Taken(j)
        BY <4>1, TakenNext, Zenon DEF Taken
      <4> QED BY <4>1, <4>2 DEF SendInv, SentOnceInOrder, Taken
    <3> QED BY <2>4, <2>6, <3>1
  <2>8. /\ IsInjective(accepted'[i])
        /\ \A x \in ToSet(accepted'[i]) : x \in exported' /\ InstanceOf(x) = i
    <3>2. e \notin ToSet(accepted[i]) /\ IsInjective(accepted[i])
          /\ \A x \in ToSet(accepted[i]) : x \in exported /\ InstanceOf(x) = i
      BY <1>0, <1>1 DEF SendInv, Fresh
    <3>3. IsInjective(accepted[i] \o one)
      BY <2>1, <2>2, <3>2, Joined
    <3>4. ToSet(accepted[i] \o one) = ToSet(accepted[i]) \cup {e}
      BY <2>1, <2>2, Union
    <3> QED BY <1>1, <2>4, <3>2, <3>3, <3>4
  <2>9. Fresh'
    <3> HIDE DEF i
    <3> QED BY <1>1, <2>4, <2>8 DEF SendInv, Fresh
  <2> QED BY <2>5, <2>7, <2>9 DEF SendInv
<1> QED BY <1>1, <1>2, <1>3

\* A batch has been answered or given up: it is sent, and the rest goes on.
LEMMA Flushed ==
  ASSUME SendInv, NEW i \in Instances, FlushEnds(i)
  PROVE  SendInv'
<1>0. MeshType
  BY DEF SendInv
<1>1. /\ sent[i] \in Seq(Events) /\ buffer[i] \in Seq(Events) /\ accepted[i] \in Seq(Events)
      /\ inFlight[i] \in Seq(Seq(Events)) /\ Len(inFlight[i]) <= 1
      /\ Len(buffer[i]) <= BufferSize
  BY <1>0, Lines
<1>2. PICK k \in DOMAIN inFlight[i] :
        /\ arrived' \in {arrived, arrived \o inFlight[i][k]}
        /\ sent' = [sent EXCEPT ![i] = @ \o inFlight[i][k]]
        /\ Drain(i, buffer[i], RemoveAt(inFlight[i], k))
        /\ UNCHANGED <<announcer, timer, disposed, exported, accepted>>
  BY DEF FlushEnds, NextBatch, AddEvents, traceVars
<1> DEFINE batch == inFlight[i][1]
<1>3. /\ k = 1 /\ batch \in Seq(Events) /\ FlattenSeq(inFlight[i]) = batch
      /\ RemoveAt(inFlight[i], k) = <<>>
  <2>1. inFlight[i] # <<>>
    BY <1>2
  <2>2. k = 1 /\ batch \in Seq(Events) /\ FlattenSeq(inFlight[i]) = batch /\ Len(inFlight[i]) = 1
    <3>1. DOMAIN inFlight[i] = {1} /\ batch \in Seq(Events) /\ FlattenSeq(inFlight[i]) = batch
      BY <1>1, <2>1, Flat
    <3>2. Len(inFlight[i]) = 1
      <4> DEFINE n == Len(inFlight[i])
      <4>1. n \in Nat \ {0} /\ n <= 1
        BY <1>1, <2>1, EmptySeq
      <4> HIDE DEF n
      <4>2. n = 1
        BY <4>1
      <4> QED BY <4>2 DEF n
    <3> QED BY <1>2, <3>1, <3>2
  <2>3. SubSeq(inFlight[i], 1, 0) = <<>> /\ SubSeq(inFlight[i], 2, 1) = <<>> /\ <<>> \o <<>> = <<>>
    BY SubSeqEmpty, ConcatEmptySeq
  <2>4. RemoveAt(inFlight[i], k) = SubSeq(inFlight[i], 1, 0) \o SubSeq(inFlight[i], 2, 1)
    BY <2>2 DEF RemoveAt
  <2> QED BY <2>2, <2>3, <2>4
<1> HIDE DEF batch
<1>4. /\ buffer' \in [Instances -> Seq(Events)] /\ inFlight' \in [Instances -> Seq(Seq(Events))]
      /\ \A j \in Instances : /\ Len(buffer'[j]) <= BufferSize /\ Len(inFlight'[j]) <= 1
                              /\ \A n \in DOMAIN inFlight'[j] : Len(inFlight'[j][n]) <= BatchSize
      /\ \A j \in Instances \ {i} : buffer'[j] = buffer[j] /\ inFlight'[j] = inFlight[j]
      /\ FlattenSeq(inFlight'[i]) \o buffer'[i] = FlattenSeq(<<>>) \o buffer[i]
  <2> DEFINE none == <<>>
  <2>1. none \in Seq(Seq(Events)) /\ Len(none) <= 1 /\ \A n \in DOMAIN none : Len(none[n]) <= BatchSize
    OBVIOUS
  <2>2. Drain(i, buffer[i], none)
    BY <1>2, <1>3
  <2> HIDE DEF none
  <2>3. /\ buffer' \in [Instances -> Seq(Events)] /\ inFlight' \in [Instances -> Seq(Seq(Events))]
        /\ \A j \in Instances : /\ Len(buffer'[j]) <= BufferSize /\ Len(inFlight'[j]) <= 1
                                /\ \A n \in DOMAIN inFlight'[j] : Len(inFlight'[j][n]) <= BatchSize
        /\ \A j \in Instances \ {i} : buffer'[j] = buffer[j] /\ inFlight'[j] = inFlight[j]
        /\ FlattenSeq(inFlight'[i]) \o buffer'[i] = FlattenSeq(none) \o buffer[i]
    BY <1>0, <1>1, <2>1, <2>2, DrainKeeps
  <2> QED BY <2>3 DEF none
<1>5. /\ sent' \in [Instances -> Seq(Events)] /\ sent'[i] = sent[i] \o batch
      /\ \A j \in Instances \ {i} : sent'[j] = sent[j]
  <2>1. sent[i] \o batch \in Seq(Events)
    BY <1>1, <1>3
  <2>2. sent' = [sent EXCEPT ![i] = sent[i] \o batch]
    BY <1>2, <1>3 DEF batch
  <2> QED BY <1>0, <2>1, <2>2 DEF MeshType
<1>6. MeshType'
  BY <1>0, <1>2, <1>4, <1>5 DEF MeshType
<1>7. accepted[i] = (sent[i] \o batch) \o buffer[i]
  BY <1>3 DEF SendInv, SentOnceInOrder
<1>8. SentOnceInOrder'
  <2> SUFFICES ASSUME NEW j \in Instances PROVE accepted'[j] = Taken(j)'
    BY DEF SentOnceInOrder, Taken
  <2>1. CASE j # i
    <3>1. accepted'[j] = accepted[j] /\ inFlight'[j] = inFlight[j] /\ buffer'[j] = buffer[j] /\ sent'[j] = sent[j]
      BY <1>2, <1>4, <1>5, <2>1
    <3>2. Taken(j)' = Taken(j)
      BY <3>1, TakenNext, Zenon DEF Taken
    <3> QED BY <3>1, <3>2 DEF SendInv, SentOnceInOrder, Taken
  <2>2. CASE j = i
    <3> DEFINE g == FlattenSeq(inFlight'[i])
    <3>1. g \in Seq(Events) /\ buffer'[i] \in Seq(Events) /\ sent'[i] \in Seq(Events)
      BY <1>4, <1>5, Flat
    <3>2. g \o buffer'[i] = buffer[i]
      <4>1. FlattenSeq(<<>>) = <<>>
        BY DEF FlattenSeq
      <4>2. <<>> \o buffer[i] = buffer[i]
        BY <1>1, ConcatEmptySeq
      <4> QED BY <1>4, <4>1, <4>2
    <3>3. Taken(i)' = (sent'[i] \o g) \o buffer'[i]
      BY TakenNext, Zenon
    <3> HIDE DEF g
    <3>4. (sent'[i] \o g) \o buffer'[i] = sent'[i] \o buffer[i]
      <4>1. (sent'[i] \o g) \o buffer'[i] = sent'[i] \o (g \o buffer'[i])
        BY <3>1, Regroup, ZenonT(40)
      <4> QED BY <3>2, <4>1, Zenon
    <3>5. accepted'[i] = sent'[i] \o buffer[i]
      BY <1>2, <1>5, <1>7, Zenon
    <3> QED BY <2>2, <3>3, <3>4, <3>5
  <2> QED BY <2>1, <2>2
<1>9. /\ IsInjective(batch) /\ ToSet(sent[i]) \cap ToSet(batch) = {}
      /\ \A e \in ToSet(batch) : InstanceOf(e) = i
  <2>1. IsInjective((sent[i] \o batch) \o buffer[i])
    BY <1>7 DEF SendInv, Fresh
  <2>2. /\ IsInjective(batch) /\ ToSet(sent[i]) \cap ToSet(batch) = {}
        /\ ToSet(batch) \subseteq ToSet((sent[i] \o batch) \o buffer[i])
    BY <1>1, <1>3, <2>1, Apart
  <2> QED BY <1>7, <2>2 DEF SendInv, Fresh
<1>10. ToSet(sent'[i]) = ToSet(sent[i]) \cup ToSet(batch)
  BY <1>1, <1>3, <1>5, Union
<1>11. \A e \in Events : ToSet(sent[InstanceOf(e)]) \subseteq ToSet(sent'[InstanceOf(e)])
  <2> TAKE e \in Events
  <2>1. InstanceOf(e) \in Instances
    BY Given
  <2>2. CASE InstanceOf(e) = i
    BY <1>10, <2>2
  <2>3. CASE InstanceOf(e) # i
    BY <1>5, <2>1, <2>3
  <2> QED BY <2>2, <2>3
<1>12. /\ arrived \in Seq(Events) /\ IsInjective(arrived)
       /\ \A e \in ToSet(arrived) : e \in Events /\ e \in ToSet(sent[InstanceOf(e)])
  <2>1. arrived \in Seq(Events)
    BY DEF SendInv, Fresh
  <2>2. \A e \in ToSet(arrived) : e \in Events
    BY <2>1 DEF ToSet
  <2> QED BY <2>1, <2>2 DEF SendInv, Fresh
<1>13. /\ arrived' \in Seq(Events) /\ IsInjective(arrived')
       /\ \A e \in ToSet(arrived') : e \in ToSet(sent'[InstanceOf(e)])
  <2>1. CASE arrived' = arrived
    BY <1>11, <1>12, <2>1
  <2>2. CASE arrived' = arrived \o batch
    <3>1. ToSet(arrived) \cap ToSet(batch) = {}
      BY <1>9, <1>12
    <3>2. IsInjective(arrived \o batch)
      BY <1>3, <1>9, <1>12, <3>1, Joined
    <3>3. ToSet(arrived \o batch) = ToSet(arrived) \cup ToSet(batch)
      BY <1>3, <1>12, Union
    <3>4. arrived \o batch \in Seq(Events)
      BY <1>3, <1>12
    <3>5. \A e \in ToSet(arrived) : e \in ToSet(sent'[InstanceOf(e)])
      BY <1>11, <1>12
    <3>6. \A e \in ToSet(batch) : e \in ToSet(sent'[InstanceOf(e)])
      BY <1>9, <1>10
    <3> QED BY <2>2, <3>2, <3>3, <3>4, <3>5, <3>6
  <2> QED BY <1>2, <1>3, <2>1, <2>2 DEF batch
<1>14. Fresh'
  BY <1>2, <1>13 DEF SendInv, Fresh
<1> QED BY <1>6, <1>8, <1>14 DEF SendInv


LEMMA SendInit == ASSUME Init PROVE SendInv
<1>1. <<>> \in Seq(Events) /\ <<>> \in Seq(Seq(Events)) /\ ToSet(<<>>) = {} /\ IsInjective(<<>>) /\ Len(<<>>) = 0
      /\ DOMAIN <<>> = {}
  BY DEF ToSet, IsInjective
<1>2. BufferSize \in Nat
  BY Given
<1>3. MeshType
  BY <1>1, <1>2 DEF Init, MeshType
<1>4. SentOnceInOrder
  <2> SUFFICES ASSUME NEW i \in Instances PROVE accepted[i] = (sent[i] \o FlattenSeq(inFlight[i])) \o buffer[i]
    BY DEF SentOnceInOrder
  <2>1. accepted[i] = <<>> /\ sent[i] = <<>> /\ inFlight[i] = <<>> /\ buffer[i] = <<>>
    BY DEF Init
  <2>2. FlattenSeq(<<>>) = <<>>
    BY DEF FlattenSeq
  <2>3. <<>> \o <<>> = <<>>
    BY ConcatEmptySeq
  <2> QED BY <2>1, <2>2, <2>3
<1>5. Fresh
  <2>1. \A i \in Instances : accepted[i] = <<>>
    BY DEF Init
  <2>2. arrived = <<>>
    BY DEF Init
  <2> QED BY <1>1, <2>1, <2>2 DEF Fresh
<1> QED BY <1>3, <1>4, <1>5 DEF SendInv

LEMMA SendStep == ASSUME SendInv, [Next]_vars PROVE SendInv'
<1> USE DEF At, exporterVars, graphVars, traceVars
<1>0. /\ announcer \in [Instances -> {"registering", "retrying", "announced", "stopped"}]
      /\ timer \subseteq Instances \ disposed
  BY DEF SendInv, MeshType
<1>1. ASSUME NEW i \in Instances, RegisterEnds(i) PROVE SendInv'
  <2>1. \E x \in {"announced", "retrying"} : announcer' = [announcer EXCEPT ![i] = x]
    BY <1>1 DEF RegisterEnds
  <2>2. UNCHANGED <<exporterVars, traceVars>>
    BY <1>1 DEF RegisterEnds
  <2>3. announcer' \in [Instances -> {"registering", "retrying", "announced", "stopped"}]
    BY <1>0, <2>1
  <2> QED BY <1>0, <2>2, <2>3, NothingSent
<1>2. ASSUME NEW i \in Instances, RetryDelayEnds(i) PROVE SendInv'
  <2>1. announcer' \in [Instances -> {"registering", "retrying", "announced", "stopped"}]
    BY <1>0, <1>2 DEF RetryDelayEnds
  <2> QED BY <1>0, <1>2, <2>1, NothingSent DEF RetryDelayEnds
<1>3. ASSUME NEW i \in Instances, TimerFires(i) PROVE SendInv'
  <2>1. /\ Drain(i, buffer[i], inFlight[i])
        /\ UNCHANGED <<announcer, timer, disposed, exported, accepted, sent, arrived>>
    BY <1>3 DEF TimerFires
  <2> QED BY <1>0, <2>1, Drained
<1>4. ASSUME NEW i \in Instances, FlushEnds(i) PROVE SendInv'
  BY <1>4, Flushed
<1>5. ASSUME NEW i \in Instances, Dispose(i) PROVE SendInv'
  <2>1. /\ Drain(i, buffer[i], inFlight[i])
        /\ UNCHANGED <<exported, accepted, sent, arrived>>
        /\ announcer' = [announcer EXCEPT ![i] = "stopped"]
        /\ timer' = timer \ {i} /\ disposed' = disposed \cup {i}
    BY <1>5 DEF Dispose
  <2>2. announcer' \in [Instances -> {"registering", "retrying", "announced", "stopped"}]
    BY <1>0, <2>1
  <2>3. timer' \subseteq Instances \ disposed'
    BY <1>0, <2>1
  <2> QED BY <2>1, <2>2, <2>3, Drained
<1>6. ASSUME NEW e \in Events, Export(e) PROVE SendInv'
  BY <1>6, Exported
<1>7. CASE CollectorRestarts
  BY <1>0, <1>7, NothingSent DEF CollectorRestarts
<1>8. CASE UNCHANGED vars
  BY <1>0, <1>8, NothingSent DEF vars
<1> QED BY <1>1, <1>2, <1>3, <1>4, <1>5, <1>6, <1>7, <1>8 DEF Next, SendSteps

\* However exports, timers, disposals, lost calls and restarts meet, each event
\* HttpMeshTraceExporter buffered is sent once and in order.
THEOREM MeshSentOnceInOrder == Spec => []SentOnceInOrder
<1>1. Init => SendInv
  BY SendInit
<1>2. SendInv /\ [Next]_vars => SendInv'
  BY SendStep
<1>3. SendInv => SentOnceInOrder
  BY DEF SendInv
<1> QED BY <1>1, <1>2, <1>3, PTL DEF Spec

-----------------------------------------------------------------------------
(* The collector's window.                                                 *)

LEMMA Wraps ==
  \A x \in Nat : /\ x < Capacity => x % Capacity = x
                 /\ Capacity <= x /\ x < 2 * Capacity => x % Capacity = x - Capacity
<1>1. Capacity \in Nat /\ Capacity > 0
  BY Given
<1>2. \A x \in Nat : x < Capacity => x % Capacity = x
  BY <1>1
<1>3. \A x \in Nat : Capacity <= x /\ x < 2 * Capacity => x % Capacity = x - Capacity
  BY <1>1
<1> QED BY <1>2, <1>3

LEMMA Placed ==
  ASSUME NEW l \in Nat, NEW n \in Nat, n <= l, NEW x \in 0 .. n, NEW j \in 1 .. n
  PROVE  Place(l, n, x, j) \in 1 .. l
BY DEF Place

\* A full ring moves by one.
LEMMA Moved ==
  ASSUME NEW l \in Nat, NEW n \in Nat, n <= l, NEW x \in 0 .. n - 1, NEW j \in 1 .. n
  PROVE  /\ x + 1 # n => Place(l + 1, n, x + 1, j) = IF j = x + 1 THEN l + 1 ELSE Place(l, n, x, j)
         /\ x + 1 = n => Place(l + 1, n, 0, j) = IF j = x + 1 THEN l + 1 ELSE Place(l, n, x, j)
BY DEF Place

\* The window's events had arrived.
LEMMA WindowOf ==
  ASSUME NEW c, NEW a \in Seq(Events), Window(c, a)
  PROVE  /\ c.ring \in Seq(Events) /\ DOMAIN c.ring = 1 .. Len(c.ring) /\ Len(c.ring) \in Nat
         /\ Len(c.ring) <= Capacity /\ Len(c.ring) <= Len(a)
         /\ ToSet(c.ring) \subseteq ToSet(a)
<1> DEFINE n == Len(c.ring)
<1>1. /\ c.ring \in Seq(Events) /\ DOMAIN c.ring = 1 .. n /\ n \in Nat
      /\ Len(a) \in Nat /\ DOMAIN a = 1 .. Len(a) /\ Capacity \in Nat \ {0}
  <2>1. c.ring \in Seq(Events)
    BY DEF Window
  <2> QED BY <2>1, Given, LenProperties
<1>2. /\ n = IF Len(a) < Capacity THEN Len(a) ELSE Capacity
      /\ c.next \in 0 .. Capacity - 1 /\ (n < Capacity => c.next = 0)
      /\ \A j \in 1 .. n : c.ring[j] = a[Place(Len(a), n, c.next, j)]
  BY DEF Window
<1>3. n <= Capacity /\ n <= Len(a) /\ c.next \in 0 .. n
  <2> DEFINE l == Len(a)
             x == c.next
  <2>1. /\ n = IF l < Capacity THEN l ELSE Capacity
        /\ x \in 0 .. Capacity - 1 /\ (n < Capacity => x = 0)
    BY <1>2
  <2>2. n \in Nat /\ l \in Nat /\ Capacity \in Nat
    BY <1>1
  <2> HIDE DEF n, l, x
  <2>3. n <= Capacity /\ n <= l /\ x \in 0 .. n
    BY <2>1, <2>2
  <2> QED BY <2>3 DEF l, x
<1> HIDE DEF n
<1>4. ASSUME NEW j \in 1 .. n PROVE c.ring[j] \in ToSet(a)
  <2> DEFINE k == Place(Len(a), n, c.next, j)
  <2>1. c.ring[j] = a[k]
    BY <1>2
  <2>2. k \in 1 .. Len(a)
    <3>1. Len(a) \in Nat /\ n \in Nat
      BY <1>1
    <3> QED BY <1>3, <3>1, Placed
  <2> HIDE DEF k
  <2> QED BY <1>1, <2>1, <2>2 DEF ToSet
<1>5. ToSet(c.ring) \subseteq ToSet(a)
  BY <1>1, <1>4 DEF ToSet
<1> QED BY <1>1, <1>3, <1>5 DEF n

\* addEvents moves the window by one.
LEMMA WindowMoves ==
  ASSUME NEW c, NEW a \in Seq(Events), Window(c, a), NEW e \in Events, e \notin ToSet(a)
  PROVE  Window(AddEvent(c, e), Append(a, e))
<1> DEFINE n == Len(c.ring)
           d == AddEvent(c, e)
           b == Append(a, e)
           l == Len(a)
<1>1. /\ c.ring \in Seq(Events) /\ DOMAIN c.ring = 1 .. n /\ n \in Nat
      /\ l \in Nat /\ DOMAIN a = 1 .. l /\ Capacity \in Nat \ {0}
      /\ n <= Capacity /\ n <= l
  BY WindowOf, Given, LenProperties
<1>2. /\ n = IF l < Capacity THEN l ELSE Capacity
      /\ c.next \in 0 .. Capacity - 1 /\ (n < Capacity => c.next = 0)
      /\ \A j \in 1 .. n : c.ring[j] = a[Place(l, n, c.next, j)]
      /\ IsInjective(c.ring)
  BY DEF Window
<1>3. /\ b \in Seq(Events) /\ Len(b) = l + 1 /\ b[l + 1] = e
      /\ \A k \in 1 .. l : b[k] = a[k]
  BY AppendProperties
<1>4. \A j \in 1 .. n : c.ring[j] # e
  BY <1>1, WindowOf DEF ToSet
<1>5. /\ d.ring = IF n = Capacity THEN [c.ring EXCEPT ![c.next + 1] = e] ELSE Append(c.ring, e)
      /\ d.next = IF n = Capacity THEN (c.next + 1) % Capacity ELSE c.next
  BY DEF AddEvent
<1> HIDE DEF d, b, l
<1>6. ASSUME n # Capacity PROVE Window(d, b)
  <2>1. n < Capacity /\ n = l /\ c.next = 0 /\ d.next = 0 /\ d.ring = Append(c.ring, e)
    BY <1>1, <1>2, <1>5, <1>6
  <2>2. /\ d.ring \in Seq(Events) /\ Len(d.ring) = n + 1 /\ d.ring[n + 1] = e
        /\ \A k \in 1 .. n : d.ring[k] = c.ring[k]
        /\ DOMAIN d.ring = 1 .. n + 1
    <3>1. Append(c.ring, e) \in Seq(Events) /\ Len(Append(c.ring, e)) = Len(c.ring) + 1
          /\ Append(c.ring, e)[Len(c.ring) + 1] = e
          /\ \A k \in 1 .. Len(c.ring) : Append(c.ring, e)[k] = c.ring[k]
      BY <1>1, AppendProperties
    <3> QED BY <2>1, <3>1, LenProperties
  <2> HIDE DEF n
  <2>3. IsInjective(d.ring)
    <3>1. \A j, k \in 1 .. n : c.ring[j] = c.ring[k] => j = k
      BY <1>1, <1>2 DEF IsInjective
    <3>2. \A j, k \in 1 .. n + 1 : d.ring[j] = d.ring[k] => j = k
      <4> TAKE j, k \in 1 .. n + 1
      <4>1. (j = n + 1 \/ j \in 1 .. n) /\ (k = n + 1 \/ k \in 1 .. n)
        BY <1>1
      <4> QED BY <1>4, <2>2, <3>1, <4>1
    <3> QED BY <2>2, <3>2 DEF IsInjective
  <2>4. ASSUME NEW j \in 1 .. n + 1 PROVE d.ring[j] = b[Place(l + 1, n + 1, 0, j)]
    <3>1. Place(n, n, 0, j) = j /\ Place(n + 1, n + 1, 0, j) = j
      BY <1>1 DEF Place
    <3>2. d.ring[j] = b[j]
      <4>1. CASE j = n + 1
        BY <1>3, <2>1, <2>2, <4>1
      <4>2. CASE j \in 1 .. n
        <5>1. c.ring[j] = a[j]
          BY <1>2, <2>1, <3>1, <4>2
        <5> QED BY <1>3, <2>1, <2>2, <4>2, <5>1
      <4> QED BY <1>1, <4>1, <4>2
    <3> QED BY <2>1, <3>1, <3>2
  <2>5. n + 1 = IF l + 1 < Capacity THEN l + 1 ELSE Capacity
    BY <1>1, <2>1
  <2>6. 0 \in 0 .. Capacity - 1
    BY <1>1
  <2>7. \A j \in 1 .. Len(d.ring) : d.ring[j] = b[Place(Len(b), Len(d.ring), d.next, j)]
    BY <1>3, <2>1, <2>2, <2>4
  <2>8. /\ Len(d.ring) = IF Len(b) < Capacity THEN Len(b) ELSE Capacity
        /\ d.next \in 0 .. Capacity - 1 /\ (Len(d.ring) < Capacity => d.next = 0)
    BY <1>3, <2>1, <2>2, <2>5, <2>6
  <2>9. d.ring \in Seq(Events)
    BY <2>2
  <2> QED BY <2>3, <2>7, <2>8, <2>9, Zenon DEF Window
<1>7. ASSUME n = Capacity PROVE Window(d, b)
  <2> DEFINE x == c.next + 1
  <2>1. x \in 1 .. n /\ d.ring = [c.ring EXCEPT ![x] = e] /\ l >= Capacity
    BY <1>1, <1>2, <1>5, <1>7
  <2>2. d.next = IF x = Capacity THEN 0 ELSE x
    <3>1. d.next = x % Capacity /\ x \in Nat /\ x <= Capacity
      BY <1>1, <1>5, <1>7, <2>1
    <3> QED BY <1>1, <3>1, Wraps
  <2>3. /\ d.ring \in Seq(Events) /\ Len(d.ring) = n /\ DOMAIN d.ring = 1 .. n
        /\ d.ring[x] = e /\ \A k \in 1 .. n \ {x} : d.ring[k] = c.ring[k]
    <3>1. DOMAIN d.ring = 1 .. n /\ d.ring[x] = e /\ \A k \in 1 .. n \ {x} : d.ring[k] = c.ring[k]
      BY <1>1, <2>1
    <3>2. d.ring \in Seq(Events) /\ Len(d.ring) = n
      BY <1>1, <2>1, ExceptSeq
    <3> QED BY <3>1, <3>2
  <2> HIDE DEF n
  <2>4. IsInjective(d.ring)
    <3>1. \A j, k \in 1 .. n : c.ring[j] = c.ring[k] => j = k
      BY <1>1, <1>2 DEF IsInjective
    <3>2. \A j, k \in 1 .. n : d.ring[j] = d.ring[k] => j = k
      BY <1>4, <2>3, <3>1
    <3> QED BY <2>3, <3>2 DEF IsInjective
  <2>5. ASSUME NEW j \in 1 .. n PROVE d.ring[j] = b[Place(l + 1, n, d.next, j)]
    <3>1. c.next \in 0 .. n - 1 /\ d.next = IF c.next + 1 = n THEN 0 ELSE c.next + 1
      BY <1>2, <1>7, <2>2
    <3>2. Place(l + 1, n, d.next, j) = IF j = x THEN l + 1 ELSE Place(l, n, c.next, j)
      <4>1. l \in Nat /\ n \in Nat /\ n <= l
        BY <1>1
      <4> DEFINE z == c.next
      <4>2. z \in 0 .. n - 1 /\ d.next = IF z + 1 = n THEN 0 ELSE z + 1
        BY <3>1
      <4> HIDE DEF z
      <4>3. /\ z + 1 # n => Place(l + 1, n, z + 1, j) = IF j = z + 1 THEN l + 1 ELSE Place(l, n, z, j)
            /\ z + 1 = n => Place(l + 1, n, 0, j) = IF j = z + 1 THEN l + 1 ELSE Place(l, n, z, j)
        <5>1. z \in 0 .. n - 1
          BY <4>2
        <5> QED BY <4>1, <5>1 DEF Place
      <4>4. Place(l + 1, n, d.next, j) = IF j = z + 1 THEN l + 1 ELSE Place(l, n, z, j)
        BY <4>2, <4>3
      <4> QED BY <4>4 DEF z
    <3>3. CASE j = x
      BY <1>3, <2>3, <3>2, <3>3
    <3>4. CASE j # x
      <4> DEFINE k == Place(l, n, c.next, j)
      <4>1. k \in 1 .. l
        <5>1. c.next \in 0 .. n
          BY <1>1, <3>1
        <5> QED BY <1>1, <5>1, Placed
      <4>2. c.ring[j] = a[k]
        BY <1>2
      <4> HIDE DEF k
      <4>3. d.ring[j] = c.ring[j] /\ b[k] = a[k]
        BY <1>3, <2>3, <3>4, <4>1
      <4> QED BY <3>2, <3>4, <4>2, <4>3 DEF k
    <3> QED BY <3>3, <3>4
  <2>6. n = IF l + 1 < Capacity THEN l + 1 ELSE Capacity
    BY <1>1, <1>7, <2>1
  <2>7. d.next \in 0 .. Capacity - 1 /\ ~(n < Capacity)
    BY <1>1, <1>7, <2>1, <2>2
  <2>8. \A j \in 1 .. Len(d.ring) : d.ring[j] = b[Place(Len(b), Len(d.ring), d.next, j)]
    BY <1>3, <2>3, <2>5
  <2>9. /\ Len(d.ring) = IF Len(b) < Capacity THEN Len(b) ELSE Capacity
        /\ d.next \in 0 .. Capacity - 1 /\ (Len(d.ring) < Capacity => d.next = 0)
    BY <1>3, <2>3, <2>6, <2>7
  <2>10. d.ring \in Seq(Events)
    BY <2>3
  <2> QED BY <2>4, <2>8, <2>9, <2>10, Zenon DEF Window
<1> QED BY <1>6, <1>7 DEF d, b

-----------------------------------------------------------------------------
(* The collector's index and issues.                                       *)

\* The index follows the ring, since no span arrives twice.
LEMMA IndexMoves ==
  ASSUME NEW c, NEW a \in Seq(Events), Window(c, a), Indexed(c), NEW e \in Events, e \notin ToSet(a)
  PROVE  Indexed(AddEvent(c, e))
<1> DEFINE n == Len(c.ring)
           d == AddEvent(c, e)
           x == c.next + 1
           D == (DOMAIN c.index \ Evicted(c)) \cup {e}
<1>1. /\ c.ring \in Seq(Events) /\ DOMAIN c.ring = 1 .. n /\ n \in Nat /\ n <= Capacity
      /\ Capacity \in Nat \ {0} /\ ToSet(c.ring) \subseteq ToSet(a)
  BY WindowOf, Given
<1>2. /\ DOMAIN c.index = ToSet(c.ring)
      /\ \A y \in DOMAIN c.index : c.index[y] = ServiceOf(InstanceOf(y))
  BY DEF Indexed
<1>3. e \notin ToSet(c.ring)
  BY <1>1
<1>4. /\ d.ring = IF n = Capacity THEN [c.ring EXCEPT ![x] = e] ELSE Append(c.ring, e)
      /\ d.index = [y \in D |-> IF y = e THEN ServiceOf(InstanceOf(e)) ELSE c.index[y]]
  BY DEF AddEvent
<1>5. ToSet(d.ring) = D
  <2>1. CASE n # Capacity
    <3>1. n < Capacity
      BY <1>1, <2>1
    <3>2. D = ToSet(c.ring) \cup {e}
      BY <1>2, <3>1 DEF Evicted
    <3>3. /\ DOMAIN Append(c.ring, e) = 1 .. n + 1 /\ Append(c.ring, e)[n + 1] = e
          /\ \A k \in 1 .. n : Append(c.ring, e)[k] = c.ring[k]
      <4>1. /\ Append(c.ring, e) \in Seq(Events) /\ Len(Append(c.ring, e)) = n + 1
            /\ Append(c.ring, e)[n + 1] = e
            /\ \A k \in 1 .. n : Append(c.ring, e)[k] = c.ring[k]
        BY <1>1, AppendProperties
      <4> QED BY <4>1, LenProperties
    <3> HIDE DEF n
    <3>4. d.ring = Append(c.ring, e)
      BY <1>4, <2>1
    <3> HIDE DEF d, D
    <3>5. /\ DOMAIN d.ring = 1 .. n + 1 /\ d.ring[n + 1] = e
          /\ \A k \in 1 .. n : d.ring[k] = c.ring[k]
      BY <3>3, <3>4
    <3>6. 1 .. n + 1 = 1 .. n \cup {n + 1}
      BY <1>1
    <3> QED BY <1>1, <3>2, <3>5, <3>6 DEF ToSet
  <2>2. CASE n = Capacity
    <3>1. x \in 1 .. n /\ ~(n < Capacity)
      BY <1>1, <2>2 DEF Window
    <3>2. D = (ToSet(c.ring) \ {c.ring[x]}) \cup {e}
      BY <1>2, <3>1 DEF Evicted
    <3>3. d.ring = [c.ring EXCEPT ![x] = e]
      BY <1>4, <2>2
    <3>4. \A j, k \in 1 .. n : c.ring[j] = c.ring[k] => j = k
      BY <1>1 DEF Window, IsInjective
    <3> HIDE DEF d, D, x, n
    <3>5. DOMAIN d.ring = 1 .. n /\ d.ring[x] = e /\ \A k \in 1 .. n \ {x} : d.ring[k] = c.ring[k]
      BY <1>1, <3>1, <3>3
    <3> QED BY <1>1, <3>1, <3>2, <3>4, <3>5 DEF ToSet
  <2> QED BY <2>1, <2>2
<1>6. DOMAIN d.index = ToSet(d.ring)
  BY <1>4, <1>5
<1>7. \A y \in D : y = e \/ y \in DOMAIN c.index
  OBVIOUS
<1> HIDE DEF d, D
<1>8. \A y \in DOMAIN d.index : d.index[y] = ServiceOf(InstanceOf(y))
  BY <1>2, <1>4, <1>7
<1>9. Indexed(d)
  BY <1>6, <1>8 DEF Indexed
<1> QED BY <1>9 DEF d

LEMMA RepeatedIssue ==
  ASSUME NEW x \in Issue, NEW at \in Nat
  PROVE  /\ Repeated(x, at) \in Issue
         /\ Repeated(x, at).service = x.service /\ Repeated(x, at).topic = x.topic
<1> DEFINE seen == IF at > x.lastSeen THEN at ELSE x.lastSeen
           one == [x EXCEPT !.count = x.count + 1]
           y == Repeated(x, at)
<1>1. seen \in Nat /\ x.count + 1 \in Nat
  BY DEF Issue
<1>2. y = [one EXCEPT !.lastSeen = seen]
  BY DEF Repeated, Issue
<1> HIDE DEF seen, y
<1>3. one \in Issue /\ one.service = x.service /\ one.topic = x.topic
  BY <1>1 DEF Issue
<1> HIDE DEF one
<1>4. y \in Issue /\ y.service = one.service /\ y.topic = one.topic
  BY <1>1, <1>2, <1>3 DEF Issue
<1> QED BY <1>3, <1>4 DEF y

\* mergeIssue changes an issue or makes one, within the limit.
LEMMA MergedListed ==
  ASSUME NEW issues, Listed(issues), NEW s \in Services, NEW t \in Topics, NEW at \in Nat, Blamed(s, t)
  PROVE  Listed(Merged(issues, s, t, at))
<1> DEFINE k == SelectInSeq(issues, LAMBDA x : x.service = s /\ x.topic = t)
           oldest == CHOOSE n \in DOMAIN issues : \A x \in DOMAIN issues :
                       \/ issues[n].lastSeen < issues[x].lastSeen
                       \/ issues[n].lastSeen = issues[x].lastSeen /\ n <= x
           kept == IF Len(issues) < MaxIssues THEN issues ELSE RemoveAt(issues, oldest)
           new == [service |-> s, topic |-> t, count |-> 1, lastSeen |-> at]
           merged == [issues EXCEPT ![k] = Repeated(@, at)]
<1>1. /\ issues \in Seq(Issue) /\ DOMAIN issues = 1 .. Len(issues) /\ Len(issues) \in Nat
      /\ Len(issues) <= MaxIssues /\ MaxIssues \in Nat \ {0}
      /\ \A j \in DOMAIN issues : issues[j] \in Issue /\ Blamed(issues[j].service, issues[j].topic)
  BY Given DEF Listed
<1>2. Merged(issues, s, t, at) = IF k # 0 THEN merged ELSE Append(kept, new)
  BY DEF Merged
<1>3. k # 0 => k \in DOMAIN issues
  <2> DEFINE I == {i \in 1 .. Len(issues) : issues[i].service = s /\ issues[i].topic = t}
  <2>1. k = IF I # {} THEN Min(I) ELSE 0
    BY DEF SelectInSeq
  <2>2. I # {} => Min(I) \in I
    <3> SUFFICES ASSUME I # {} PROVE Min(I) \in I
      OBVIOUS
    <3>1. I \subseteq Nat
      OBVIOUS
    <3> HIDE DEF I
    <3>2. \E x \in I : \A y \in I : x <= y
      BY <3>1, Least
    <3> QED BY <3>2 DEF Min
  <2>3. I \subseteq DOMAIN issues
    BY <1>1
  <2> HIDE DEF I, k
  <2> QED BY <2>1, <2>2, <2>3
<1> HIDE DEF k
<1>4. ASSUME k # 0 PROVE Listed(merged)
  <2> DEFINE old == issues[k]
             one == Repeated(old, at)
  <2>1. k \in 1 .. Len(issues) /\ old \in Issue /\ Blamed(old.service, old.topic)
    BY <1>1, <1>3, <1>4
  <2>2. merged = [issues EXCEPT ![k] = one]
    OBVIOUS
  <2> HIDE DEF old, merged
  <2>3. one \in Issue /\ one.service = old.service /\ one.topic = old.topic
    BY <2>1, RepeatedIssue
  <2> HIDE DEF one
  <2>4. /\ merged \in Seq(Issue) /\ Len(merged) = Len(issues)
        /\ \A j \in 1 .. Len(issues) : merged[j] = IF j = k THEN one ELSE issues[j]
    BY <1>1, <2>1, <2>2, <2>3, ExceptSeq
  <2>5. DOMAIN merged = 1 .. Len(issues)
    BY <2>4, LenProperties
  <2>6. \A j \in DOMAIN merged : Blamed(merged[j].service, merged[j].topic)
    BY <1>1, <2>1, <2>3, <2>4, <2>5
  <2> QED BY <1>1, <2>4, <2>6 DEF Listed
<1>5. ASSUME NEW f \in Seq(Issue), Len(f) < MaxIssues,
             \A j \in DOMAIN f : Blamed(f[j].service, f[j].topic)
      PROVE  Listed(Append(f, new))
  <2>1. new \in Issue /\ new.service = s /\ new.topic = t
    BY DEF Issue
  <2> HIDE DEF new
  <2>2. /\ Append(f, new) \in Seq(Issue) /\ Len(Append(f, new)) = Len(f) + 1
        /\ Append(f, new)[Len(f) + 1] = new
        /\ \A j \in 1 .. Len(f) : Append(f, new)[j] = f[j]
    BY <2>1, AppendProperties
  <2>3. Len(f) \in Nat /\ DOMAIN f = 1 .. Len(f) /\ DOMAIN Append(f, new) = 1 .. Len(f) + 1
    BY <2>2, LenProperties
  <2>4. \A j \in 1 .. Len(f) + 1 : j \in 1 .. Len(f) \/ j = Len(f) + 1
    BY <2>3
  <2>5. \A j \in DOMAIN Append(f, new) : Blamed(Append(f, new)[j].service, Append(f, new)[j].topic)
    BY <1>5, <2>1, <2>2, <2>3, <2>4
  <2>6. Len(Append(f, new)) <= MaxIssues
    BY <1>1, <1>5, <2>2, <2>3
  <2> QED BY <2>2, <2>5, <2>6 DEF Listed
<1>6. /\ kept \in Seq(Issue) /\ Len(kept) < MaxIssues
      /\ \A j \in DOMAIN kept : Blamed(kept[j].service, kept[j].topic)
  <2>1. CASE Len(issues) < MaxIssues
    BY <1>1, <2>1
  <2>2. CASE ~(Len(issues) < MaxIssues)
    <3>1. oldest \in DOMAIN issues
      <4> DEFINE Seen == {issues[j].lastSeen : j \in DOMAIN issues}
      <4>1. Seen \subseteq Nat /\ Seen # {}
        BY <1>1, <2>2 DEF Issue
      <4> HIDE DEF Seen
      <4>2. PICK m \in Seen : \A y \in Seen : m <= y
        BY <4>1, Least
      <4> DEFINE First == {j \in DOMAIN issues : issues[j].lastSeen = m}
      <4>3. First \subseteq Nat /\ First # {}
        BY <1>1, <4>2 DEF Seen
      <4> HIDE DEF First
      <4>4. PICK n \in First : \A y \in First : n <= y
        BY <4>3, Least
      <4>5. n \in DOMAIN issues /\ issues[n].lastSeen = m
        BY <4>4 DEF First
      <4>6. \A x \in DOMAIN issues : \/ issues[n].lastSeen < issues[x].lastSeen
                                     \/ issues[n].lastSeen = issues[x].lastSeen /\ n <= x
        <5> TAKE x \in DOMAIN issues
        <5>1. m <= issues[x].lastSeen /\ m \in Nat /\ issues[x].lastSeen \in Nat
          BY <1>1, <4>1, <4>2 DEF Seen, Issue
        <5>2. issues[x].lastSeen = m => n <= x
          BY <4>4 DEF First
        <5> QED BY <4>5, <5>1, <5>2
      <4> QED BY <4>5, <4>6
    <3> HIDE DEF oldest
    <3> DEFINE l == SubSeq(issues, 1, oldest - 1)
               r == SubSeq(issues, oldest + 1, Len(issues))
    <3>2. /\ l \in Seq(Issue) /\ Len(l) = oldest - 1
          /\ \A j \in 1 .. oldest - 1 : l[j] = issues[j]
      <4>1. /\ 1 \in Int /\ oldest - 1 \in Int /\ (oldest - 1) - 1 + 1 = oldest - 1
            /\ \A j \in 1 .. oldest - 1 : j \in DOMAIN issues /\ 1 + j - 1 = j
        BY <1>1, <3>1
      <4>2. \A j \in 1 .. oldest - 1 : issues[j] \in Issue
        BY <1>1, <4>1
      <4>3. /\ l \in Seq(Issue) /\ Len(l) = IF 1 <= oldest - 1 THEN (oldest - 1) - 1 + 1 ELSE 0
            /\ \A j \in 1 .. (oldest - 1) - 1 + 1 : l[j] = issues[1 + j - 1]
        BY <4>1, <4>2, SubSeqProperties
      <4> HIDE DEF l
      <4> QED BY <1>1, <3>1, <4>1, <4>3
    <3>3. /\ r \in Seq(Issue) /\ Len(r) = Len(issues) - oldest
          /\ \A j \in 1 .. Len(issues) - oldest : r[j] = issues[oldest + j]
      <4> DEFINE n == Len(issues)
      <4>1. n \in Nat /\ oldest \in 1 .. n
        BY <1>1, <3>1
      <4>2. \A j \in oldest + 1 .. n : issues[j] \in Issue
        BY <1>1, <4>1
      <4>3. /\ oldest + 1 \in Int /\ n \in Int /\ n - (oldest + 1) + 1 = n - oldest
            /\ \A j \in 1 .. n - oldest : (oldest + 1) + j - 1 = oldest + j
        BY <4>1
      <4>4. /\ r \in Seq(Issue) /\ Len(r) = IF oldest + 1 <= n THEN n - (oldest + 1) + 1 ELSE 0
            /\ \A j \in 1 .. n - (oldest + 1) + 1 : r[j] = issues[(oldest + 1) + j - 1]
        BY <4>2, <4>3, SubSeqProperties
      <4> HIDE DEF r, n
      <4>5. r \in Seq(Issue) /\ Len(r) = n - oldest
        BY <4>1, <4>4
      <4>6. \A j \in 1 .. n - oldest : r[j] = issues[oldest + j]
        BY <4>3, <4>4
      <4> QED BY <4>5, <4>6 DEF n
    <3>4. kept = l \o r
      BY <2>2 DEF RemoveAt
    <3> HIDE DEF l, r, kept
    <3>5. /\ l \o r \in Seq(Issue) /\ Len(l \o r) = Len(issues) - 1
          /\ \A j \in 1 .. Len(issues) - 1 : (l \o r)[j] = IF j <= oldest - 1 THEN l[j] ELSE r[j - (oldest - 1)]
      <4>1. /\ l \o r \in Seq(Issue) /\ Len(l \o r) = Len(l) + Len(r)
            /\ \A j \in 1 .. Len(l) + Len(r) : (l \o r)[j] = IF j <= Len(l) THEN l[j] ELSE r[j - Len(l)]
        BY <3>2, <3>3, ConcatProperties
      <4>2. Len(l) + Len(r) = Len(issues) - 1
        BY <1>1, <3>1, <3>2, <3>3
      <4> QED BY <3>2, <4>1, <4>2
    <3>6. \A j \in 1 .. Len(issues) - 1 : \E i \in DOMAIN issues : (l \o r)[j] = issues[i]
      <4> TAKE j \in 1 .. Len(issues) - 1
      <4>1. CASE j <= oldest - 1
        <5>1. j \in 1 .. oldest - 1 /\ j \in DOMAIN issues
          BY <1>1, <3>1, <4>1
        <5> QED BY <3>2, <3>5, <4>1, <5>1
      <4>2. CASE ~(j <= oldest - 1)
        <5> DEFINE i == j - (oldest - 1)
        <5>1. i \in 1 .. Len(issues) - oldest /\ oldest + i \in DOMAIN issues
          BY <1>1, <3>1, <4>2
        <5>2. (l \o r)[j] = r[i]
          BY <3>5, <4>2
        <5> HIDE DEF i
        <5> QED BY <3>3, <5>1, <5>2
      <4> QED BY <4>1, <4>2
    <3>7. DOMAIN kept = 1 .. Len(issues) - 1
      BY <3>4, <3>5, LenProperties
    <3>8. \A j \in DOMAIN kept : Blamed(kept[j].service, kept[j].topic)
      BY <1>1, <3>4, <3>6, <3>7
    <3>9. Len(kept) < MaxIssues
      BY <1>1, <3>4, <3>5
    <3> QED BY <3>4, <3>5, <3>8, <3>9
  <2> QED BY <2>1, <2>2
<1> HIDE DEF kept, new, merged
<1>7. k = 0 => Listed(Append(kept, new))
  BY <1>5, <1>6
<1> QED BY <1>2, <1>4, <1>7

\* An event blames none but who registered a document that does not declare it.
LEMMA DriftedListed ==
  ASSUME Documents, NEW issues, Listed(issues), NEW e \in Events, NEW caller \in Services \cup {None}
  PROVE  Listed(Drifted(issues, e, caller))
<1> DEFINE s == ServiceOf(InstanceOf(e))
           t == TopicOf(e)
           handler == IF registered[s] # None /\ Undeclared(Requests(registered[s]), t)
                      THEN Merged(issues, s, t, e) ELSE issues
<1>1. /\ s \in Services /\ t \in Topics /\ e \in Nat
      /\ caller # None => caller \in Services
      /\ \A x \in Services : registered[x] # None =>
           registered[x] \in Instances /\ ServiceOf(registered[x]) = x
  BY Given DEF Documents
<1>2. Listed(handler)
  <2>1. CASE registered[s] # None /\ Undeclared(Requests(registered[s]), t)
    <3>1. Blamed(s, t)
      BY <1>1, <2>1 DEF Blamed
    <3> HIDE DEF s, t
    <3>2. Listed(Merged(issues, s, t, e))
      BY <1>1, <3>1, MergedListed
    <3> QED BY <2>1, <3>2
  <2>2. CASE ~(registered[s] # None /\ Undeclared(Requests(registered[s]), t))
    BY <2>2
  <2> QED BY <2>1, <2>2
<1> HIDE DEF handler
<1>3. CASE /\ caller \notin {None, s}
           /\ registered[caller] # None /\ Undeclared(Provides(registered[caller]), t)
  <2>1. Blamed(caller, t)
    BY <1>1, <1>3 DEF Blamed
  <2>2. caller \in Services
    BY <1>1, <1>3
  <2>3. Drifted(issues, e, caller) = Merged(handler, caller, t, e)
    BY <1>3 DEF Drifted, handler
  <2> HIDE DEF s, t
  <2>4. Listed(Merged(handler, caller, t, e))
    BY <1>1, <1>2, <2>1, <2>2, MergedListed
  <2> QED BY <2>3, <2>4
<1>4. CASE ~(/\ caller \notin {None, s}
             /\ registered[caller] # None /\ Undeclared(Provides(registered[caller]), t))
  <2>1. Drifted(issues, e, caller) = handler
    BY <1>4 DEF Drifted, handler
  <2> QED BY <1>2, <2>1
<1> QED BY <1>3, <1>4

\* One event.
LEMMA AddedKeeps ==
  ASSUME Documents, NEW c, NEW a \in Seq(Events), Collected(c, a), NEW e \in Events, e \notin ToSet(a)
  PROVE  Collected(AddEvent(c, e), Append(a, e))
<1> DEFINE caller == IF Parent(e) \in DOMAIN c.index THEN c.index[Parent(e)] ELSE None
<1>1. Window(c, a) /\ Indexed(c) /\ Listed(c.issues)
  BY DEF Collected
<1>2. caller \in Services \cup {None}
  <2>1. c.ring \in Seq(Events)
    BY <1>1 DEF Window
  <2>2. ToSet(c.ring) \subseteq Events
    BY <2>1 DEF ToSet
  <2>3. \A x \in DOMAIN c.index : c.index[x] \in Services
    BY <1>1, <2>2, Given DEF Indexed
  <2> QED BY <2>3
<1>3. AddEvent(c, e).issues = Drifted(c.issues, e, caller)
  BY DEF AddEvent
<1> HIDE DEF caller
<1>4. Listed(AddEvent(c, e).issues)
  BY <1>1, <1>2, <1>3, DriftedListed
<1>5. Window(AddEvent(c, e), Append(a, e))
  BY <1>1, WindowMoves
<1>6. Indexed(AddEvent(c, e))
  BY <1>1, IndexMoves
<1> QED BY <1>4, <1>5, <1>6 DEF Collected

LEMMA Greatest ==
  ASSUME NEW m \in Nat, NEW s, s \subseteq 1 .. m, s # {}
  PROVE  Max(s) \in s /\ \A y \in s : Max(s) >= y
<1> DEFINE I == {m - x : x \in s}
<1>1. \A x \in s : m - x \in Nat
  OBVIOUS
<1>2. I \subseteq Nat /\ I # {}
  BY <1>1
<1> HIDE DEF I
<1>3. PICK z \in I : \A y \in I : z <= y
  BY <1>2, Least
<1>4. PICK x \in s : z = m - x
  BY <1>3 DEF I
<1>5. \A y \in s : x >= y
  <2> TAKE y \in s
  <2>1. z <= m - y
    BY <1>3 DEF I
  <2> QED BY <1>4, <2>1
<1> QED BY <1>4, <1>5 DEF Max

\* A batch is added event by event.
LEMMA AddedInTurn ==
  ASSUME NEW c, NEW b \in Seq(Events)
  PROVE  \E h : /\ h[0] = c
                /\ \A k \in 1 .. Len(b) : h[k] = AddEvent(h[k - 1], b[k])
                /\ FoldLeft(AddEvent, c, b) = h[Len(b)]
<1> DEFINE F(m, g) == g = [s \in SUBSET (1 .. m) |->
                             IF s = {} THEN c ELSE LET x == Max(s) IN AddEvent(g[s \ {x}], b[x])]
           I == {m \in Nat : ~\E g : F(m, g)}
<1>1. \E g : F(0, g)
  <2> DEFINE g == [s \in SUBSET (1 .. 0) |-> c]
  <2>1. \A s \in SUBSET (1 .. 0) : s = {}
    OBVIOUS
  <2>2. g = [s \in SUBSET (1 .. 0) |->
               IF s = {} THEN c ELSE LET x == Max(s) IN AddEvent(g[s \ {x}], b[x])]
    BY <2>1
  <2> HIDE DEF g
  <2> QED BY <2>2
<1>2. ASSUME NEW m \in Nat, \E g : F(m, g) PROVE \E g : F(m + 1, g)
  <2>1. PICK f : F(m, f)
    BY <1>2
  <2> DEFINE n == m + 1
             g == [s \in SUBSET (1 .. n) |-> IF n \in s THEN AddEvent(f[s \ {n}], b[n]) ELSE f[s]]
             Onward(s) == IF s = {} THEN c ELSE LET x == Max(s) IN AddEvent(g[s \ {x}], b[x])
  <2>2. \A s \in SUBSET (1 .. m) : f[s] = IF s = {} THEN c ELSE AddEvent(f[s \ {Max(s)}], b[Max(s)])
    BY <2>1
  <2>3. \A s \in SUBSET (1 .. n) : g[s] = IF n \in s THEN AddEvent(f[s \ {n}], b[n]) ELSE f[s]
    OBVIOUS
  <2>4. ASSUME NEW s \in SUBSET (1 .. n) PROVE g[s] = Onward(s)
    <3>1. n \in Nat /\ n = m + 1
      OBVIOUS
    <3> HIDE DEF g, n
    <3>2. CASE n \in s
      <4>1. Max(s) \in s /\ \A y \in s : Max(s) >= y
        BY <3>1, <3>2, Greatest
      <4>2. Max(s) = n
        <5>1. Max(s) \in 1 .. n /\ Max(s) >= n
          BY <3>2, <4>1
        <5> QED BY <3>1, <5>1
      <4>3. s \ {n} \in SUBSET (1 .. n) /\ n \notin s \ {n}
        OBVIOUS
      <4>4. g[s \ {n}] = f[s \ {n}]
        BY <2>3, <4>3
      <4>5. g[s] = AddEvent(f[s \ {n}], b[n])
        BY <2>3, <3>2
      <4> QED BY <3>2, <4>2, <4>4, <4>5
    <3>3. CASE n \notin s
      <4>1. s \in SUBSET (1 .. m)
        BY <3>1, <3>3
      <4>2. g[s] = IF s = {} THEN c ELSE AddEvent(f[s \ {Max(s)}], b[Max(s)])
        BY <2>2, <2>3, <3>3, <4>1
      <4>3. s \ {Max(s)} \in SUBSET (1 .. n) /\ n \notin s \ {Max(s)}
        BY <3>3
      <4>4. g[s \ {Max(s)}] = f[s \ {Max(s)}]
        BY <2>3, <4>3
      <4> QED BY <4>2, <4>4
    <3> QED BY <3>2, <3>3
  <2>5. g = [s \in SUBSET (1 .. n) |-> g[s]]
    OBVIOUS
  <2> HIDE DEF g, n, Onward
  <2>6. g = [s \in SUBSET (1 .. n) |-> Onward(s)]
    BY <2>4, <2>5
  <2>7. F(n, g)
    BY <2>6, Zenon DEF Onward
  <2> HIDE DEF F
  <2> QED BY <2>7 DEF n
<1> DEFINE n == Len(b)
<1>3. n \in Nat /\ DOMAIN b = 1 .. n
  BY LenProperties
<1>4. \E g : F(n, g)
  <2> HIDE DEF F, n
  <2> SUFFICES ASSUME I # {} PROVE FALSE
    BY <1>3
  <2>1. I \subseteq Nat
    OBVIOUS
  <2>2. PICK m \in I : \A y \in I : m <= y
    BY <2>1, Least
  <2>3. m \in Nat /\ m # 0
    BY <1>1, <2>2
  <2>4. m - 1 \in Nat /\ m - 1 \notin I
    BY <2>2, <2>3
  <2>5. \E g : F(m - 1, g)
    BY <2>4
  <2>6. \E g : F((m - 1) + 1, g)
    BY <1>2, <2>4, <2>5
  <2>7. (m - 1) + 1 = m
    BY <2>3
  <2> QED BY <2>2, <2>6, <2>7
<1> DEFINE g == CHOOSE g : F(n, g)
<1>5. F(n, g)
  <2> HIDE DEF F, n
  <2> QED BY <1>4, Zenon
<1>6. FoldLeft(AddEvent, c, b) = g[1 .. n]
  BY <1>3, Zenon DEF FoldLeft, MapThenFoldSet
<1>7. \A s \in SUBSET (1 .. n) : g[s] = IF s = {} THEN c ELSE AddEvent(g[s \ {Max(s)}], b[Max(s)])
  <2> HIDE DEF g, n
  <2> QED BY <1>5
<1> DEFINE h == [k \in 0 .. n |-> g[1 .. k]]
<1> HIDE DEF g, F
<1>8. h[0] = c
  <2>1. 1 .. 0 = {} /\ {} \in SUBSET (1 .. n) /\ 0 \in 0 .. n
    BY <1>3
  <2> HIDE DEF n
  <2> QED BY <1>7, <2>1
<1>9. ASSUME NEW k \in 1 .. n PROVE h[k] = AddEvent(h[k - 1], b[k])
  <2> HIDE DEF n
  <2>1. /\ 1 .. k \in SUBSET (1 .. n) /\ 1 .. k # {} /\ k \in 1 .. k
        /\ k \in 0 .. n /\ k - 1 \in 0 .. n /\ k \in Nat
    BY <1>3
  <2>2. Max(1 .. k) \in 1 .. k /\ \A y \in 1 .. k : Max(1 .. k) >= y
    BY <2>1, Greatest
  <2>3. Max(1 .. k) = k
    BY <2>1, <2>2
  <2>4. (1 .. k) \ {k} = 1 .. k - 1
    BY <2>1
  <2>5. g[1 .. k] = AddEvent(g[1 .. k - 1], b[k])
    BY <1>7, <2>1, <2>3, <2>4
  <2> QED BY <2>1, <2>5
<1>10. FoldLeft(AddEvent, c, b) = h[n]
  BY <1>3, <1>6
<1> HIDE DEF h
<1> QED BY <1>8, <1>9, <1>10

LEMMA BatchAdded ==
  ASSUME Documents, NEW c, NEW a \in Seq(Events), Collected(c, a),
         NEW b \in Seq(Events), IsInjective(a \o b)
  PROVE  Collected(FoldLeft(AddEvent, c, b), a \o b)
<1> DEFINE w == a \o b
           l == Len(a)
           n == Len(b)
           Part(k) == SubSeq(w, 1, l + k)
<1>1. PICK h : /\ h[0] = c
               /\ \A k \in 1 .. n : h[k] = AddEvent(h[k - 1], b[k])
               /\ FoldLeft(AddEvent, c, b) = h[n]
  BY AddedInTurn
<1>2. /\ w \in Seq(Events) /\ l \in Nat /\ n \in Nat /\ Len(w) = l + n /\ DOMAIN w = 1 .. l + n
      /\ \A k \in 1 .. l + n : w[k] = IF k <= l THEN a[k] ELSE b[k - l]
  BY ConcatProperties, LenProperties
<1>3. Part(0) = a
  <2>1. SubSeq(w, 1, l) \in Seq(Events) /\ Len(SubSeq(w, 1, l)) = l
        /\ \A k \in 1 .. l : SubSeq(w, 1, l)[k] = a[k]
    <3>1. /\ 1 \in Int /\ l \in Int /\ l - 1 + 1 = l /\ \A k \in 1 .. l : k \in 1 .. l + n /\ 1 + k - 1 = k
      BY <1>2
    <3>2. \A k \in 1 .. l : w[k] \in Events /\ w[k] = a[k]
      BY <1>2, <3>1
    <3>3. /\ SubSeq(w, 1, l) \in Seq(Events)
          /\ Len(SubSeq(w, 1, l)) = IF 1 <= l THEN l - 1 + 1 ELSE 0
          /\ \A k \in 1 .. l - 1 + 1 : SubSeq(w, 1, l)[k] = w[1 + k - 1]
      BY <3>1, <3>2, SubSeqProperties
    <3> HIDE DEF w
    <3>4. Len(SubSeq(w, 1, l)) = l
      BY <1>2, <3>3
    <3> QED BY <3>1, <3>2, <3>3, <3>4
  <2>2. SubSeq(w, 1, l) = a
    <3> HIDE DEF w
    <3> QED BY <2>1, SeqEqual
  <2>3. l + 0 = l
    BY <1>2
  <2> QED BY <2>2, <2>3
<1>4. Part(n) = w
  BY <1>2, SubSeqFull
<1>5. ASSUME NEW k \in 1 .. n
      PROVE  /\ Part(k - 1) \in Seq(Events) /\ b[k] \in Events /\ b[k] \notin ToSet(Part(k - 1))
             /\ Part(k) = Append(Part(k - 1), b[k])
  <2> DEFINE m == l + k
             s == SubSeq(w, 1, m - 1)
  <2>1. /\ m \in 1 .. l + n /\ m - 1 \in Nat /\ l + (k - 1) = m - 1 /\ ~(m <= l) /\ m - l = k
        /\ 1 \in 1 .. Len(w) /\ m \in 1 .. Len(w)
    BY <1>2
  <2>2. w[m] = b[k] /\ w[m] \in Events
    BY <1>2, <2>1
  <2> HIDE DEF w, m
  <2>3. /\ s \in Seq(Events) /\ Len(s) = m - 1
        /\ \A j \in 1 .. m - 1 : s[j] = w[j]
    <3>1. /\ 1 \in Int /\ m - 1 \in Int /\ (m - 1) - 1 + 1 = m - 1
          /\ \A j \in 1 .. m - 1 : j \in 1 .. l + n /\ 1 + j - 1 = j
      BY <1>2, <2>1
    <3>2. \A j \in 1 .. m - 1 : w[j] \in Events
      BY <1>2, <3>1
    <3>3. /\ SubSeq(w, 1, m - 1) \in Seq(Events)
          /\ Len(SubSeq(w, 1, m - 1)) = IF 1 <= m - 1 THEN (m - 1) - 1 + 1 ELSE 0
          /\ \A j \in 1 .. (m - 1) - 1 + 1 : SubSeq(w, 1, m - 1)[j] = w[1 + j - 1]
      BY <3>1, <3>2, SubSeqProperties
    <3>4. Len(SubSeq(w, 1, m - 1)) = m - 1
      BY <2>1, <3>3
    <3> QED BY <3>1, <3>3, <3>4
  <2>4. SubSeq(w, 1, m) = s \o <<w[m]>>
    <3>1. m \in 1 .. Len(w) /\ 1 \in 1 .. Len(w)
      BY <2>1
    <3> QED BY <1>2, <3>1, SubSeqRecursiveSecond
  <2> HIDE DEF s
  <2>5. SubSeq(w, 1, m) = Append(s, b[k])
    BY <2>2, <2>3, <2>4, AppendIsConcat
  <2>6. \A j \in 1 .. m - 1 : w[j] # w[m]
    <3>1. \A j \in 1 .. m - 1 : j \in DOMAIN w /\ j # m
      BY <1>2, <2>1
    <3>2. m \in DOMAIN w
      BY <1>2, <2>1
    <3> QED BY <3>1, <3>2 DEF IsInjective, w
  <2>7. b[k] \notin ToSet(s)
    <3>1. DOMAIN s = 1 .. m - 1
      BY <2>3, LenProperties
    <3> QED BY <2>2, <2>3, <2>6, <3>1 DEF ToSet
  <2>8. Part(k - 1) = s /\ Part(k) = SubSeq(w, 1, m)
    BY <2>1 DEF s, m
  <2> QED BY <2>2, <2>3, <2>5, <2>7, <2>8
<1> DEFINE I == {k \in 0 .. n : ~Collected(h[k], Part(k))}
<1> HIDE DEF w, l, n, Part
<1>6. I = {}
  <2> SUFFICES ASSUME I # {} PROVE FALSE
    OBVIOUS
  <2>1. I \subseteq Nat
    OBVIOUS
  <2>2. PICK k \in I : \A y \in I : k <= y
    BY <2>1, Least
  <2>3. k \in 0 .. n /\ ~Collected(h[k], Part(k))
    BY <2>2
  <2>4. k # 0
    BY <1>1, <1>3, <2>3
  <2>5. k \in 1 .. n /\ k - 1 \in 0 .. n /\ ~(k <= k - 1)
    BY <1>2, <2>3, <2>4
  <2>6. k - 1 \notin I
    BY <2>2, <2>5
  <2>7. Collected(h[k - 1], Part(k - 1))
    BY <2>5, <2>6
  <2>8. h[k] = AddEvent(h[k - 1], b[k])
    BY <1>1, <2>5
  <2>9. Collected(AddEvent(h[k - 1], b[k]), Append(Part(k - 1), b[k]))
    BY <1>5, <2>5, <2>7, AddedKeeps
  <2> QED BY <1>5, <2>3, <2>5, <2>8, <2>9
<1>7. n \in 0 .. n
  BY <1>2
<1> QED BY <1>1, <1>4, <1>6, <1>7 DEF w

-----------------------------------------------------------------------------
(* The collector.                                                          *)

\* What is collected stays so while no document is forgotten.
LEMMA CollectedNext ==
  ASSUME NEW c, NEW a, Collected(c, a), traces' = c, arrived' = a,
         \A s \in Services : registered[s] # None => registered'[s] # None
  PROVE  Collected(traces, arrived)'
<1>1. Window(traces, arrived)' /\ Indexed(traces)'
  BY DEF Collected, Window, Indexed
<1>2. Listed(traces.issues)'
  <2>1. Listed(c.issues) /\ traces'.issues = c.issues
    BY DEF Collected
  <2>2. ASSUME NEW k \in DOMAIN c.issues
        PROVE  Blamed(c.issues[k].service, c.issues[k].topic)'
    <3>1. Blamed(c.issues[k].service, c.issues[k].topic) /\ c.issues[k] \in Issue
      BY <2>1 DEF Listed
    <3> QED BY <3>1 DEF Blamed, Issue
  <2> QED BY <2>1, <2>2 DEF Listed
<1> QED BY <1>1, <1>2 DEF Collected

LEMMA NothingCollected ==
  /\ Window(NoTraces, <<>>) /\ Indexed(NoTraces)
  /\ NoTraces.issues = <<>> /\ <<>> \in Seq(Issue) /\ Len(<<>>) <= MaxIssues /\ DOMAIN <<>> = {}
<1>1. NoTraces.ring = <<>> /\ NoTraces.next = 0 /\ NoTraces.index = <<>> /\ NoTraces.issues = <<>>
  BY DEF NoTraces
<1>2. /\ <<>> \in Seq(Events) /\ <<>> \in Seq(Issue) /\ Len(<<>>) = 0 /\ DOMAIN <<>> = {}
      /\ IsInjective(<<>>) /\ ToSet(<<>>) = {}
  BY DEF IsInjective, ToSet
<1>3. Capacity \in Nat \ {0} /\ MaxIssues \in Nat
  BY Given
<1>4. Window(NoTraces, <<>>)
  BY <1>1, <1>2, <1>3 DEF Window
<1>5. Indexed(NoTraces)
  BY <1>1, <1>2 DEF Indexed
<1> QED BY <1>1, <1>2, <1>3, <1>4, <1>5

LEMMA CollectInit ==
  ASSUME registered = NoDocuments, edges = NoEdges, traces = NoTraces, arrived = <<>>
  PROVE  CollectInv
<1>1. Documents
  BY DEF Documents, NoDocuments, NoEdges
<1>2. Collected(traces, arrived)
  BY NothingCollected DEF Collected, Listed
<1> QED BY <1>1, <1>2 DEF CollectInv

LEMMA CollectAnew ==
  ASSUME registered' = NoDocuments, edges' = NoEdges, traces' = NoTraces, arrived' = <<>>
  PROVE  CollectInv'
<1>1. Documents'
  BY DEF Documents, NoDocuments, NoEdges
<1>2. Window(traces, arrived)' /\ Indexed(traces)'
  BY NothingCollected DEF Window, Indexed
<1>3. Listed(traces.issues)'
  BY NothingCollected DEF Listed
<1> QED BY <1>1, <1>2, <1>3 DEF CollectInv, Collected

\* A document replaces what its service declared, and nothing else.
LEMMA Declared ==
  ASSUME Documents, NEW i \in Instances, Register(i)
  PROVE  /\ Documents'
         /\ \A s \in Services : registered[s] # None => registered'[s] # None
<1> DEFINE s == ServiceOf(i)
<1>1. /\ s \in Services /\ i # None /\ Requests(i) \cup Provides(i) \subseteq Topics \cup {Unknown}
      /\ Unknown \notin Topics
  BY Given
<1>2. /\ registered \in [Services -> Instances \cup {None}]
      /\ registered' = [registered EXCEPT ![s] = i]
  BY DEF Documents, Register
<1>3. /\ registered' \in [Services -> Instances \cup {None}] /\ registered'[s] = i
      /\ \A x \in Services : x # s => registered'[x] = registered[x]
  BY <1>1, <1>2
<1>4. edges'.consumers = Replaced(edges.consumers, s, Requests(i))
      /\ edges'.providers = Replaced(edges.providers, s, Provides(i))
  BY DEF Register
<1>5. \A x \in Services : registered'[x] # None => ServiceOf(registered'[x]) = x
  BY <1>1, <1>3 DEF Documents
<1>6. edges'.consumers = {p \in Services \X Topics :
                            registered'[p[1]] # None /\ p[2] \in Requests(registered'[p[1]])}
  <2> DEFINE held == {p \in Services \X Topics : registered[p[1]] # None /\ p[2] \in Requests(registered[p[1]])}
             new == {p \in Services \X Topics : registered'[p[1]] # None /\ p[2] \in Requests(registered'[p[1]])}
  <2>1. edges.consumers = held
    BY DEF Documents
  <2>2. Replaced(held, s, Requests(i)) = new
    <3> HIDE DEF s
    <3>1. \A p \in Replaced(held, s, Requests(i)) : p \in new
      BY <1>1, <1>3 DEF Replaced
    <3>2. \A p \in new : p \in Replaced(held, s, Requests(i))
      BY <1>1, <1>3 DEF Replaced
    <3> QED BY <3>1, <3>2
  <2> QED BY <1>4, <2>1, <2>2
<1>7. edges'.providers = {p \in Services \X Topics :
                            registered'[p[1]] # None /\ p[2] \in Provides(registered'[p[1]])}
  <2> DEFINE held == {p \in Services \X Topics : registered[p[1]] # None /\ p[2] \in Provides(registered[p[1]])}
             new == {p \in Services \X Topics : registered'[p[1]] # None /\ p[2] \in Provides(registered'[p[1]])}
  <2>1. edges.providers = held
    BY DEF Documents
  <2>2. Replaced(held, s, Provides(i)) = new
    <3> HIDE DEF s
    <3>1. \A p \in Replaced(held, s, Provides(i)) : p \in new
      BY <1>1, <1>3 DEF Replaced
    <3>2. \A p \in new : p \in Replaced(held, s, Provides(i))
      BY <1>1, <1>3 DEF Replaced
    <3> QED BY <3>1, <3>2
  <2> QED BY <1>4, <2>1, <2>2
<1>8. Documents'
  BY <1>3, <1>5, <1>6, <1>7 DEF Documents
<1> QED BY <1>1, <1>3, <1>8

LEMMA CollectStep ==
  ASSUME CollectInv, SendInv, SendInv', [Next]_vars
  PROVE  CollectInv'
<1> USE DEF exporterVars, graphVars, traceVars
<1>0. Documents /\ Collected(traces, arrived)
  BY DEF CollectInv
<1>1. ASSUME UNCHANGED <<graphVars, traceVars>> PROVE CollectInv'
  <2>1. Documents'
    BY <1>0, <1>1 DEF Documents
  <2> QED BY <1>0, <1>1, <2>1, CollectedNext DEF CollectInv
<1>2. ASSUME NEW i \in Instances, Register(i), UNCHANGED traceVars PROVE CollectInv'
  <2>1. Documents' /\ \A s \in Services : registered[s] # None => registered'[s] # None
    BY <1>0, <1>2, Declared
  <2> QED BY <1>0, <1>2, <2>1, CollectedNext DEF CollectInv
<1>3. ASSUME NEW i \in Instances, RegisterEnds(i) PROVE CollectInv'
  BY <1>1, <1>2, <1>3 DEF RegisterEnds
<1>4. ASSUME NEW i \in Instances, RetryDelayEnds(i) PROVE CollectInv'
  BY <1>1, <1>4 DEF RetryDelayEnds
<1>5. ASSUME NEW i \in Instances, TimerFires(i) PROVE CollectInv'
  BY <1>1, <1>5 DEF TimerFires
<1>6. ASSUME NEW i \in Instances, FlushEnds(i) PROVE CollectInv'
  <2>1. PICK k \in DOMAIN inFlight[i] :
          /\ AddEvents(inFlight[i][k]) \/ UNCHANGED traceVars
          /\ UNCHANGED graphVars
    BY <1>6 DEF FlushEnds
  <2> DEFINE b == inFlight[i][k]
  <2>2. CASE UNCHANGED traceVars
    BY <1>1, <2>1, <2>2
  <2>3. CASE AddEvents(b)
    <3>1. b \in Seq(Events)
      <4>1. inFlight[i] \in Seq(Seq(Events))
        BY DEF SendInv, MeshType
      <4> QED BY <4>1
    <3>2. traces' = FoldLeft(AddEvent, traces, b) /\ arrived' = arrived \o b
      BY <2>3 DEF AddEvents
    <3> HIDE DEF b
    <3>3. arrived \in Seq(Events) /\ IsInjective(arrived')
      BY DEF SendInv, Fresh
    <3>4. IsInjective(arrived \o b)
      BY <3>2, <3>3
    <3>5. Collected(FoldLeft(AddEvent, traces, b), arrived \o b)
      BY <1>0, <3>1, <3>3, <3>4, BatchAdded
    <3>6. UNCHANGED <<registered, edges>>
      BY <2>1
    <3>7. Documents'
      BY <1>0, <3>6 DEF Documents
    <3>8. Collected(traces, arrived)'
      BY <3>2, <3>5, <3>6, CollectedNext
    <3> QED BY <3>7, <3>8 DEF CollectInv
  <2> QED BY <2>1, <2>2, <2>3
<1>7. ASSUME NEW i \in Instances, Dispose(i) PROVE CollectInv'
  BY <1>1, <1>2, <1>7 DEF Dispose
<1>8. ASSUME NEW e \in Events, Export(e) PROVE CollectInv'
  BY <1>1, <1>8 DEF Export
<1>9. CASE CollectorRestarts
  BY <1>9, CollectAnew DEF CollectorRestarts
<1>10. CASE UNCHANGED vars
  BY <1>1, <1>10 DEF vars
<1> QED BY <1>3, <1>4, <1>5, <1>6, <1>7, <1>8, <1>9, <1>10 DEF Next, SendSteps

LEMMA MeshInvariance == Spec => [](SendInv /\ CollectInv)
<1>1. Init => SendInv /\ CollectInv
  BY SendInit, CollectInit DEF Init
<1>2. SendInv /\ CollectInv /\ [Next]_vars => (SendInv /\ CollectInv)'
  BY SendStep, CollectStep
<1> QED BY <1>1, <1>2, PTL DEF Spec

\* Buffers, batches, timers and the collector's tables keep their types and bounds.
THEOREM MeshTypeOK == Spec => []TypeOK
<1>1. SendInv /\ CollectInv => TypeOK
  <2> SUFFICES ASSUME SendInv, CollectInv PROVE TypeOK
    OBVIOUS
  <2>1. Len(traces.ring) <= Capacity
    <3>1. arrived \in Seq(Events) /\ Window(traces, arrived)
      BY DEF SendInv, Fresh, CollectInv, Collected
    <3> QED BY <3>1, WindowOf
  <2>2. traces.next \in 0 .. Capacity - 1 /\ Len(traces.issues) <= MaxIssues
    BY DEF CollectInv, Collected, Window, Listed
  <2> QED BY <2>1, <2>2 DEF TypeOK, SendInv, MeshType, CollectInv, Documents
<1> QED BY <1>1, MeshInvariance, PTL

\* The collector's ring is the window of the latest events that arrived, in order,
\* and its span index stays in lockstep with it, over every eviction.
THEOREM MeshWindowIndexed == Spec => []WindowIndexed
<1>1. SendInv /\ CollectInv => WindowIndexed
  <2> SUFFICES ASSUME SendInv, CollectInv PROVE WindowIndexed
    OBVIOUS
  <2> DEFINE n == Len(traces.ring)
             l == Len(arrived)
             x == traces.next
  <2>1. arrived \in Seq(Events) /\ Window(traces, arrived) /\ Indexed(traces)
    BY DEF SendInv, Fresh, CollectInv, Collected
  <2>2. /\ DOMAIN traces.ring = 1 .. n /\ n \in Nat /\ l \in Nat /\ n <= Capacity /\ n <= l
        /\ Capacity \in Nat \ {0}
    BY <2>1, WindowOf, Given, LenProperties
  <2>3. /\ n = IF l < Capacity THEN l ELSE Capacity
        /\ x \in 0 .. Capacity - 1 /\ (n < Capacity => x = 0)
        /\ \A j \in 1 .. n : traces.ring[j] = arrived[Place(l, n, x, j)]
    BY <2>1 DEF Window
  <2>4. /\ DOMAIN traces.index = {traces.ring[k] : k \in 1 .. n}
        /\ \A e \in DOMAIN traces.index : traces.index[e] = ServiceOf(InstanceOf(e))
    BY <2>1, <2>2 DEF Indexed, ToSet
  <2> HIDE DEF n, l, x
  <2>5. ASSUME NEW k \in 1 .. n
        PROVE  traces.ring[((x + k - 1) % n) + 1] = arrived[l - n + k]
    <3> DEFINE j == ((x + k - 1) % n) + 1
    <3>1. j = IF x + k <= n THEN x + k ELSE x + k - n
      <4>1. CASE n < Capacity
        <5>1. x = 0 /\ x + k - 1 = k - 1 /\ k - 1 \in Nat /\ k - 1 < n /\ n > 0 /\ n \in Nat
          BY <2>2, <2>3, <4>1
        <5>2. (k - 1) % n = k - 1
          BY <5>1
        <5> QED BY <2>2, <5>1, <5>2
      <4>2. CASE ~(n < Capacity)
        <5>1. n = Capacity /\ x \in 0 .. n - 1 /\ x + k - 1 \in Nat /\ x + k - 1 < 2 * n
          BY <2>2, <2>3, <4>2
        <5>2. (x + k - 1) % n = IF x + k - 1 < n THEN x + k - 1 ELSE (x + k - 1) - n
          <6> DEFINE y == x + k - 1
          <6>1. y \in Nat /\ y < 2 * Capacity /\ Capacity \in Nat
            BY <2>2, <5>1
          <6> HIDE DEF y
          <6>2. y % Capacity = IF y < Capacity THEN y ELSE y - Capacity
            BY <6>1, Wraps
          <6> QED BY <5>1, <6>2 DEF y
        <5> QED BY <2>2, <5>1, <5>2
      <4> QED BY <4>1, <4>2
    <3> HIDE DEF j
    <3>2. j \in 1 .. n /\ Place(l, n, x, j) = l - n + k
      BY <2>2, <2>3, <3>1 DEF Place
    <3>3. traces.ring[j] = arrived[l - n + k]
      BY <2>3, <3>2
    <3> QED BY <3>3 DEF j
  <2> QED BY <2>3, <2>4, <2>5 DEF WindowIndexed, n, l, x
<1> QED BY <1>1, MeshInvariance, PTL

\* The collector's declared graph is what the latest documents say, whatever calls
\* were lost, and no issue blames who never declared or declared enough.
THEOREM MeshGraphDeclared == Spec => []GraphDeclared
<1>1. CollectInv => GraphDeclared
  <2> SUFFICES ASSUME CollectInv PROVE GraphDeclared
    OBVIOUS
  <2>1. Documents /\ Listed(traces.issues)
    BY DEF CollectInv, Collected
  <2>2. ASSUME NEW k \in DOMAIN traces.issues
        PROVE  /\ registered[traces.issues[k].service] # None
               /\ \E i \in Instances :
                    /\ ServiceOf(i) = traces.issues[k].service
                    /\ \/ Undeclared(Requests(i), traces.issues[k].topic)
                       \/ Undeclared(Provides(i), traces.issues[k].topic)
    BY <2>1 DEF Listed, Blamed
  <2> QED BY <2>1, <2>2 DEF GraphDeclared, Documents
<1> QED BY <1>1, MeshInvariance, PTL

=============================================================================
