--------------------------- MODULE HistoryProofs ---------------------------
(***************************************************************************)
(* Proofs about the history the event store keeps: it is folded and        *)
(* projected again to what the commands maintained, retries add nothing to *)
(* it, fenced writers stop, readers that page through it see all of it,    *)
(* and what it says about reviews, goals and inputs is true.               *)
(* The theorems are about RebuildSpec, which adds the rebuild of the       *)
(* projections to the steps of the store.                                  *)
(***************************************************************************)
EXTENDS ProjectionRebuild, EventStoreProofs, FiniteSetTheorems, WellFoundedInduction

-----------------------------------------------------------------------------
(***************************************************************************)
(* Induction and recursion on the numbers up to n, from the fact that the  *)
(* order of the naturals is well-founded.                                  *)
(***************************************************************************)
\* A non-empty set of numbers has a least one.
LEMMA LeastNumber ==
  ASSUME NEW T, T \subseteq Nat, T # {}
  PROVE  \E n \in T : \A m \in T : n <= m
<1> DEFINE R == OpToRel(<, Nat)
<1>1. IsWellFoundedOn(R, Nat)
  BY NatLessThanWellFounded, Zenon
<1>2. \A x, y \in Nat : x < y => <<x, y>> \in R
  BY DEF OpToRel
<1> HIDE DEF R
<1>3. PICK n \in T : \A y \in T : ~(<<y, n>> \in R)
  BY <1>1, WFMin
<1>4. ASSUME NEW m \in T PROVE n <= m
  <2>1. m \in Nat /\ n \in Nat
    OBVIOUS
  <2>2. ~(m < n)
    BY <1>2, <1>3, <2>1, Zenon
  <2> QED
    BY <2>1, <2>2
<1> QED
  BY <1>4

\* A set that has 0, and each number up to n with its predecessor, has them all.
LEMMA InductionUpTo ==
  ASSUME NEW n \in Nat, NEW S, 0 \in S, \A k \in 1..n : k - 1 \in S => k \in S
  PROVE  0..n \subseteq S
<1> DEFINE T == (0..n) \ S
<1> SUFFICES ASSUME T # {} PROVE FALSE
  OBVIOUS
<1>0. T \subseteq Nat
  OBVIOUS
<1>1. PICK k \in T : \A m \in T : k <= m
  BY <1>0, LeastNumber
<1>2. k \in 1..n /\ k - 1 \in 0..n /\ ~(k <= k - 1)
  BY <1>1
<1>3. k - 1 \in S
  BY <1>1, <1>2
<1> QED
  BY <1>1, <1>2, <1>3

\* f starts with base, and step k of G takes f[k - 1] to f[k].
Follows(f, base, n, G) == f[0] = base /\ \A k \in 1..n : f[k] = G[k][f[k - 1]]

LEMMA FollowsExists ==
  ASSUME NEW V, NEW base \in V, NEW n \in Nat, NEW G \in [1..n -> [V -> V]]
  PROVE  \E f \in [0..n -> V] : Follows(f, base, n, G)
<1> DEFINE S == {m \in 0..n : \E f \in [0..m -> V] : Follows(f, base, m, G)}
<1>1. 0 \in S
  <2> DEFINE g == [i \in 0..0 |-> base]
  <2>1. g \in [0..0 -> V] /\ g[0] = base
    OBVIOUS
  <2>2. Follows(g, base, 0, G)
    BY <2>1 DEF Follows
  <2>3. \E f \in [0..0 -> V] : Follows(f, base, 0, G)
    BY <2>1, <2>2, Zenon
  <2>4. 0 \in 0..n
    OBVIOUS
  <2> QED
    BY <2>3, <2>4, Zenon
<1>2. ASSUME NEW k \in 1..n, k - 1 \in S PROVE k \in S
  <2>1. PICK f \in [0..(k - 1) -> V] : Follows(f, base, k - 1, G)
    BY <1>2
  <2> DEFINE new == G[k][f[k - 1]]
             g == [i \in 0..k |-> IF i = k THEN new ELSE f[i]]
  <2>2. new \in V
    <3>1. f[k - 1] \in V
      OBVIOUS
    <3> QED
      BY <3>1
  <2>3. \A i \in 0..(k - 1) : i # k /\ i \in 0..k
    OBVIOUS
  <2>4. k \in 0..k /\ k - 1 \in 0..(k - 1) /\ k \in 0..n
    OBVIOUS
  <2> HIDE DEF new
  <2>5. g \in [0..k -> V]
    BY <2>2
  <2>6. (\A i \in 0..(k - 1) : g[i] = f[i]) /\ g[k] = new
    BY <2>3, <2>4
  <2> HIDE DEF g
  <2>7. g[k] = G[k][g[k - 1]]
    BY <2>4, <2>6 DEF new
  <2>8. ASSUME NEW i \in 1..k PROVE g[i] = G[i][g[i - 1]]
    <3>1. CASE i = k
      BY <2>7, <3>1
    <3>2. CASE i # k
      <4>1. i \in 1..(k - 1) /\ i \in 0..(k - 1) /\ i - 1 \in 0..(k - 1)
        BY <3>2
      <4> QED
        BY <2>1, <2>6, <4>1 DEF Follows
    <3> QED
      BY <3>1, <3>2
  <2>9. g[0] = base
    BY <2>1, <2>6 DEF Follows
  <2>10. Follows(g, base, k, G)
    BY <2>8, <2>9 DEF Follows
  <2> QED
    BY <2>4, <2>5, <2>10, Zenon
<1> HIDE DEF S
<1>3. 0..n \subseteq S
  BY <1>1, <1>2, InductionUpTo
<1> QED
  BY <1>3 DEF S

\* What fold_task computes: it is None of no event and folds one event at a time.
LEMMA FoldTaskUnfolds ==
  ASSUME NEW E, NEW evs \in Seq(E)
  PROVE  \E f : /\ FoldTask(evs) = f[Len(evs)] /\ f[0] = None
                /\ \A k \in 1..Len(evs) : f[k] = FoldStep(f[k - 1], evs[k])
<1> DEFINE n == Len(evs)
           G == [k \in 1..n |-> [x \in FoldResults |-> FoldStep(x, evs[k])]]
<1>1. n \in Nat /\ None \in FoldResults
  BY DEF FoldResults
<1>2. G \in [1..n -> [FoldResults -> FoldResults]]
  BY FoldStepType
<1>3. PICK f \in [0..n -> FoldResults] : Follows(f, None, n, G)
  <2> HIDE DEF n, G
  <2> QED
    BY <1>1, <1>2, FollowsExists, Zenon
<1>4. ASSUME NEW k \in 1..n PROVE f[k] = FoldStep(f[k - 1], evs[k])
  <2>1. f[k - 1] \in FoldResults
    BY <1>1
  <2> QED
    BY <1>3, <2>1 DEF Follows
<1> DEFINE P(g) == g = [k \in 0..Len(evs) |-> IF k = 0 THEN None ELSE FoldStep(g[k - 1], evs[k])]
           F == CHOOSE g : P(g)
<1>5. P(f)
  BY <1>3, <1>4 DEF Follows
<1>6. P(F)
  BY <1>5, Zenon
<1>7. FoldTask(evs) = F[Len(evs)]
  BY DEF FoldTask
<1> HIDE DEF F
<1>8. F[0] = None
  BY <1>1, <1>6
<1>9. \A k \in 1..Len(evs) : F[k] = FoldStep(F[k - 1], evs[k])
  BY <1>1, <1>6
<1> QED
  BY <1>7, <1>8, <1>9, Zenon

\* Appending an event folds it onto what was folded before.
LEMMA FoldTaskAppends ==
  ASSUME NEW E, NEW evs \in Seq(E), NEW more \in Seq(E), Len(more) = Len(evs) + 1,
         \A k \in 1..Len(evs) : more[k] = evs[k]
  PROVE  FoldTask(more) = FoldStep(FoldTask(evs), more[Len(more)])
<1>1. PICK f : /\ FoldTask(evs) = f[Len(evs)] /\ f[0] = None
               /\ \A k \in 1..Len(evs) : f[k] = FoldStep(f[k - 1], evs[k])
  BY FoldTaskUnfolds
<1>2. PICK g : /\ FoldTask(more) = g[Len(more)] /\ g[0] = None
               /\ \A k \in 1..Len(more) : g[k] = FoldStep(g[k - 1], more[k])
  BY FoldTaskUnfolds
<1> DEFINE n == Len(evs)
           S == {k \in 0..n : f[k] = g[k]}
<1>3. n \in Nat /\ 0 \in S
  BY <1>1, <1>2
<1>4. ASSUME NEW k \in 1..n, k - 1 \in S PROVE k \in S
  <2>1. f[k] = FoldStep(f[k - 1], evs[k]) /\ g[k] = FoldStep(g[k - 1], more[k])
    BY <1>1, <1>2
  <2> QED
    BY <1>4, <2>1
<1> HIDE DEF S
<1>5. n \in S
  BY <1>3, <1>4, InductionUpTo
<1>6. f[n] = g[n]
  BY <1>5 DEF S
<1>7. g[n + 1] = FoldStep(g[n], more[n + 1])
  BY <1>2, <1>3
<1> QED
  BY <1>1, <1>2, <1>6, <1>7

-----------------------------------------------------------------------------
(***************************************************************************)
(* The kinds of steps, as far as the history is concerned: the rows of a   *)
(* command, the row of a run, or no new row.                               *)
(***************************************************************************)
CommandStep(c, a, evs, rows) == Fresh(c) /\ Plan(a, evs) /\ Committed(c, a, evs, rows)

RunStep(r, rows) ==
  /\ Len(rows) = 1 /\ Insert(r, rows)
  /\ rows[1].seq = Len(stream[r]) + 1 /\ rows[1].type = "run_event"
  /\ \/ rows[1].by = NoLease
     \/ /\ rows[1].by \in Leases /\ granted[rows[1].by] # NoLease
        /\ IsCurrent(granted[rows[1].by].session, rows[1].by)
  /\ UNCHANGED <<cmdlog, projections, leases>>

QuietStep ==
  /\ UNCHANGED <<events, taskInputs>>
  /\ UNCHANGED cmdlog \/ \E c \in CommandIds : Fresh(c) /\ Record(c, "REJECTED", {})
  /\ UNCHANGED leases \/ \E s \in Sessions, l \in Leases : AcquireLease(s, l)
  /\ UNCHANGED projections \/ Rebuild

LEMMA StepKinds ==
  ASSUME TypeOK, Gapless, [RebuildNext]_vars
  PROVE  \/ \E c \in CommandIds, a \in Aggregates, evs \in Seq(Planned), rows \in Seq(Row) :
              CommandStep(c, a, evs, rows)
         \/ \E r \in Runs, rows \in Seq(Row) : RunStep(r, rows)
         \/ QuietStep
<1>1. CASE Rebuild
  BY <1>1 DEF Rebuild, QuietStep, vars, events, projections
<1>2. ASSUME UNCHANGED vars PROVE QuietStep
  BY <1>2 DEF QuietStep, vars, events, projections
<1>3. ASSUME NEW c \in CommandIds, Fresh(c), Reject(c) PROVE QuietStep
  BY <1>3 DEF Reject, QuietStep, projections
<1>4. ASSUME NEW c \in CommandIds, NEW a \in Aggregates, NEW evs \in Seq(Planned), Fresh(c),
             Plan(a, evs), Commit(c, a, evs)
      PROVE  \E rows \in Seq(Row) : CommandStep(c, a, evs, rows)
  BY <1>4, CommitShape DEF CommandStep
<1>5. ASSUME NEW s \in Sessions, NEW l \in Leases, AcquireLease(s, l) PROVE QuietStep
  BY <1>5 DEF AcquireLease, QuietStep, projections
<1>6. ASSUME NEW l \in Leases \cup {NoLease}, NEW r \in Runs, NEW n \in 1..(MaxLog + 1),
             Append1(l, r, n),
             l = NoLease \/ (l \in Leases /\ granted[l] # NoLease /\ IsCurrent(granted[l].session, l))
      PROVE  QuietStep \/ \E rows \in Seq(Row) : RunStep(r, rows)
  <2>1. l \in Writers
    BY DEF Writers
  <2>2. \/ UNCHANGED vars
        \/ /\ UNCHANGED <<cmdlog, projections, leases>>
           /\ \E rows \in Seq(Row) :
                /\ Len(rows) = 1 /\ Insert(r, rows)
                /\ rows[1].seq = Len(stream[r]) + 1 /\ rows[1].by = l
                /\ rows[1].type = "run_event"
    BY <1>6, <2>1, Append1Shape
  <2>3. CASE UNCHANGED vars
    BY <1>2, <2>3
  <2>4. CASE ~UNCHANGED vars
    <3>1. PICK rows \in Seq(Row) : /\ Len(rows) = 1 /\ Insert(r, rows)
                                   /\ rows[1].seq = Len(stream[r]) + 1 /\ rows[1].by = l
                                   /\ rows[1].type = "run_event"
      BY <2>2, <2>4
    <3>2. RunStep(r, rows)
      BY <1>6, <2>2, <2>4, <3>1, Zenon DEF RunStep
    <3> QED
      BY <3>2
  <2> QED
    BY <2>3, <2>4
<1>7. CASE [Next]_vars
  <2>1. ASSUME NEW l \in Leases, NEW r \in Runs, NEW n \in 1..(MaxLog + 1), granted[l] # NoLease,
               IsCurrent(granted[l].session, l), Append1(l, r, n)
        PROVE  QuietStep \/ \E rows \in Seq(Row) : RunStep(r, rows)
    BY <1>6, <2>1
  <2>2. ASSUME NEW r \in Runs, NEW n \in 1..(MaxLog + 1), Append1(NoLease, r, n)
        PROVE  QuietStep \/ \E rows \in Seq(Row) : RunStep(r, rows)
    BY <1>6, <2>2
  <2> QED
    BY <1>2, <1>3, <1>4, <1>5, <1>7, <2>1, <2>2, StepCases, Zenon
<1> QED
  BY <1>1, <1>7 DEF RebuildNext

\* Where the rows of an insertion are, in their stream and in the table.
LEMMA InsertPositions ==
  ASSUME TypeOK, NEW a \in Aggregates, NEW rows \in Seq(Row),
         Len(rows) = 1 \/ Len(rows) = 2, Insert(a, rows)
  PROVE  /\ Len(stream[a]) \in Nat /\ DOMAIN stream[a] = 1..Len(stream[a])
         /\ \A b \in Aggregates : \A i \in DOMAIN stream[b] :
              i \in DOMAIN stream'[b] /\ stream'[b][i] = stream[b][i]
         /\ \A b \in Aggregates \ {a} : stream'[b] = stream[b]
         /\ \A i \in DOMAIN stream'[a] :
              i \in DOMAIN stream[a] \/ \E k \in 1..Len(rows) : i = Len(stream[a]) + k
         /\ \A k \in 1..Len(rows) : /\ Len(stream[a]) + k \in DOMAIN stream'[a]
                                    /\ stream'[a][Len(stream[a]) + k] = rows[k]
<1>1. stream[a] \in Seq(Row) /\ stream'[a] \in Seq(Row)
  BY InsertShape DEF TypeOK
<1>2. /\ Len(stream'[a]) = Len(stream[a]) + Len(rows)
      /\ \A i \in 1..Len(stream[a]) : stream'[a][i] = stream[a][i]
      /\ \A i \in 1..Len(rows) : stream'[a][Len(stream[a]) + i] = rows[i]
      /\ \A b \in Aggregates \ {a} : stream'[b] = stream[b]
  BY InsertShape
<1> DEFINE n == Len(stream[a])
           m == Len(rows)
<1>3. n \in Nat /\ m \in Nat /\ DOMAIN stream[a] = 1..n /\ DOMAIN stream'[a] = 1..(n + m)
  BY <1>1, <1>2
<1> HIDE DEF n, m
<1>4. /\ \A i \in 1..n : i \in 1..(n + m)
      /\ \A k \in 1..m : n + k \in 1..(n + m)
  BY <1>3
<1>5. ASSUME NEW i \in 1..(n + m), i \notin 1..n PROVE \E k \in 1..m : i = n + k
  <2>1. i - n \in 1..m /\ i = n + (i - n)
    BY <1>3, <1>5
  <2> QED
    BY <2>1
<1>6. ASSUME NEW b \in Aggregates, NEW i \in DOMAIN stream[b]
      PROVE  i \in DOMAIN stream'[b] /\ stream'[b][i] = stream[b][i]
  <2>1. CASE b = a
    BY <1>2, <1>3, <1>4, <1>6, <2>1 DEF n
  <2>2. CASE b # a
    BY <1>2, <1>6, <2>2
  <2> QED
    BY <2>1, <2>2
<1> QED
  BY <1>2, <1>3, <1>4, <1>5, <1>6 DEF n, m

LEMMA InsertLogs ==
  ASSUME TypeOK, NEW a \in Aggregates, NEW rows \in Seq(Row),
         Len(rows) = 1 \/ Len(rows) = 2, Insert(a, rows)
  PROVE  /\ Len(log) \in Nat /\ Len(log') = Len(log) + Len(rows)
         /\ \A k \in 1..Len(log) : log'[k] = log[k]
         /\ \A k \in 1..Len(rows) : /\ log'[Len(log) + k].agg = a
                                    /\ log'[Len(log) + k].seq = rows[k].seq
<1> DEFINE L == [i \in DOMAIN rows |-> [agg |-> a, seq |-> rows[i].seq]]
<1>1. L \in Seq([agg : Aggregates, seq : Nat \ {0}]) /\ Len(L) = Len(rows)
  <2>1. DOMAIN rows = 1..Len(rows) /\ Len(rows) \in Nat
    OBVIOUS
  <2>2. \A i \in 1..Len(rows) : rows[i].seq \in Nat \ {0}
    <3>1. \A i \in 1..Len(rows) : rows[i] \in Row
      BY <2>1
    <3> QED
      BY <3>1, RowFields
  <2> QED
    BY <2>1, <2>2
<1>2. \A k \in 1..Len(rows) : L[k].agg = a /\ L[k].seq = rows[k].seq
  OBVIOUS
<1>3. log' = log \o L /\ log \in Seq([agg : Aggregates, seq : Nat \ {0}])
  BY DEF Insert, TypeOK
<1> DEFINE E == [agg : Aggregates, seq : Nat \ {0}]
<1>4. L \in Seq(E) /\ log \in Seq(E)
  BY <1>1, <1>3
<1> HIDE DEF L, E
<1>5. /\ Len(log) \in Nat /\ Len(log') = Len(log) + Len(L)
      /\ \A k \in 1..Len(log) : log'[k] = log[k]
      /\ \A k \in 1..Len(L) : log'[Len(log) + k] = L[k]
  BY <1>3, <1>4
<1> QED
  BY <1>1, <1>2, <1>5

-----------------------------------------------------------------------------
(***************************************************************************)
(* The rebuild is a fold over the events table.                            *)
(***************************************************************************)
\* Every entry of the table is a row of its stream.
LogPoints(lg, st) == \A k \in 1..Len(lg) : lg[k].seq \in DOMAIN st[lg[k].agg]

\* Only sessions are created as sessions.
SessionsCreated(st) ==
  \A a \in Aggregates : \A i \in DOMAIN st[a] : st[a][i].type = "session_created" => a \in Sessions

BaseInv == TypeOK /\ Gapless /\ LogPoints(log, stream) /\ SessionsCreated(stream)

Rebuilds == [sessions : SUBSET Sessions, tasks : [Tasks -> TaskRows], failed : BOOLEAN]

Entries == [agg : Aggregates, seq : Nat \ {0}]

\* Rebuilt, as a function of the events table.
RebuiltFrom(lg, st) ==
  LET upto[k \in 0..Len(lg)] ==
        IF k = 0 THEN Empty
        ELSE Reproject(upto[k - 1], lg[k].agg, st[lg[k].agg][lg[k].seq])
  IN  upto[Len(lg)]

LEMMA ReprojectType ==
  ASSUME NEW acc \in Rebuilds, NEW a \in Aggregates, NEW row \in Row,
         row.type = "session_created" => a \in Sessions
  PROVE  Reproject(acc, a, row) \in Rebuilds
<1>1. /\ acc.sessions \subseteq Sessions /\ acc.tasks \in [Tasks -> TaskRows]
      /\ acc.failed \in BOOLEAN
      /\ acc = [sessions |-> acc.sessions, tasks |-> acc.tasks, failed |-> acc.failed]
  BY DEF Rebuilds
<1>2. [acc EXCEPT !.failed = TRUE] \in Rebuilds
  BY DEF Rebuilds
<1> DEFINE ss == IF row.type = "session_created" THEN acc.sessions \cup {a} ELSE acc.sessions
           ts == IF a \in Tasks
                 THEN [acc.tasks EXCEPT ![a] = ProjectTaskRow(acc.tasks[a], row)] ELSE acc.tasks
<1>3. ss \in SUBSET Sessions
  BY <1>1
<1>4. ts \in [Tasks -> TaskRows]
  <2>1. CASE a \in Tasks
    <3>1. ProjectTaskRow(acc.tasks[a], row) \in TaskRows
      BY <1>1, <2>1, ProjectTaskRowType
    <3> QED
      BY <1>1, <2>1, <3>1
  <2>2. CASE a \notin Tasks
    BY <1>1, <2>2
  <2> QED
    BY <2>1, <2>2
<1>5. Reproject(acc, a, row) \in {acc, [acc EXCEPT !.failed = TRUE],
                                  [sessions |-> ss, tasks |-> ts, failed |-> FALSE]}
  BY DEF Reproject
<1> HIDE DEF ss, ts
<1>6. [sessions |-> ss, tasks |-> ts, failed |-> FALSE] \in Rebuilds
  BY <1>3, <1>4 DEF Rebuilds
<1> QED
  BY <1>2, <1>5, <1>6

LEMMA RebuiltUnfolds ==
  ASSUME NEW lg \in Seq(Entries), NEW st \in [Aggregates -> Seq(Row)],
         LogPoints(lg, st), SessionsCreated(st)
  PROVE  \E f : /\ RebuiltFrom(lg, st) = f[Len(lg)] /\ f[0] = Empty
                /\ \A k \in 0..Len(lg) : f[k] \in Rebuilds
                /\ \A k \in 1..Len(lg) :
                     f[k] = Reproject(f[k - 1], lg[k].agg, st[lg[k].agg][lg[k].seq])
<1> DEFINE n == Len(lg)
           Do(x, k) == Reproject(x, lg[k].agg, st[lg[k].agg][lg[k].seq])
           G == [k \in 1..n |-> [x \in Rebuilds |-> Do(x, k)]]
<1>1. n \in Nat /\ Empty \in Rebuilds
  BY DEF Empty, Rebuilds, TaskRows
<1>2. ASSUME NEW x \in Rebuilds, NEW k \in 1..n PROVE Do(x, k) \in Rebuilds
  <2>1. lg[k] \in Entries
    OBVIOUS
  <2>2. lg[k].agg \in Aggregates
    BY <2>1 DEF Entries
  <2>3. /\ st[lg[k].agg] \in Seq(Row) /\ lg[k].seq \in DOMAIN st[lg[k].agg]
    BY <2>2 DEF LogPoints
  <2>4. st[lg[k].agg][lg[k].seq] \in Row
    BY <2>3
  <2>5. st[lg[k].agg][lg[k].seq].type = "session_created" => lg[k].agg \in Sessions
    BY <2>2, <2>3 DEF SessionsCreated
  <2> QED
    BY <2>2, <2>4, <2>5, ReprojectType
<1> HIDE DEF Do
<1>3. G \in [1..n -> [Rebuilds -> Rebuilds]]
  BY <1>2
<1>4. PICK f \in [0..n -> Rebuilds] : Follows(f, Empty, n, G)
  <2> HIDE DEF n, G
  <2> QED
    BY <1>1, <1>3, FollowsExists, Zenon
<1>5. ASSUME NEW k \in 1..n PROVE f[k] = Do(f[k - 1], k)
  <2>1. f[k - 1] \in Rebuilds
    BY <1>1
  <2> QED
    BY <1>4, <2>1 DEF Follows
<1> DEFINE P(g) == g = [k \in 0..Len(lg) |-> IF k = 0 THEN Empty ELSE Do(g[k - 1], k)]
           F == CHOOSE g : P(g)
<1>6. P(f)
  BY <1>4, <1>5 DEF Follows
<1>7. P(F)
  BY <1>6, Zenon
<1>8. RebuiltFrom(lg, st) = F[Len(lg)]
  BY DEF RebuiltFrom, Do
<1> HIDE DEF F
<1>9. F[0] = Empty
  BY <1>1, <1>7
<1>10. \A k \in 1..Len(lg) : F[k] = Do(F[k - 1], k)
  <2>1. \A k \in 0..Len(lg) : F[k] = IF k = 0 THEN Empty ELSE Do(F[k - 1], k)
    BY <1>7, Zenon
  <2>2. \A k \in 1..Len(lg) : k \in 0..Len(lg) /\ k # 0
    BY <1>1
  <2> QED
    BY <2>1, <2>2, Zenon
<1>11. \A k \in 0..Len(lg) : F[k] \in Rebuilds
  <2> DEFINE S == {k \in 0..n : F[k] \in Rebuilds}
  <2>1. 0 \in S
    BY <1>1, <1>9
  <2>2. ASSUME NEW k \in 1..n, k - 1 \in S PROVE k \in S
    BY <1>2, <1>10, <2>2
  <2> HIDE DEF S
  <2>3. 0..n \subseteq S
    BY <1>1, <2>1, <2>2, InductionUpTo
  <2> QED
    BY <2>3 DEF S
<1> QED
  BY <1>8, <1>9, <1>10, <1>11, Zenon DEF Do

\* The rows of the planned events know where they belong.
LEMMA CommandRows ==
  ASSUME TypeOK, NEW c \in CommandIds, NEW a \in Aggregates, NEW evs \in Seq(Planned),
         NEW rows \in Seq(Row), CommandStep(c, a, evs, rows)
  PROVE  /\ Len(rows) = 1 \/ Len(rows) = 2
         /\ Insert(a, rows)
         /\ \A k \in 1..Len(rows) : rows[k].seq = Len(stream[a]) + k /\ rows[k].by = c
         /\ \A k \in 1..Len(rows) : rows[k].type = "session_created" => a \in Sessions
         /\ Len(rows) = 2 => rows[1].type = "task_input_queued" /\ rows[2].type = "task_steered"
<1>1. /\ Len(rows) = 1 \/ Len(rows) = 2
      /\ Insert(a, rows) /\ Len(rows) <= Len(evs)
      /\ \A k \in 1..Len(rows) : /\ rows[k].seq = Len(stream[a]) + k /\ rows[k].by = c
                                 /\ rows[k].type = evs[k].type
  BY DEF CommandStep, Committed
<1>2. Len(rows) = 2 => Len(evs) = 2
  BY <1>1, PlanShape DEF CommandStep
<1>3. Len(evs) = 2 => evs[1].type = "task_input_queued" /\ evs[2].type = "task_steered"
  <2> SUFFICES ASSUME Len(evs) = 2
               PROVE  evs[1].type = "task_input_queued" /\ evs[2].type = "task_steered"
    OBVIOUS
  <2>0. ASSUME NEW x PROVE evs # <<x>>
    <3>1. Len(<<x>>) = 1 /\ 1 # 2
      OBVIOUS
    <3> QED
      BY <3>1, Zenon
  <2>1. ~PlanSession(a, evs)
    BY <2>0, Zenon DEF PlanSession
  <2>2. ~PlanTask(a, evs) /\ ~PlanGoal(a, evs)
    BY <2>0, Zenon DEF PlanTask, PlanGoal
  <2>3. ~PlanLifecycle(a, evs)
    BY <2>0, Zenon DEF PlanLifecycle
  <2>4. PlanInput(a, evs)
    BY <2>1, <2>2, <2>3 DEF CommandStep, Plan
  <2> QED
    BY <2>4 DEF PlanInput, Event
<1>4. evs[1].type = "session_created" => a \in Sessions
  BY PlanShape DEF CommandStep
<1>5. \A k \in 1..Len(rows) : rows[k].type = "session_created" => a \in Sessions
  BY <1>1, <1>2, <1>3, <1>4
<1> QED
  BY <1>1, <1>2, <1>3, <1>5

LEMMA InsertBase ==
  ASSUME BaseInv, NEW a \in Aggregates, NEW rows \in Seq(Row),
         Len(rows) = 1 \/ Len(rows) = 2, Insert(a, rows),
         \A k \in 1..Len(rows) : rows[k].seq = Len(stream[a]) + k,
         \A k \in 1..Len(rows) : rows[k].type = "session_created" => a \in Sessions
  PROVE  LogPoints(log, stream)' /\ SessionsCreated(stream)'
<1>1. /\ Len(stream[a]) \in Nat /\ DOMAIN stream[a] = 1..Len(stream[a])
      /\ \A b \in Aggregates : \A i \in DOMAIN stream[b] :
           i \in DOMAIN stream'[b] /\ stream'[b][i] = stream[b][i]
      /\ \A b \in Aggregates \ {a} : stream'[b] = stream[b]
      /\ \A i \in DOMAIN stream'[a] :
           i \in DOMAIN stream[a] \/ \E k \in 1..Len(rows) : i = Len(stream[a]) + k
      /\ \A k \in 1..Len(rows) : /\ Len(stream[a]) + k \in DOMAIN stream'[a]
                                 /\ stream'[a][Len(stream[a]) + k] = rows[k]
  BY InsertPositions DEF BaseInv
<1>2. /\ Len(log) \in Nat /\ Len(log') = Len(log) + Len(rows)
      /\ \A k \in 1..Len(log) : log'[k] = log[k]
      /\ \A k \in 1..Len(rows) : /\ log'[Len(log) + k].agg = a
                                 /\ log'[Len(log) + k].seq = rows[k].seq
  BY InsertLogs DEF BaseInv
<1>3. ASSUME NEW k \in 1..Len(log') PROVE log'[k].seq \in DOMAIN stream'[log'[k].agg]
  <2>1. CASE k \in 1..Len(log)
    <3>0. log \in Seq(Entries)
      BY DEF BaseInv, TypeOK, Entries
    <3>1. log[k].agg \in Aggregates
      <4>1. log[k] \in Entries
        BY <2>1, <3>0
      <4> QED
        BY <4>1 DEF Entries
    <3> QED
      BY <1>1, <1>2, <2>1, <3>1 DEF BaseInv, LogPoints
  <2>2. CASE k \notin 1..Len(log)
    <3>1. k - Len(log) \in 1..Len(rows) /\ k = Len(log) + (k - Len(log))
      BY <1>2, <2>2
    <3> QED
      BY <1>1, <1>2, <3>1
  <2> QED
    BY <2>1, <2>2
<1>4. ASSUME NEW b \in Aggregates, NEW i \in DOMAIN stream'[b],
             stream'[b][i].type = "session_created"
      PROVE  b \in Sessions
  <2>1. CASE i \in DOMAIN stream[b]
    BY <1>1, <1>4, <2>1 DEF BaseInv, SessionsCreated
  <2>2. CASE i \notin DOMAIN stream[b]
    BY <1>1, <1>4, <2>2
  <2> QED
    BY <2>1, <2>2
<1> QED
  BY <1>3, <1>4 DEF LogPoints, SessionsCreated

LEMMA RebuiltType ==
  ASSUME BaseInv PROVE Rebuilt \in Rebuilds
<1>1. log \in Seq(Entries) /\ stream \in [Aggregates -> Seq(Row)]
  BY DEF BaseInv, TypeOK, Entries
<1>2. Rebuilt = RebuiltFrom(log, stream)
  BY DEF Rebuilt, RebuiltFrom
<1>3. PICK f : RebuiltFrom(log, stream) = f[Len(log)] /\ \A k \in 0..Len(log) : f[k] \in Rebuilds
  BY <1>1, RebuiltUnfolds DEF BaseInv
<1>4. Len(log) \in 0..Len(log)
  BY <1>1
<1> QED
  BY <1>2, <1>3, <1>4

LEMMA BaseStep ==
  ASSUME BaseInv, [RebuildNext]_vars PROVE BaseInv'
<1> USE DEF BaseInv
<1>1. CASE Rebuild
  <2>1. Rebuilt.sessions \subseteq Sessions /\ Rebuilt.tasks \in [Tasks -> TaskRows]
    BY RebuiltType DEF Rebuilds
  <2>2. TypeOK'
    BY <1>1, <2>1 DEF Rebuild, TypeOK, TaskRows, vars, events, projections, leases
  <2>3. UNCHANGED <<stream, log>>
    BY <1>1 DEF Rebuild, vars, events
  <2> QED
    BY <2>2, <2>3 DEF Gapless, LogPoints, SessionsCreated
<1>2. CASE [Next]_vars
  <2>1. TypeOK' /\ Gapless'
    BY <1>2, TypeStep, GaplessStep
  <2>2. ASSUME NEW a \in Aggregates, NEW rows \in Seq(Row),
               Len(rows) = 1 \/ Len(rows) = 2, Insert(a, rows),
               \A k \in 1..Len(rows) : rows[k].seq = Len(stream[a]) + k,
               \A k \in 1..Len(rows) : rows[k].type = "session_created" => a \in Sessions
        PROVE  BaseInv'
    BY <2>1, <2>2, InsertBase
  <2>3. ASSUME NEW c \in CommandIds, NEW a \in Aggregates, NEW evs \in Seq(Planned),
               NEW rows \in Seq(Row), CommandStep(c, a, evs, rows)
        PROVE  BaseInv'
    BY <2>2, <2>3, CommandRows
  <2>4. ASSUME NEW r \in Runs, NEW rows \in Seq(Row), RunStep(r, rows) PROVE BaseInv'
    <3>1. Len(rows) = 1 /\ Insert(r, rows) /\ rows[1].seq = Len(stream[r]) + 1
      BY <2>4 DEF RunStep
    <3>2. rows[1].type # "session_created" /\ r \in Aggregates
      BY <2>4 DEF RunStep, Aggregates
    <3> QED
      BY <2>2, <3>1, <3>2
  <2>5. CASE QuietStep
    BY <2>1, <2>5 DEF QuietStep, events, LogPoints, SessionsCreated
  <2> QED
    BY <2>3, <2>4, <2>5, StepKinds
<1> QED
  BY <1>1, <1>2 DEF RebuildNext

LEMMA BaseInit == Init => BaseInv
<1> SUFFICES ASSUME Init PROVE BaseInv
  OBVIOUS
<1>1. TypeOK
  BY DEF Init, TypeOK, FoldResults, CmdEntry
<1> QED
  BY <1>1 DEF Init, BaseInv, Gapless, LogPoints, SessionsCreated

LEMMA BaseAlways == RebuildSpec => []BaseInv
<1>1. BaseInv /\ [RebuildNext]_vars => BaseInv'
  BY BaseStep
<1> QED
  BY <1>1, BaseInit, PTL DEF RebuildSpec

-----------------------------------------------------------------------------
(***************************************************************************)
(* Idempotency.  A command writes only while its id has no outcome, so it  *)
(* starts from no rows of its own and its outcome lists all it wrote.      *)
(***************************************************************************)
\* WrittenBy, as a function of the streams.
WrittenIn(st, c) ==
  UNION {{<<a, st[a][i].seq>> : i \in {j \in DOMAIN st[a] : st[a][j].by = c}} : a \in Aggregates}

LEMMA WrittenMeans ==
  ASSUME NEW st, NEW c, NEW x
  PROVE  x \in WrittenIn(st, c) <=>
           \E a \in Aggregates : \E i \in DOMAIN st[a] : st[a][i].by = c /\ x = <<a, st[a][i].seq>>
<1> DEFINE Of(a) == {<<a, st[a][i].seq>> : i \in {j \in DOMAIN st[a] : st[a][j].by = c}}
<1>1. \A a : x \in Of(a) <=> \E i \in DOMAIN st[a] : st[a][i].by = c /\ x = <<a, st[a][i].seq>>
  OBVIOUS
<1>2. WrittenIn(st, c) = UNION {Of(a) : a \in Aggregates}
  BY DEF WrittenIn
<1> HIDE DEF Of
<1> QED
  BY <1>1, <1>2

LEMMA InsertWrites ==
  ASSUME TypeOK, NEW a \in Aggregates, NEW rows \in Seq(Row), NEW w,
         Len(rows) = 1 \/ Len(rows) = 2, Insert(a, rows), \A k \in 1..Len(rows) : rows[k].by = w
  PROVE  /\ \A d : d # w => WrittenIn(stream', d) = WrittenIn(stream, d)
         /\ WrittenIn(stream', w) =
              WrittenIn(stream, w) \cup {<<a, rows[k].seq>> : k \in DOMAIN rows}
<1>1. /\ \A b \in Aggregates : \A i \in DOMAIN stream[b] :
           i \in DOMAIN stream'[b] /\ stream'[b][i] = stream[b][i]
      /\ \A b \in Aggregates \ {a} : stream'[b] = stream[b]
      /\ \A i \in DOMAIN stream'[a] :
           i \in DOMAIN stream[a] \/ \E k \in 1..Len(rows) : i = Len(stream[a]) + k
      /\ \A k \in 1..Len(rows) : /\ Len(stream[a]) + k \in DOMAIN stream'[a]
                                 /\ stream'[a][Len(stream[a]) + k] = rows[k]
  BY InsertPositions
<1>2. DOMAIN rows = 1..Len(rows)
  OBVIOUS
<1>w. /\ \A d, x : x \in WrittenIn(stream, d) <=>
           \E b \in Aggregates : \E i \in DOMAIN stream[b] :
             stream[b][i].by = d /\ x = <<b, stream[b][i].seq>>
      /\ \A d, x : x \in WrittenIn(stream', d) <=>
           \E b \in Aggregates : \E i \in DOMAIN stream'[b] :
             stream'[b][i].by = d /\ x = <<b, stream'[b][i].seq>>
  BY WrittenMeans
<1>3. ASSUME NEW d, NEW x \in WrittenIn(stream, d) PROVE x \in WrittenIn(stream', d)
  <2>1. PICK b \in Aggregates :
          \E i \in DOMAIN stream[b] : stream[b][i].by = d /\ x = <<b, stream[b][i].seq>>
    BY <1>w
  <2>2. PICK i \in DOMAIN stream[b] : stream[b][i].by = d /\ x = <<b, stream[b][i].seq>>
    BY <2>1
  <2>3. i \in DOMAIN stream'[b] /\ stream'[b][i].by = d /\ x = <<b, stream'[b][i].seq>>
    BY <1>1, <2>2
  <2> QED
    BY <1>w, <2>3, Zenon
<1>4. ASSUME NEW k \in 1..Len(rows) PROVE <<a, rows[k].seq>> \in WrittenIn(stream', w)
  <2> DEFINE i == Len(stream[a]) + k
  <2>1. i \in DOMAIN stream'[a] /\ stream'[a][i] = rows[k] /\ rows[k].by = w
    BY <1>1
  <2> HIDE DEF i
  <2>2. stream'[a][i].by = w /\ <<a, rows[k].seq>> = <<a, stream'[a][i].seq>>
    BY <2>1
  <2> QED
    BY <1>w, <2>1, <2>2, Zenon
<1>5. ASSUME NEW d, NEW x \in WrittenIn(stream', d)
      PROVE  \/ x \in WrittenIn(stream, d)
             \/ d = w /\ \E k \in 1..Len(rows) : x = <<a, rows[k].seq>>
  <2>0. PICK b \in Aggregates :
          \E i \in DOMAIN stream'[b] : stream'[b][i].by = d /\ x = <<b, stream'[b][i].seq>>
    BY <1>5, <1>w
  <2>1. PICK i \in DOMAIN stream'[b] : stream'[b][i].by = d /\ x = <<b, stream'[b][i].seq>>
    BY <2>0
  <2>2. CASE i \in DOMAIN stream[b]
    <3>1. stream[b][i].by = d /\ x = <<b, stream[b][i].seq>>
      BY <1>1, <2>1, <2>2
    <3> QED
      BY <1>w, <2>2, <3>1, Zenon
  <2>3. CASE i \notin DOMAIN stream[b]
    <3>1. b = a
      BY <1>1, <2>3
    <3>2. PICK k \in 1..Len(rows) : i = Len(stream[a]) + k
      BY <1>1, <2>3, <3>1
    <3>3. stream'[b][i] = rows[k]
      BY <1>1, <3>1, <3>2
    <3> QED
      BY <2>1, <3>1, <3>3
  <2> QED
    BY <2>2, <2>3
<1>6. ASSUME NEW d, d # w PROVE WrittenIn(stream', d) = WrittenIn(stream, d)
  BY <1>3, <1>5, <1>6, Zenon
<1>7. WrittenIn(stream', w) = WrittenIn(stream, w) \cup {<<a, rows[k].seq>> : k \in DOMAIN rows}
  BY <1>2, <1>3, <1>4, <1>5, Zenon
<1> QED
  BY <1>6, <1>7

AppliedInv ==
  \A c \in CommandIds : /\ cmdlog[c].status = "APPLIED" => cmdlog[c].ids = WrittenIn(stream, c)
                        /\ ~Seen(c) => WrittenIn(stream, c) = {}

LEMMA AppliedStep ==
  ASSUME BaseInv, AppliedInv, [RebuildNext]_vars PROVE AppliedInv'
<1>1. TypeOK /\ Gapless /\ cmdlog \in [CommandIds -> CmdEntry]
  BY DEF BaseInv, TypeOK
<1>2. ASSUME NEW c \in CommandIds, NEW a \in Aggregates, NEW evs \in Seq(Planned),
             NEW rows \in Seq(Row), CommandStep(c, a, evs, rows)
      PROVE  AppliedInv'
  <2>1. /\ \A d : d # c => WrittenIn(stream', d) = WrittenIn(stream, d)
        /\ WrittenIn(stream', c) =
              WrittenIn(stream, c) \cup {<<a, rows[k].seq>> : k \in DOMAIN rows}
    <3>1. /\ Len(rows) = 1 \/ Len(rows) = 2
          /\ Insert(a, rows) /\ \A k \in 1..Len(rows) : rows[k].by = c
      BY <1>1, <1>2, CommandRows
    <3> QED
      BY <1>1, <3>1, InsertWrites, Zenon
  <2>2. WrittenIn(stream, c) = {}
    BY <1>2 DEF CommandStep, Fresh, AppliedInv
  <2>3. \/ cmdlog'[c] = [status |-> "APPLIED", ids |-> {<<a, rows[k].seq>> : k \in DOMAIN rows}]
        \/ cmdlog'[c] = [status |-> "REJECTED", ids |-> {}]
    BY <1>1, <1>2 DEF CommandStep, Committed, Record
  <2>4. \A d \in CommandIds \ {c} : cmdlog'[d] = cmdlog[d]
    BY <1>1, <1>2 DEF CommandStep, Committed, Record
  <2>5. WrittenIn(stream', c) = {<<a, rows[k].seq>> : k \in DOMAIN rows}
    BY <2>1, <2>2
  <2> DEFINE new == {<<a, rows[k].seq>> : k \in DOMAIN rows}
  <2> HIDE DEF new
  <2>6. \/ cmdlog'[c].status = "APPLIED" /\ cmdlog'[c].ids = WrittenIn(stream', c)
        \/ cmdlog'[c].status = "REJECTED"
    BY <2>3, <2>5 DEF new
  <2>7. ASSUME NEW d \in CommandIds
        PROVE  /\ cmdlog'[d].status = "APPLIED" => cmdlog'[d].ids = WrittenIn(stream', d)
               /\ cmdlog'[d].status = "none" => WrittenIn(stream', d) = {}
    BY <2>1, <2>4, <2>6 DEF AppliedInv, Seen
  <2> QED
    BY <2>7 DEF AppliedInv, Seen
<1>3. ASSUME NEW r \in Runs, NEW rows \in Seq(Row), RunStep(r, rows) PROVE AppliedInv'
  <2>1. /\ r \in Aggregates /\ Len(rows) = 1 /\ Insert(r, rows)
        /\ \A k \in 1..Len(rows) : rows[k].by = rows[1].by
        /\ rows[1].by \in Leases \cup {NoLease}
    BY <1>3 DEF RunStep, Aggregates
  <2>2. \A c \in CommandIds : c # rows[1].by
    BY <2>1, IdsAssumption, BoundsAssumption DEF CommandIds
  <2>3. \A d : d # rows[1].by => WrittenIn(stream', d) = WrittenIn(stream, d)
    BY <1>1, <2>1, InsertWrites
  <2> QED
    BY <1>3, <2>2, <2>3 DEF RunStep, AppliedInv, Seen
<1>4. CASE QuietStep
  <2>1. stream' = stream
    BY <1>4 DEF QuietStep, events
  <2>2. ASSUME NEW d \in CommandIds
        PROVE  cmdlog'[d] = cmdlog[d] \/ cmdlog'[d] = [status |-> "REJECTED", ids |-> {}]
    BY <1>1, <1>4 DEF QuietStep, Record
  <2> QED
    BY <2>1, <2>2 DEF AppliedInv, Seen
<1> QED
  BY <1>1, <1>2, <1>3, <1>4, StepKinds

\* Idempotency by command_id: however often a command is presented and whatever is
\* executed in between, the rows in the events table on its behalf are exactly the
\* result_event_ids its retries are answered with.
THEOREM RetriesAddNothing == RebuildSpec => []AppliedExactlyOnce
<1>1. Init => AppliedInv
  <2>1. Init => \A c : WrittenIn(stream, c) = {}
    BY DEF Init, WrittenIn
  <2> QED
    BY <2>1 DEF Init, AppliedInv, Seen
<1>2. BaseInv /\ AppliedInv /\ [RebuildNext]_vars => AppliedInv'
  BY AppliedStep
<1>3. AppliedInv => AppliedExactlyOnce
  BY DEF AppliedInv, AppliedExactlyOnce, WrittenBy, WrittenIn
<1> QED
  BY <1>1, <1>2, <1>3, BaseAlways, PTL DEF RebuildSpec

-----------------------------------------------------------------------------
(***************************************************************************)
(* Goal mode.  The gate reads the whole stream of the task, and a stream   *)
(* only grows, so a goal once set binds every later completion.            *)
(***************************************************************************)
LEMMA CompletionPlanned ==
  ASSUME TypeOK, NEW c \in CommandIds, NEW a \in Aggregates, NEW evs \in Seq(Planned),
         NEW rows \in Seq(Row), CommandStep(c, a, evs, rows),
         NEW k \in 1..Len(rows), rows[k].type = "task_completed"
  PROVE  /\ Len(rows) = 1 /\ (rows[k].arg = "verified" \/ ~GoalMode(a))
         /\ a \in Tasks /\ folded[a] = "ready_for_review"
<1>1. /\ Len(rows) = 1 \/ Len(rows) = 2
      /\ Len(rows) = 2 => rows[1].type = "task_input_queued" /\ rows[2].type = "task_steered"
  BY CommandRows
<1>2. Len(rows) = 1 /\ k = 1
  BY <1>1
<1>3. evs[1].type = "task_completed" /\ evs[1].arg = rows[k].arg
  BY <1>2 DEF CommandStep, Committed
<1>4. ~PlanSession(a, evs)
  BY <1>3 DEF PlanSession, Event
<1>5. ~PlanTask(a, evs) /\ ~PlanGoal(a, evs) /\ ~PlanInput(a, evs)
  BY <1>3 DEF PlanTask, PlanGoal, PlanInput, Event
<1>6. PlanLifecycle(a, evs)
  BY <1>4, <1>5 DEF CommandStep, Plan
<1>7. PICK ev \in LifecycleEvents \cup {"review_hunk_resolved", "review_comment_added"},
           arg \in {NoArg, "verified", "claimed"} :
             /\ folded[a] \in AcceptedFrom(ev)
             /\ ev = "task_completed" => arg # NoArg
             /\ arg = "claimed" => ~GoalMode(a)
             /\ evs = <<Event(ev, arg)>>
  BY <1>6 DEF PlanLifecycle
<1>8. evs[1].type = ev /\ evs[1].arg = arg
  BY <1>7 DEF Event
<1>9. folded[a] = "ready_for_review"
  BY <1>3, <1>7, <1>8 DEF AcceptedFrom
<1>10. a \in Tasks
  BY <1>6 DEF PlanLifecycle
<1> QED
  BY <1>2, <1>3, <1>7, <1>8, <1>9, <1>10

LEMMA GoalStep ==
  ASSUME BaseInv, GoalHonoured, [RebuildNext]_vars PROVE GoalHonoured'
<1>1. TypeOK /\ Gapless
  BY DEF BaseInv
<1>2. ASSUME NEW a \in Aggregates, NEW rows \in Seq(Row), Len(rows) = 1 \/ Len(rows) = 2,
             Insert(a, rows),
             \A k \in 1..Len(rows) : rows[k].type = "task_completed" =>
               Len(rows) = 1 /\ (rows[k].arg = "verified" \/ ~GoalMode(a))
      PROVE  GoalHonoured'
  <2>1. /\ Len(stream[a]) \in Nat /\ DOMAIN stream[a] = 1..Len(stream[a])
        /\ \A b \in Aggregates : \A i \in DOMAIN stream[b] :
             i \in DOMAIN stream'[b] /\ stream'[b][i] = stream[b][i]
        /\ \A b \in Aggregates \ {a} : stream'[b] = stream[b]
        /\ \A i \in DOMAIN stream'[a] :
             i \in DOMAIN stream[a] \/ \E k \in 1..Len(rows) : i = Len(stream[a]) + k
        /\ \A k \in 1..Len(rows) : /\ Len(stream[a]) + k \in DOMAIN stream'[a]
                                   /\ stream'[a][Len(stream[a]) + k] = rows[k]
    BY <1>1, <1>2, InsertPositions
  <2>2. ASSUME NEW t \in Tasks, NEW i \in DOMAIN stream'[t], NEW j \in DOMAIN stream'[t],
               i < j, stream'[t][i].type = "goal_set", stream'[t][j].type = "task_completed"
        PROVE  stream'[t][j].arg = "verified"
    <3>0. t \in Aggregates
      BY DEF Aggregates
    <3>1. CASE t # a
      BY <2>1, <2>2, <3>0, <3>1 DEF GoalHonoured
    <3>2. CASE t = a /\ j \in DOMAIN stream[t]
      <4>1. i \in DOMAIN stream[t]
        BY <2>1, <2>2, <3>2
      <4> QED
        BY <2>1, <2>2, <3>0, <3>2, <4>1 DEF GoalHonoured
    <3>3. CASE t = a /\ j \notin DOMAIN stream[t]
      <4>1. PICK k \in 1..Len(rows) : j = Len(stream[a]) + k
        BY <2>1, <3>3
      <4>2. rows[k].type = "task_completed" /\ stream'[t][j].arg = rows[k].arg
        BY <2>1, <2>2, <3>3, <4>1
      <4>3. Len(rows) = 1 /\ k = 1
        BY <1>2, <4>2
      <4>4. i \in DOMAIN stream[a]
        BY <2>1, <2>2, <3>3, <4>1, <4>3
      <4>5. stream[a][i].type = "goal_set"
        BY <2>1, <2>2, <3>3, <4>4
      <4>6. GoalMode(a)
        BY <4>4, <4>5 DEF GoalMode, HasEvent
      <4> QED
        BY <1>2, <4>2, <4>6
    <3> QED
      BY <3>1, <3>2, <3>3
  <2> QED
    BY <2>2 DEF GoalHonoured
<1>3. ASSUME NEW c \in CommandIds, NEW a \in Aggregates, NEW evs \in Seq(Planned),
             NEW rows \in Seq(Row), CommandStep(c, a, evs, rows)
      PROVE  GoalHonoured'
  <2>1. (Len(rows) = 1 \/ Len(rows) = 2) /\ Insert(a, rows)
    BY <1>1, <1>3, CommandRows
  <2>2. \A k \in 1..Len(rows) : rows[k].type = "task_completed" =>
          Len(rows) = 1 /\ (rows[k].arg = "verified" \/ ~GoalMode(a))
    BY <1>1, <1>3, CompletionPlanned
  <2> QED
    BY <1>2, <2>1, <2>2
<1>4. ASSUME NEW r \in Runs, NEW rows \in Seq(Row), RunStep(r, rows) PROVE GoalHonoured'
  <2>1. r \in Aggregates /\ Len(rows) = 1 /\ Insert(r, rows) /\ rows[1].type = "run_event"
    BY <1>4 DEF RunStep, Aggregates
  <2>2. \A k \in 1..Len(rows) : rows[k].type # "task_completed"
    BY <2>1
  <2> QED
    BY <1>2, <2>1, <2>2
<1>5. CASE QuietStep
  BY <1>5 DEF QuietStep, events, GoalHonoured
<1> QED
  BY <1>1, <1>3, <1>4, <1>5, StepKinds

\* Goal mode (REQ-EV-0119): once a goal is in a task's stream, no completion behind it
\* was a bare model claim, whatever was queued, steered, failed or retried in between.
THEOREM GoalsBind == RebuildSpec => []GoalHonoured
<1>1. Init => GoalHonoured
  BY DEF Init, GoalHonoured, Aggregates
<1>2. BaseInv /\ GoalHonoured /\ [RebuildNext]_vars => GoalHonoured'
  BY GoalStep
<1> QED
  BY <1>1, <1>2, BaseAlways, PTL DEF RebuildSpec

-----------------------------------------------------------------------------
(***************************************************************************)
(* The rows of the events table in the order they were committed.          *)
(***************************************************************************)
RowAt(lg, st, k) == st[lg[k].agg][lg[k].seq]

LEMMA InsertEntries ==
  ASSUME BaseInv, NEW a \in Aggregates, NEW rows \in Seq(Row),
         Len(rows) = 1 \/ Len(rows) = 2, Insert(a, rows),
         \A k \in 1..Len(rows) : rows[k].seq = Len(stream[a]) + k
  PROVE  /\ Len(log) \in Nat /\ Len(log') = Len(log) + Len(rows)
         /\ \A k \in 1..Len(log) : /\ log[k].agg \in Aggregates /\ log'[k].agg = log[k].agg
                                   /\ RowAt(log', stream', k) = RowAt(log, stream, k)
         /\ \A k \in 1..Len(rows) : /\ log'[Len(log) + k].agg = a
                                    /\ RowAt(log', stream', Len(log) + k) = rows[k]
<1>1. /\ Len(log) \in Nat /\ Len(log') = Len(log) + Len(rows)
      /\ \A k \in 1..Len(log) : log'[k] = log[k]
      /\ \A k \in 1..Len(rows) : /\ log'[Len(log) + k].agg = a
                                 /\ log'[Len(log) + k].seq = rows[k].seq
  BY InsertLogs DEF BaseInv
<1>2. /\ \A b \in Aggregates : \A i \in DOMAIN stream[b] : stream'[b][i] = stream[b][i]
      /\ \A k \in 1..Len(rows) : stream'[a][Len(stream[a]) + k] = rows[k]
  BY InsertPositions DEF BaseInv
<1>3. ASSUME NEW k \in 1..Len(log) PROVE log[k].agg \in Aggregates
  <2>1. log \in Seq(Entries)
    BY DEF BaseInv, TypeOK, Entries
  <2>2. log[k] \in Entries
    BY <2>1
  <2> QED
    BY <2>2 DEF Entries
<1>4. ASSUME NEW k \in 1..Len(log) PROVE RowAt(log', stream', k) = RowAt(log, stream, k)
  <2>1. log[k].seq \in DOMAIN stream[log[k].agg]
    BY DEF BaseInv, LogPoints
  <2> QED
    BY <1>1, <1>2, <1>3, <2>1 DEF RowAt
<1>5. ASSUME NEW k \in 1..Len(rows) PROVE RowAt(log', stream', Len(log) + k) = rows[k]
  BY <1>1, <1>2 DEF RowAt
<1> QED
  BY <1>1, <1>3, <1>4, <1>5

-----------------------------------------------------------------------------
(***************************************************************************)
(* Fencing.  The current lease of a session has the largest generation     *)
(* granted for it, and only a current lease writes.                        *)
(***************************************************************************)
LeaseInv ==
  /\ \A k \in 1..Len(log) : RowAt(log, stream, k).by \in Leases =>
       granted[RowAt(log, stream, k).by] # NoLease
  /\ \A l \in Leases : granted[l] # NoLease =>
       granted[l].gen <= lease[granted[l].session].gen
  /\ \A s \in Sessions : lease[s].id \in Leases =>
       /\ granted[lease[s].id] # NoLease
       /\ granted[lease[s].id] = [session |-> s, gen |-> lease[s].gen]
  /\ \A j, k \in 1..Len(log) :
       LET b1 == RowAt(log, stream, j).by
           b2 == RowAt(log, stream, k).by
       IN  /\ j < k /\ b1 \in Leases /\ b2 \in Leases
           /\ granted[b1].session = granted[b2].session
           => granted[b1].gen <= granted[b2].gen

LEMMA FencingAppend ==
  ASSUME BaseInv, LeaseInv, NEW a \in Aggregates, NEW rows \in Seq(Row),
         Len(rows) = 1 \/ Len(rows) = 2, Insert(a, rows),
         \A k \in 1..Len(rows) : rows[k].seq = Len(stream[a]) + k,
         UNCHANGED leases,
         \A k \in 1..Len(rows) : rows[k].by \in Leases =>
           /\ Len(rows) = 1 /\ granted[rows[k].by] # NoLease
           /\ IsCurrent(granted[rows[k].by].session, rows[k].by)
  PROVE  LeaseInv'
<1> DEFINE By(k) == RowAt(log, stream, k).by
           New(k) == RowAt(log', stream', k).by
<1>1. /\ Len(log) \in Nat /\ Len(log') = Len(log) + Len(rows)
      /\ \A k \in 1..Len(log) : New(k) = By(k)
      /\ \A k \in 1..Len(rows) : New(Len(log) + k) = rows[k].by
  BY InsertEntries
<1>2. lease' = lease /\ granted' = granted
  BY DEF leases
<1>3. /\ \A k \in 1..Len(log) : By(k) \in Leases => granted[By(k)] # NoLease
      /\ \A l \in Leases : granted[l] # NoLease => granted[l].gen <= lease[granted[l].session].gen
      /\ \A s \in Sessions : lease[s].id \in Leases =>
           /\ granted[lease[s].id] # NoLease
           /\ granted[lease[s].id] = [session |-> s, gen |-> lease[s].gen]
      /\ \A j, k \in 1..Len(log) :
           /\ j < k /\ By(j) \in Leases /\ By(k) \in Leases
           /\ granted[By(j)].session = granted[By(k)].session
           => granted[By(j)].gen <= granted[By(k)].gen
  BY DEF LeaseInv
<1> HIDE DEF By, New
<1>4. ASSUME NEW k \in 1..Len(log'), k \notin 1..Len(log), New(k) \in Leases
      PROVE  /\ Len(rows) = 1 /\ k = Len(log) + 1 /\ New(k) = rows[1].by
             /\ granted[rows[1].by] # NoLease
             /\ IsCurrent(granted[rows[1].by].session, rows[1].by)
  <2>1. k - Len(log) \in 1..Len(rows) /\ k = Len(log) + (k - Len(log))
    BY <1>1, <1>4
  <2>2. New(k) = rows[k - Len(log)].by
    BY <1>1, <2>1
  <2>3. Len(rows) = 1
    BY <1>4, <2>1, <2>2
  <2> QED
    BY <1>4, <2>1, <2>2, <2>3
<1>5. ASSUME NEW k \in 1..Len(log'), New(k) \in Leases PROVE granted[New(k)] # NoLease
  BY <1>1, <1>3, <1>4, <1>5
<1>6. ASSUME NEW j \in 1..Len(log'), NEW k \in 1..Len(log'), j < k,
             New(j) \in Leases, New(k) \in Leases,
             granted[New(j)].session = granted[New(k)].session
      PROVE  granted[New(j)].gen <= granted[New(k)].gen
  <2>1. CASE k \in 1..Len(log)
    <3>1. j \in 1..Len(log)
      BY <1>1, <1>6, <2>1
    <3> QED
      BY <1>1, <1>3, <1>6, <2>1, <3>1
  <2>2. CASE k \notin 1..Len(log)
    <3>1. k = Len(log) + 1 /\ New(k) = rows[1].by /\ j \in 1..Len(log)
      BY <1>1, <1>4, <1>6, <2>2
    <3> DEFINE s == granted[New(k)].session
    <3>2. s \in Sessions
      BY <1>5, <1>6 DEF BaseInv, TypeOK
    <3>3. lease[s].id = New(k)
      BY <1>4, <1>6, <2>2, <3>1 DEF IsCurrent
    <3> HIDE DEF s
    <3>4. granted[New(k)].gen = lease[s].gen
      <4>1. granted[lease[s].id] = [session |-> s, gen |-> lease[s].gen]
        BY <1>3, <1>6, <3>2, <3>3
      <4> QED
        BY <3>3, <4>1
    <3>5. granted[New(j)] # NoLease
      BY <1>5, <1>6
    <3>6. granted[New(j)].gen <= lease[s].gen
      BY <1>3, <1>6, <3>5 DEF s
    <3> QED
      BY <3>4, <3>6
  <2> QED
    BY <2>1, <2>2
<1> QED
  BY <1>2, <1>3, <1>5, <1>6 DEF LeaseInv, By, New

LEMMA FencingAcquire ==
  ASSUME BaseInv, LeaseInv, NEW s \in Sessions, NEW l \in Leases, AcquireLease(s, l)
  PROVE  LeaseInv'
<1> DEFINE By(k) == RowAt(log, stream, k).by
           rec == [session |-> s, gen |-> lease[s].gen + 1]
<1>1. /\ \A k \in 1..Len(log) : By(k) \in Leases => granted[By(k)] # NoLease
      /\ \A m \in Leases : granted[m] # NoLease => granted[m].gen <= lease[granted[m].session].gen
      /\ \A z \in Sessions : lease[z].id \in Leases =>
           /\ granted[lease[z].id] # NoLease
           /\ granted[lease[z].id] = [session |-> z, gen |-> lease[z].gen]
      /\ \A j, k \in 1..Len(log) :
           /\ j < k /\ By(j) \in Leases /\ By(k) \in Leases
           /\ granted[By(j)].session = granted[By(k)].session
           => granted[By(j)].gen <= granted[By(k)].gen
  BY DEF LeaseInv
<1>2. /\ granted \in [Leases -> [session : Sessions, gen : Nat \ {0}] \cup {NoLease}]
      /\ lease \in [Sessions -> [id : Leases \cup {NoLease}, gen : Nat]]
  BY DEF BaseInv, TypeOK
<1>3. /\ granted[l] = NoLease /\ log' = log /\ stream' = stream
      /\ granted' = [granted EXCEPT ![l] = rec]
      /\ lease' = [lease EXCEPT ![s] = [id |-> l, gen |-> lease[s].gen + 1]]
  BY DEF AcquireLease, events
<1>4. lease[s].gen \in Nat /\ rec # NoLease /\ rec.session = s /\ rec.gen = lease[s].gen + 1
  <2>1. lease[s].gen \in Nat
    BY <1>2
  <2>2. rec \in [session : Sessions, gen : Nat]
    BY <2>1
  <2> QED
    BY <2>1, <2>2, IdsAssumption
<1> HIDE DEF By, rec
<1>5. /\ \A m \in Leases \ {l} : granted'[m] = granted[m]
      /\ granted'[l] = rec
      /\ \A z \in Sessions \ {s} : lease'[z] = lease[z]
      /\ lease'[s].id = l /\ lease'[s].gen = lease[s].gen + 1
  BY <1>2, <1>3
<1>6. \A k \in 1..Len(log) : By(k) \in Leases => granted'[By(k)] = granted[By(k)] /\ granted[By(k)] # NoLease
  BY <1>1, <1>3, <1>5
<1>7. ASSUME NEW m \in Leases, granted'[m] # NoLease
      PROVE  granted'[m].gen <= lease'[granted'[m].session].gen
  <2>1. CASE m = l
    BY <1>4, <1>5, <2>1
  <2>2. CASE m # l
    <3>1. granted'[m] = granted[m] /\ granted[m] # NoLease
      BY <1>5, <1>7, <2>2
    <3>2. granted[m].session \in Sessions /\ granted[m].gen \in Nat
      BY <1>2, <3>1
    <3>3. granted[m].gen <= lease[granted[m].session].gen
      BY <1>1, <3>1
    <3> QED
      BY <1>4, <1>5, <3>1, <3>2, <3>3
  <2> QED
    BY <2>1, <2>2
<1>8. ASSUME NEW z \in Sessions, lease'[z].id \in Leases
      PROVE  /\ granted'[lease'[z].id] # NoLease
             /\ granted'[lease'[z].id] = [session |-> z, gen |-> lease'[z].gen]
  <2>1. CASE z = s
    BY <1>4, <1>5, <2>1 DEF rec
  <2>2. CASE z # s
    BY <1>1, <1>3, <1>5, <1>8, <2>2
  <2> QED
    BY <2>1, <2>2
<1> QED
  BY <1>1, <1>3, <1>6, <1>7, <1>8 DEF LeaseInv, By

LEMMA FencingStep ==
  ASSUME BaseInv, LeaseInv, [RebuildNext]_vars PROVE LeaseInv'
<1>1. TypeOK /\ Gapless
  BY DEF BaseInv
<1>2. ASSUME NEW c \in CommandIds, NEW a \in Aggregates, NEW evs \in Seq(Planned),
             NEW rows \in Seq(Row), CommandStep(c, a, evs, rows)
      PROVE  LeaseInv'
  <2>1. /\ Len(rows) = 1 \/ Len(rows) = 2
        /\ Insert(a, rows)
        /\ \A k \in 1..Len(rows) : rows[k].seq = Len(stream[a]) + k /\ rows[k].by = c
    BY <1>1, <1>2, CommandRows
  <2>2. c \notin Leases
    BY IdsAssumption, BoundsAssumption DEF CommandIds
  <2>3. UNCHANGED leases
    BY <1>2 DEF CommandStep, Committed
  <2> QED
    BY <2>1, <2>2, <2>3, FencingAppend
<1>3. ASSUME NEW r \in Runs, NEW rows \in Seq(Row), RunStep(r, rows) PROVE LeaseInv'
  <2>1. /\ r \in Aggregates /\ Len(rows) = 1 /\ Insert(r, rows)
        /\ rows[1].seq = Len(stream[r]) + 1 /\ UNCHANGED leases
        /\ rows[1].by \in Leases => /\ granted[rows[1].by] # NoLease
                                    /\ IsCurrent(granted[rows[1].by].session, rows[1].by)
    BY <1>3, IdsAssumption DEF RunStep, Aggregates
  <2> QED
    BY <2>1, FencingAppend
<1>4. CASE QuietStep
  <2>1. CASE UNCHANGED leases
    BY <1>4, <2>1 DEF QuietStep, events, leases, LeaseInv
  <2>2. CASE \E s \in Sessions, l \in Leases : AcquireLease(s, l)
    BY <2>2, FencingAcquire
  <2> QED
    BY <1>4, <2>1, <2>2 DEF QuietStep
<1> QED
  BY <1>1, <1>2, <1>3, <1>4, StepKinds

\* Fencing: in the order of the events table the leased rows of a session carry
\* generations that never go back, so a writer whose lease was taken over wrote nothing
\* afterwards, whatever it had cached or numbered before.
THEOREM LostLeasesAreFenced == RebuildSpec => []FencedWritersStop
<1>1. Init => LeaseInv
  BY IdsAssumption DEF Init, LeaseInv
<1>2. BaseInv /\ LeaseInv /\ [RebuildNext]_vars => LeaseInv'
  BY FencingStep
<1>3. BaseInv /\ LeaseInv => FencedWritersStop
  <2> SUFFICES ASSUME BaseInv, LeaseInv PROVE FencedWritersStop
    OBVIOUS
  <2>1. DOMAIN log = 1..Len(log)
    BY DEF BaseInv, TypeOK
  <2> QED
    BY <2>1 DEF LeaseInv, FencedWritersStop, LeasedAt, GenerationAt, RowAt
<1> QED
  BY <1>1, <1>2, <1>3, BaseAlways, PTL DEF RebuildSpec

-----------------------------------------------------------------------------
(***************************************************************************)
(* The fold.  The model carries fold_task along the inserts; the code      *)
(* computes it from the whole stream whenever a command needs it.          *)
(***************************************************************************)
TypesOf(st, t) == [i \in DOMAIN st[t] |-> st[t][i].type]

LEMMA InsertFoldsAll ==
  ASSUME TypeOK, NEW t \in Tasks, NEW rows \in Seq(Row), Len(rows) = 1 \/ Len(rows) = 2,
         Insert(t, rows), folded[t] = FoldTask(TypesOf(stream, t))
  PROVE  folded'[t] = FoldTask(TypesOf(stream', t))
<1> DEFINE n == Len(stream[t])
           old == TypesOf(stream, t)
           new == TypesOf(stream', t)
<1>1. t \in Aggregates
  BY DEF Aggregates
<1>2. /\ stream[t] \in Seq(Row) /\ stream'[t] \in Seq(Row)
      /\ Len(stream'[t]) = n + Len(rows)
      /\ \A i \in 1..n : stream'[t][i] = stream[t][i]
      /\ \A i \in 1..Len(rows) : stream'[t][n + i] = rows[i]
  BY <1>1, InsertShape DEF TypeOK
<1>3. n \in Nat /\ DOMAIN stream[t] = 1..n /\ DOMAIN stream'[t] = 1..(n + Len(rows))
  BY <1>2
<1>4. /\ \A i \in 1..n : stream[t][i].type \in EventTypes
      /\ \A i \in 1..(n + Len(rows)) : stream'[t][i].type \in EventTypes
  <2>1. /\ \A i \in 1..n : stream[t][i] \in Row
        /\ \A i \in 1..(n + Len(rows)) : stream'[t][i] \in Row
    BY <1>2, <1>3
  <2> QED
    BY <2>1, RowFields
<1> HIDE DEF n
<1>5. /\ old \in Seq(EventTypes) /\ Len(old) = n
      /\ new \in Seq(EventTypes) /\ Len(new) = n + Len(rows)
      /\ \A i \in 1..n : new[i] = old[i]
      /\ \A i \in 1..Len(rows) : new[n + i] = rows[i].type
  BY <1>2, <1>3, <1>4 DEF TypesOf
<1> HIDE DEF old, new
<1>6. folded[t] = FoldTask(old)
  BY DEF old
<1>7. CASE Len(rows) = 1
  <2>1. FoldTask(new) = FoldStep(FoldTask(old), new[Len(new)])
    BY <1>3, <1>5, <1>7, FoldTaskAppends
  <2>2. new[Len(new)] = rows[1].type
    BY <1>5, <1>7
  <2>3. folded'[t] = FoldStep(folded[t], rows[1].type)
    BY <1>7, OneRow
  <2> QED
    BY <1>6, <2>1, <2>2, <2>3 DEF new
<1>8. CASE Len(rows) = 2
  <2> DEFINE mid == [i \in 1..(n + 1) |-> new[i]]
  <2>1. /\ mid \in Seq(EventTypes) /\ Len(mid) = n + 1
        /\ \A i \in 1..n : mid[i] = old[i]
        /\ \A i \in 1..(n + 1) : new[i] = mid[i]
        /\ mid[Len(mid)] = rows[1].type /\ new[Len(new)] = rows[2].type
        /\ Len(new) = Len(mid) + 1
    BY <1>3, <1>5, <1>8
  <2> HIDE DEF mid
  <2>2. FoldTask(mid) = FoldStep(FoldTask(old), mid[Len(mid)])
    BY <1>5, <2>1, FoldTaskAppends
  <2>3. FoldTask(new) = FoldStep(FoldTask(mid), new[Len(new)])
    BY <1>5, <2>1, FoldTaskAppends
  <2>4. folded'[t] = FoldStep(FoldStep(folded[t], rows[1].type), rows[2].type)
    BY <1>8, TwoRows
  <2> QED
    BY <1>6, <2>1, <2>2, <2>3, <2>4 DEF new
<1> QED
  BY <1>7, <1>8

LEMMA FoldInvStep ==
  ASSUME BaseInv, FoldIsFoldTask, [RebuildNext]_vars PROVE FoldIsFoldTask'
<1>1. TypeOK /\ Gapless
  BY DEF BaseInv
<1>2. \A t \in Tasks : folded[t] = FoldTask(TypesOf(stream, t))
  BY DEF FoldIsFoldTask, TypesOf
<1>3. SUFFICES \A t \in Tasks : folded'[t] = FoldTask(TypesOf(stream', t))
  BY DEF FoldIsFoldTask, TypesOf
<1>4. ASSUME NEW a \in Aggregates, NEW rows \in Seq(Row), Len(rows) = 1 \/ Len(rows) = 2,
             Insert(a, rows), NEW t \in Tasks
      PROVE  folded'[t] = FoldTask(TypesOf(stream', t))
  <2>1. CASE t = a
    BY <1>1, <1>2, <1>4, <2>1, InsertFoldsAll
  <2>2. CASE t # a
    <3>1. stream'[t] = stream[t]
      BY <1>1, <1>4, <2>2, InsertShape DEF Aggregates
    <3>2. folded'[t] = folded[t]
      BY <1>1, <1>4, <2>2 DEF Insert, TypeOK
    <3>3. TypesOf(stream', t) = TypesOf(stream, t)
      BY <3>1 DEF TypesOf
    <3> QED
      BY <1>2, <3>2, <3>3
  <2> QED
    BY <2>1, <2>2
<1>5. ASSUME NEW c \in CommandIds, NEW a \in Aggregates, NEW evs \in Seq(Planned),
             NEW rows \in Seq(Row), CommandStep(c, a, evs, rows), NEW t \in Tasks
      PROVE  folded'[t] = FoldTask(TypesOf(stream', t))
  BY <1>4, <1>5 DEF CommandStep, Committed
<1>6. ASSUME NEW r \in Runs, NEW rows \in Seq(Row), RunStep(r, rows), NEW t \in Tasks
      PROVE  folded'[t] = FoldTask(TypesOf(stream', t))
  BY <1>4, <1>6 DEF RunStep, Aggregates
<1>7. ASSUME QuietStep, NEW t \in Tasks PROVE folded'[t] = FoldTask(TypesOf(stream', t))
  <2>1. stream' = stream /\ folded' = folded
    BY <1>7 DEF QuietStep, events
  <2> QED
    BY <1>2, <2>1
<1> QED
  BY <1>1, <1>5, <1>6, <1>7, StepKinds

\* The state that decides about a command is fold_task of the task's whole stored
\* stream, after every sequence of commands, rejected half-written ones included.
THEOREM FoldsAgree == RebuildSpec => []FoldIsFoldTask
<1>1. Init => FoldIsFoldTask
  <2> SUFFICES ASSUME Init, NEW t \in Tasks PROVE folded[t] = FoldTask(TypesOf(stream, t))
    BY DEF FoldIsFoldTask, TypesOf
  <2>1. stream[t] = <<>> /\ folded[t] = None
    BY DEF Init, Aggregates
  <2>2. TypesOf(stream, t) \in Seq(EventTypes) /\ Len(TypesOf(stream, t)) = 0
    BY <2>1 DEF TypesOf
  <2> QED
    BY <2>1, <2>2, FoldTaskUnfolds
<1>2. BaseInv /\ FoldIsFoldTask /\ [RebuildNext]_vars => FoldIsFoldTask'
  BY FoldInvStep
<1> QED
  BY <1>1, <1>2, BaseAlways, PTL DEF RebuildSpec

-----------------------------------------------------------------------------
(***************************************************************************)
(* The rebuild.  What a rebuild would produce moves along with the rows    *)
(* the commands maintain, until a row is committed that no projection can  *)
(* take; from then on the rebuild stops short.                             *)
(***************************************************************************)
LEMMA RebuiltAppends ==
  ASSUME BaseInv, BaseInv', NEW a \in Aggregates, NEW rows \in Seq(Row),
         Len(rows) = 1 \/ Len(rows) = 2, Insert(a, rows),
         \A k \in 1..Len(rows) : rows[k].seq = Len(stream[a]) + k
  PROVE  /\ Len(rows) = 1 => Rebuilt' = Reproject(Rebuilt, a, rows[1])
         /\ Len(rows) = 2 => Rebuilt' = Reproject(Reproject(Rebuilt, a, rows[1]), a, rows[2])
<1> DEFINE n == Len(log)
<1>1. /\ n \in Nat /\ Len(log') = n + Len(rows)
      /\ \A k \in 1..n : log'[k].agg = log[k].agg /\ RowAt(log', stream', k) = RowAt(log, stream, k)
      /\ \A k \in 1..Len(rows) : /\ log'[n + k].agg = a
                                 /\ RowAt(log', stream', n + k) = rows[k]
  BY InsertEntries
<1>2. /\ log \in Seq(Entries) /\ stream \in [Aggregates -> Seq(Row)]
      /\ log' \in Seq(Entries) /\ stream' \in [Aggregates -> Seq(Row)]
  BY DEF BaseInv, TypeOK, Entries
<1>3. LogPoints(log, stream) /\ SessionsCreated(stream)
  BY DEF BaseInv
<1>4. LogPoints(log', stream') /\ SessionsCreated(stream')
  BY DEF BaseInv, LogPoints, SessionsCreated
<1>5. Rebuilt = RebuiltFrom(log, stream) /\ Rebuilt' = RebuiltFrom(log', stream')
  BY DEF Rebuilt, RebuiltFrom
<1>6. PICK f : /\ RebuiltFrom(log, stream) = f[Len(log)] /\ f[0] = Empty
               /\ \A k \in 0..Len(log) : f[k] \in Rebuilds
               /\ \A k \in 1..Len(log) :
                    f[k] = Reproject(f[k - 1], log[k].agg, stream[log[k].agg][log[k].seq])
  BY <1>2, <1>3, RebuiltUnfolds, Zenon
<1>7. PICK g : /\ RebuiltFrom(log', stream') = g[Len(log')] /\ g[0] = Empty
               /\ \A k \in 0..Len(log') : g[k] \in Rebuilds
               /\ \A k \in 1..Len(log') :
                    g[k] = Reproject(g[k - 1], log'[k].agg, stream'[log'[k].agg][log'[k].seq])
  BY <1>2, <1>4, RebuiltUnfolds, Zenon
<1>8. /\ \A k \in 1..n : f[k] = Reproject(f[k - 1], log[k].agg, RowAt(log, stream, k))
      /\ \A k \in 1..(n + Len(rows)) : g[k] = Reproject(g[k - 1], log'[k].agg, RowAt(log', stream', k))
  BY <1>1, <1>6, <1>7 DEF RowAt
<1>9. f[n] = g[n]
  <2> DEFINE S == {k \in 0..n : f[k] = g[k]}
  <2>1. n \in Nat /\ 0 \in S
    BY <1>1, <1>6, <1>7
  <2>2. ASSUME NEW k \in 1..n, k - 1 \in S PROVE k \in S
    <3>1. k \in 1..(n + Len(rows))
      BY <1>1
    <3> QED
      BY <1>1, <1>8, <2>2, <3>1
  <2> HIDE DEF S, n
  <2>3. 0..n \subseteq S
    BY <2>1, <2>2, InductionUpTo
  <2>4. n \in S
    BY <2>1, <2>3
  <2> QED
    BY <2>4 DEF S
<1>10. ASSUME NEW k \in 1..Len(rows) PROVE g[n + k] = Reproject(g[n + k - 1], a, rows[k])
  <2>1. n + k \in 1..(n + Len(rows))
    BY <1>1
  <2> QED
    BY <1>1, <1>8, <2>1
<1>11. Rebuilt = g[n] /\ Rebuilt' = g[n + Len(rows)]
  BY <1>1, <1>5, <1>6, <1>7, <1>9
<1>12. CASE Len(rows) = 1
  <2>1. g[n + 1] = Reproject(g[n], a, rows[1])
    BY <1>1, <1>10, <1>12
  <2> QED
    BY <1>11, <1>12, <2>1
<1>13. CASE Len(rows) = 2
  <2>1. g[n + 1] = Reproject(g[n], a, rows[1])
    BY <1>1, <1>10, <1>13
  <2>2. g[n + 2] = Reproject(g[n + 1], a, rows[2])
    BY <1>1, <1>10, <1>13
  <2> QED
    BY <1>11, <1>13, <2>1, <2>2
<1> QED
  BY <1>12, <1>13

\* A rebuild that would run to its end reproduces the rows; one that would not has no
\* task row that the commands do not have.
RebuildInv ==
  /\ Rebuilt.failed \/ (Rebuilt.sessions = sessionRows /\ Rebuilt.tasks = taskRow)
  /\ \A t \in Tasks : Rebuilt.tasks[t] # NoRow => taskRow[t] # NoRow

\* The two ways a command ends, as far as the projections are concerned.
LEMMA RebuiltOfApplied ==
  ASSUME BaseInv, NEW a \in Aggregates, NEW rows \in Seq(Row), Len(rows) = 1 \/ Len(rows) = 2,
         Len(rows) = 2 => rows[1].type = "task_input_queued" /\ rows[2].type = "task_steered",
         ~Rebuilt.failed, Rebuilt.sessions = sessionRows, Rebuilt.tasks = taskRow,
         Projects(a, rows[1]), Project(a, rows),
         /\ Len(rows) = 1 => Rebuilt' = Reproject(Rebuilt, a, rows[1])
         /\ Len(rows) = 2 => Rebuilt' = Reproject(Reproject(Rebuilt, a, rows[1]), a, rows[2])
  PROVE  Rebuilt'.sessions = sessionRows' /\ Rebuilt'.tasks = taskRow'
<1> DEFINE R == Rebuilt
           one == Reproject(R, a, rows[1])
           ts == IF a \in Tasks THEN [taskRow EXCEPT ![a] = ProjectTaskRow(taskRow[a], rows[1])]
                                ELSE taskRow
           ss == IF rows[1].type = "session_created" THEN sessionRows \cup {a} ELSE sessionRows
<1>0. taskRow \in [Tasks -> TaskRows]
  BY DEF BaseInv, TypeOK, TaskRows
<1>1. one = [sessions |-> ss, tasks |-> ts, failed |-> FALSE]
  BY DEF Reproject, Projects
<1>2. sessionRows' = ss
  BY DEF Project
<1>3. CASE Len(rows) = 1
  <2>1. taskRow' = ts
    BY <1>3 DEF Project, ForEach
  <2> HIDE DEF ss, ts
  <2> QED
    BY <1>1, <1>2, <1>3, <2>1
<1>4. CASE Len(rows) = 2
  <2> DEFINE us == IF a \in Tasks THEN [ts EXCEPT ![a] = ProjectTaskRow(ts[a], rows[2])] ELSE ts
  <2>1. Rebuilt' = [sessions |-> one.sessions, tasks |-> us, failed |-> FALSE]
    <3> HIDE DEF ts, ss
    <3>1. Rebuilt' = Reproject(one, a, rows[2])
      BY <1>4
    <3>2. one.failed = FALSE /\ one.tasks = ts
      BY <1>1
    <3>3. rows[2].type = "task_steered"
      BY <1>4
    <3> HIDE DEF one
    <3> QED
      BY <3>1, <3>2, <3>3 DEF Reproject
  <2>2. taskRow' = us
    <3>1. CASE a \in Tasks
      <4>1. taskRow' = [taskRow EXCEPT ![a] =
                          ProjectTaskRow(ProjectTaskRow(taskRow[a], rows[1]), rows[2])]
        BY <1>4, <3>1 DEF Project, ForEach
      <4>2. ts[a] = ProjectTaskRow(taskRow[a], rows[1])
        BY <1>0, <3>1
      <4> QED
        BY <1>0, <3>1, <4>1, <4>2
    <3>2. CASE a \notin Tasks
      BY <3>2 DEF Project
    <3> QED
      BY <3>1, <3>2
  <2>3. one.sessions = ss
    <3> HIDE DEF ts, ss
    <3> QED
      BY <1>1
  <2> HIDE DEF us, ts, ss, one
  <2> QED
    BY <1>2, <2>1, <2>2, <2>3
<1> QED
  BY <1>3, <1>4

LEMMA RebuiltOfRejected ==
  ASSUME BaseInv, NEW a \in Aggregates, NEW row \in Row, row.type = "task_input_queued" => a \in Tasks,
         ~Rebuilt.failed, Rebuilt.sessions = sessionRows, Rebuilt.tasks = taskRow,
         ~Projects(a, row), Rebuilt' = Reproject(Rebuilt, a, row)
  PROVE  /\ Rebuilt'.tasks = taskRow
         /\ Rebuilt'.failed \/ Rebuilt'.sessions = sessionRows
<1>0. Rebuilt \in Rebuilds /\ taskRow \in [Tasks -> TaskRows]
  BY RebuiltType DEF BaseInv, TypeOK, TaskRows
<1>1. CASE \/ row.type = "task_created" /\ row.arg \notin sessionRows
           \/ row.type = "task_input_queued" /\ taskRow[a] = NoRow
  <2>1. Rebuilt' = [Rebuilt EXCEPT !.failed = TRUE]
    BY <1>1 DEF Reproject
  <2> QED
    BY <1>0, <2>1 DEF Rebuilds
<1>2. CASE ~(\/ row.type = "task_created" /\ row.arg \notin sessionRows
             \/ row.type = "task_input_queued" /\ taskRow[a] = NoRow)
  <2>1. row.type = "task_input_queued" /\ a \in Tasks
    BY <1>2 DEF Projects
  <2>2. ProjectTaskRow(taskRow[a], row) = taskRow[a]
    <3>1. row.type \notin LifecycleEvents /\ row.type # "task_created"
      BY <2>1 DEF LifecycleEvents
    <3> QED
      BY <1>0, <2>1, <3>1, ProjectTaskRowState
  <2>3. [taskRow EXCEPT ![a] = ProjectTaskRow(taskRow[a], row)] = taskRow
    BY <1>0, <2>1, <2>2
  <2>4. Rebuilt' = [sessions |-> sessionRows, tasks |-> taskRow, failed |-> FALSE]
    BY <1>2, <2>1, <2>3 DEF Reproject
  <2> QED
    BY <2>4
<1> QED
  BY <1>1, <1>2

LEMMA ProjectKeepsRow ==
  ASSUME NEW old \in TaskRows, NEW r \in Row, old # NoRow
  PROVE  ProjectTaskRow(old, r) # NoRow
<1>1. r.type = "task_created" \/ r.type \in LifecycleEvents
        \/ (r.type # "task_created" /\ r.type \notin LifecycleEvents)
  OBVIOUS
<1> QED
  BY <1>1, ProjectTaskRowState

\* A command never takes a task's row away.
LEMMA RowsPersist ==
  ASSUME TypeOK, NEW a \in Aggregates, NEW rows \in Seq(Row), Len(rows) = 1 \/ Len(rows) = 2,
         Project(a, rows), NEW t \in Tasks, taskRow[t] # NoRow
  PROVE  taskRow'[t] # NoRow
<1>0. taskRow \in [Tasks -> TaskRows]
  BY DEF TypeOK, TaskRows
<1>1. CASE t # a \/ a \notin Tasks
  BY <1>0, <1>1 DEF Project
<1>2. CASE t = a /\ a \in Tasks
  <2>1. rows[1] \in Row /\ (Len(rows) = 2 => rows[2] \in Row)
    OBVIOUS
  <2> DEFINE one == ProjectTaskRow(taskRow[a], rows[1])
  <2>2. one \in TaskRows /\ one # NoRow
    BY <1>0, <1>2, <2>1, ProjectTaskRowType, ProjectKeepsRow
  <2>3. taskRow'[a] = IF Len(rows) = 1 THEN one ELSE ProjectTaskRow(one, rows[2])
    BY <1>0, <1>2 DEF Project, ForEach
  <2> HIDE DEF one
  <2>4. Len(rows) = 2 => ProjectTaskRow(one, rows[2]) # NoRow
    BY <2>1, <2>2, ProjectKeepsRow
  <2> QED
    BY <1>2, <2>2, <2>3, <2>4
<1> QED
  BY <1>1, <1>2

LEMMA RebuildInvStep ==
  ASSUME BaseInv, BaseInv', RebuildInv, [RebuildNext]_vars PROVE RebuildInv'
<1>1. TypeOK /\ Gapless
  BY DEF BaseInv
<1>2. ASSUME NEW c \in CommandIds, NEW a \in Aggregates, NEW evs \in Seq(Planned),
             NEW rows \in Seq(Row), CommandStep(c, a, evs, rows)
      PROVE  RebuildInv'
  <2>1. /\ Len(rows) = 1 \/ Len(rows) = 2
        /\ Insert(a, rows)
        /\ \A k \in 1..Len(rows) : rows[k].seq = Len(stream[a]) + k
        /\ Len(rows) = 2 => rows[1].type = "task_input_queued" /\ rows[2].type = "task_steered"
    BY <1>1, <1>2, CommandRows
  <2>2. /\ Len(rows) = 1 => Rebuilt' = Reproject(Rebuilt, a, rows[1])
        /\ Len(rows) = 2 => Rebuilt' = Reproject(Reproject(Rebuilt, a, rows[1]), a, rows[2])
    BY <2>1, RebuiltAppends
  <2>3. \/ Projects(a, rows[1]) /\ Project(a, rows)
        \/ Len(rows) = 1 /\ ~Projects(a, rows[1]) /\ UNCHANGED projections
    BY <1>2 DEF CommandStep, Committed
  <2>4. rows[1] \in Row /\ (rows[1].type = "task_input_queued" => a \in Tasks)
    <3>1. evs[1].type = "task_input_queued" => a \in Tasks
      BY <1>2, PlanShape DEF CommandStep
    <3>2. rows[1].type = evs[1].type
      BY <1>2, <2>1 DEF CommandStep, Committed
    <3> QED
      BY <2>1, <3>1, <3>2
  <2>5. CASE Rebuilt.failed
    <3>1. Rebuilt' = Rebuilt
      BY <2>1, <2>2, <2>5 DEF Reproject
    <3>2. ASSUME NEW t \in Tasks, taskRow[t] # NoRow PROVE taskRow'[t] # NoRow
      BY <1>1, <2>1, <2>3, <3>2, RowsPersist DEF projections
    <3> QED
      BY <2>5, <3>1, <3>2 DEF RebuildInv
  <2>6. CASE ~Rebuilt.failed
    <3>1. Rebuilt.sessions = sessionRows /\ Rebuilt.tasks = taskRow
      BY <2>6 DEF RebuildInv
    <3>2. CASE Projects(a, rows[1]) /\ Project(a, rows)
      <4>1. Rebuilt'.sessions = sessionRows' /\ Rebuilt'.tasks = taskRow'
        BY <2>1, <2>2, <2>6, <3>1, <3>2, RebuiltOfApplied
      <4> QED
        BY <4>1 DEF RebuildInv
    <3>3. CASE Len(rows) = 1 /\ ~Projects(a, rows[1]) /\ UNCHANGED projections
      <4>1. Rebuilt'.tasks = taskRow /\ (Rebuilt'.failed \/ Rebuilt'.sessions = sessionRows)
        BY <2>2, <2>4, <2>6, <3>1, <3>3, RebuiltOfRejected
      <4> QED
        BY <3>3, <4>1 DEF RebuildInv, projections
    <3> QED
      BY <2>3, <3>2, <3>3
  <2> QED
    BY <2>5, <2>6
<1>3. ASSUME NEW r \in Runs, NEW rows \in Seq(Row), RunStep(r, rows) PROVE RebuildInv'
  <2>1. /\ r \in Aggregates /\ r \notin Tasks
        /\ Len(rows) = 1 /\ Insert(r, rows)
        /\ rows[1].seq = Len(stream[r]) + 1 /\ rows[1].type = "run_event"
    BY <1>3, IdsAssumption DEF RunStep, Aggregates
  <2>2. Rebuilt' = Reproject(Rebuilt, r, rows[1])
    BY <2>1, RebuiltAppends
  <2>3. sessionRows' = sessionRows /\ taskRow' = taskRow
    BY <1>3 DEF RunStep, projections
  <2>4. \/ Rebuilt.failed /\ Rebuilt' = Rebuilt
        \/ /\ ~Rebuilt.failed
           /\ Rebuilt' = [sessions |-> Rebuilt.sessions, tasks |-> Rebuilt.tasks, failed |-> FALSE]
    BY <2>1, <2>2 DEF Reproject
  <2> QED
    BY <2>3, <2>4 DEF RebuildInv
<1>4. CASE QuietStep
  <2>1. log' = log /\ stream' = stream
    BY <1>4 DEF QuietStep, events
  <2>2. Rebuilt' = Rebuilt
    <3>1. Rebuilt = RebuiltFrom(log, stream) /\ Rebuilt' = RebuiltFrom(log', stream')
      BY DEF Rebuilt, RebuiltFrom
    <3> QED
      BY <2>1, <3>1
  <2>3. \/ sessionRows' = sessionRows /\ taskRow' = taskRow
        \/ sessionRows' = Rebuilt.sessions /\ taskRow' = Rebuilt.tasks
    BY <1>4 DEF QuietStep, projections, Rebuild, vars
  <2> QED
    BY <2>2, <2>3 DEF RebuildInv
<1> QED
  BY <1>1, <1>2, <1>3, <1>4, StepKinds

LEMMA RebuildInvAlways == RebuildSpec => [](BaseInv /\ RebuildInv)
<1>1. Init => RebuildInv
  <2> SUFFICES ASSUME Init PROVE RebuildInv
    OBVIOUS
  <2>1. /\ log \in Seq(Entries) /\ stream \in [Aggregates -> Seq(Row)]
        /\ LogPoints(log, stream) /\ SessionsCreated(stream) /\ Len(log) = 0
    BY BaseInit DEF BaseInv, TypeOK, Entries, Init
  <2>2. Rebuilt = RebuiltFrom(log, stream)
    BY DEF Rebuilt, RebuiltFrom
  <2>3. PICK f : /\ RebuiltFrom(log, stream) = f[Len(log)] /\ f[0] = Empty
                 /\ \A k \in 0..Len(log) : f[k] \in Rebuilds
                 /\ \A k \in 1..Len(log) :
                      f[k] = Reproject(f[k - 1], log[k].agg, stream[log[k].agg][log[k].seq])
    BY <2>1, RebuiltUnfolds, Zenon
  <2>4. Rebuilt = Empty
    BY <2>1, <2>2, <2>3
  <2> QED
    BY <2>4 DEF Empty, Init, RebuildInv
<1>2. BaseInv /\ BaseInv' /\ RebuildInv /\ [RebuildNext]_vars => RebuildInv'
  BY RebuildInvStep
<1> QED
  BY <1>1, <1>2, BaseAlways, PTL DEF RebuildSpec

\* Replaying the events table from nothing, in rowid order, ends with exactly the rows
\* that the commands had maintained one transaction at a time, whenever no statement
\* of the replay fails (projections.rs, rebuild).
THEOREM RebuildIsFaithful == RebuildSpec => RebuildReproduces
<1>1. RebuildInv /\ [RebuildNext]_vars =>
        [Rebuild /\ ~Rebuilt.failed => UNCHANGED projections]_vars
  <2> SUFFICES ASSUME RebuildInv, Rebuild, ~Rebuilt.failed PROVE UNCHANGED projections
    OBVIOUS
  <2>1. Rebuilt.sessions = sessionRows /\ Rebuilt.tasks = taskRow
    BY DEF RebuildInv
  <2> QED
    BY <2>1 DEF Rebuild, projections, vars
<1> QED
  BY <1>1, RebuildInvAlways, PTL DEF RebuildSpec, RebuildReproduces

-----------------------------------------------------------------------------
(***************************************************************************)
(* The input queue.  A task's row comes with its first event, so an input  *)
(* that found no row leaves an event only in a stream that never gets one. *)
(***************************************************************************)
LEMMA CreationIsFirst ==
  ASSUME TypeOK, NEW c \in CommandIds, NEW a \in Aggregates, NEW evs \in Seq(Planned),
         NEW rows \in Seq(Row), CommandStep(c, a, evs, rows),
         NEW k \in 1..Len(rows), rows[k].type = "task_created"
  PROVE  stream[a] = <<>>
<1>1. /\ Len(rows) = 1 \/ Len(rows) = 2
      /\ Len(rows) = 2 => rows[1].type = "task_input_queued" /\ rows[2].type = "task_steered"
  BY CommandRows
<1>2. Len(rows) = 1 /\ k = 1
  BY <1>1
<1>3. evs[1].type = "task_created"
  BY <1>2 DEF CommandStep, Committed
<1>4. ~PlanSession(a, evs)
  BY <1>3 DEF PlanSession, Event
<1>5. ~PlanGoal(a, evs) /\ ~PlanInput(a, evs)
  BY <1>3 DEF PlanGoal, PlanInput, Event
<1>6. ~PlanLifecycle(a, evs)
  BY <1>3 DEF PlanLifecycle, Event, LifecycleEvents
<1> QED
  BY <1>4, <1>5, <1>6 DEF CommandStep, Plan, PlanTask, Exists

\* A row that appears is that of a creation.
LEMMA RowsAppear ==
  ASSUME TypeOK, NEW a \in Aggregates, NEW rows \in Seq(Row), Len(rows) = 1 \/ Len(rows) = 2,
         Project(a, rows), NEW t \in Tasks, taskRow[t] = NoRow, taskRow'[t] # NoRow
  PROVE  t = a /\ \E k \in 1..Len(rows) : rows[k].type = "task_created"
<1>0. taskRow \in [Tasks -> TaskRows]
  BY DEF TypeOK, TaskRows
<1>1. t = a
  BY <1>0 DEF Project
<1>2. rows[1] \in Row /\ (Len(rows) = 2 => rows[2] \in Row)
  OBVIOUS
<1> DEFINE one == ProjectTaskRow(NoRow, rows[1])
<1>3. taskRow'[a] = IF Len(rows) = 1 THEN one ELSE ProjectTaskRow(one, rows[2])
  BY <1>0, <1>1 DEF Project, ForEach
<1>4. NoRow \in TaskRows
  BY DEF TaskRows
<1>5. one # NoRow => rows[1].type = "task_created"
  BY <1>2, <1>4, ProjectTaskRowState
<1> HIDE DEF one
<1>6. CASE Len(rows) = 1
  BY <1>1, <1>3, <1>5, <1>6
<1>7. CASE Len(rows) = 2
  <2>1. one = NoRow => rows[2].type = "task_created"
    BY <1>1, <1>2, <1>3, <1>4, <1>7, ProjectTaskRowState
  <2> QED
    BY <1>1, <1>5, <1>7, <2>1
<1> QED
  BY <1>6, <1>7

LEMMA InputCommand ==
  ASSUME BaseInv, InputQueueFaithful, NEW c \in CommandIds, NEW a \in Aggregates,
         NEW evs \in Seq(Planned), NEW rows \in Seq(Row), CommandStep(c, a, evs, rows)
  PROVE  InputQueueFaithful'
<1>0. TypeOK /\ taskRow \in [Tasks -> TaskRows] /\ Tasks \subseteq Aggregates
  BY DEF BaseInv, TypeOK, TaskRows, Aggregates
<1>1. /\ Len(rows) = 1 \/ Len(rows) = 2
      /\ Insert(a, rows)
      /\ \A k \in 1..Len(rows) : rows[k].seq = Len(stream[a]) + k
      /\ Len(rows) = 2 => rows[1].type = "task_input_queued" /\ rows[2].type = "task_steered"
  BY <1>0, CommandRows
<1>2. /\ Len(stream[a]) \in Nat /\ DOMAIN stream[a] = 1..Len(stream[a])
      /\ \A b \in Aggregates : \A i \in DOMAIN stream[b] :
           i \in DOMAIN stream'[b] /\ stream'[b][i] = stream[b][i]
      /\ \A b \in Aggregates \ {a} : stream'[b] = stream[b]
      /\ \A i \in DOMAIN stream'[a] :
           i \in DOMAIN stream[a] \/ \E k \in 1..Len(rows) : i = Len(stream[a]) + k
      /\ \A k \in 1..Len(rows) : /\ Len(stream[a]) + k \in DOMAIN stream'[a]
                                 /\ stream'[a][Len(stream[a]) + k] = rows[k]
  BY <1>0, <1>1, InsertPositions
<1>3. \/ Projects(a, rows[1]) /\ Project(a, rows)
      \/ Len(rows) = 1 /\ ~Projects(a, rows[1]) /\ UNCHANGED projections
  BY DEF CommandStep, Committed
<1> DEFINE new == [input |-> rows[1].arg, task |-> a, seq |-> rows[1].seq]
<1>4. \/ taskInputs' = taskInputs
      \/ /\ taskInputs' = taskInputs \cup {new} /\ rows[1].type = "task_input_queued"
         /\ Projects(a, rows[1])
  BY <1>3 DEF Project, projections
<1>5. /\ new.input = rows[1].arg /\ new.task = a /\ new.seq = rows[1].seq
      /\ rows[1].seq \in DOMAIN stream'[a] /\ stream'[a][rows[1].seq] = rows[1]
  <2> HIDE DEF new
  <2>1. 1 \in 1..Len(rows)
    <3>1. Len(rows) = 1 \/ Len(rows) = 2
      BY <1>1, Zenon
    <3>2. \A n \in {1, 2} : 1 \in 1..n
      OBVIOUS
    <3> QED
      BY <3>1, <3>2
  <2> QED
    BY <1>1, <1>2, <2>1 DEF new
<1> HIDE DEF new
<1>6. ASSUME NEW r \in taskInputs'
      PROVE  /\ r.seq \in DOMAIN stream'[r.task]
             /\ stream'[r.task][r.seq].type = "task_input_queued"
             /\ stream'[r.task][r.seq].arg = r.input
  <2>1. CASE r \in taskInputs
    <3>1. /\ r.task \in Aggregates /\ r.seq \in DOMAIN stream[r.task]
          /\ stream[r.task][r.seq].type = "task_input_queued"
          /\ stream[r.task][r.seq].arg = r.input
      BY <1>0, <2>1 DEF TypeOK, InputQueueFaithful
    <3> QED
      BY <1>2, <3>1
  <2>2. CASE r \notin taskInputs
    <3>1. r = new /\ rows[1].type = "task_input_queued"
      BY <1>4, <2>2
    <3> QED
      BY <1>5, <3>1
  <2> QED
    BY <2>1, <2>2
<1>7. ASSUME NEW r1 \in taskInputs', NEW r2 \in taskInputs', r1.input = r2.input PROVE r1 = r2
  <2>1. rows[1].type = "task_input_queued" /\ Projects(a, rows[1]) =>
          \A r \in taskInputs : r.input # rows[1].arg
    BY DEF Projects
  <2> QED
    BY <1>4, <1>5, <1>7, <2>1 DEF InputQueueFaithful
<1>8. ASSUME NEW t \in Tasks, taskRow'[t] # NoRow, NEW i \in DOMAIN stream'[t],
             stream'[t][i].type = "task_input_queued"
      PROVE  \E r \in taskInputs' : r.input = stream'[t][i].arg
  <2>1. CASE i \in DOMAIN stream[t]
    <3>1. taskRow[t] # NoRow
      <4> SUFFICES ASSUME taskRow[t] = NoRow PROVE FALSE
        OBVIOUS
      <4>1. Project(a, rows)
        BY <1>3, <1>8 DEF projections
      <4>2. t = a /\ \E k \in 1..Len(rows) : rows[k].type = "task_created"
        BY <1>0, <1>1, <1>8, <4>1, RowsAppear
      <4>3. stream[t] = <<>>
        BY <1>0, <4>2, CreationIsFirst
      <4> QED
        BY <2>1, <4>3
    <3>2. stream'[t][i] = stream[t][i]
      BY <1>0, <1>2, <2>1
    <3>3. \E r \in taskInputs : r.input = stream[t][i].arg
      BY <1>8, <2>1, <3>1, <3>2 DEF InputQueueFaithful
    <3> QED
      BY <1>4, <3>2, <3>3
  <2>2. CASE i \notin DOMAIN stream[t]
    <3>1. t = a
      BY <1>0, <1>2, <2>2
    <3>2. PICK k \in 1..Len(rows) : i = Len(stream[a]) + k
      BY <1>2, <2>2, <3>1
    <3>3. k = 1 /\ stream'[t][i] = rows[1] /\ rows[1].type = "task_input_queued"
      BY <1>1, <1>2, <1>8, <3>1, <3>2
    <3>4. CASE Projects(a, rows[1]) /\ Project(a, rows)
      <4>1. new \in taskInputs'
        BY <3>3, <3>4 DEF Project, new
      <4> QED
        BY <1>5, <3>3, <4>1
    <3>5. CASE Len(rows) = 1 /\ ~Projects(a, rows[1]) /\ UNCHANGED projections
      <4>1. taskRow[a] # NoRow /\ taskInputs' = taskInputs
        BY <1>8, <3>1, <3>5 DEF projections
      <4>2. \E r \in taskInputs : r.input = rows[1].arg
        BY <3>3, <3>5, <4>1 DEF Projects
      <4> QED
        BY <3>3, <4>1, <4>2
    <3> QED
      BY <1>3, <3>4, <3>5
  <2> QED
    BY <2>1, <2>2
<1> QED
  BY <1>6, <1>7, <1>8 DEF InputQueueFaithful

LEMMA InputStep ==
  ASSUME BaseInv, RebuildInv, InputQueueFaithful, [RebuildNext]_vars PROVE InputQueueFaithful'
<1>1. TypeOK /\ Gapless
  BY DEF BaseInv
<1>2. ASSUME NEW r \in Runs, NEW rows \in Seq(Row), RunStep(r, rows) PROVE InputQueueFaithful'
  <2>1. /\ r \in Aggregates /\ Len(rows) = 1 /\ Insert(r, rows)
        /\ \A t \in Tasks : t \in Aggregates \ {r}
        /\ taskInputs' = taskInputs /\ taskRow' = taskRow
    BY <1>2, IdsAssumption DEF RunStep, Aggregates, projections
  <2>2. \A t \in Tasks : stream'[t] = stream[t]
    BY <1>1, <2>1, InsertPositions
  <2>3. \A q \in taskInputs : q.task \in Tasks
    BY <1>1 DEF TypeOK
  <2> QED
    BY <2>1, <2>2, <2>3 DEF InputQueueFaithful
<1>3. CASE QuietStep
  <2>1. stream' = stream /\ taskInputs' = taskInputs
    BY <1>3 DEF QuietStep, events
  <2>2. taskRow' = taskRow \/ taskRow' = Rebuilt.tasks
    BY <1>3 DEF QuietStep, projections, Rebuild, vars
  <2>3. \A t \in Tasks : taskRow'[t] # NoRow => taskRow[t] # NoRow
    BY <2>2 DEF RebuildInv
  <2> QED
    BY <2>1, <2>3 DEF InputQueueFaithful
<1> QED
  BY <1>1, <1>2, <1>3, InputCommand, StepKinds

\* The durable input queue: every row of task_inputs stands for the input event at its
\* sequence, no two rows share an input id, and no input event of a task that has a row
\* is without its input, through rejected duplicates and through rebuilds.
THEOREM QueuedInputsAreKept == RebuildSpec => []InputQueueFaithful
<1>1. Init => InputQueueFaithful
  BY DEF Init, InputQueueFaithful
<1>2. BaseInv /\ RebuildInv /\ InputQueueFaithful /\ [RebuildNext]_vars => InputQueueFaithful'
  BY InputStep
<1> QED
  BY <1>1, <1>2, RebuildInvAlways, PTL DEF RebuildSpec

-----------------------------------------------------------------------------
(***************************************************************************)
(* Completion.  The rows of a task may lag behind its fold after a rebuild *)
(* that stopped short, so the argument goes through the events: a          *)
(* completion is appended only when the fold is in review, and what the    *)
(* fold says about a task is written in its stream.                        *)
(***************************************************************************)
AtWork == {"running", "waiting", "ready_for_review"}

Happened(st, t, ev) == \E i \in DOMAIN st[t] : st[t][i].type = ev

ReviewedBefore(st, t, k) ==
  \E i, j \in DOMAIN st[t] : /\ i < j /\ j < k
                             /\ st[t][i].type = "task_started"
                             /\ st[t][j].type = "task_ready_for_review"

ReadsCompleted(row) == row # NoRow /\ row.state = "completed"

ReviewInv ==
  /\ \A t \in Tasks : folded[t] \in AtWork => Happened(stream, t, "task_started")
  /\ \A t \in Tasks : folded[t] = "ready_for_review" =>
       ReviewedBefore(stream, t, Len(stream[t]) + 1)
  /\ \A t \in Tasks : \A k \in DOMAIN stream[t] :
       stream[t][k].type = "task_completed" => ReviewedBefore(stream, t, k)
  /\ \A t \in Tasks : ReadsCompleted(taskRow[t]) => Happened(stream, t, "task_completed")
  /\ \A t \in Tasks : ReadsCompleted(Rebuilt.tasks[t]) => Happened(stream, t, "task_completed")

\* How the fold gets to a state of work, and a row to completed.
LEMMA FoldOrigin ==
  ASSUME NEW acc \in FoldResults, NEW ev
  PROVE  /\ FoldStep(acc, ev) \in AtWork => acc \in AtWork \/ ev = "task_started"
         /\ FoldStep(acc, ev) = "ready_for_review" =>
              acc = "ready_for_review" \/ (ev = "task_ready_for_review" /\ acc \in AtWork)
<1>1. CASE acc \in TaskStates
  <2>1. FoldStep(acc, ev) = IF acc \in AcceptedFrom(ev) THEN StateAfter(acc, ev) ELSE Poisoned
    BY <1>1, FoldOfState
  <2> QED
    BY <1>1, <2>1 DEF AcceptedFrom, StateAfter, AtWork, TaskStates, Poisoned
<1>2. CASE acc \notin TaskStates
  BY <1>2 DEF FoldResults, FoldStep, AtWork, None, Poisoned
<1> QED
  BY <1>1, <1>2

LEMMA ProjectOrigin ==
  ASSUME NEW old \in TaskRows, NEW r \in Row, ReadsCompleted(ProjectTaskRow(old, r))
  PROVE  ReadsCompleted(old) \/ r.type = "task_completed"
<1>1. r.type # "task_created"
  BY ProjectTaskRowState DEF ReadsCompleted
<1>2. CASE old = NoRow
  BY <1>1, <1>2, ProjectTaskRowState DEF ReadsCompleted
<1>3. CASE old # NoRow /\ r.type \in LifecycleEvents
  <2>1. StateAfter(old.state, r.type) = "completed"
    BY <1>3, ProjectTaskRowState DEF ReadsCompleted
  <2> QED
    BY <1>3, <2>1 DEF StateAfter, ReadsCompleted
<1>4. CASE r.type \notin LifecycleEvents
  BY <1>1, <1>4, ProjectTaskRowState DEF ReadsCompleted
<1> QED
  BY <1>2, <1>3, <1>4

LEMMA ReprojectOrigin ==
  ASSUME NEW acc \in Rebuilds, NEW a \in Aggregates, NEW r \in Row, NEW t \in Tasks,
         ReadsCompleted(Reproject(acc, a, r).tasks[t])
  PROVE  ReadsCompleted(acc.tasks[t]) \/ (t = a /\ r.type = "task_completed")
<1>0. acc.tasks \in [Tasks -> TaskRows]
  BY DEF Rebuilds
<1>1. \/ Reproject(acc, a, r).tasks = acc.tasks
      \/ a \in Tasks /\ Reproject(acc, a, r).tasks = [acc.tasks EXCEPT ![a] = ProjectTaskRow(acc.tasks[a], r)]
  BY DEF Reproject, Rebuilds
<1>2. CASE Reproject(acc, a, r).tasks = acc.tasks
  BY <1>2
<1>3. CASE a \in Tasks /\ Reproject(acc, a, r).tasks = [acc.tasks EXCEPT ![a] = ProjectTaskRow(acc.tasks[a], r)]
  <2>1. CASE t = a
    <3>1. ReadsCompleted(ProjectTaskRow(acc.tasks[a], r))
      BY <1>0, <1>3, <2>1
    <3> QED
      BY <1>0, <2>1, <3>1, ProjectOrigin
  <2>2. CASE t # a
    BY <1>0, <1>3, <2>2
  <2> QED
    BY <2>1, <2>2
<1> QED
  BY <1>1, <1>2, <1>3

\* What an insertion adds to the history of a task.
LEMMA HistoryGrows ==
  ASSUME TypeOK, NEW a \in Aggregates, NEW rows \in Seq(Row),
         Len(rows) = 1 \/ Len(rows) = 2, Insert(a, rows), NEW t \in Tasks
  PROVE  /\ \A ev : Happened(stream, t, ev) => Happened(stream', t, ev)
         /\ \A k : ReviewedBefore(stream, t, k) => ReviewedBefore(stream', t, k)
         /\ ReviewedBefore(stream, t, Len(stream[t]) + 1) =>
              ReviewedBefore(stream', t, Len(stream'[t]) + 1)
         /\ \A k \in 1..Len(rows) : t = a => Happened(stream', t, rows[k].type)
<1>0. t \in Aggregates
  BY DEF Aggregates
<1>1. /\ Len(stream[a]) \in Nat
      /\ \A i \in DOMAIN stream[t] : i \in DOMAIN stream'[t] /\ stream'[t][i] = stream[t][i]
      /\ t # a => stream'[t] = stream[t]
      /\ \A k \in 1..Len(rows) : /\ Len(stream[a]) + k \in DOMAIN stream'[a]
                                 /\ stream'[a][Len(stream[a]) + k] = rows[k]
  BY <1>0, InsertPositions
<1>2. Len(stream[t]) \in Nat /\ Len(stream'[t]) \in Nat /\ Len(stream[t]) <= Len(stream'[t])
  <2>1. CASE t = a
    <3>1. Len(stream'[a]) = Len(stream[a]) + Len(rows)
      BY InsertShape
    <3> QED
      BY <1>1, <2>1, <3>1
  <2>2. CASE t # a
    <3>1. stream[t] \in Seq(Row)
      BY <1>0 DEF TypeOK
    <3> QED
      BY <1>1, <2>2, <3>1
  <2> QED
    BY <2>1, <2>2
<1>3. \A ev : Happened(stream, t, ev) => Happened(stream', t, ev)
  BY <1>1 DEF Happened
<1>4. \A k : ReviewedBefore(stream, t, k) => ReviewedBefore(stream', t, k)
  BY <1>1 DEF ReviewedBefore
<1>5. ASSUME ReviewedBefore(stream, t, Len(stream[t]) + 1)
      PROVE  ReviewedBefore(stream', t, Len(stream'[t]) + 1)
  <2>1. PICK i, j \in DOMAIN stream[t] : /\ i < j /\ j < Len(stream[t]) + 1
                                         /\ stream[t][i].type = "task_started"
                                         /\ stream[t][j].type = "task_ready_for_review"
    BY <1>5 DEF ReviewedBefore
  <2>2. stream[t] \in Seq(Row)
    BY <1>0 DEF TypeOK
  <2>3. j \in 1..Len(stream[t])
    BY <2>2
  <2>4. j < Len(stream'[t]) + 1
    BY <1>2, <2>3
  <2>5. /\ i \in DOMAIN stream'[t] /\ stream'[t][i].type = "task_started"
        /\ j \in DOMAIN stream'[t] /\ stream'[t][j].type = "task_ready_for_review"
    BY <1>1, <2>1
  <2> QED
    BY <2>1, <2>4, <2>5 DEF ReviewedBefore
<1>6. ASSUME NEW k \in 1..Len(rows), t = a PROVE Happened(stream', t, rows[k].type)
  BY <1>1, <1>6 DEF Happened
<1> QED
  BY <1>3, <1>4, <1>5, <1>6

\* The fold of a task after a command, by the last of its rows that matters.
LEMMA CommandFolds ==
  ASSUME TypeOK, NEW c \in CommandIds, NEW a \in Tasks, NEW evs \in Seq(Planned),
         NEW rows \in Seq(Row), CommandStep(c, a, evs, rows)
  PROVE  /\ folded'[a] \in AtWork => folded[a] \in AtWork \/ rows[1].type = "task_started"
         /\ folded'[a] = "ready_for_review" =>
              \/ folded[a] = "ready_for_review"
              \/ /\ folded[a] \in AtWork /\ Len(rows) = 1
                 /\ rows[1].type = "task_ready_for_review"
<1>0. a \in Aggregates /\ folded[a] \in FoldResults
  BY DEF Aggregates, TypeOK
<1>1. /\ Len(rows) = 1 \/ Len(rows) = 2
      /\ Insert(a, rows)
      /\ Len(rows) = 2 => rows[1].type = "task_input_queued" /\ rows[2].type = "task_steered"
  BY <1>0, CommandRows
<1>2. CASE Len(rows) = 1
  <2>1. folded'[a] = FoldStep(folded[a], rows[1].type)
    BY <1>1, <1>2, OneRow
  <2> QED
    BY <1>0, <1>2, <2>1, FoldOrigin
<1>3. CASE Len(rows) = 2
  <2> DEFINE mid == FoldStep(folded[a], rows[1].type)
  <2>1. folded'[a] = FoldStep(mid, rows[2].type)
    BY <1>1, <1>3, TwoRows
  <2>2. mid \in FoldResults
    BY <1>0, FoldStepType
  <2>3. /\ mid \in AtWork => folded[a] \in AtWork
        /\ mid = "ready_for_review" => folded[a] = "ready_for_review"
    BY <1>0, <1>1, <1>3, FoldOrigin
  <2> HIDE DEF mid
  <2> QED
    BY <1>1, <1>3, <2>1, <2>2, <2>3, FoldOrigin
<1> QED
  BY <1>1, <1>2, <1>3

LEMMA ReviewCommand ==
  ASSUME BaseInv, BaseInv', ReviewInv, NEW c \in CommandIds, NEW a \in Aggregates,
         NEW evs \in Seq(Planned), NEW rows \in Seq(Row), CommandStep(c, a, evs, rows)
  PROVE  ReviewInv'
<1>0. TypeOK /\ taskRow \in [Tasks -> TaskRows] /\ Tasks \subseteq Aggregates /\ Rebuilt \in Rebuilds
  BY RebuiltType DEF BaseInv, TypeOK, TaskRows, Aggregates
<1>1. /\ Len(rows) = 1 \/ Len(rows) = 2
      /\ Insert(a, rows)
      /\ \A k \in 1..Len(rows) : rows[k].seq = Len(stream[a]) + k
      /\ \A k \in 1..Len(rows) : rows[k].type = "session_created" => a \in Sessions
  BY <1>0, CommandRows
<1>2. /\ rows[1] \in Row /\ 1 \in 1..Len(rows)
      /\ Len(rows) = 2 => rows[2] \in Row /\ 2 \in 1..Len(rows)
  BY <1>1
<1>3. \A t \in Tasks :
        /\ \A ev : Happened(stream, t, ev) => Happened(stream', t, ev)
        /\ \A k : ReviewedBefore(stream, t, k) => ReviewedBefore(stream', t, k)
        /\ ReviewedBefore(stream, t, Len(stream[t]) + 1) =>
             ReviewedBefore(stream', t, Len(stream'[t]) + 1)
        /\ \A k \in 1..Len(rows) : t = a => Happened(stream', t, rows[k].type)
  BY <1>0, <1>1, HistoryGrows
<1>4. /\ Len(stream[a]) \in Nat /\ DOMAIN stream[a] = 1..Len(stream[a])
      /\ \A b \in Aggregates : \A i \in DOMAIN stream[b] :
           i \in DOMAIN stream'[b] /\ stream'[b][i] = stream[b][i]
      /\ \A b \in Aggregates \ {a} : stream'[b] = stream[b]
      /\ \A i \in DOMAIN stream'[a] :
           i \in DOMAIN stream[a] \/ \E k \in 1..Len(rows) : i = Len(stream[a]) + k
      /\ \A k \in 1..Len(rows) : /\ Len(stream[a]) + k \in DOMAIN stream'[a]
                                 /\ stream'[a][Len(stream[a]) + k] = rows[k]
      /\ Len(stream'[a]) = Len(stream[a]) + Len(rows)
  BY <1>0, <1>1, InsertPositions, InsertShape
<1>5. \A t \in Tasks \ {a} : folded'[t] = folded[t]
  BY <1>0, <1>1 DEF Insert, TypeOK
<1>6. ASSUME NEW t \in Tasks, folded'[t] \in AtWork PROVE Happened(stream', t, "task_started")
  <2>1. folded[t] \in AtWork \/ (t = a /\ rows[1].type = "task_started")
    BY <1>0, <1>5, <1>6, CommandFolds
  <2> QED
    BY <1>2, <1>3, <2>1 DEF ReviewInv
<1>7. ASSUME NEW t \in Tasks, folded'[t] = "ready_for_review"
      PROVE  ReviewedBefore(stream', t, Len(stream'[t]) + 1)
  <2>1. CASE folded[t] = "ready_for_review"
    BY <1>3, <2>1 DEF ReviewInv
  <2>2. CASE folded[t] # "ready_for_review"
    <3>1. t = a /\ folded[a] \in AtWork /\ Len(rows) = 1 /\ rows[1].type = "task_ready_for_review"
      BY <1>0, <1>5, <1>7, <2>2, CommandFolds
    <3>2. PICK i \in DOMAIN stream[a] : stream[a][i].type = "task_started"
      BY <3>1 DEF ReviewInv, Happened
    <3> DEFINE j == Len(stream[a]) + 1
    <3>3. /\ i < j /\ j < Len(stream'[a]) + 1
          /\ i \in DOMAIN stream'[a] /\ stream'[a][i].type = "task_started"
          /\ j \in DOMAIN stream'[a] /\ stream'[a][j].type = "task_ready_for_review"
      BY <1>2, <1>4, <3>1, <3>2
    <3> HIDE DEF j
    <3> QED
      BY <3>1, <3>3 DEF ReviewedBefore
  <2> QED
    BY <2>1, <2>2
<1>8. ASSUME NEW t \in Tasks, NEW k \in DOMAIN stream'[t], stream'[t][k].type = "task_completed"
      PROVE  ReviewedBefore(stream', t, k)
  <2>1. CASE k \in DOMAIN stream[t]
    <3>1. stream[t][k].type = "task_completed"
      BY <1>0, <1>4, <1>8, <2>1
    <3> QED
      BY <1>3, <2>1, <3>1 DEF ReviewInv
  <2>2. CASE k \notin DOMAIN stream[t]
    <3>1. t = a
      BY <1>0, <1>4, <2>2
    <3>2. PICK m \in 1..Len(rows) : k = Len(stream[a]) + m
      BY <1>4, <2>2, <3>1
    <3>3. rows[m].type = "task_completed"
      BY <1>4, <1>8, <3>1, <3>2
    <3>4. Len(rows) = 1 /\ folded[a] = "ready_for_review"
      BY <1>0, <3>3, CompletionPlanned
    <3>5. k = Len(stream[t]) + 1
      BY <3>1, <3>2, <3>4
    <3>6. ReviewedBefore(stream, t, k)
      BY <3>1, <3>4, <3>5 DEF ReviewInv
    <3> QED
      BY <1>3, <3>6
  <2> QED
    BY <2>1, <2>2
<1>9. ASSUME NEW t \in Tasks, ReadsCompleted(taskRow'[t])
      PROVE  Happened(stream', t, "task_completed")
  <2>1. CASE ReadsCompleted(taskRow[t])
    BY <1>3, <2>1 DEF ReviewInv
  <2>2. CASE ~ReadsCompleted(taskRow[t])
    <3>1. taskRow'[t] # taskRow[t]
      BY <1>9, <2>2
    <3>2. t = a /\ Project(a, rows)
      BY <1>0, <3>1 DEF CommandStep, Committed, Project, projections
    <3> DEFINE one == ProjectTaskRow(taskRow[a], rows[1])
    <3>3. taskRow'[a] = IF Len(rows) = 1 THEN one ELSE ProjectTaskRow(one, rows[2])
      BY <1>0, <3>2 DEF Project, ForEach
    <3>4. one \in TaskRows
      BY <1>0, <1>2, <3>2, ProjectTaskRowType
    <3>5. ReadsCompleted(one) => rows[1].type = "task_completed"
      BY <1>0, <1>2, <2>2, <3>2, ProjectOrigin
    <3> HIDE DEF one
    <3>6. \/ rows[1].type = "task_completed"
          \/ Len(rows) = 2 /\ rows[2].type = "task_completed"
      BY <1>1, <1>2, <1>9, <3>2, <3>3, <3>4, <3>5, ProjectOrigin
    <3> QED
      BY <1>2, <1>3, <3>2, <3>6
  <2> QED
    BY <2>1, <2>2
<1>10. ASSUME NEW t \in Tasks, ReadsCompleted(Rebuilt'.tasks[t])
       PROVE  Happened(stream', t, "task_completed")
  <2>1. CASE ReadsCompleted(Rebuilt.tasks[t])
    BY <1>3, <2>1 DEF ReviewInv
  <2>2. CASE ~ReadsCompleted(Rebuilt.tasks[t])
    <3> DEFINE one == Reproject(Rebuilt, a, rows[1])
    <3>1. Rebuilt' = IF Len(rows) = 1 THEN one ELSE Reproject(one, a, rows[2])
      BY <1>1, RebuiltAppends
    <3>2. one \in Rebuilds
      BY <1>0, <1>1, <1>2, ReprojectType
    <3>3. ReadsCompleted(one.tasks[t]) => t = a /\ rows[1].type = "task_completed"
      BY <1>0, <1>2, <2>2, ReprojectOrigin
    <3> HIDE DEF one
    <3>4. \/ t = a /\ rows[1].type = "task_completed"
          \/ t = a /\ Len(rows) = 2 /\ rows[2].type = "task_completed"
      BY <1>1, <1>2, <1>10, <3>1, <3>2, <3>3, ReprojectOrigin
    <3> QED
      BY <1>2, <1>3, <3>4
  <2> QED
    BY <2>1, <2>2
<1> QED
  BY <1>6, <1>7, <1>8, <1>9, <1>10 DEF ReviewInv, Happened, ReviewedBefore

LEMMA ReviewStep ==
  ASSUME BaseInv, BaseInv', ReviewInv, [RebuildNext]_vars PROVE ReviewInv'
<1>1. TypeOK /\ Gapless
  BY DEF BaseInv
<1>2. ASSUME \A t \in Tasks : stream'[t] = stream[t] /\ folded'[t] = folded[t],
             taskRow' = taskRow \/ taskRow' = Rebuilt.tasks, Rebuilt'.tasks = Rebuilt.tasks
      PROVE  ReviewInv'
  BY <1>2 DEF ReviewInv, Happened, ReviewedBefore
<1>3. ASSUME NEW r \in Runs, NEW rows \in Seq(Row), RunStep(r, rows) PROVE ReviewInv'
  <2>1. /\ r \in Aggregates /\ r \notin Tasks
        /\ Len(rows) = 1 /\ Insert(r, rows)
        /\ rows[1].seq = Len(stream[r]) + 1 /\ rows[1].type = "run_event"
        /\ \A t \in Tasks : t \in Aggregates \ {r}
    BY <1>3, IdsAssumption DEF RunStep, Aggregates
  <2>2. Rebuilt' = Reproject(Rebuilt, r, rows[1])
    BY <2>1, RebuiltAppends
  <2>3. taskRow' = taskRow
    BY <1>3 DEF RunStep, projections
  <2>4. Rebuilt'.tasks = Rebuilt.tasks
    BY <2>1, <2>2 DEF Reproject
  <2>5. \A t \in Tasks : stream'[t] = stream[t] /\ folded'[t] = folded[t]
    BY <1>1, <2>1, InsertPositions DEF Insert
  <2> QED
    BY <1>2, <2>3, <2>4, <2>5
<1>4. CASE QuietStep
  <2>1. log' = log /\ stream' = stream /\ folded' = folded
    BY <1>4 DEF QuietStep, events
  <2>2. Rebuilt' = Rebuilt
    <3>1. Rebuilt = RebuiltFrom(log, stream) /\ Rebuilt' = RebuiltFrom(log', stream')
      BY DEF Rebuilt, RebuiltFrom
    <3> QED
      BY <2>1, <3>1
  <2>3. taskRow' = taskRow \/ taskRow' = Rebuilt.tasks
    BY <1>4 DEF QuietStep, projections, Rebuild, vars
  <2> QED
    BY <1>2, <2>1, <2>2, <2>3
<1> QED
  BY <1>1, <1>3, <1>4, ReviewCommand, StepKinds

\* A task reads as completed only after it was started, then handed to review and then
\* completed, in that order in its stream, however the row came about.
THEOREM CompletionIsReviewed == RebuildSpec => []CompletedWasReviewed
<1>1. Init /\ RebuildInv => ReviewInv
  <2> SUFFICES ASSUME Init, RebuildInv PROVE ReviewInv
    OBVIOUS
  <2>1. \A t \in Tasks : stream[t] = <<>> /\ folded[t] = None /\ taskRow[t] = NoRow
    BY DEF Init, Aggregates
  <2>2. \A t \in Tasks : Rebuilt.tasks[t] = NoRow
    BY <2>1 DEF RebuildInv
  <2> QED
    BY <2>1, <2>2 DEF ReviewInv, AtWork, None, ReadsCompleted
<1>2. BaseInv /\ BaseInv' /\ ReviewInv /\ [RebuildNext]_vars => ReviewInv'
  BY ReviewStep
<1>3. ReviewInv => CompletedWasReviewed
  <2> SUFFICES ASSUME ReviewInv, NEW t \in Tasks, taskRow[t] # NoRow, taskRow[t].state = "completed"
               PROVE  \E i, j, k \in DOMAIN stream[t] :
                        /\ i < j /\ j < k
                        /\ stream[t][i].type = "task_started"
                        /\ stream[t][j].type = "task_ready_for_review"
                        /\ stream[t][k].type = "task_completed"
    BY DEF CompletedWasReviewed
  <2>1. PICK k \in DOMAIN stream[t] : stream[t][k].type = "task_completed"
    BY DEF ReviewInv, ReadsCompleted, Happened
  <2>2. ReviewedBefore(stream, t, k)
    BY <2>1 DEF ReviewInv
  <2> QED
    BY <2>1, <2>2 DEF ReviewedBefore
<1> QED
  BY <1>1, <1>2, <1>3, RebuildInvAlways, PTL DEF RebuildSpec

-----------------------------------------------------------------------------
(***************************************************************************)
(* The readers.  A page is an initial part of the session's rows behind    *)
(* its offset, so what is left behind a full page starts where it ends.    *)
(***************************************************************************)
Below(H, k) == {j \in H : j < k}
FirstOf(H, n) == {k \in H : Cardinality(Below(H, k)) < n}
Behind(H, o) == {k \in H : k > o}
TwoPages(H, n, m) == FirstOf(H, n) \cup FirstOf(H \ FirstOf(H, n), m)
LastOf(S, o) == IF S = {} THEN o ELSE CHOOSE k \in S : \A j \in S : j <= k

\* A non-empty finite set of numbers has a largest one.
LEMMA LastIsLargest ==
  ASSUME NEW n \in Nat, NEW S, S \subseteq 1..n, S # {}, NEW o
  PROVE  LastOf(S, o) \in S /\ \A j \in S : j <= LastOf(S, o)
<1> DEFINE T == {m \in Nat : \A i \in S : i <= m}
<1>1. T \subseteq Nat /\ n \in T
  OBVIOUS
<1>2. PICK m \in T : \A y \in T : m <= y
  BY <1>1, LeastNumber
<1>3. m \in S
  <2> SUFFICES ASSUME m \notin S PROVE FALSE
    OBVIOUS
  <2>1. m \in Nat /\ \A i \in S : i \in 1..n /\ i <= m /\ i # m
    BY <1>2
  <2>2. m # 0
    <3>1. PICK i \in S : TRUE
      OBVIOUS
    <3> QED
      BY <2>1, <3>1
  <2>3. m - 1 \in T /\ ~(m <= m - 1)
    BY <2>1, <2>2
  <2> QED
    BY <1>2, <2>3
<1>4. \E k \in S : \A j \in S : j <= k
  BY <1>2, <1>3
<1> QED
  BY <1>4 DEF LastOf

\* The numbers of the rows below a row are finitely many.
LEMMA RowsBelow ==
  ASSUME NEW n \in Nat, NEW H, H \subseteq 1..n
  PROVE  /\ IsFiniteSet(H)
         /\ \A k : IsFiniteSet(Below(H, k)) /\ Cardinality(Below(H, k)) \in Nat
<1>1. IsFiniteSet(1..n)
  BY FS_Interval
<1>2. \A S : S \subseteq 1..n => IsFiniteSet(S) /\ Cardinality(S) \in Nat
  BY <1>1, FS_Subset, FS_CardinalityType
<1>3. \A k : Below(H, k) \subseteq 1..n
  BY DEF Below
<1> QED
  BY <1>2, <1>3

LEMMA RowNumbers ==
  ASSUME NEW n \in Nat, NEW H, H \subseteq 1..n
  PROVE  \A i \in H : i \in Nat
OBVIOUS

\* A page takes every row below one that it takes.
LEMMA PageIsInitial ==
  ASSUME NEW top \in Nat, NEW H, H \subseteq 1..top, NEW n \in Nat,
         NEW k \in FirstOf(H, n), NEW j \in H, j < k
  PROVE  j \in FirstOf(H, n)
<1>0. k \in H /\ \A i \in H : i \in Nat
  BY RowNumbers DEF FirstOf
<1>1. Below(H, j) \subseteq Below(H, k)
  <2>1. ASSUME NEW i \in H, i < j PROVE i < k
    <3>1. i \in Nat /\ j \in Nat /\ k \in Nat
      BY <1>0
    <3> QED
      BY <2>1, <3>1
  <2> QED
    BY <2>1 DEF Below
<1>2. IsFiniteSet(Below(H, k)) /\ Cardinality(Below(H, k)) \in Nat /\ Cardinality(Below(H, j)) \in Nat
  BY RowsBelow
<1>3. Cardinality(Below(H, j)) <= Cardinality(Below(H, k))
  BY <1>1, <1>2, FS_Subset
<1> QED
  BY <1>0, <1>2, <1>3 DEF FirstOf

\* What is left behind a page are the rows it does not have.
LEMMA BehindPage ==
  ASSUME NEW top \in Nat, NEW H, H \subseteq 1..top, NEW n \in Nat, NEW o \in Nat,
         \A k \in H : k > o
  PROVE  Behind(H, LastOf(FirstOf(H, n), o)) = H \ FirstOf(H, n)
<1> DEFINE P == FirstOf(H, n)
           e == LastOf(P, o)
<1>1. P \subseteq H /\ \A i \in H : i \in Nat
  BY RowNumbers DEF FirstOf
<1> HIDE DEF P, e
<1>2. ASSUME P = {} PROVE Behind(H, e) = H \ P
  <2>1. e = o
    BY <1>2 DEF e, LastOf
  <2> QED
    BY <1>2, <2>1 DEF Behind
<1>3. ASSUME P # {} PROVE Behind(H, e) = H \ P
  <2>1. e \in P /\ \A j \in P : j <= e
    BY <1>1, <1>3, LastIsLargest DEF e
  <2>2. ASSUME NEW k \in H, k > e PROVE k \notin P
    BY <2>1, <2>2, <1>1
  <2>3. ASSUME NEW k \in H, k \notin P PROVE k > e
    <3>1. k \in Nat /\ e \in Nat /\ k # e
      BY <2>1, <2>3, <1>1
    <3>2. ~(k < e)
      BY <2>1, <2>3, PageIsInitial DEF P
    <3> QED
      BY <3>1, <3>2
  <2> QED
    BY <2>2, <2>3 DEF Behind
<1>4. Behind(H, e) = H \ P
  BY <1>2, <1>3
<1> QED
  BY <1>4 DEF e, P

\* A page behind which rows are left is full.
LEMMA FullPage ==
  ASSUME NEW top \in Nat, NEW H, H \subseteq 1..top, NEW n \in Nat,
         H \ FirstOf(H, n) # {}
  PROVE  Cardinality(FirstOf(H, n)) = n
<1> DEFINE P == FirstOf(H, n)
<1>1. P \subseteq H
  BY DEF FirstOf
<1>2. IsFiniteSet(P) /\ Cardinality(P) \in Nat
  BY <1>1, RowsBelow, FS_Subset, FS_CardinalityType
<1>3. Cardinality(P) >= n
  <2>1. H \ P \subseteq Nat /\ \A j \in H : j \in Nat
    BY RowNumbers
  <2>2. PICK k \in H \ P : \A j \in H \ P : k <= j
    BY <2>1, LeastNumber
  <2>3. Below(H, k) \subseteq P
    BY <2>1, <2>2, <1>1 DEF Below
  <2>4. ~(Cardinality(Below(H, k)) < n) /\ Cardinality(Below(H, k)) \in Nat
    BY <2>2, RowsBelow DEF FirstOf
  <2>5. Cardinality(Below(H, k)) <= Cardinality(P)
    BY <2>3, <1>2, FS_Subset
  <2> QED
    BY <2>4, <2>5, <1>2
<1>4. Cardinality(P) <= n
  <2>1. CASE P = {}
    BY <2>1, FS_EmptySet
  <2>2. CASE P # {}
    <3> DEFINE e == LastOf(P, 0)
    <3>1. e \in P /\ \A j \in P : j <= e
      BY <1>1, <2>2, LastIsLargest
    <3> HIDE DEF e, P
    <3>2. P \ {e} \subseteq Below(H, e)
      BY <3>1, <1>1 DEF Below
    <3>3. IsFiniteSet(Below(H, e)) /\ Cardinality(Below(H, e)) \in Nat
      BY RowsBelow
    <3>4. Cardinality(P \ {e}) <= Cardinality(Below(H, e))
      BY <3>2, <3>3, FS_Subset
    <3>5. Cardinality(P \ {e}) = Cardinality(P) - 1
      BY <3>1, <1>2, FS_RemoveElement
    <3>6. Cardinality(Below(H, e)) < n
      BY <3>1 DEF P, FirstOf
    <3> QED
      BY <3>3, <3>4, <3>5, <3>6, <1>2
  <2> QED
    BY <2>1, <2>2
<1> QED
  BY <1>2, <1>3, <1>4

\* Two pages in a row are the page of both sizes.
LEMMA PagesAdd ==
  ASSUME NEW top \in Nat, NEW H \in SUBSET (1..top), NEW n \in Nat, NEW m \in Nat
  PROVE  TwoPages(H, n, m) = FirstOf(H, n + m)
<1> DEFINE P == FirstOf(H, n)
           rest == H \ P
<1>0. \A i \in H : i \in Nat
  BY RowNumbers
<1>1. P \subseteq H /\ rest \subseteq 1..top
  BY DEF FirstOf
<1>2. P \subseteq FirstOf(H, n + m)
  <2>1. \A k \in H : Cardinality(Below(H, k)) \in Nat
    BY RowsBelow
  <2>2. ASSUME NEW k \in P PROVE k \in FirstOf(H, n + m)
    <3>1. k \in H /\ Cardinality(Below(H, k)) < n /\ Cardinality(Below(H, k)) \in Nat
      BY <2>1, <2>2 DEF FirstOf
    <3> QED
      BY <3>1 DEF FirstOf
  <2> QED
    BY <2>2
<1>3. ASSUME NEW k \in rest
      PROVE  k \in FirstOf(rest, m) <=> k \in FirstOf(H, n + m)
  <2>1. P \cup Below(rest, k) = Below(H, k) /\ P \cap Below(rest, k) = {}
    <3>1. \A j \in P : j < k
      <4> SUFFICES ASSUME NEW j \in P, ~(j < k) PROVE FALSE
        OBVIOUS
      <4>0. j \in Nat /\ k \in Nat /\ j # k
        BY <1>0, <1>1
      <4>1. k < j
        BY <4>0
      <4> QED
        BY <4>1, PageIsInitial
    <3> QED
      BY <3>1, <1>1 DEF Below
  <2>2. IsFiniteSet(P) /\ IsFiniteSet(Below(rest, k)) /\ Cardinality(Below(rest, k)) \in Nat
    BY <1>1, RowsBelow, FS_Subset
  <2>3. Cardinality(P) = n
    BY <1>3, FullPage
  <2>4. Cardinality(Below(H, k)) = n + Cardinality(Below(rest, k))
    <3> HIDE DEF P, rest
    <3>0. Cardinality({}) = 0
      BY FS_EmptySet
    <3>1. Cardinality(P \cup Below(rest, k)) =
            Cardinality(P) + Cardinality(Below(rest, k))
      <4>1. Cardinality(P \cup Below(rest, k)) =
              Cardinality(P) + Cardinality(Below(rest, k)) - Cardinality(P \cap Below(rest, k))
        BY <2>2, FS_Union
      <4>2. Cardinality(P \cap Below(rest, k)) = 0
        BY <2>1, <3>0
      <4> QED
        BY <4>1, <4>2, <2>2, <2>3
    <3> QED
      BY <2>1, <2>3, <3>1
  <2>5. k \in FirstOf(rest, m) <=> Cardinality(Below(rest, k)) < m
    BY DEF FirstOf
  <2>6. k \in FirstOf(H, n + m) <=> Cardinality(Below(H, k)) < n + m
    BY DEF FirstOf
  <2> QED
    BY <2>2, <2>4, <2>5, <2>6
<1>4. FirstOf(rest, m) \subseteq rest /\ FirstOf(H, n + m) \subseteq H
  BY DEF FirstOf
<1> HIDE DEF P, rest
<1>5. P \cup FirstOf(rest, m) = FirstOf(H, n + m)
  BY <1>1, <1>2, <1>3, <1>4 DEF rest
<1> QED
  BY <1>5 DEF P, rest, TwoPages

\* The page of a query, in the terms of the lemmas above.
LEMMA PageIsFirst ==
  ASSUME TypeOK, NEW s \in Sessions, NEW after \in Nat, NEW n \in Nat
  PROVE  LET H == {k \in DOMAIN log : k > after /\ SessionOf(k) = s}
         IN  /\ H \subseteq 1..Len(log) /\ Len(log) \in Nat
             /\ \A k \in H : k > after
             /\ SessionEventsSince(s, after, n).rows = FirstOf(H, n)
             /\ SessionEventsSince(s, after, n).offset = LastOf(FirstOf(H, n), after)
<1>1. Len(log) \in Nat /\ DOMAIN log = 1..Len(log)
  BY DEF TypeOK
<1> QED
  BY <1>1 DEF SessionEventsSince, PageOf, FirstOf, Below, LastOf

\* Pages of any two sizes, from any offset on, are one page of both sizes.
LEMMA AnyPagesAgree ==
  ASSUME TypeOK, NEW s \in Sessions, NEW after \in Nat, NEW n \in Nat, NEW m \in Nat
  PROVE  PagesAgree(s, after, n, m)
<1> DEFINE H == {k \in DOMAIN log : k > after /\ SessionOf(k) = s}
           P == FirstOf(H, n)
           o == LastOf(P, after)
           R == {k \in DOMAIN log : k > o /\ SessionOf(k) = s}
<1>1. /\ H \subseteq 1..Len(log) /\ Len(log) \in Nat /\ \A k \in H : k > after
      /\ SessionEventsSince(s, after, n).rows = P
      /\ SessionEventsSince(s, after, n).offset = o
      /\ SessionEventsSince(s, after, n + m).rows = FirstOf(H, n + m)
      /\ SessionEventsSince(s, after, n + m).offset = LastOf(FirstOf(H, n + m), after)
  BY PageIsFirst, n + m \in Nat
<1>2. P \subseteq H
  BY DEF FirstOf
<1>3. o \in Nat /\ (P # {} => o \in P /\ \A j \in P : j <= o) /\ (P = {} => o = after)
  <2>1. CASE P = {}
    BY <2>1 DEF LastOf
  <2>2. CASE P # {}
    <3>1. o \in P /\ \A j \in P : j <= o
      BY <2>2, <1>1, <1>2, LastIsLargest
    <3> QED
      BY <2>2, <3>1, <1>1, <1>2, RowNumbers
  <2> QED
    BY <2>1, <2>2
<1>4. o >= after
  <2>1. CASE P = {}
    BY <2>1, <1>3
  <2>2. CASE P # {}
    <3>1. o \in H
      BY <2>2, <1>2, <1>3
    <3> QED
      BY <3>1, <1>1, <1>3
  <2> QED
    BY <2>1, <2>2
<1>5. /\ R \subseteq 1..Len(log) /\ \A k \in R : k > o
      /\ SessionEventsSince(s, o, m).rows = FirstOf(R, m)
      /\ SessionEventsSince(s, o, m).offset = LastOf(FirstOf(R, m), o)
  <2> HIDE DEF o
  <2> QED
    BY <1>3, PageIsFirst
<1>6. R = H \ P
  <2>1. Behind(H, o) = H \ P
    BY <1>1, BehindPage
  <2>2. R = Behind(H, o)
    <3>1. \A k \in DOMAIN log : k \in Nat
      BY DEF TypeOK
    <3> HIDE DEF o
    <3> QED
      BY <1>3, <1>4, <3>1 DEF Behind
  <2> QED
    BY <2>1, <2>2
<1>7. P \cup FirstOf(R, m) = FirstOf(H, n + m)
  <2> HIDE DEF H, R
  <2>0. H \in SUBSET (1..Len(log)) /\ Len(log) \in Nat
    BY <1>1
  <2>1. P \cup FirstOf(H \ P, m) = FirstOf(H, n + m)
    <3>1. TwoPages(H, n, m) = FirstOf(H, n + m)
      BY <2>0, PagesAdd
    <3> QED
      BY <3>1 DEF TwoPages
  <2> QED
    BY <2>1, <1>6
<1> DEFINE Q == FirstOf(R, m)
<1>8. Q \subseteq R
  BY DEF FirstOf
<1>9. \A j \in P, k \in Q : j < k
  <2> SUFFICES ASSUME NEW j \in P, NEW k \in Q PROVE j < k
    OBVIOUS
  <2>1. j <= o /\ k > o
    BY <1>3, <1>5, <1>8
  <2>2. j \in Nat /\ k \in Nat
    BY <1>1, <1>2, <1>5, <1>8, RowNumbers
  <2> HIDE DEF o
  <2> QED
    BY <2>1, <2>2, <1>3
<1>10. LastOf(Q, o) = LastOf(P \cup Q, after)
  <2> HIDE DEF P, Q, o
  <2>1. CASE Q = {}
    BY <2>1 DEF o, LastOf
  <2>2. CASE Q # {}
    <3> DEFINE a == LastOf(Q, o)
               b == LastOf(P \cup Q, after)
    <3>1. a \in Q /\ \A j \in Q : j <= a
      BY <2>2, <1>1, <1>5, <1>8, LastIsLargest
    <3>2. b \in P \cup Q /\ \A j \in P \cup Q : j <= b
      <4>1. P \cup Q \subseteq 1..Len(log) /\ P \cup Q # {}
        BY <2>2, <1>1, <1>2, <1>5, <1>8
      <4> QED
        BY <4>1, <1>1, LastIsLargest
    <3> HIDE DEF a, b
    <3>3. a \in Nat /\ b \in Nat
      BY <3>1, <3>2, <1>1, <1>2, <1>5, <1>8, RowNumbers
    <3>4. b \in Q
      BY <3>1, <3>2, <3>3, <1>9
    <3>5. a <= b /\ b <= a
      BY <3>1, <3>2, <3>4
    <3>6. a = b
      BY <3>3, <3>5
    <3> QED
      BY <3>6 DEF a, b
  <2> QED
    BY <2>1, <2>2
<1> HIDE DEF P, Q, o, H, R
<1> QED
  BY <1>1, <1>5, <1>7, <1>9, <1>10 DEF PagesAgree, Q

\* Whatever the store has done, verify_stream passes, a client that pages through the
\* events of a session with session_events_since, by pages of any size, gets each row
\* once, in order and none skipped, and preview_rewind lists the rows that a rewind
\* would not keep.
THEOREM ReadersSeeEverything ==
  RebuildSpec => [](/\ ReadersAgree
                    /\ \A s \in Sessions, after, n, m \in Nat : PagesAgree(s, after, n, m))
<1>1. ASSUME TypeOK, Gapless PROVE ReadersAgree
  <2>1. ASSUME NEW a \in Aggregates PROVE VerifyStream(a) = 0
    BY <1>1 DEF VerifyStream, Gapless
  <2>2. ASSUME NEW s \in Sessions, NEW n \in 1..2, NEW m \in 1..2
        PROVE  PagesAgree(s, 0, n, m)
    BY <1>1, AnyPagesAgree
  <2>3. ASSUME NEW a \in Aggregates, NEW to \in 0..Len(stream[a])
        PROVE  PreviewRewind(a, to) = DOMAIN stream[a] \ (1..to)
    <3>1. Len(stream[a]) \in Nat /\ DOMAIN stream[a] = 1..Len(stream[a])
      BY <1>1 DEF TypeOK
    <3>2. \A i \in DOMAIN stream[a] : stream[a][i].seq = i
      BY <1>1 DEF Gapless
    <3> QED
      BY <3>1, <3>2 DEF PreviewRewind
  <2> QED
    BY <2>1, <2>2, <2>3 DEF ReadersAgree
<1>2. ASSUME TypeOK
      PROVE  \A s \in Sessions, after, n, m \in Nat : PagesAgree(s, after, n, m)
  BY <1>2, AnyPagesAgree
<1>3. BaseInv => /\ ReadersAgree
                 /\ \A s \in Sessions, after, n, m \in Nat : PagesAgree(s, after, n, m)
  BY <1>1, <1>2 DEF BaseInv
<1> QED
  BY <1>3, BaseAlways, PTL
=============================================================================
